------------------------------ MODULE PMRecheck ------------------------------
(***************************************************************************)
(* PMRecheckMonitor (workflow_orchestrator/pm_recheck.py): a daemon thread *)
(* that wakes the PM when a recheck the PM scheduled in its latest         *)
(* strategy falls due.  It acts on the first due item of the strategy's    *)
(* list only, and keeps the keys of the items it sent, up to a limit, in   *)
(* the "pm_recheck_state" asset.                                           *)
(***************************************************************************)
EXTENDS Integers, Sequences, FiniteSets

CONSTANTS
  Schedules,    \* the lists of recheck times a strategy may carry
  KeyLimit,     \* length of completed_recheck_keys, 64 in the code
  MaxRevision,  \* bound: strategies published
  MaxTime,      \* bound: time units
  MaxAborts     \* bound: scans cut off

MaxLength == 2   \* bound: the length of a schedule

ASSUME ScheduleAssumption ==
  \A list \in Schedules : list \in Seq(1 .. MaxTime) /\ Len(list) <= MaxLength
ASSUME LimitAssumption == KeyLimit \in Nat \ {0}
ASSUME BoundsAssumption == MaxRevision \in Nat /\ MaxTime \in Nat /\ MaxAborts \in Nat

VARIABLES
  completed,  \* completed_recheck_keys of the pm_recheck_state asset
  scan,       \* the local variables of the scan in progress
  strategy,   \* key of the latest published strategy, 0 if there is none
  schedule,   \* what each published strategy scheduled
  clock,      \* the present
  aborts,     \* how many scans were cut off
  sent,       \* history: how often each item was sent to the PM, 2 for more
  forgotten   \* history: sent items whose key was not kept

vars == <<completed, scan, strategy, schedule, clock, aborts, sent, forgotten>>

Key == 0 .. MaxRevision
Item == (1 .. MaxRevision) \X (1 .. MaxLength)
NoItem == <<0, 0>>

TypeOK ==
  /\ completed \subseteq Item
  /\ Cardinality(completed) <= KeyLimit
  /\ scan \in [pc : {"idle", "loaded", "dispatched"}, due : Item \cup {NoItem}, ok : BOOLEAN]
  /\ strategy \in Key
  /\ schedule \in [1 .. MaxRevision -> Schedules \cup {<<>>}]
  /\ clock \in 0 .. MaxTime
  /\ aborts \in 0 .. MaxAborts
  /\ sent \in [Item -> 0 .. 2]
  /\ forgotten \subseteq Item

IdleScan == [pc |-> "idle", due |-> NoItem, ok |-> FALSE]

-----------------------------------------------------------------------------
\* get_due_scheduled_rechecks, in the order of the strategy's list.
Due ==
  IF strategy = 0 THEN {}
  ELSE {k \in DOMAIN schedule[strategy] : schedule[strategy][k] <= clock}

FirstDue ==
  IF Due = {} THEN NoItem
  ELSE <<strategy, CHOOSE k \in Due : \A l \in Due : k <= l>>

\* Mutants of KeysAfter: the state of the load is saved without what the
\* dispatch adds; a failed dispatch counts as done.
KeysAfterStale(keys, item, ok) == {keys}

KeysAfterAny(keys, item, ok) ==
  LET all == keys \cup {item}
  IN  IF Cardinality(all) <= KeyLimit THEN {all}
      ELSE {all \ {k} : k \in keys \ {item}}

\* list(completed)[-64:] after the new key is appended: which key goes is up to
\* the iteration order of a set, only the new one is sure to stay.
KeysAfter(keys, item, ok) ==
  LET all == keys \cup {item}
  IN  IF ~ok THEN {keys}
      ELSE IF Cardinality(all) <= KeyLimit THEN {all}
      ELSE {all \ {k} : k \in keys \ {item}}

-----------------------------------------------------------------------------
Init ==
  /\ completed = {}
  /\ scan = IdleScan
  /\ strategy = 0
  /\ schedule = [s \in 1 .. MaxRevision |-> <<>>]
  /\ clock = 0
  /\ aborts = 0
  /\ sent = [i \in Item |-> 0]
  /\ forgotten = {}

\* A scan that finds nothing due, or whose first due item was sent already,
\* changes nothing but scan metadata.
ScanLoad ==
  /\ scan.pc = "idle"
  /\ FirstDue # NoItem
  /\ FirstDue \notin completed
  /\ scan' = [scan EXCEPT !.pc = "loaded", !.due = FirstDue]
  /\ UNCHANGED <<completed, strategy, schedule, clock, aborts, sent, forgotten>>

\* The PM's cron job may have no message, or the CLI may fail to start.
Dispatch(ok) ==
  /\ scan.pc = "loaded"
  /\ scan' = [scan EXCEPT !.pc = "dispatched", !.ok = ok]
  /\ sent' = IF ok /\ sent[scan.due] < 2 THEN [sent EXCEPT ![scan.due] = @ + 1] ELSE sent
  /\ UNCHANGED <<completed, strategy, schedule, clock, aborts, forgotten>>

ScanSave ==
  /\ scan.pc = "dispatched"
  /\ completed' \in KeysAfter(completed, scan.due, scan.ok)
  /\ scan' = IdleScan
  /\ forgotten' = forgotten \cup (completed \ completed')
  /\ UNCHANGED <<strategy, schedule, clock, aborts, sent>>

ScanAbort ==
  /\ scan.pc # "idle"
  /\ aborts < MaxAborts
  /\ aborts' = aborts + 1
  /\ scan' = IdleScan
  /\ forgotten' = IF scan.ok THEN forgotten \cup {scan.due} ELSE forgotten
  /\ UNCHANGED <<completed, strategy, schedule, clock, sent>>

\* Every submission gets a strategy id of its own.
Publish(list) ==
  /\ strategy < MaxRevision
  /\ strategy' = strategy + 1
  /\ schedule' = [schedule EXCEPT ![strategy + 1] = list]
  /\ UNCHANGED <<completed, scan, clock, aborts, sent, forgotten>>

Tick ==
  /\ clock < MaxTime
  /\ clock' = clock + 1
  /\ UNCHANGED <<completed, scan, strategy, schedule, aborts, sent, forgotten>>

Next ==
  \/ ScanLoad \/ ScanSave \/ ScanAbort \/ Tick
  \/ \E ok \in BOOLEAN : Dispatch(ok)
  \/ \E list \in Schedules : Publish(list)

Spec == Init /\ [][Next]_vars

\* The loop keeps scanning, a scan goes on unless it is cut off, and a
\* dispatch that is tried for ever succeeds in the end.
FairSpec ==
  Spec /\ WF_vars(ScanLoad) /\ WF_vars(\E ok \in BOOLEAN : Dispatch(ok))
       /\ SF_vars(Dispatch(TRUE)) /\ WF_vars(ScanSave) /\ WF_vars(Tick)

-----------------------------------------------------------------------------
\* An item is sent twice only if the scan that sent it was cut off before it
\* saved, or its key was the one the limit dropped (_dispatch_due_recheck).
SentOnce == \A i \in Item : sent[i] > 1 => i \in forgotten

\* The first item of a list is sent in the end, if the strategy is not replaced
\* before: a failed dispatch is tried again (scan_once).
FirstItemSent ==
  \A s \in 1 .. MaxRevision :
    strategy = s /\ 1 \in Due ~> strategy # s \/ sent[<<s, 1>>] > 0

\* Every item of the latest strategy is sent when it is due, as docs/
\* dispatch-and-sessions.md has it.  It does not hold: only due[0] is looked at,
\* and it is due for ever.
EveryItemSent ==
  \A s \in 1 .. MaxRevision, k \in 1 .. MaxLength :
    strategy = s /\ k \in Due ~> strategy # s \/ sent[<<s, k>>] > 0
=============================================================================
