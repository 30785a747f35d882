----------------------------- MODULE PriceRecheck -----------------------------
(***************************************************************************)
(* PriceRecheckMonitor (workflow_orchestrator/price_recheck.py): a daemon  *)
(* thread that wakes the PM when a price the PM subscribed to in its       *)
(* latest strategy crosses its threshold.  All subscriptions met at a scan *)
(* go out in one message, and are then marked as fired in the asset        *)
(* "price_recheck_state_monitor", whether the message went out or not.     *)
(* A trigger event records the wake, for the PM's next pull to claim.      *)
(***************************************************************************)
EXTENDS Integers, FiniteSets

CONSTANTS
  Subs,          \* subscription ids, which are compared as text
  StrategyId,    \* the random id of each strategy, as its rank among all ids
  KeyLimit,      \* length of fired_keys, 128 in the code
  Cooldown,      \* global_cooldown_seconds
  MaxRevision,   \* bound: strategies published
  MaxTime,       \* bound: time units
  MaxAborts      \* bound: scans cut off

VARIABLES
  state,       \* the price_recheck_state_monitor asset
  scan,        \* the local variables of the scan in progress
  strategy,    \* number of the latest published strategy, 0 if there is none
  subscribed,  \* the subscriptions of each published strategy
  clock,       \* the present
  aborts,      \* how many scans were cut off
  sent,        \* history: how often each key was sent to the PM, 2 for more
  dispatches,  \* history: when messages went out
  lost,        \* history: dispatches and keys whose record was not saved
  dropped      \* history: keys that the limit dropped

vars == <<state, scan, strategy, subscribed, clock, aborts, sent, dispatches, lost, dropped>>

Revision == 1 .. MaxRevision
Time == 0 .. MaxTime
FiredKey == Revision \X Subs

TypeOK ==
  /\ state \in [fired : SUBSET FiredKey, last : Time]   \* last is 0 if never
  /\ Cardinality(state.fired) <= KeyLimit
  /\ scan \in [pc : {"idle", "matched", "dispatched"}, at : Time,
               found : SUBSET FiredKey, ok : BOOLEAN]
  /\ strategy \in 0 .. MaxRevision
  /\ subscribed \in [Revision -> SUBSET Subs]
  /\ clock \in Time
  /\ aborts \in 0 .. MaxAborts
  /\ sent \in [FiredKey -> 0 .. 2]
  /\ dispatches \subseteq Time
  /\ lost \in [times : SUBSET Time, keys : SUBSET FiredKey]
  /\ dropped \subseteq FiredKey

IdleScan == [pc |-> "idle", at |-> 0, found |-> {}, ok |-> FALSE]

-----------------------------------------------------------------------------
CoolingDown == state.last # 0 /\ clock - state.last < Cooldown

\* The subscriptions of the latest strategy that are met and not marked.
Found(met) ==
  IF strategy = 0 THEN {}
  ELSE {<<strategy, b>> : b \in subscribed[strategy] \cap met} \ state.fired

\* Keys are compared as text: the strategy's id first.
Above(k, l) ==
  \/ StrategyId[k[1]] > StrategyId[l[1]]
  \/ k[1] = l[1] /\ k[2] > l[2]

\* sorted(completed)[-128:]: the largest keys stay, whatever their age.
Truncated(keys) == {k \in keys : Cardinality({l \in keys : Above(l, k)}) < KeyLimit}

\* Mutant of StateToSave: only the primary subscription is marked.
StateToSavePrimary(s, sc) ==
  LET primary == {k \in sc.found : \A l \in sc.found : ~Above(k, l)}
  IN  [s EXCEPT !.fired = Truncated(@ \cup primary), !.last = IF sc.ok THEN sc.at ELSE @]

StateToSave(s, sc) ==
  [s EXCEPT !.fired = Truncated(@ \cup sc.found), !.last = IF sc.ok THEN sc.at ELSE @]

-----------------------------------------------------------------------------
Init ==
  /\ state = [fired |-> {}, last |-> 0]
  /\ scan = IdleScan
  /\ strategy = 0
  /\ subscribed = [r \in Revision |-> {}]
  /\ clock = 1
  /\ aborts = 0
  /\ sent = [k \in FiredKey |-> 0]
  /\ dispatches = {}
  /\ lost = [times |-> {}, keys |-> {}]
  /\ dropped = {}

\* `met` are the subscriptions whose metric is past its threshold in the
\* runtime bridge's snapshot.  Without a match nothing changes.
ScanMatch(met) ==
  /\ scan.pc = "idle"
  /\ ~CoolingDown
  /\ Found(met) # {}
  /\ scan' = [pc |-> "matched", at |-> clock, found |-> Found(met), ok |-> FALSE]
  /\ UNCHANGED <<state, strategy, subscribed, clock, aborts, sent, dispatches, lost, dropped>>

Dispatch(ok) ==
  /\ scan.pc = "matched"
  /\ scan' = [scan EXCEPT !.pc = "dispatched", !.ok = ok]
  /\ sent' = [k \in FiredKey |->
                IF ok /\ k \in scan.found /\ sent[k] < 2 THEN sent[k] + 1 ELSE sent[k]]
  /\ dispatches' = IF ok THEN dispatches \cup {scan.at} ELSE dispatches
  /\ UNCHANGED <<state, strategy, subscribed, clock, aborts, lost, dropped>>

ScanSave ==
  /\ scan.pc = "dispatched"
  /\ state' = StateToSave(state, scan)
  /\ scan' = IdleScan
  /\ dropped' = dropped \cup
       {k \in state.fired \cup scan.found :
          Cardinality({l \in state.fired \cup scan.found : Above(l, k)}) >= KeyLimit}
  /\ UNCHANGED <<strategy, subscribed, clock, aborts, sent, dispatches, lost>>

ScanAbort ==
  /\ scan.pc # "idle"
  /\ aborts < MaxAborts
  /\ aborts' = aborts + 1
  /\ scan' = IdleScan
  /\ lost' = IF scan.ok
             THEN [times |-> lost.times \cup {scan.at}, keys |-> lost.keys \cup scan.found]
             ELSE lost
  /\ UNCHANGED <<state, strategy, subscribed, clock, sent, dispatches, dropped>>

Publish(subs) ==
  /\ strategy < MaxRevision
  /\ strategy' = strategy + 1
  /\ subscribed' = [subscribed EXCEPT ![strategy + 1] = subs]
  /\ UNCHANGED <<state, scan, clock, aborts, sent, dispatches, lost, dropped>>

Tick ==
  /\ clock < MaxTime
  /\ clock' = clock + 1
  /\ UNCHANGED <<state, scan, strategy, subscribed, aborts, sent, dispatches, lost, dropped>>

Next ==
  \/ \E met \in SUBSET Subs : ScanMatch(met)
  \/ \E ok \in BOOLEAN : Dispatch(ok)
  \/ ScanSave \/ ScanAbort \/ Tick
  \/ \E subs \in SUBSET Subs : Publish(subs)

Spec == Init /\ [][Next]_vars

-----------------------------------------------------------------------------
\* A subscription is sent twice only if its key was not saved, because the scan
\* was cut off, or was dropped by the limit (scan_once).
SentOnce == \A k \in FiredKey : sent[k] > 1 => k \in lost.keys \cup dropped

\* Messages are a cooldown apart, but for those of scans cut off before they
\* noted the time.
SpacedOut ==
  \A t \in dispatches, u \in dispatches \ lost.times : u < t => t - u >= Cooldown

\* A subscription marked as fired was sent to the PM (module comment of
\* price_recheck.py: each is a promise to wake the PM).  It does not hold: a
\* failed dispatch marks it too.
FiredWasSent == \A k \in state.fired : sent[k] > 0

\* A subscription is sent at most once, as far as the scan that sent it was not
\* cut off (same comment).  It does not hold once the list is full.
FiresAtMostOnce == \A k \in FiredKey : sent[k] > 1 => k \in lost.keys
=============================================================================
