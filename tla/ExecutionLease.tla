--------------------------- MODULE ExecutionLease ---------------------------
(***************************************************************************)
(* From a risk lock to RT's orders.  RuntimeBridgeMonitor and the pull     *)
(* handlers (agent_gateway/runtime_bridge.py, agent_gateway/service.py)    *)
(* read the latest strategy and the risk_brake_state asset, evaluate the   *)
(* policies, and keep them in the runtime_bridge_state asset; a pull for   *)
(* RT freezes them in a lease; submit_execution judges RT's orders by the  *)
(* lease, sends them and consumes the lease last.                          *)
(*                                                                         *)
(* The brake is the RiskLock specification.  Pulls run in a thread pool    *)
(* beside the monitor; submissions run one at a time, because the submit   *)
(* routes of app/api.py are coroutines that never await the gateway.       *)
(***************************************************************************)
EXTENDS RiskLock

CONSTANTS
  Inputs,       \* the input ids RT packs are issued under
  Monitor,      \* the monitor thread
  Pulls,        \* the threads that serve pulls
  NoInput,      \* stands for "not on behalf of an RT pack"
  Offered,      \* the actions RT submits
  MaxFailures   \* bound: exceptions and restarts

ASSUME LeaseAssumption ==
  /\ Offered \subseteq Action
  /\ NoInput \notin Inputs
  /\ MaxRevision \in Nat /\ MaxFailures \in Nat

VARIABLES
  bridge,    \* the runtime_bridge_state asset
  reader,    \* the locals of each thread that reads a snapshot
  lease,     \* the agent_runtime_lease assets of RT
  submit,    \* the submission in progress
  failures,  \* how many exceptions and restarts there were
  sends,     \* history: submissions that sent an order, by input id
  cuts       \* history: those among them that were cut off

vars == <<mode, seen, strategy, bridge, reader, lease, submit, failures, sends, cuts>>

Threads == {Monitor} \cup Pulls
Modes   == [Coins -> LockMode]

\* The policies a pack is made from; laxest is history: the laxest lock that
\* was in force on each coin at some instant while they were being read.
Snapshot == [policy : Modes, laxest : Modes]

BridgeState == [saved : BOOLEAN, fresh : BOOLEAN, snap : Snapshot]

Part == {"strategy", "risk"}

ReaderState ==
  [pc     : {"idle", "refresh", "direct"},
   input  : Inputs \cup {NoInput},
   got    : SUBSET Part,
   key    : Key,      \* the strategy read
   mode   : Modes,    \* the locks read, and the key they stand under
   seen   : Key,
   laxest : Modes]

LeaseState ==
  [status  : {"none", "issued", "consumed"},
   expired : BOOLEAN,
   snap    : Snapshot]

SubmitState ==
  [pc     : {"idle", "sending"},
   input  : Inputs \cup {NoInput},
   orders : [Coins -> Offered \cup {"none"}],  \* accepted and not yet sent
   began  : BOOLEAN]                           \* an order was sent

TypeOK ==
  /\ LockTypeOK
  /\ bridge \in BridgeState
  /\ reader \in [Threads -> ReaderState]
  /\ lease \in [Inputs -> LeaseState]
  /\ submit \in SubmitState
  /\ submit.pc = "sending" => submit.input \in Inputs
  /\ failures \in 0 .. MaxFailures
  /\ sends \in [Inputs -> Nat]
  /\ cuts \in [Inputs -> Nat]

-----------------------------------------------------------------------------
MinRank(x, y) == IF x <= y THEN x ELSE y

AllUnlocked == [c \in Coins |-> Unlocked]
NoSnapshot  == [policy |-> AllUnlocked, laxest |-> AllUnlocked]

\* The lock that binds coin c now: a newer strategy frees it at once.
InForce(c) == IF seen = strategy THEN mode[c] ELSE Unlocked

IdleReader ==
  [pc |-> "idle", input |-> NoInput, got |-> {}, key |-> 0, mode |-> AllUnlocked,
   seen |-> 0, laxest |-> AllUnlocked]

NoSubmission ==
  [pc |-> "idle", input |-> NoInput, orders |-> [c \in Coins |-> "none"],
   began |-> FALSE]

\* Mutant of EvaluatedPolicy: `or` for `and` in the release condition.
EvaluatedPolicyReleased(r) ==
  [c \in Coins |-> IF r.key # 0 \/ r.seen # r.key THEN Unlocked ELSE r.mode[c]]

\* evaluate() over the strategy and the risk state a thread has read.
EvaluatedPolicy(r) ==
  [c \in Coins |-> ReleaseLock([mode |-> r.mode[c], key |-> r.seen], r.key).mode]

SnapshotOf(r) == [policy |-> EvaluatedPolicy(r), laxest |-> r.laxest]

Init ==
  /\ LockInit
  /\ bridge = [saved |-> FALSE, fresh |-> FALSE, snap |-> NoSnapshot]
  /\ reader = [t \in Threads |-> IdleReader]
  /\ lease = [i \in Inputs |-> [status |-> "none", expired |-> FALSE,
                                snap |-> NoSnapshot]]
  /\ submit = NoSubmission
  /\ failures = 0
  /\ sends = [i \in Inputs |-> 0]
  /\ cuts = [i \in Inputs |-> 0]

-----------------------------------------------------------------------------
(* The brake and the PM, seen from here; the history of the threads that   *)
(* are reading is brought up to date.                                      *)

Reading(r) == r.pc # "idle" /\ r.got # Part

LockStep ==
  /\ LockNext
  /\ reader' = [t \in Threads |->
       IF Reading(reader[t])
         THEN [reader[t] EXCEPT
                !.laxest = [c \in Coins |-> MinRank(@[c], InForce(c)')]]
         ELSE reader[t]]
  /\ UNCHANGED <<bridge, lease, submit, failures, sends, cuts>>

-----------------------------------------------------------------------------
(* Reading a snapshot.                                                     *)

StartReading(t, pc, i) ==
  reader' = [reader EXCEPT ![t] =
    [IdleReader EXCEPT !.pc = pc, !.input = i, !.laxest = [c \in Coins |-> InForce(c)]]]

Issue(i, snap) ==
  lease' = [lease EXCEPT ![i] =
    [status |-> "issued", expired |-> FALSE, snap |-> snap]]

\* Mutant of ScheduledRefresh: the monitor spares itself a refresh while the
\* stored state is fresh.
ScheduledRefreshLazy ==
  /\ ~bridge.fresh
  /\ reader[Monitor].pc = "idle"
  /\ StartReading(Monitor, "refresh", NoInput)
  /\ UNCHANGED <<mode, seen, strategy, bridge, lease, submit, failures, sends, cuts>>

ScheduledRefresh ==
  /\ reader[Monitor].pc = "idle"
  /\ StartReading(Monitor, "refresh", NoInput)
  /\ UNCHANGED <<mode, seen, strategy, bridge, lease, submit, failures, sends, cuts>>

\* A pull of another role that finds the stored state too old refreshes it.
PullOther(t) ==
  /\ t \in Pulls /\ reader[t].pc = "idle"
  /\ ~bridge.fresh
  /\ StartReading(t, "refresh", NoInput)
  /\ UNCHANGED <<mode, seen, strategy, bridge, lease, submit, failures, sends, cuts>>

\* A pull for RT: the stored state when it is fresh, else a refresh in line.
PullCached(i) ==
  /\ lease[i].status = "none"
  /\ \A t \in Pulls : reader[t].input # i
  /\ bridge.fresh
  /\ Issue(i, bridge.snap)
  /\ UNCHANGED <<mode, seen, strategy, bridge, reader, submit, failures, sends, cuts>>

PullRefreshing(t, i) ==
  /\ t \in Pulls /\ reader[t].pc = "idle"
  /\ lease[i].status = "none"
  /\ \A u \in Pulls : reader[u].input # i
  /\ ~bridge.fresh
  /\ StartReading(t, "refresh", i)
  /\ UNCHANGED <<mode, seen, strategy, bridge, lease, submit, failures, sends, cuts>>

\* The strategy and the risk state are read by different threads of a pool
\* in a refresh, and one after the other in a direct read.
ReadStrategy(t) ==
  /\ reader[t].pc # "idle" /\ "strategy" \notin reader[t].got
  /\ reader' = [reader EXCEPT ![t].got = @ \cup {"strategy"}, ![t].key = strategy]
  /\ UNCHANGED <<mode, seen, strategy, bridge, lease, submit, failures, sends, cuts>>

ReadRisk(t) ==
  /\ reader[t].pc # "idle" /\ "risk" \notin reader[t].got
  /\ reader[t].pc = "direct" => "strategy" \in reader[t].got
  /\ reader' = [reader EXCEPT ![t].got = @ \cup {"risk"},
                              ![t].mode = mode, ![t].seen = seen]
  /\ UNCHANGED <<mode, seen, strategy, bridge, lease, submit, failures, sends, cuts>>

\* refresh_once evaluates, stamps the result with the present time and saves
\* it over whatever is stored; a pull for RT goes on to issue its lease.
FinishRefresh(t) ==
  LET r == reader[t] IN
  /\ r.pc = "refresh" /\ r.got = Part
  /\ bridge' = [saved |-> TRUE, fresh |-> TRUE, snap |-> SnapshotOf(r)]
  /\ IF r.input = NoInput THEN UNCHANGED lease ELSE Issue(r.input, SnapshotOf(r))
  /\ reader' = [reader EXCEPT ![t] = IdleReader]
  /\ UNCHANGED <<mode, seen, strategy, submit, failures, sends, cuts>>

\* An exception in a refresh: the monitor tries again later, a pull falls back
\* on the stored state however old, or reads directly when there is none.
RefreshFails(t) ==
  LET r == reader[t] IN
  /\ r.pc = "refresh"
  /\ failures < MaxFailures
  /\ failures' = failures + 1
  /\ \/ /\ r.input = NoInput
        /\ reader' = [reader EXCEPT ![t] = IdleReader]
        /\ UNCHANGED lease
     \/ /\ r.input # NoInput /\ bridge.saved
        /\ reader' = [reader EXCEPT ![t] = IdleReader]
        /\ Issue(r.input, bridge.snap)
     \/ /\ r.input # NoInput /\ ~bridge.saved
        /\ StartReading(t, "direct", r.input)
        /\ UNCHANGED lease
  /\ UNCHANGED <<mode, seen, strategy, bridge, submit, sends, cuts>>

\* A direct read is not stored.
FinishDirect(t) ==
  LET r == reader[t] IN
  /\ r.pc = "direct" /\ r.got = Part
  /\ Issue(r.input, SnapshotOf(r))
  /\ reader' = [reader EXCEPT ![t] = IdleReader]
  /\ UNCHANGED <<mode, seen, strategy, bridge, submit, failures, sends, cuts>>

-----------------------------------------------------------------------------
(* submit_execution.                                                       *)

Usable(i) == lease[i].status = "issued" /\ ~lease[i].expired

\* The lock check of authorize_execution, by the policies in the lease.
Accepted(i, orders) ==
  [c \in Coins |->
     IF orders[c] = "none" \/ LockViolated(lease[i].snap.policy[c], orders[c])
       THEN "none" ELSE orders[c]]

\* Validate the lease and authorise the orders.
Submit(i) ==
  /\ submit.pc = "idle"
  /\ Usable(i)
  /\ \E orders \in [Coins -> Offered \cup {"none"}] :
       submit' = [pc |-> "sending", input |-> i, orders |-> Accepted(i, orders),
                  began |-> FALSE]
  /\ UNCHANGED <<mode, seen, strategy, bridge, reader, lease, failures, sends, cuts>>

SendOrder(c) ==
  /\ submit.pc = "sending" /\ submit.orders[c] # "none"
  /\ submit' = [submit EXCEPT !.orders[c] = "none", !.began = TRUE]
  /\ sends' = [sends EXCEPT ![submit.input] = IF submit.began THEN @ ELSE @ + 1]
  /\ UNCHANGED <<mode, seen, strategy, bridge, reader, lease, failures, cuts>>

\* Mutant of Consume: the submission ends without touching its lease.
ConsumeNothing ==
  /\ submit.pc = "sending" /\ \A c \in Coins : submit.orders[c] = "none"
  /\ submit' = NoSubmission
  /\ UNCHANGED <<mode, seen, strategy, bridge, reader, lease, failures, sends, cuts>>

\* The results are saved and the lease is consumed.
Consume ==
  /\ submit.pc = "sending" /\ \A c \in Coins : submit.orders[c] = "none"
  /\ lease' = [lease EXCEPT ![submit.input].status = "consumed"]
  /\ submit' = NoSubmission
  /\ UNCHANGED <<mode, seen, strategy, bridge, reader, failures, sends, cuts>>

\* What becomes of the submission in progress when it is cut off: the lease
\* stays as it was.
CutOff ==
  /\ submit' = NoSubmission
  /\ cuts' = IF submit.began THEN [cuts EXCEPT ![submit.input] = @ + 1] ELSE cuts

\* An exception anywhere in submit_execution: from the broker, a save, an event.
SubmissionFails ==
  /\ submit.pc = "sending"
  /\ failures < MaxFailures
  /\ failures' = failures + 1
  /\ CutOff
  /\ UNCHANGED <<mode, seen, strategy, bridge, reader, lease, sends>>

Restart ==
  /\ failures < MaxFailures
  /\ failures' = failures + 1
  /\ reader' = [t \in Threads |-> IdleReader]
  /\ CutOff
  /\ UNCHANGED <<mode, seen, strategy, bridge, lease, sends>>

\* Time passes: the stored state outlives its maximal age, a lease its term.
Age ==
  /\ bridge.fresh
  /\ bridge' = [bridge EXCEPT !.fresh = FALSE]
  /\ UNCHANGED <<mode, seen, strategy, reader, lease, submit, failures, sends, cuts>>

Expire(i) ==
  /\ Usable(i)
  /\ lease' = [lease EXCEPT ![i].expired = TRUE]
  /\ UNCHANGED <<mode, seen, strategy, bridge, reader, submit, failures, sends, cuts>>

-----------------------------------------------------------------------------
ReaderStep(t) == ReadStrategy(t) \/ ReadRisk(t) \/ FinishRefresh(t) \/ FinishDirect(t)

Next ==
  \/ LockStep
  \/ ScheduledRefresh
  \/ \E t \in Pulls : PullOther(t) \/ \E i \in Inputs : PullRefreshing(t, i)
  \/ \E i \in Inputs : PullCached(i)
  \/ \E t \in Threads : ReaderStep(t) \/ RefreshFails(t)
  \/ \E i \in Inputs : Submit(i) \/ Expire(i)
  \/ \E c \in Coins : SendOrder(c)
  \/ Consume
  \/ SubmissionFails
  \/ Restart
  \/ Age

Spec == Init /\ [][Next]_vars

\* The monitor loops and swallows exceptions; a pull runs to its end.
FairSpec ==
  /\ Spec
  /\ WF_vars(ScheduledRefresh)
  /\ \A t \in Threads : WF_vars(ReaderStep(t))

-----------------------------------------------------------------------------
(* Properties.                                                             *)

\* An order about to be sent is one that some lock allowed which was in force
\* while its snapshot was read: reading the strategy and the locks apart, in
\* either order, over a publication and a scan, never invents a freedom that
\* at no time existed.
OrdersAllowedWhenRead ==
  submit.pc = "sending" =>
    \A c \in Coins : submit.orders[c] # "none" =>
      submit.orders[c] \in Allowed(lease[submit.input].snap.laxest[c])

\* Orders go out a second time under one input id only after a submission that
\* was cut off behind its first order.
RepeatedOnlyWhenCut == \A i \in Inputs : sends[i] <= cuts[i] + 1

\* A lock that stays in force reaches the stored snapshot for good, although
\* slower refreshes that read before it was set may be saved after others.
LockReachesBridge ==
  \A c \in Coins :
    <>[](InForce(c) # Unlocked) => <>[](bridge.snap.policy[c] # Unlocked)

-----------------------------------------------------------------------------
(* What the documents say and the code does not do.                        *)

\* specs/modules/agent_gateway/spec.md:98: input_id is the unit of idempotency.
InputIdempotent == \A i \in Inputs : sends[i] <= 1

\* FR-007 of specs/008-risk-peak-brakes: RT's first review after the brake acted
\* is bound by the lock.  A pack issued while a lock is in force would carry it.
LockBindsPacks ==
  [][\A i \in Inputs, c \in Coins :
       lease[i].status = "none" /\ lease'[i].status = "issued"
         => lease'[i].snap.policy[c] >= InForce(c)]_vars
=============================================================================
