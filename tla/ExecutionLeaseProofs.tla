------------------------- MODULE ExecutionLeaseProofs -------------------------
(***************************************************************************)
(* Proofs about ExecutionLease for every set of coins, inputs and threads  *)
(* and every bound.  The invariant has three parts beside the types:       *)
(*  - ReaderInv: what a thread has read so far, compared with the locks in *)
(*    force now and since it started.  A publication frees every coin at   *)
(*    once, so a thread that sees the strategy move knows an instant at    *)
(*    which everything was free;                                           *)
(*  - PolicyInv: a finished snapshot is no laxer than the laxest instant   *)
(*    of its reading, and the orders under way are allowed by it;          *)
(*  - InputInv: who may still issue, submit or repeat an input id.         *)
(***************************************************************************)
EXTENDS ExecutionLease, TLAPS

USE DEF Unlocked, ReduceOnly, FlatOnly

-----------------------------------------------------------------------------
(* The inductive invariant.                                                *)

\* Lock modes compared coin by coin.
NoStricter(p, q) == \A c \in Coins : p[c] <= q[c]

AllFree(p) == \A c \in Coins : p[c] = Unlocked

ReaderInv(r) ==
  /\ Reading(r) => \A c \in Coins : r.laxest[c] <= InForce(c)
  /\ Reading(r) /\ "strategy" \in r.got /\ r.key # strategy => AllFree(r.laxest)
  /\ Reading(r) /\ "risk" \in r.got =>
       /\ NoStricter(r.laxest, r.mode)
       /\ r.seen # strategy => AllFree(r.laxest)
  /\ r.pc # "idle" /\ r.got = Part => NoStricter(r.laxest, EvaluatedPolicy(r))

PolicyInv ==
  /\ NoStricter(bridge.snap.laxest, bridge.snap.policy)
  /\ \A i \in Inputs : NoStricter(lease[i].snap.laxest, lease[i].snap.policy)
  /\ submit.pc = "sending" =>
       \A c \in Coins : submit.orders[c] # "none" =>
         submit.orders[c] \in Allowed(lease[submit.input].snap.policy[c])

Underway(i) == submit.pc = "sending" /\ submit.input = i /\ submit.began

InputInv ==
  /\ \A t \in Threads : reader[t].input \in Inputs =>
       /\ reader[t].pc # "idle" /\ t \in Pulls
       /\ lease[reader[t].input].status = "none"
  /\ \A t, u \in Threads :
       reader[t].input = reader[u].input /\ reader[t].input \in Inputs => t = u
  /\ submit.pc = "sending" => lease[submit.input].status = "issued"
  /\ submit.pc = "idle" => ~submit.began
  /\ \A i \in Inputs :
       /\ sends[i] <= cuts[i] + 1
       /\ lease[i].status # "consumed" /\ ~Underway(i) => sends[i] <= cuts[i]

IInv ==
  /\ TypeOK
  /\ seen <= strategy
  /\ \A t \in Threads : ReaderInv(reader[t])
  /\ PolicyInv
  /\ InputInv

-----------------------------------------------------------------------------
(* Operators.                                                              *)

LEMMA InForceType == ASSUME LockTypeOK PROVE \A c \in Coins : InForce(c) \in LockMode
  BY DEF LockTypeOK, InForce, LockMode

LEMMA IdleReaderType == IdleReader \in ReaderState
  BY LeaseAssumption
  DEF IdleReader, ReaderState, AllUnlocked, Modes, LockMode, Part, Key

\* A stricter lock allows less.
LEMMA AllowedAntitone ==
  \A p, q \in LockMode : p <= q => Allowed(q) \subseteq Allowed(p)
  BY DEF LockMode, Allowed, Action, RiskReducing, RiskAdding

\* The policy evaluated for a coin is the lock read for it, or no lock.
LEMMA EvaluatedPolicyCases ==
  ASSUME NEW r \in ReaderState, NEW c \in Coins
  PROVE  EvaluatedPolicy(r)[c] =
           IF r.key # 0 /\ r.seen # r.key THEN Unlocked ELSE r.mode[c]
  BY DEF EvaluatedPolicy, ReleaseLock, NoLock

LEMMA SnapshotType == ASSUME NEW r \in ReaderState PROVE SnapshotOf(r) \in Snapshot
<1>1. \A c \in Coins : EvaluatedPolicy(r)[c] \in LockMode
  BY EvaluatedPolicyCases DEF ReaderState, Modes, LockMode
<1>2. EvaluatedPolicy(r) \in Modes
  BY <1>1 DEF EvaluatedPolicy, Modes
<1> QED
  BY <1>2 DEF SnapshotOf, Snapshot, ReaderState

\* A thread that starts reading knows nothing but the locks of the moment.
LEMMA StartType ==
  ASSUME TypeOK, NEW pc \in {"refresh", "direct"}, NEW i \in Inputs \cup {NoInput}
  PROVE  [IdleReader EXCEPT !.pc = pc, !.input = i,
                            !.laxest = [c \in Coins |-> InForce(c)]] \in ReaderState
<1>1. [c \in Coins |-> InForce(c)] \in Modes
  BY InForceType DEF TypeOK, Modes
<1>2. IdleReader \in ReaderState
  BY IdleReaderType
<1> QED
  BY <1>1, <1>2 DEF ReaderState

-----------------------------------------------------------------------------
(* Types.                                                                  *)

LEMMA InitType == Init => TypeOK
<1> SUFFICES ASSUME Init PROVE TypeOK
  OBVIOUS
<1>1. AllUnlocked \in Modes /\ NoSnapshot \in Snapshot
  BY DEF AllUnlocked, NoSnapshot, Snapshot, Modes, LockMode
<1>2. LockTypeOK
  BY LeaseAssumption DEF Init, LockInit, LockTypeOK, LockMode, Key
<1>3. reader \in [Threads -> ReaderState]
  BY IdleReaderType DEF Init
<1>4. bridge \in BridgeState /\ lease \in [Inputs -> LeaseState]
  BY <1>1 DEF Init, BridgeState, LeaseState
<1>5. submit \in SubmitState /\ submit.pc = "idle"
  BY DEF Init, SubmitState, NoSubmission
<1>6. /\ failures \in 0 .. MaxFailures
      /\ sends \in [Inputs -> Nat] /\ cuts \in [Inputs -> Nat]
  BY LeaseAssumption DEF Init
<1> QED
  BY <1>2, <1>3, <1>4, <1>5, <1>6 DEF TypeOK

LEMMA NoSubmissionType == NoSubmission \in SubmitState /\ NoSubmission.pc = "idle"
  BY DEF NoSubmission, SubmitState

LEMMA IssueType ==
  ASSUME TypeOK, NEW i \in Inputs, NEW snap \in Snapshot, Issue(i, snap)
  PROVE  lease' \in [Inputs -> LeaseState]
  BY DEF Issue, LeaseState, TypeOK

LEMMA StartReadingType ==
  ASSUME TypeOK, NEW t \in Threads, NEW pc \in {"refresh", "direct"},
         NEW i \in Inputs \cup {NoInput}, StartReading(t, pc, i)
  PROVE  reader' \in [Threads -> ReaderState]
  BY StartType DEF StartReading, TypeOK

LEMMA ReadStrategyType ==
  ASSUME TypeOK, NEW t \in Threads, ReadStrategy(t)
  PROVE  /\ reader' \in [Threads -> ReaderState]
         /\ reader' = [reader EXCEPT ![t] =
              [reader[t] EXCEPT !.got = @ \cup {"strategy"}, !.key = strategy]]
<1> DEFINE r == [reader[t] EXCEPT !.got = @ \cup {"strategy"}, !.key = strategy]
<1>1. reader[t] \in ReaderState /\ strategy \in Key
  BY DEF TypeOK, LockTypeOK
<1>2. r \in ReaderState
  BY <1>1 DEF ReaderState, Part
<1>3. reader' = [reader EXCEPT ![t] = r]
  BY <1>1 DEF ReadStrategy, TypeOK, ReaderState
<1> QED
  BY <1>2, <1>3 DEF TypeOK

LEMMA ReadRiskType ==
  ASSUME TypeOK, NEW t \in Threads, ReadRisk(t)
  PROVE  /\ reader' \in [Threads -> ReaderState]
         /\ reader' = [reader EXCEPT ![t] =
              [reader[t] EXCEPT !.got = @ \cup {"risk"}, !.mode = mode, !.seen = seen]]
<1> DEFINE r == [reader[t] EXCEPT !.got = @ \cup {"risk"}, !.mode = mode, !.seen = seen]
<1>1. reader[t] \in ReaderState /\ mode \in Modes /\ seen \in Key
  BY DEF TypeOK, LockTypeOK, Modes
<1>2. r \in ReaderState
  BY <1>1 DEF ReaderState, Part
<1>3. reader' = [reader EXCEPT ![t] = r]
  BY <1>1 DEF ReadRisk, TypeOK, ReaderState
<1> QED
  BY <1>2, <1>3 DEF TypeOK

LEMMA CutOffType ==
  ASSUME TypeOK, InputInv, CutOff
  PROVE  /\ submit' \in SubmitState /\ submit'.pc = "idle"
         /\ cuts' \in [Inputs -> Nat]
<1>1. submit' \in SubmitState /\ submit'.pc = "idle"
  BY NoSubmissionType DEF CutOff
<1>2. submit.began => submit.pc = "sending" /\ submit.input \in Inputs
  BY DEF TypeOK, InputInv, SubmitState
<1>3. cuts' \in [Inputs -> Nat]
  BY <1>2 DEF CutOff, TypeOK
<1> QED
  BY <1>1, <1>3

LEMMA LockStepType == ASSUME TypeOK, LockStep PROVE TypeOK'
<1>1. LockTypeOK'
  <2>1. CASE Publish
    BY <2>1, LeaseAssumption DEF Publish, TypeOK, LockTypeOK, Key
  <2>2. CASE SetLocks
    BY <2>2, LeaseAssumption DEF SetLocks, TypeOK, LockTypeOK, Key
  <2> QED
    BY <2>1, <2>2 DEF LockStep, LockNext
<1>2. \A c \in Coins : InForce(c)' \in LockMode
  BY <1>1 DEF LockTypeOK, InForce, LockMode
<1>3. ASSUME NEW r \in ReaderState
      PROVE  [r EXCEPT !.laxest = [c \in Coins |-> MinRank(@[c], InForce(c)')]] \in ReaderState
  <2>1. [c \in Coins |-> MinRank(r.laxest[c], InForce(c)')] \in Modes
    BY <1>2 DEF MinRank, ReaderState, Modes
  <2> QED
    BY <2>1 DEF ReaderState
<1>4. reader' \in [Threads -> ReaderState]
  BY <1>3 DEF LockStep, TypeOK
<1> QED
  BY <1>1, <1>4 DEF LockStep, TypeOK

LEMMA NextType == IInv /\ [Next]_vars => TypeOK'
<1> SUFFICES ASSUME IInv, [Next]_vars PROVE TypeOK'
  OBVIOUS
<1>0. TypeOK /\ InputInv
  BY DEF IInv
<1>1. CASE LockStep
  BY <1>0, <1>1, LockStepType
<1>2. CASE ScheduledRefresh
  <2>1. Monitor \in Threads /\ NoInput \in Inputs \cup {NoInput}
    BY DEF Threads
  <2>2. reader' \in [Threads -> ReaderState]
    BY <1>0, <1>2, <2>1, StartReadingType DEF ScheduledRefresh
  <2> QED
    BY <1>0, <1>2, <2>2 DEF ScheduledRefresh, TypeOK, LockTypeOK
<1>3. ASSUME NEW t \in Pulls, PullOther(t) PROVE TypeOK'
  <2>1. t \in Threads
    BY DEF Threads
  <2>2. reader' \in [Threads -> ReaderState]
    BY <1>0, <1>3, <2>1, StartReadingType DEF PullOther
  <2> QED
    BY <1>0, <1>3, <2>2 DEF PullOther, TypeOK, LockTypeOK
<1>4. ASSUME NEW t \in Pulls, NEW i \in Inputs, PullRefreshing(t, i) PROVE TypeOK'
  <2>1. t \in Threads
    BY DEF Threads
  <2>2. reader' \in [Threads -> ReaderState]
    BY <1>0, <1>4, <2>1, StartReadingType DEF PullRefreshing
  <2> QED
    BY <1>0, <1>4, <2>2 DEF PullRefreshing, TypeOK, LockTypeOK
<1>5. ASSUME NEW i \in Inputs, PullCached(i) PROVE TypeOK'
  <2>1. bridge.snap \in Snapshot
    BY <1>0 DEF TypeOK, BridgeState
  <2>2. lease' \in [Inputs -> LeaseState]
    BY <1>0, <1>5, <2>1, IssueType DEF PullCached
  <2> QED
    BY <1>0, <1>5, <2>2 DEF PullCached, TypeOK, LockTypeOK
<1>6. ASSUME NEW t \in Threads, ReadStrategy(t) PROVE TypeOK'
  <2>1. reader' \in [Threads -> ReaderState]
    BY <1>0, <1>6, ReadStrategyType
  <2> QED
    BY <1>0, <1>6, <2>1 DEF ReadStrategy, TypeOK, LockTypeOK
<1>7. ASSUME NEW t \in Threads, ReadRisk(t) PROVE TypeOK'
  <2>1. reader' \in [Threads -> ReaderState]
    BY <1>0, <1>7, ReadRiskType
  <2> QED
    BY <1>0, <1>7, <2>1 DEF ReadRisk, TypeOK, LockTypeOK
<1>8. ASSUME NEW t \in Threads, FinishRefresh(t) PROVE TypeOK'
  <2>1. reader[t] \in ReaderState /\ SnapshotOf(reader[t]) \in Snapshot
    BY <1>0, SnapshotType DEF TypeOK
  <2>2. reader[t].input = NoInput \/ reader[t].input \in Inputs
    BY <2>1 DEF ReaderState
  <2>3. lease' \in [Inputs -> LeaseState]
    BY <1>0, <1>8, <2>1, <2>2, IssueType DEF FinishRefresh, TypeOK
  <2>4. bridge' \in BridgeState
    BY <1>8, <2>1 DEF FinishRefresh, BridgeState
  <2>5. reader' \in [Threads -> ReaderState]
    BY <1>0, <1>8, IdleReaderType DEF FinishRefresh, TypeOK
  <2> QED
    BY <1>0, <1>8, <2>3, <2>4, <2>5 DEF FinishRefresh, TypeOK, LockTypeOK
<1>9. ASSUME NEW t \in Threads, FinishDirect(t) PROVE TypeOK'
  <2>1. reader[t] \in ReaderState /\ SnapshotOf(reader[t]) \in Snapshot
    BY <1>0, SnapshotType DEF TypeOK
  <2>2. lease' \in [Inputs -> LeaseState]
    <3>1. CASE reader[t].input \in Inputs
      BY <1>0, <1>9, <2>1, <3>1, IssueType DEF FinishDirect
    <3>2. CASE reader[t].input \notin Inputs
      BY <1>0, <1>9, <3>2 DEF FinishDirect, Issue, TypeOK
    <3> QED
      BY <3>1, <3>2
  <2>3. reader' \in [Threads -> ReaderState]
    BY <1>0, <1>9, IdleReaderType DEF FinishDirect, TypeOK
  <2> QED
    BY <1>0, <1>9, <2>2, <2>3 DEF FinishDirect, TypeOK, LockTypeOK
<1>10. ASSUME NEW t \in Threads, RefreshFails(t) PROVE TypeOK'
  <2>1. /\ reader[t] \in ReaderState /\ bridge.snap \in Snapshot
        /\ reader[t].input = NoInput \/ reader[t].input \in Inputs
    BY <1>0 DEF TypeOK, BridgeState, ReaderState
  <2>2. /\ reader' \in [Threads -> ReaderState]
        /\ lease' \in [Inputs -> LeaseState]
    <3>1. CASE UNCHANGED lease /\ reader' = [reader EXCEPT ![t] = IdleReader]
      BY <1>0, <3>1, IdleReaderType DEF TypeOK
    <3>2. CASE /\ reader[t].input # NoInput /\ Issue(reader[t].input, bridge.snap)
               /\ reader' = [reader EXCEPT ![t] = IdleReader]
      BY <1>0, <2>1, <3>2, IdleReaderType, IssueType DEF TypeOK
    <3>3. CASE UNCHANGED lease /\ StartReading(t, "direct", reader[t].input)
      BY <1>0, <2>1, <3>3, StartReadingType DEF TypeOK
    <3> QED
      BY <1>10, <3>1, <3>2, <3>3 DEF RefreshFails
  <2>3. failures' \in 0 .. MaxFailures
    BY <1>0, <1>10, LeaseAssumption DEF RefreshFails, TypeOK
  <2> QED
    BY <1>0, <1>10, <2>2, <2>3 DEF RefreshFails, TypeOK, LockTypeOK
<1>11. ASSUME NEW i \in Inputs, Submit(i) PROVE TypeOK'
  <2>1. ASSUME NEW orders \in [Coins -> Offered \cup {"none"}]
        PROVE  Accepted(i, orders) \in [Coins -> Offered \cup {"none"}]
    BY <2>1 DEF Accepted
  <2>2. submit' \in SubmitState /\ submit'.input \in Inputs
    BY <1>11, <2>1 DEF Submit, SubmitState
  <2> QED
    BY <1>0, <1>11, <2>2 DEF Submit, TypeOK, LockTypeOK
<1>12. ASSUME NEW c \in Coins, SendOrder(c) PROVE TypeOK'
  <2>1. submit' \in SubmitState /\ submit'.input = submit.input
    BY <1>0, <1>12 DEF SendOrder, TypeOK, SubmitState
  <2>2. sends' \in [Inputs -> Nat]
    BY <1>0, <1>12 DEF SendOrder, TypeOK
  <2> QED
    BY <1>0, <1>12, <2>1, <2>2 DEF SendOrder, TypeOK, LockTypeOK
<1>13. CASE Consume
  <2>1. lease' \in [Inputs -> LeaseState]
    BY <1>0, <1>13 DEF Consume, TypeOK, LeaseState
  <2> QED
    BY <1>0, <1>13, <2>1, NoSubmissionType DEF Consume, TypeOK, LockTypeOK
<1>14. CASE SubmissionFails
  <2>1. failures' \in 0 .. MaxFailures
    BY <1>0, <1>14, LeaseAssumption DEF SubmissionFails, TypeOK
  <2> QED
    BY <1>0, <1>14, <2>1, CutOffType DEF SubmissionFails, TypeOK, LockTypeOK
<1>15. CASE Restart
  <2>1. failures' \in 0 .. MaxFailures /\ reader' \in [Threads -> ReaderState]
    BY <1>0, <1>15, LeaseAssumption, IdleReaderType DEF Restart, TypeOK
  <2> QED
    BY <1>0, <1>15, <2>1, CutOffType DEF Restart, TypeOK, LockTypeOK
<1>16. CASE Age
  BY <1>0, <1>16 DEF Age, TypeOK, LockTypeOK, BridgeState
<1>17. ASSUME NEW i \in Inputs, Expire(i) PROVE TypeOK'
  <2>1. lease' \in [Inputs -> LeaseState]
    BY <1>0, <1>17 DEF Expire, TypeOK, LeaseState
  <2> QED
    BY <1>0, <1>17, <2>1 DEF Expire, TypeOK, LockTypeOK
<1>18. CASE UNCHANGED vars
  BY <1>0, <1>18 DEF vars, TypeOK, LockTypeOK
<1> QED
  BY <1>1, <1>2, <1>3, <1>4, <1>5, <1>6, <1>7, <1>8, <1>9, <1>10, <1>11, <1>12,
     <1>13, <1>14, <1>15, <1>16, <1>17, <1>18
  DEF Next, ReaderStep

-----------------------------------------------------------------------------
(* What a thread has read.                                                 *)

LEMMA IdleReaderInv == ReaderInv(IdleReader)
  BY DEF ReaderInv, IdleReader, Reading

\* As long as the brake and the PM stand still, a record keeps its invariant.
LEMMA ReaderInvStable ==
  ASSUME NEW r, ReaderInv(r), UNCHANGED <<mode, seen, strategy>>
  PROVE  ReaderInv(r)'
  BY DEF ReaderInv, InForce, NoStricter, AllFree, EvaluatedPolicy, Reading

LEMMA StartReadingInv ==
  ASSUME TypeOK, NEW t \in Threads, NEW pc \in {"refresh", "direct"},
         NEW i \in Inputs \cup {NoInput}, StartReading(t, pc, i),
         \A u \in Threads : ReaderInv(reader[u]),
         UNCHANGED <<mode, seen, strategy>>
  PROVE  \A u \in Threads : ReaderInv(reader[u])'
<1> DEFINE r == [IdleReader EXCEPT !.pc = pc, !.input = i,
                                   !.laxest = [c \in Coins |-> InForce(c)]]
<1>1. reader' = [reader EXCEPT ![t] = r]
  BY DEF StartReading
<1>2. /\ r.pc # "idle" /\ r.got = {} /\ r.got # Part
      /\ \A c \in Coins : r.laxest[c] = InForce(c)
  BY DEF IdleReader, Part
<1> HIDE DEF r
<1>3. \A c \in Coins : InForce(c) <= InForce(c)
  BY InForceType DEF TypeOK, LockMode
<1>4. ReaderInv(r)
  BY <1>2, <1>3 DEF ReaderInv, Reading
<1>5. ASSUME NEW u \in Threads PROVE ReaderInv(reader[u])'
  <2>1. ReaderInv(reader'[u])
    BY <1>1, <1>4 DEF TypeOK
  <2> QED
    BY <2>1 DEF ReaderInv, InForce, NoStricter, AllFree, EvaluatedPolicy, Reading
<1> QED
  BY <1>5

\* The brake and the PM move under a reading thread: a publication leaves no
\* coin locked, and anything else leaves the strategy alone.
LEMMA LockStepInv ==
  ASSUME TypeOK, seen <= strategy, LockStep,
         \A u \in Threads : ReaderInv(reader[u])
  PROVE  /\ seen' <= strategy'
         /\ \A u \in Threads : ReaderInv(reader[u])'
<1>1. /\ seen \in Nat /\ strategy \in Nat /\ seen' \in Nat /\ strategy' \in Nat
      /\ TypeOK'
  BY LockStepType, LeaseAssumption DEF TypeOK, LockTypeOK, Key
<1>2. /\ seen' <= strategy'
      /\ strategy' # strategy => \A c \in Coins : InForce(c)' = Unlocked
  <2>1. CASE Publish
    BY <1>1, <2>1 DEF Publish, InForce
  <2>2. CASE SetLocks
    BY <1>1, <2>2 DEF SetLocks
  <2> QED
    BY <2>1, <2>2 DEF LockStep, LockNext
<1>3. \A c \in Coins : InForce(c)' \in LockMode
  BY <1>1, InForceType DEF LockTypeOK, InForce, LockMode, TypeOK
<1>4. ASSUME NEW u \in Threads PROVE ReaderInv(reader[u])'
  <2> DEFINE r == reader[u]
             l == [c \in Coins |-> MinRank(r.laxest[c], InForce(c)')]
  <2>1. r \in ReaderState /\ ReaderInv(r)
    BY DEF TypeOK
  <2>2. CASE ~Reading(r)
    <3>1. reader'[u] = r
      BY <2>2 DEF LockStep
    <3>2. /\ ~Reading(reader'[u])
          /\ r.pc # "idle" /\ r.got = Part => NoStricter(r.laxest, EvaluatedPolicy(r))
      BY <2>1, <2>2, <3>1 DEF ReaderInv
    <3> QED
      BY <3>1, <3>2 DEF ReaderInv, Reading, NoStricter, EvaluatedPolicy
  <2>3. CASE Reading(r)
    <3>1. /\ reader'[u] = [r EXCEPT !.laxest = l]
          /\ \A c \in Coins : r.laxest[c] \in LockMode
      BY <2>1, <2>3 DEF LockStep, ReaderState, Modes
    <3>2. \A c \in Coins : /\ l[c] \in LockMode
                           /\ l[c] <= InForce(c)' /\ l[c] <= r.laxest[c]
      BY <1>3, <3>1 DEF MinRank, LockMode
    <3>3. /\ reader'[u].pc = r.pc /\ reader'[u].got = r.got /\ reader'[u].key = r.key
          /\ reader'[u].mode = r.mode /\ reader'[u].seen = r.seen
          /\ reader'[u].laxest = l
      BY <2>1, <3>1 DEF ReaderState
    <3>4. r.got # Part /\ Reading(reader'[u]) /\ reader'[u].got # Part
      BY <2>3, <3>3 DEF Reading
    <3>5. AllFree(r.laxest) \/ strategy' # strategy => AllFree(l)
      BY <1>2, <1>3, <3>1, <3>2 DEF AllFree, LockMode
    <3>6. "strategy" \in r.got /\ r.key # strategy' => AllFree(l)
      BY <2>1, <2>3, <3>5 DEF ReaderInv
    <3>7. "risk" \in r.got => NoStricter(l, r.mode) /\ (r.seen # strategy' => AllFree(l))
      <4>1. ASSUME "risk" \in r.got, NEW c \in Coins PROVE l[c] <= r.mode[c]
        <5>1. r.laxest[c] <= r.mode[c] /\ r.mode[c] \in LockMode
          BY <2>1, <2>3, <4>1 DEF ReaderInv, NoStricter, ReaderState, Modes
        <5> QED
          BY <3>1, <3>2, <5>1 DEF LockMode
      <4>2. ASSUME "risk" \in r.got, r.seen # strategy' PROVE AllFree(l)
        BY <2>1, <2>3, <3>5, <4>2 DEF ReaderInv
      <4> QED
        BY <4>1, <4>2 DEF NoStricter
    <3>8. ReaderInv(reader[u])'
      <4> HIDE DEF r, l
      <4> QED
        BY <3>2, <3>3, <3>4, <3>6, <3>7 DEF ReaderInv
    <3> QED
      BY <3>8
  <2> QED
    BY <2>2, <2>3
<1> QED
  BY <1>2, <1>4

LEMMA ReadStrategyInv ==
  ASSUME TypeOK, seen <= strategy, NEW t \in Threads, ReadStrategy(t),
         \A u \in Threads : ReaderInv(reader[u])
  PROVE  \A u \in Threads : ReaderInv(reader[u])'
<1> DEFINE r == reader[t]
           q == [r EXCEPT !.got = @ \cup {"strategy"}, !.key = strategy]
<1>1. /\ r \in ReaderState /\ ReaderInv(r) /\ r.pc # "idle"
      /\ "strategy" \notin r.got /\ Reading(r)
      /\ UNCHANGED <<mode, seen, strategy>>
  BY DEF TypeOK, ReadStrategy, Reading, Part
<1>2. reader' = [reader EXCEPT ![t] = q]
  BY ReadStrategyType
<1>3. /\ q \in ReaderState /\ q.pc = r.pc /\ q.got = r.got \cup {"strategy"}
      /\ q.key = strategy /\ q.mode = r.mode /\ q.seen = r.seen
      /\ q.laxest = r.laxest
  BY <1>1, ReadStrategyType DEF ReaderState, TypeOK, LockTypeOK, Part
<1> HIDE DEF q
<1>4. "risk" \in r.got => NoStricter(q.laxest, EvaluatedPolicy(q))
  <2> SUFFICES ASSUME "risk" \in r.got, NEW c \in Coins
               PROVE  q.laxest[c] <= EvaluatedPolicy(q)[c]
    BY DEF NoStricter
  <2>1. /\ r.laxest[c] <= r.mode[c]
        /\ r.seen # strategy => r.laxest[c] = Unlocked
    BY <1>1 DEF ReaderInv, NoStricter, AllFree
  <2> QED
    BY <1>3, <2>1, EvaluatedPolicyCases
<1>5. ReaderInv(q)
  <2>1. Reading(q) => \A c \in Coins : q.laxest[c] <= InForce(c)
    BY <1>1, <1>3 DEF ReaderInv
  <2>2. Reading(q) /\ "risk" \in q.got =>
          NoStricter(q.laxest, q.mode) /\ (q.seen # strategy => AllFree(q.laxest))
    BY <1>1, <1>3 DEF ReaderInv
  <2>3. q.got = Part => "risk" \in r.got
    BY <1>3 DEF Part
  <2> QED
    BY <1>3, <1>4, <2>1, <2>2, <2>3 DEF ReaderInv
<1>6. ASSUME NEW u \in Threads PROVE ReaderInv(reader[u])'
  <2>1. ReaderInv(reader'[u])
    BY <1>2, <1>5 DEF TypeOK
  <2> QED
    BY <1>1, <2>1 DEF ReaderInv, InForce, NoStricter, AllFree, EvaluatedPolicy, Reading
<1> QED
  BY <1>6

LEMMA ReadRiskInv ==
  ASSUME TypeOK, seen <= strategy, NEW t \in Threads, ReadRisk(t),
         \A u \in Threads : ReaderInv(reader[u])
  PROVE  \A u \in Threads : ReaderInv(reader[u])'
<1> DEFINE r == reader[t]
           q == [r EXCEPT !.got = @ \cup {"risk"}, !.mode = mode, !.seen = seen]
<1>1. /\ r \in ReaderState /\ ReaderInv(r) /\ r.pc # "idle"
      /\ "risk" \notin r.got /\ Reading(r)
      /\ UNCHANGED <<mode, seen, strategy>>
  BY DEF TypeOK, ReadRisk, Reading, Part
<1>2. reader' = [reader EXCEPT ![t] = q]
  BY ReadRiskType
<1>3. /\ q \in ReaderState /\ q.pc = r.pc /\ q.got = r.got \cup {"risk"}
      /\ q.key = r.key /\ q.mode = mode /\ q.seen = seen
      /\ q.laxest = r.laxest
  BY <1>1, ReadRiskType DEF ReaderState, TypeOK, LockTypeOK, Part, Modes
<1> HIDE DEF q
<1>4. /\ \A c \in Coins : /\ mode[c] \in LockMode /\ r.laxest[c] \in LockMode
                         /\ r.laxest[c] <= InForce(c)
      /\ seen \in Nat /\ strategy \in Nat
  BY <1>1, LeaseAssumption DEF ReaderInv, TypeOK, LockTypeOK, ReaderState, Modes, Key
<1>5. NoStricter(q.laxest, q.mode) /\ (q.seen # strategy => AllFree(q.laxest))
  BY <1>3, <1>4 DEF NoStricter, AllFree, InForce, LockMode
<1>6. "strategy" \in r.got => NoStricter(q.laxest, EvaluatedPolicy(q))
  <2> SUFFICES ASSUME "strategy" \in r.got, NEW c \in Coins
               PROVE  q.laxest[c] <= EvaluatedPolicy(q)[c]
    BY DEF NoStricter
  <2>1. r.key # strategy => r.laxest[c] = Unlocked
    BY <1>1 DEF ReaderInv, AllFree
  <2>2. seen # strategy => r.laxest[c] = Unlocked
    BY <1>3, <1>5 DEF AllFree
  <2>3. r.laxest[c] <= mode[c]
    BY <1>3, <1>5 DEF NoStricter
  <2> QED
    BY <1>3, <2>1, <2>2, <2>3, EvaluatedPolicyCases
<1>7. ReaderInv(q)
  <2>1. Reading(q) => \A c \in Coins : q.laxest[c] <= InForce(c)
    BY <1>1, <1>3 DEF ReaderInv
  <2>2. Reading(q) /\ "strategy" \in q.got /\ q.key # strategy => AllFree(q.laxest)
    BY <1>1, <1>3 DEF ReaderInv
  <2>3. q.got = Part => "strategy" \in r.got
    BY <1>3 DEF Part
  <2> QED
    BY <1>5, <1>6, <2>1, <2>2, <2>3 DEF ReaderInv
<1>8. ASSUME NEW u \in Threads PROVE ReaderInv(reader[u])'
  <2>1. ReaderInv(reader'[u])
    BY <1>2, <1>7 DEF TypeOK
  <2> QED
    BY <1>1, <2>1 DEF ReaderInv, InForce, NoStricter, AllFree, EvaluatedPolicy, Reading
<1> QED
  BY <1>8

\* Threads that stop, or do not move, keep their invariant.
LEMMA StoppedReaderInv ==
  ASSUME TypeOK, \A u \in Threads : ReaderInv(reader[u]),
         UNCHANGED <<mode, seen, strategy>>,
         \A u \in Threads : reader'[u] \in {reader[u], IdleReader}
  PROVE  \A u \in Threads : ReaderInv(reader[u])'
<1> TAKE u \in Threads
<1>1. ReaderInv(reader'[u])
  BY IdleReaderInv
<1> QED
  BY <1>1 DEF ReaderInv, InForce, NoStricter, AllFree, EvaluatedPolicy, Reading

LEMMA NextReaderInv ==
  ASSUME IInv, [Next]_vars
  PROVE  /\ seen' <= strategy'
         /\ \A u \in Threads : ReaderInv(reader[u])'
<1>0. /\ TypeOK /\ seen <= strategy
      /\ \A u \in Threads : ReaderInv(reader[u])
  BY DEF IInv
<1>1. CASE LockStep
  BY <1>0, <1>1, LockStepInv
<1>2. ASSUME NEW t \in Threads, NEW i \in Inputs \cup {NoInput},
             StartReading(t, "refresh", i), UNCHANGED <<mode, seen, strategy>>
      PROVE  \A u \in Threads : ReaderInv(reader[u])'
  BY <1>0, <1>2, StartReadingInv
<1>3. ASSUME NEW t \in Threads, RefreshFails(t)
      PROVE  UNCHANGED <<seen, strategy>> /\ \A u \in Threads : ReaderInv(reader[u])'
  <2>1. UNCHANGED <<mode, seen, strategy>> /\ reader[t].input \in Inputs \cup {NoInput}
    BY <1>0, <1>3 DEF RefreshFails, TypeOK, ReaderState
  <2>2. CASE reader' = [reader EXCEPT ![t] = IdleReader]
    <3>1. \A u \in Threads : reader'[u] \in {reader[u], IdleReader}
      BY <1>0, <2>2 DEF TypeOK
    <3> QED
      BY <1>0, <2>1, <3>1, StoppedReaderInv
  <2>3. CASE StartReading(t, "direct", reader[t].input)
    BY <1>0, <2>1, <2>3, StartReadingInv
  <2> QED
    BY <1>3, <2>1, <2>2, <2>3 DEF RefreshFails
<1>4. ASSUME NEW t \in Threads, FinishRefresh(t) \/ FinishDirect(t)
      PROVE  UNCHANGED <<seen, strategy>> /\ \A u \in Threads : ReaderInv(reader[u])'
  <2>1. /\ UNCHANGED <<mode, seen, strategy>>
        /\ reader' = [reader EXCEPT ![t] = IdleReader]
    BY <1>4 DEF FinishRefresh, FinishDirect
  <2>2. \A u \in Threads : reader'[u] \in {reader[u], IdleReader}
    BY <1>0, <2>1 DEF TypeOK
  <2> QED
    BY <1>0, <2>1, <2>2, StoppedReaderInv
<1>5. ASSUME NEW t \in Threads, ReadStrategy(t) \/ ReadRisk(t)
      PROVE  UNCHANGED <<seen, strategy>> /\ \A u \in Threads : ReaderInv(reader[u])'
  <2>1. UNCHANGED <<seen, strategy>>
    BY <1>5 DEF ReadStrategy, ReadRisk
  <2> QED
    BY <1>0, <1>5, <2>1, ReadStrategyInv, ReadRiskInv
<1>6. CASE Restart
  <2>1. /\ UNCHANGED <<mode, seen, strategy>>
        /\ \A u \in Threads : reader'[u] \in {reader[u], IdleReader}
    BY <1>6 DEF Restart
  <2> QED
    BY <1>0, <2>1, StoppedReaderInv
<1>7. CASE UNCHANGED <<mode, seen, strategy, reader>>
  <2>1. \A u \in Threads : reader'[u] \in {reader[u], IdleReader}
    BY <1>7
  <2> QED
    BY <1>0, <1>7, <2>1, StoppedReaderInv
<1>8. Monitor \in Threads /\ Pulls \subseteq Threads
  BY DEF Threads
<1>9. CASE ScheduledRefresh
  BY <1>0, <1>2, <1>8, <1>9 DEF ScheduledRefresh
<1>10. CASE \E t \in Pulls : PullOther(t) \/ \E i \in Inputs : PullRefreshing(t, i)
  BY <1>0, <1>2, <1>8, <1>10 DEF PullOther, PullRefreshing
<1> QED
  BY <1>0, <1>1, <1>3, <1>4, <1>5, <1>6, <1>7, <1>9, <1>10
  DEF Next, ReaderStep, PullCached, Submit, Expire, SendOrder, Consume,
      SubmissionFails, Age, vars

-----------------------------------------------------------------------------
(* Leases, snapshots and the orders under way.                             *)

\* A thread that has read both parts has a snapshot that is not too lax.
LEMMA SnapshotNotLax ==
  ASSUME IInv, NEW t \in Threads, reader[t].pc # "idle", reader[t].got = Part
  PROVE  NoStricter(SnapshotOf(reader[t]).laxest, SnapshotOf(reader[t]).policy)
  BY DEF IInv, ReaderInv, SnapshotOf

LEMMA IssueSteps ==
  ASSUME TypeOK, NEW i \in Inputs, NEW snap, Issue(i, snap)
  PROVE  \A j \in Inputs :
           IF j = i THEN lease'[j].status = "issued" /\ lease'[j].snap = snap
                    ELSE lease'[j] = lease[j]
  BY DEF Issue, TypeOK

\* What a step may do to a lease.
LEMMA LeaseSteps ==
  ASSUME IInv, [Next]_vars, NEW i \in Inputs
  PROVE  \/ lease'[i] = lease[i]
         \/ /\ lease[i].status = "none" /\ lease'[i].status = "issued"
            /\ NoStricter(lease'[i].snap.laxest, lease'[i].snap.policy)
         \/ /\ lease'[i].status = lease[i].status /\ lease'[i].snap = lease[i].snap
         \/ /\ Consume /\ submit.input = i
            /\ lease'[i].status = "consumed" /\ lease'[i].snap = lease[i].snap
<1>0. TypeOK /\ PolicyInv /\ InputInv
  BY DEF IInv
<1>1. ASSUME NEW j \in Inputs, PullCached(j)
      PROVE  \/ lease'[i] = lease[i]
             \/ /\ lease[i].status = "none" /\ lease'[i].status = "issued"
                /\ NoStricter(lease'[i].snap.laxest, lease'[i].snap.policy)
  BY <1>0, <1>1, IssueSteps DEF PullCached, PolicyInv
<1>2. ASSUME NEW t \in Threads, NEW snap, Issue(reader[t].input, snap),
             NoStricter(snap.laxest, snap.policy)
      PROVE  \/ lease'[i] = lease[i]
             \/ /\ lease[i].status = "none" /\ lease'[i].status = "issued"
                /\ NoStricter(lease'[i].snap.laxest, lease'[i].snap.policy)
  <2>1. CASE reader[t].input \in Inputs
    BY <1>0, <1>2, <2>1, IssueSteps DEF InputInv
  <2>2. CASE reader[t].input \notin Inputs
    BY <1>0, <1>2, <2>2 DEF Issue, TypeOK
  <2> QED
    BY <2>1, <2>2
<1>3. ASSUME NEW t \in Threads, FinishRefresh(t) \/ FinishDirect(t)
      PROVE  \/ lease'[i] = lease[i]
             \/ /\ lease[i].status = "none" /\ lease'[i].status = "issued"
                /\ NoStricter(lease'[i].snap.laxest, lease'[i].snap.policy)
  <2>1. /\ NoStricter(SnapshotOf(reader[t]).laxest, SnapshotOf(reader[t]).policy)
        /\ UNCHANGED lease \/ Issue(reader[t].input, SnapshotOf(reader[t]))
    BY <1>3, SnapshotNotLax DEF FinishRefresh, FinishDirect
  <2> QED
    BY <1>2, <2>1
<1>4. ASSUME NEW t \in Threads, RefreshFails(t)
      PROVE  \/ lease'[i] = lease[i]
             \/ /\ lease[i].status = "none" /\ lease'[i].status = "issued"
                /\ NoStricter(lease'[i].snap.laxest, lease'[i].snap.policy)
  <2>1. UNCHANGED lease \/ Issue(reader[t].input, bridge.snap)
    BY <1>4 DEF RefreshFails
  <2> QED
    BY <1>0, <1>2, <2>1 DEF PolicyInv
<1>5. CASE Consume
  BY <1>0, <1>5 DEF Consume, TypeOK, LeaseState
<1>6. ASSUME NEW j \in Inputs, Expire(j)
      PROVE  lease'[i].status = lease[i].status /\ lease'[i].snap = lease[i].snap
  BY <1>0, <1>6 DEF Expire, TypeOK, LeaseState
<1>7. CASE UNCHANGED lease
  BY <1>7
<1> QED
  BY <1>1, <1>3, <1>4, <1>5, <1>6, <1>7
  DEF Next, ReaderStep, LockStep, ScheduledRefresh, PullOther, PullRefreshing,
      ReadStrategy, ReadRisk, Submit, SendOrder, SubmissionFails, Restart, Age, vars

\* What a step may do to the submission in progress.
LEMMA SubmitSteps ==
  ASSUME IInv, [Next]_vars
  PROVE  \/ UNCHANGED submit
         \/ submit' = NoSubmission
         \/ \E i \in Inputs : Submit(i)
         \/ \E c \in Coins : SendOrder(c)
  BY DEF Next, ReaderStep, LockStep, ScheduledRefresh, PullOther, PullRefreshing,
         PullCached, ReadStrategy, ReadRisk, FinishRefresh, FinishDirect,
         RefreshFails, Consume, SubmissionFails, Restart, CutOff, Age, Expire, vars

LEMMA NextPolicyInv == ASSUME IInv, [Next]_vars PROVE PolicyInv'
<1>0. TypeOK /\ PolicyInv /\ InputInv
  BY DEF IInv
<1>1. NoStricter(bridge'.snap.laxest, bridge'.snap.policy)
  <2>1. ASSUME NEW t \in Threads, FinishRefresh(t)
        PROVE  NoStricter(bridge'.snap.laxest, bridge'.snap.policy)
    BY <2>1, SnapshotNotLax DEF FinishRefresh
  <2>2. CASE UNCHANGED bridge
    BY <1>0, <2>2 DEF PolicyInv
  <2>3. CASE Age
    BY <1>0, <2>3 DEF Age, PolicyInv, TypeOK, BridgeState
  <2> QED
    BY <2>1, <2>2, <2>3
    DEF Next, ReaderStep, LockStep, ScheduledRefresh, PullOther, PullRefreshing,
        PullCached, ReadStrategy, ReadRisk, FinishDirect, RefreshFails, Submit,
        SendOrder, Consume, SubmissionFails, Restart, Expire, vars
<1>2. ASSUME NEW i \in Inputs PROVE NoStricter(lease'[i].snap.laxest, lease'[i].snap.policy)
  BY <1>0, LeaseSteps DEF PolicyInv
<1>3. ASSUME submit'.pc = "sending", NEW c \in Coins, submit'.orders[c] # "none"
      PROVE  submit'.orders[c] \in Allowed(lease'[submit'.input].snap.policy[c])
  <2>1. CASE submit' = NoSubmission
    BY <1>3, <2>1 DEF NoSubmission
  <2>2. ASSUME NEW i \in Inputs, Submit(i)
        PROVE  submit'.orders[c] \in Allowed(lease'[submit'.input].snap.policy[c])
    <3>1. PICK orders \in [Coins -> Offered \cup {"none"}] :
            submit' = [pc |-> "sending", input |-> i, orders |-> Accepted(i, orders),
                       began |-> FALSE]
      BY <2>2 DEF Submit
    <3>2. submit'.orders[c] = Accepted(i, orders)[c] /\ submit'.input = i
      BY <3>1
    <3>3. Accepted(i, orders)[c] = orders[c]
          /\ orders[c] \in Allowed(lease[i].snap.policy[c])
      BY <1>3, <3>2 DEF Accepted, LockViolated
    <3> QED
      BY <2>2, <3>2, <3>3 DEF Submit
  <2>3. ASSUME submit.pc = "sending", submit'.input = submit.input,
               submit'.orders[c] = submit.orders[c]
        PROVE  submit'.orders[c] \in Allowed(lease'[submit'.input].snap.policy[c])
    <3>1. submit.input \in Inputs /\ lease[submit.input].status = "issued"
      BY <1>0, <2>3 DEF TypeOK, InputInv
    <3>2. lease'[submit.input].snap = lease[submit.input].snap
      BY <3>1, LeaseSteps
    <3> QED
      BY <1>0, <1>3, <2>3, <3>1, <3>2 DEF PolicyInv
  <2>4. ASSUME NEW d \in Coins, SendOrder(d)
        PROVE  submit.pc = "sending" /\ submit'.input = submit.input
               /\ submit'.orders[c] = submit.orders[c]
    BY <1>0, <1>3, <2>4 DEF SendOrder, TypeOK, SubmitState
  <2>5. CASE UNCHANGED submit
    BY <1>3, <2>3, <2>5
  <2> QED
    BY <2>1, <2>2, <2>3, <2>4, <2>5, SubmitSteps
<1> QED
  BY <1>1, <1>2, <1>3 DEF PolicyInv

-----------------------------------------------------------------------------
(* Input ids.                                                              *)

\* What a step may do to the input a thread reads for.
LEMMA InputSteps ==
  ASSUME IInv, [Next]_vars, NEW t \in Threads
  PROVE  \/ reader'[t].input = reader[t].input /\ reader'[t].pc = reader[t].pc
         \/ reader'[t].input = NoInput
         \/ reader'[t].input = reader[t].input /\ reader'[t].pc # "idle"
            /\ RefreshFails(t)
         \/ \E i \in Inputs : PullRefreshing(t, i) /\ reader'[t].input = i
                             /\ reader'[t].pc # "idle"
<1>0. TypeOK
  BY DEF IInv
<1>1. ASSUME NEW u \in Threads, NEW pc \in {"refresh", "direct"},
             NEW i \in Inputs \cup {NoInput}, StartReading(u, pc, i)
      PROVE  IF t = u THEN reader'[t].input = i /\ reader'[t].pc = pc
             ELSE reader'[t] = reader[t]
  BY <1>0, <1>1 DEF StartReading, TypeOK, IdleReader
<1>2. Monitor \in Threads /\ Pulls \subseteq Threads
  BY DEF Threads
<1>3. CASE ScheduledRefresh
  BY <1>1, <1>2, <1>3 DEF ScheduledRefresh
<1>4. ASSUME NEW u \in Pulls, PullOther(u)
      PROVE  reader'[t] = reader[t] \/ reader'[t].input = NoInput
  BY <1>1, <1>2, <1>4 DEF PullOther
<1>5. ASSUME NEW u \in Pulls, NEW i \in Inputs, PullRefreshing(u, i)
      PROVE  \/ reader'[t] = reader[t]
             \/ PullRefreshing(t, i) /\ reader'[t].input = i /\ reader'[t].pc # "idle"
  BY <1>1, <1>2, <1>5 DEF PullRefreshing
<1>6. ASSUME NEW u \in Threads, RefreshFails(u)
      PROVE  \/ reader'[t] = reader[t]
             \/ reader'[t].input = NoInput
             \/ reader'[t].input = reader[t].input /\ reader'[t].pc # "idle"
                /\ RefreshFails(t)
  <2>1. reader[u].input \in Inputs \cup {NoInput}
    BY <1>0 DEF TypeOK, ReaderState
  <2>2. CASE StartReading(u, "direct", reader[u].input)
    BY <1>1, <1>6, <2>1, <2>2
  <2>3. CASE reader' = [reader EXCEPT ![u] = IdleReader]
    BY <1>0, <2>3 DEF TypeOK, IdleReader
  <2> QED
    BY <1>6, <2>2, <2>3 DEF RefreshFails
<1>7. ASSUME NEW u \in Threads, FinishRefresh(u) \/ FinishDirect(u)
      PROVE  reader'[t] = reader[t] \/ reader'[t].input = NoInput
  BY <1>0, <1>7 DEF FinishRefresh, FinishDirect, TypeOK, IdleReader
<1>8. ASSUME NEW u \in Threads, ReadStrategy(u) \/ ReadRisk(u)
      PROVE  reader'[t].input = reader[t].input /\ reader'[t].pc = reader[t].pc
  <2>1. reader[t] \in ReaderState /\ reader[u] \in ReaderState
    BY <1>0 DEF TypeOK
  <2>2. ASSUME NEW r, r.input = reader[u].input, r.pc = reader[u].pc,
               reader' = [reader EXCEPT ![u] = r]
        PROVE  reader'[t].input = reader[t].input /\ reader'[t].pc = reader[t].pc
    BY <1>0, <2>2 DEF TypeOK
  <2>3. CASE ReadStrategy(u)
    <3> DEFINE r == [reader[u] EXCEPT !.got = @ \cup {"strategy"}, !.key = strategy]
    <3>1. r.input = reader[u].input /\ r.pc = reader[u].pc
      BY <2>1 DEF ReaderState
    <3> QED
      BY <1>0, <2>2, <2>3, <3>1, ReadStrategyType
  <2>4. CASE ReadRisk(u)
    <3> DEFINE r == [reader[u] EXCEPT !.got = @ \cup {"risk"}, !.mode = mode, !.seen = seen]
    <3>1. r.input = reader[u].input /\ r.pc = reader[u].pc
      BY <2>1 DEF ReaderState
    <3> QED
      BY <1>0, <2>2, <2>4, <3>1, ReadRiskType
  <2> QED
    BY <1>8, <2>3, <2>4
<1>9. CASE LockStep
  BY <1>0, <1>9 DEF LockStep, TypeOK, ReaderState
<1>10. CASE Restart
  BY <1>10 DEF Restart, IdleReader
<1>11. CASE UNCHANGED reader
  BY <1>11
<1> QED
  BY <1>3, <1>4, <1>5, <1>6, <1>7, <1>8, <1>9, <1>10, <1>11
  DEF Next, ReaderStep, PullCached, Submit, SendOrder, Consume, SubmissionFails,
      Expire, Age, vars

\* A lease that is issued was not issued, and no other thread reads for it.
LEMMA NextReadersInv ==
  ASSUME IInv, TypeOK', [Next]_vars
  PROVE  /\ \A t \in Threads : reader'[t].input \in Inputs =>
              /\ reader'[t].pc # "idle" /\ t \in Pulls
              /\ lease'[reader'[t].input].status = "none"
         /\ \A t, u \in Threads :
              reader'[t].input = reader'[u].input /\ reader'[t].input \in Inputs => t = u
<1>0. TypeOK /\ InputInv /\ NoInput \notin Inputs
  BY LeaseAssumption DEF IInv
<1>1. ASSUME NEW t \in Threads, reader'[t].input \in Inputs
      PROVE  /\ reader'[t].pc # "idle" /\ t \in Pulls
             /\ lease[reader'[t].input].status = "none"
             /\ \/ reader'[t].input = reader[t].input
                \/ \A u \in Pulls : reader[u].input # reader'[t].input
  <2>1. CASE reader'[t].input = reader[t].input /\ reader'[t].pc = reader[t].pc
    BY <1>0, <1>1, <2>1 DEF InputInv
  <2>2. CASE reader'[t].input = reader[t].input /\ reader'[t].pc # "idle"
    BY <1>0, <1>1, <2>2 DEF InputInv
  <2>3. ASSUME NEW i \in Inputs, PullRefreshing(t, i), reader'[t].input = i,
               reader'[t].pc # "idle"
        PROVE  /\ t \in Pulls /\ lease[i].status = "none"
               /\ \A u \in Pulls : reader[u].input # i
    BY <2>3 DEF PullRefreshing
  <2> QED
    BY <1>0, <1>1, <2>1, <2>2, <2>3, InputSteps
<1>2. ASSUME NEW t \in Threads, NEW u \in Threads,
             reader'[t].input = reader'[u].input, reader'[t].input \in Inputs
      PROVE  t = u
  <2>1. CASE reader'[t].input = reader[t].input /\ reader'[u].input = reader[u].input
    BY <1>0, <1>2, <2>1 DEF InputInv
  <2>2. ASSUME NEW v \in Threads, NEW w \in Threads, v # w,
               reader'[v].input = reader'[w].input, reader'[v].input \in Inputs,
               reader'[v].input # reader[v].input
        PROVE  FALSE
    <3>1. PICK i \in Inputs : PullRefreshing(v, i) /\ reader'[v].input = i
      BY <1>0, <2>2, InputSteps
    <3>2. reader'[w] = reader[w]
      BY <1>0, <2>2, <3>1 DEF PullRefreshing, StartReading, TypeOK
    <3>3. reader[w].input \in Inputs /\ w \in Pulls
      BY <1>0, <2>2, <3>2 DEF InputInv
    <3> QED
      BY <2>2, <3>1, <3>2, <3>3 DEF PullRefreshing
  <2> QED
    BY <1>2, <2>1, <2>2
<1>3. ASSUME NEW t \in Threads, reader'[t].input \in Inputs
      PROVE  lease'[reader'[t].input].status = "none"
  <2> DEFINE i == reader'[t].input
  <2>1. /\ lease[i].status = "none" /\ t \in Pulls
        /\ i = reader[t].input \/ \A u \in Pulls : reader[u].input # i
    BY <1>1, <1>3
  <2>2. CASE lease'[i] = lease[i]
    BY <2>1, <2>2
  <2>3. ASSUME NEW j \in Inputs, PullCached(j) PROVE lease'[i] = lease[i]
    <3>1. i # j
      <4>1. reader' = reader /\ \A u \in Pulls : reader[u].input # j
        BY <2>3 DEF PullCached
      <4> QED
        BY <2>1, <4>1
    <3> QED
      BY <1>0, <1>3, <2>3, <3>1, IssueSteps DEF PullCached
  <2>4. ASSUME NEW u \in Threads, NEW snap, Issue(reader[u].input, snap),
               reader' = [reader EXCEPT ![u] = IdleReader]
        PROVE  lease'[i] = lease[i]
    <3>1. t # u /\ reader'[t] = reader[t]
      BY <1>0, <1>3, <2>4 DEF TypeOK, IdleReader
    <3>2. i = reader[t].input /\ i # reader[u].input
      BY <1>0, <1>3, <3>1 DEF InputInv
    <3>3. CASE reader[u].input \in Inputs
      BY <1>0, <1>3, <2>4, <3>2, <3>3, IssueSteps
    <3>4. CASE reader[u].input \notin Inputs
      BY <1>0, <1>3, <2>4, <3>4 DEF Issue, TypeOK
    <3> QED
      BY <3>3, <3>4
  <2>5. CASE Consume
    <3>1. lease[submit.input].status = "issued" /\ submit.input \in Inputs
      BY <1>0, <2>5 DEF Consume, InputInv, TypeOK
    <3> QED
      BY <1>0, <1>3, <2>1, <2>5, <3>1 DEF Consume, TypeOK
  <2>6. ASSUME NEW j \in Inputs, Expire(j) PROVE lease'[i] = lease[i]
    BY <1>0, <1>3, <2>1, <2>6 DEF Expire, Usable, TypeOK
  <2>7. ASSUME NEW u \in Threads, FinishRefresh(u) \/ FinishDirect(u) \/ RefreshFails(u)
        PROVE  lease'[i] = lease[i]
    <3>1. \/ UNCHANGED lease
          \/ /\ Issue(reader[u].input, SnapshotOf(reader[u]))
                \/ Issue(reader[u].input, bridge.snap)
             /\ reader' = [reader EXCEPT ![u] = IdleReader]
      BY <2>7 DEF FinishRefresh, FinishDirect, RefreshFails
    <3> QED
      BY <2>4, <3>1
  <2> QED
    BY <2>1, <2>2, <2>3, <2>5, <2>6, <2>7
    DEF Next, ReaderStep, LockStep, ScheduledRefresh, PullOther, PullRefreshing,
        ReadStrategy, ReadRisk, Submit, SendOrder, SubmissionFails, Restart, Age, vars
<1> QED
  BY <1>1, <1>2, <1>3

LEMMA NextInputInv == ASSUME IInv, TypeOK', [Next]_vars PROVE InputInv'
<1>0. TypeOK /\ InputInv
  BY DEF IInv
<1>1. submit'.pc = "sending" => lease'[submit'.input].status = "issued"
  <2> SUFFICES ASSUME submit'.pc = "sending" PROVE lease'[submit'.input].status = "issued"
    OBVIOUS
  <2>1. ASSUME NEW i \in Inputs, Submit(i) PROVE lease'[submit'.input].status = "issued"
    BY <2>1 DEF Submit, Usable
  <2>2. CASE /\ submit.pc = "sending" /\ submit'.input = submit.input /\ ~Consume
    <3>1. submit.input \in Inputs /\ lease[submit.input].status = "issued"
      BY <1>0, <2>2 DEF TypeOK, InputInv
    <3> QED
      BY <2>2, <3>1, LeaseSteps
  <2>3. ASSUME NEW c \in Coins, SendOrder(c)
        PROVE  submit.pc = "sending" /\ submit'.input = submit.input /\ ~Consume
    BY <1>0, <2>3 DEF SendOrder, Consume, TypeOK, SubmitState
  <2>4. submit' # NoSubmission /\ ~Consume
    BY DEF NoSubmission, Consume
  <2> QED
    BY <2>1, <2>2, <2>3, <2>4, SubmitSteps
<1>2. submit'.pc = "idle" => ~submit'.began
  <2>1. ASSUME NEW c \in Coins, SendOrder(c) PROVE submit'.pc = "sending"
    BY <1>0, <2>1 DEF SendOrder, TypeOK, SubmitState
  <2> QED
    BY <1>0, <2>1, SubmitSteps DEF InputInv, NoSubmission, Submit
<1>3. ASSUME NEW i \in Inputs
      PROVE  /\ sends'[i] <= cuts'[i] + 1
             /\ lease'[i].status # "consumed" /\ ~Underway(i)' => sends'[i] <= cuts'[i]
  <2>0. /\ sends[i] \in Nat /\ cuts[i] \in Nat
        /\ sends[i] <= cuts[i] + 1
        /\ lease[i].status # "consumed" /\ ~Underway(i) => sends[i] <= cuts[i]
    BY <1>0 DEF TypeOK, InputInv
  <2>1. ASSUME UNCHANGED <<submit, sends, cuts>>
        PROVE  /\ sends'[i] <= cuts'[i] + 1
               /\ lease'[i].status # "consumed" /\ ~Underway(i)' => sends'[i] <= cuts'[i]
    <3>1. lease[i].status = "consumed" => lease'[i].status = "consumed"
      BY LeaseSteps
    <3>2. Underway(i)' <=> Underway(i)
      BY <2>1 DEF Underway
    <3> QED
      BY <2>0, <2>1, <3>1, <3>2
  <2>2. ASSUME NEW j \in Inputs, Submit(j)
        PROVE  /\ sends'[i] <= cuts'[i] + 1
               /\ lease'[i].status # "consumed" /\ ~Underway(i)' => sends'[i] <= cuts'[i]
    <3>1. /\ lease' = lease /\ sends' = sends /\ cuts' = cuts /\ ~Underway(i)
      BY <2>2 DEF Submit, Underway
    <3> QED
      BY <2>0, <3>1
  <2>3. ASSUME NEW c \in Coins, SendOrder(c)
        PROVE  /\ sends'[i] <= cuts'[i] + 1
               /\ lease'[i].status # "consumed" /\ ~Underway(i)' => sends'[i] <= cuts'[i]
    <3>1. /\ lease' = lease /\ cuts' = cuts /\ submit.pc = "sending"
          /\ submit.input \in Inputs /\ lease[submit.input].status = "issued"
          /\ submit'.began /\ submit'.input = submit.input /\ submit'.pc = "sending"
      BY <1>0, <2>3 DEF SendOrder, TypeOK, InputInv, SubmitState
    <3>2. CASE i # submit.input
      BY <1>0, <2>0, <2>3, <3>1, <3>2 DEF SendOrder, TypeOK, Underway
    <3>3. CASE i = submit.input
      <4>1. Underway(i)'
        BY <3>1, <3>3 DEF Underway
      <4>2. sends'[i] = IF submit.began THEN sends[i] ELSE sends[i] + 1
        BY <1>0, <2>3, <3>3 DEF SendOrder, TypeOK
      <4>3. ~submit.began => sends[i] <= cuts[i]
        BY <2>0, <3>1, <3>3 DEF Underway
      <4> QED
        BY <2>0, <3>1, <4>1, <4>2, <4>3
    <3> QED
      BY <3>2, <3>3
  <2>4. CASE Consume
    <3>1. /\ sends' = sends /\ cuts' = cuts /\ submit.input \in Inputs
          /\ lease'[submit.input].status = "consumed"
          /\ i # submit.input => lease'[i] = lease[i] /\ ~Underway(i)
      BY <1>0, <2>4 DEF Consume, TypeOK, LeaseState, Underway
    <3> QED
      BY <2>0, <3>1
  <2>5. ASSUME CutOff, UNCHANGED <<sends, lease>>
        PROVE  /\ sends'[i] <= cuts'[i] + 1
               /\ lease'[i].status # "consumed" /\ ~Underway(i)' => sends'[i] <= cuts'[i]
    <3>1. CASE submit.began /\ i = submit.input
      <4>1. cuts'[i] = cuts[i] + 1
        BY <1>0, <2>5, <3>1 DEF CutOff, TypeOK
      <4> QED
        BY <2>0, <2>5, <4>1
    <3>2. CASE ~(submit.began /\ i = submit.input)
      <4>1. cuts'[i] = cuts[i] /\ ~Underway(i)
        BY <1>0, <2>5, <3>2 DEF CutOff, TypeOK, Underway
      <4> QED
        BY <2>0, <2>5, <4>1
    <3> QED
      BY <3>1, <3>2
  <2> QED
    BY <2>1, <2>2, <2>3, <2>4, <2>5
    DEF Next, ReaderStep, LockStep, ScheduledRefresh, PullOther, PullRefreshing,
        PullCached, ReadStrategy, ReadRisk, FinishRefresh, FinishDirect, RefreshFails,
        SubmissionFails, Restart, Age, Expire, vars
<1> QED
  BY <1>1, <1>2, <1>3, NextReadersInv DEF InputInv

-----------------------------------------------------------------------------
(* The theorems.                                                           *)

LEMMA InitIInv == Init => IInv
<1> SUFFICES ASSUME Init PROVE IInv
  OBVIOUS
<1>1. seen <= strategy
  BY DEF Init, LockInit
<1>2. \A t \in Threads : ReaderInv(reader[t])
  BY IdleReaderInv DEF Init
<1>3. PolicyInv
  BY DEF Init, PolicyInv, NoStricter, NoSnapshot, AllUnlocked, NoSubmission
<1>4. InputInv
  BY LeaseAssumption DEF Init, InputInv, IdleReader, NoSubmission
<1> QED
  BY <1>1, <1>2, <1>3, <1>4, InitType DEF IInv

\* The inductive invariant holds throughout.
THEOREM Invariance == Spec => []IInv
<1>1. IInv /\ [Next]_vars => IInv'
  BY NextType, NextReaderInv, NextPolicyInv, NextInputInv DEF IInv
<1> QED
  BY <1>1, InitIInv, PTL DEF Spec

\* Every variable keeps its type.
THEOREM TypeCorrect == Spec => []TypeOK
  BY Invariance, PTL DEF IInv

\* No order goes out that every lock in force during the reading of its
\* snapshot forbade.
THEOREM OrdersAllowed == Spec => []OrdersAllowedWhenRead
<1>1. IInv => OrdersAllowedWhenRead
  <2> SUFFICES ASSUME IInv, submit.pc = "sending", NEW c \in Coins,
                      submit.orders[c] # "none"
               PROVE  submit.orders[c] \in Allowed(lease[submit.input].snap.laxest[c])
    BY DEF OrdersAllowedWhenRead
  <2> DEFINE s == lease[submit.input].snap
  <2>1. submit.input \in Inputs /\ s \in Snapshot
    BY DEF IInv, TypeOK, LeaseState
  <2>2. /\ s.policy[c] \in LockMode /\ s.laxest[c] \in LockMode
        /\ s.laxest[c] <= s.policy[c]
        /\ submit.orders[c] \in Allowed(s.policy[c])
    BY <2>1 DEF IInv, PolicyInv, NoStricter, Snapshot, Modes
  <2> QED
    BY <2>2, AllowedAntitone
<1> QED
  BY <1>1, Invariance, PTL

\* An input id orders again only behind a cut-off submission.
THEOREM OrdersOncePerInput == Spec => []RepeatedOnlyWhenCut
<1>1. IInv => RepeatedOnlyWhenCut
  BY DEF IInv, InputInv, RepeatedOnlyWhenCut
<1> QED
  BY <1>1, Invariance, PTL
=============================================================================
