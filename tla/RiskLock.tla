------------------------------ MODULE RiskLock ------------------------------
(***************************************************************************)
(* What the risk brake promises about its locks to the rest of the system, *)
(* with its scans, ladders and peaks left out: every coin is under a lock  *)
(* mode, the modes may change at any time and may tighten or weaken, but   *)
(* a coin comes out of its lock only together with a strategy the brake    *)
(* had not seen before.  RiskBrake implements this specification, and      *)
(* ExecutionLease is checked against it.                                   *)
(***************************************************************************)
EXTENDS PolicyRisk

CONSTANTS
  Coins,        \* the traded coins
  MaxRevision   \* bound: strategies published

VARIABLES
  mode,      \* the stricter of the portfolio's and the coin's lock, as stored
  seen,      \* the strategy key the stored locks were set or kept under
  strategy   \* key of the latest published strategy, 0 if there is none

lockVars == <<mode, seen, strategy>>

Key == 0 .. MaxRevision

LockTypeOK ==
  /\ mode \in [Coins -> LockMode]
  /\ seen \in Key
  /\ strategy \in Key

LockInit ==
  /\ mode = [c \in Coins |-> Unlocked]
  /\ seen = 0
  /\ strategy = 0

Publish ==
  /\ strategy < MaxRevision
  /\ strategy' = strategy + 1
  /\ UNCHANGED <<mode, seen>>

SetLocks ==
  /\ mode' \in [Coins -> LockMode]
  /\ seen' \in seen .. strategy
  /\ \A c \in Coins : mode[c] # Unlocked /\ mode'[c] = Unlocked => seen' > seen
  /\ UNCHANGED strategy

LockNext == Publish \/ SetLocks

LockSpec == LockInit /\ [][LockNext]_lockVars
=============================================================================
