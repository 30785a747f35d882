----------------------------- MODULE PolicyRisk -----------------------------
(***************************************************************************)
(* The decision rules of policy_risk/service.py as pure operators: the     *)
(* ranks of risk states and risk locks, which lock is in force on a coin,  *)
(* when a lock lapses, and which decisions authorize_execution lets        *)
(* through.                                                                *)
(*                                                                         *)
(* Risk states and lock modes are the ranks the code compares them by      *)
(* (_STATE_RANK, _LOCK_PRECEDENCE).  A strategy key ("<id>:<revision>") is *)
(* the position of that strategy in the order of publication; 0 stands for *)
(* the empty key, that is, no strategy published yet.                      *)
(***************************************************************************)
EXTENDS Naturals

Normal  == 0
Observe == 1
Reduce  == 2
Exit    == 3
Breaker == 4
Level   == Normal .. Breaker

Unlocked   == 0
ReduceOnly == 1
FlatOnly   == 2
LockMode   == Unlocked .. FlatOnly

MaxRank(x, y) == IF x >= y THEN x ELSE y

NoLock == [mode |-> Unlocked, key |-> 0]

Lock(Keys) == [mode : LockMode, key : Keys]

\* A lock lapses when a strategy exists and is not the one it was set under.
ReleaseLock(lock, key) ==
  IF key # 0 /\ lock.key # key THEN NoLock ELSE lock

\* The stricter of the portfolio lock and the coin's own lock.
CombineLockModes(portfolioMode, positionMode) ==
  MaxRank(portfolioMode, positionMode)

-----------------------------------------------------------------------------
\* Decisions that only ever shrink a position, and those that do not.
RiskReducing == {"reduce", "close"}
RiskAdding   == {"open", "add", "flip"}
Action       == RiskReducing \cup RiskAdding

Allowed(mode) ==
  CASE mode = FlatOnly   -> {"close"}
    [] mode = ReduceOnly -> RiskReducing
    [] OTHER             -> Action

LockViolated(mode, action) == action \notin Allowed(mode)

\* What evaluate() tells authorize_execution about one coin: whether the
\* exchange restricts it or its data is missing (the blockers that stop even a
\* reduction), whether it is tradable at all, and the lock mode in force.
Policy == [hardBlocked : BOOLEAN, tradable : BOOLEAN, mode : LockMode]

\* fits: the order is within the size limit and equity is positive.
Authorized(action, policy, fits) ==
  /\ ~LockViolated(policy.mode, action)
  /\ IF action \in RiskReducing
       THEN ~policy.hardBlocked
       ELSE policy.tradable /\ fits
=============================================================================
