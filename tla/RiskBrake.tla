------------------------------ MODULE RiskBrake ------------------------------
(***************************************************************************)
(* RiskBrakeMonitor (workflow_orchestrator/risk_brake.py): a daemon thread *)
(* that compares the book with its peaks, sends reduce/close orders on its *)
(* own authority when a line is crossed, wakes the agents, and keeps the   *)
(* "risk_brake_state" asset, whose locks restrict what may be traded until *)
(* the PM (portfolio manager) publishes another strategy.                  *)
(*                                                                         *)
(* scan_once is four actions, because between them other threads publish     *)
(* strategies, midnight UTC passes, and the scan can be cut off by an      *)
(* exception (which _loop swallows) or by a restart.  The state is saved   *)
(* once, at the very end.  The book is an input here: ScanPlan takes the   *)
(* open positions as a parameter.                                          *)
(***************************************************************************)
EXTENDS PolicyRisk

CONSTANTS
  Coins,            \* the traded coins
  PortfolioLevels,  \* risk states the portfolio may show at a scan
  CoinLevels,       \* risk states a coin may show at a scan
  MaxRevision,      \* bound: strategies published
  MaxDay,           \* bound: UTC days
  MaxAborts         \* bound: scans cut off

ASSUME LevelsAssumption ==
  /\ Normal \in PortfolioLevels /\ PortfolioLevels \subseteq Normal .. Exit
  /\ Normal \in CoinLevels      /\ CoinLevels \subseteq Level

ASSUME BoundsAssumption ==
  /\ MaxRevision \in Nat
  /\ MaxDay \in Nat \ {0}
  /\ MaxAborts \in Nat

ASSUME CoinsAssumption == "portfolio" \notin Coins

VARIABLES
  brake,      \* the risk_brake_state asset
  scan,       \* the local variables of the scan in progress
  strategy,   \* key of the latest published strategy, 0 if there is none
  day,        \* the current UTC day
  aborts,     \* how many scans were cut off
  sent,       \* history: the lines orders were sent for on `sent.day`
  announced,  \* history: strategy keys a PM trigger event was recorded under
  lockedAt    \* history: the latest strategy when a lock was last saved

vars == <<brake, scan, strategy, day, aborts, sent, announced, lockedAt>>

Key == 0 .. MaxRevision
Day == 1 .. MaxDay

\* A line is what an order batch answers: the portfolio or one coin reaching
\* reduce or exit.
Line == (Coins \cup {"portfolio"}) \X {Reduce, Exit}

BrakeState ==
  [day        : 0 .. MaxDay,           \* portfolio_day_utc, 0 before any scan
   seenKey    : Key,                   \* last_seen_strategy_key
   ladder     : Level,                 \* portfolio_state_ladder_high
   coinLadder : [Coins -> Level],      \* position_state_ladder_high_by_coin
   lock       : Lock(Key),             \* portfolio_lock
   coinLock   : [Coins -> Lock(Key)]]  \* position_locks

Order == {"none", "reduce", "close"}

ScanState ==
  [pc     : {"idle", "planned", "executed", "dispatched"},
   key    : Key,                       \* current_strategy_key
   next   : BrakeState,                \* the state to save at the end
   orders : [Coins -> Order],          \* the accepted orders
   lines  : SUBSET Line,               \* the lines they answer
   alert  : BOOLEAN]                   \* the event reaches reduce

TypeOK ==
  /\ brake \in BrakeState
  /\ scan \in ScanState
  /\ strategy \in Key
  /\ day \in Day
  /\ aborts \in 0 .. MaxAborts
  /\ sent \in [day : 0 .. MaxDay, lines : SUBSET Line, lost : SUBSET Line]
  /\ announced \in SUBSET Key
  /\ lockedAt \in Key

-----------------------------------------------------------------------------
AllNormal == [c \in Coins |-> Normal]

EmptyState ==
  [day |-> 0, seenKey |-> 0, ladder |-> Normal, coinLadder |-> AllNormal,
   lock |-> NoLock, coinLock |-> [c \in Coins |-> NoLock]]

NoOrders == [c \in Coins |-> "none"]

Idle ==
  [pc |-> "idle", key |-> 0, next |-> EmptyState, orders |-> NoOrders,
   lines |-> {}, alert |-> FALSE]

NothingSent(d) == [day |-> d, lines |-> {}, lost |-> {}]

\* A new UTC day forgets the ladders (and the peaks), and keeps the locks.
NormalizeState(state, today) ==
  IF state.day = today THEN state
  ELSE [state EXCEPT !.day = today, !.ladder = Normal, !.coinLadder = AllNormal]

\* Mutant of ReleaseLocksForStrategy: the portfolio lock is never released.
ReleaseCoinLocksOnly(state, key) ==
  [state EXCEPT !.coinLock = [c \in Coins |-> ReleaseLock(@[c], key)]]

ReleaseLocksForStrategy(state, key) ==
  [state EXCEPT
    !.lock     = ReleaseLock(@, key),
    !.coinLock = [c \in Coins |-> ReleaseLock(@[c], key)]]

-----------------------------------------------------------------------------
(* _plan_actions, over what a scan has read, r.                            *)

Reading ==
  [base      : BrakeState,             \* the normalised, released state
   key       : Key,
   portfolio : Level,                  \* risk states found by evaluate()
   coin      : [Coins -> Level],
   held      : SUBSET Coins,           \* open positions
   losing    : SUBSET Coins]           \* those with a negative unrealized PnL

\* The highest line crossed upwards between two risk states: breaker crosses
\* the exit line.
Rise(previous, current) ==
  LET top == IF current > Exit THEN Exit ELSE current
  IN  IF previous < top THEN top ELSE Normal

PortfolioRise(r) == Rise(r.base.ladder, r.portfolio)
CoinRise(r, c)   == Rise(r.base.coinLadder[c], r.coin[c])

\* Mutant of PortfolioScope: any rising portfolio line wins.
PortfolioScopeGreedy(r) == PortfolioRise(r) # Normal

\* The portfolio line wins over the coins' lines of the same rank or lower.
PortfolioScope(r) ==
  /\ PortfolioRise(r) # Normal
  /\ \A c \in Coins : CoinRise(r, c) <= PortfolioRise(r)

\* The action planned for a coin; a portfolio reduce touches only the losers.
PlannedAction(r, c) ==
  IF PortfolioScope(r)
  THEN CASE PortfolioRise(r) = Exit /\ c \in r.held      -> "close"
         [] PortfolioRise(r) = Reduce /\ c \in r.losing  -> "reduce"
         [] OTHER                                        -> "none"
  ELSE CASE CoinRise(r, c) = Exit   -> "close"
         [] CoinRise(r, c) = Reduce -> "reduce"
         [] OTHER                   -> "none"

NewLock(mode, key) == [mode |-> mode, key |-> key]

PlannedPortfolioLock(r) ==
  CASE PortfolioScope(r) /\ PortfolioRise(r) = Exit -> NewLock(FlatOnly, r.key)
    [] PortfolioScope(r) /\ PortfolioRise(r) = Reduce /\ r.losing # {}
         -> NewLock(ReduceOnly, r.key)
    [] OTHER -> r.base.lock

PlannedCoinLock(r, c) ==
  CASE ~PortfolioScope(r) /\ CoinRise(r, c) = Exit   -> NewLock(FlatOnly, r.key)
    [] ~PortfolioScope(r) /\ CoinRise(r, c) = Reduce -> NewLock(ReduceOnly, r.key)
    [] OTHER -> r.base.coinLock[c]

\* Mutant of ReachesReduce: only a portfolio line is announced to the PM.
ReachesReduceAsPortfolio(r) == PortfolioScope(r) /\ PortfolioRise(r) >= Reduce

\* The rank the event is filed under is at least reduce.
ReachesReduce(r) ==
  PortfolioRise(r) >= Reduce \/ \E c \in Coins : CoinRise(r, c) >= Reduce

-----------------------------------------------------------------------------
(* _execute_system_orders and _updated_state_after_scan, over r.           *)

LockModeOn(state, c) == CombineLockModes(state.lock.mode, state.coinLock[c].mode)

ScanPolicy(r, c) ==
  [hardBlocked |-> r.coin[c] = Breaker,
   tradable    |-> r.coin[c] # Breaker,
   mode        |-> LockModeOn(r.base, c)]

\* Coins an order is built for and authorize_execution accepts.  The policies
\* are those of this scan's evaluation, before the locks it is about to set.
AcceptedOrders(r) ==
  {c \in r.held : /\ PlannedAction(r, c) # "none"
                  /\ Authorized(PlannedAction(r, c), ScanPolicy(r, c), TRUE)}

OrderLines(r) ==
  IF PortfolioScope(r)
  THEN {l \in {<<"portfolio", PortfolioRise(r)>>} : AcceptedOrders(r) # {}}
  ELSE {<<c, CoinRise(r, c)>> : c \in AcceptedOrders(r)}

\* Mutant of UpdatedState: the strategy seen is never written down.
UpdatedStateKeyForgotten(r) ==
  ReleaseLocksForStrategy(
    [r.base EXCEPT
      !.ladder     = MaxRank(@, r.portfolio),
      !.coinLadder = [c \in Coins |-> MaxRank(@[c], r.coin[c])],
      !.lock       = PlannedPortfolioLock(r),
      !.coinLock   = [c \in Coins |-> PlannedCoinLock(r, c)]],
    r.key)

\* Mutant of UpdatedState: the last state is kept instead of the day's worst.
UpdatedStateNoRatchet(r) ==
  ReleaseLocksForStrategy(
    [r.base EXCEPT
      !.seenKey    = r.key,
      !.ladder     = r.portfolio,
      !.coinLadder = r.coin,
      !.lock       = PlannedPortfolioLock(r),
      !.coinLock   = [c \in Coins |-> PlannedCoinLock(r, c)]],
    r.key)

UpdatedState(r) ==
  ReleaseLocksForStrategy(
    [r.base EXCEPT
      !.seenKey    = r.key,
      !.ladder     = MaxRank(@, r.portfolio),
      !.coinLadder = [c \in Coins |-> MaxRank(@[c], r.coin[c])],
      !.lock       = PlannedPortfolioLock(r),
      !.coinLock   = [c \in Coins |-> PlannedCoinLock(r, c)]],
    r.key)

-----------------------------------------------------------------------------
Init ==
  /\ brake = EmptyState
  /\ scan = Idle
  /\ strategy = 0
  /\ day = 1
  /\ aborts = 0
  /\ sent = NothingSent(0)
  /\ announced = {}
  /\ lockedAt = 0

\* What a scan can read now, given the open positions.  The portfolio is at
\* its peak until a scan of the day has saved one; a coin without a position
\* has no drawdown, so it is not at exit.
ReadableNow(held) ==
  {r \in [base      : {ReleaseLocksForStrategy(NormalizeState(brake, day), strategy)},
          key       : {strategy},
          portfolio : PortfolioLevels,
          coin      : [Coins -> CoinLevels],
          held      : {held},
          losing    : SUBSET held] :
     /\ brake.day # day => r.portfolio = Normal
     /\ \A c \in Coins \ held : r.coin[c] # Exit}

\* Load and normalise the stored state, read the latest strategy, drop the
\* locks set under another one, read and evaluate the market, and plan.
ScanPlan(held) ==
  /\ scan.pc = "idle"
  /\ \E r \in ReadableNow(held) :
       scan' = [pc     |-> "planned",
                key    |-> r.key,
                next   |-> UpdatedState(r),
                orders |-> [c \in Coins |-> IF c \in AcceptedOrders(r)
                                             THEN PlannedAction(r, c) ELSE "none"],
                lines  |-> OrderLines(r),
                alert  |-> ReachesReduce(r)]
  /\ sent' = IF sent.day = day THEN sent ELSE NothingSent(day)
  /\ UNCHANGED <<brake, strategy, day, aborts, announced, lockedAt>>

\* Send the accepted orders.  Nothing in the scan looks at the results.
ScanExecute ==
  /\ scan.pc = "planned"
  /\ sent' = [sent EXCEPT !.lines = @ \cup scan.lines]
  /\ scan' = [scan EXCEPT !.pc = "executed", !.orders = NoOrders]
  /\ UNCHANGED <<brake, strategy, day, aborts, announced, lockedAt>>

\* Wake RT or PM and record the event.  From reduce upwards a PM trigger
\* event is recorded whether or not the PM could be reached.
ScanDispatch ==
  /\ scan.pc = "executed"
  /\ announced' = IF scan.alert
                    THEN announced \cup {scan.key}
                    ELSE announced
  /\ scan' = [scan EXCEPT !.pc = "dispatched", !.alert = FALSE]
  /\ UNCHANGED <<brake, strategy, day, aborts, sent, lockedAt>>

ScanSave ==
  /\ scan.pc = "dispatched"
  /\ brake' = scan.next
  /\ sent' = [sent EXCEPT !.lost = @ \ scan.lines]
  /\ lockedAt' = IF scan.next.lock # brake.lock \/ scan.next.coinLock # brake.coinLock
                   THEN strategy ELSE lockedAt
  /\ scan' = Idle
  /\ UNCHANGED <<strategy, day, aborts, announced>>

\* An exception out of any call of the scan, or a restart: the local
\* variables are gone, what was sent or recorded stays.
ScanAbort ==
  /\ scan.pc # "idle"
  /\ aborts < MaxAborts
  /\ aborts' = aborts + 1
  /\ sent' = IF scan.pc = "planned" THEN sent
             ELSE [sent EXCEPT !.lost = @ \cup scan.lines]
  /\ scan' = Idle
  /\ UNCHANGED <<brake, strategy, day, announced, lockedAt>>

\* The PM publishes a strategy: a new id and revision, hence a new key.
SubmitStrategy ==
  /\ strategy < MaxRevision
  /\ strategy' = strategy + 1
  /\ UNCHANGED <<brake, scan, day, aborts, sent, announced, lockedAt>>

Midnight ==
  /\ day < MaxDay
  /\ day' = day + 1
  /\ UNCHANGED <<brake, scan, strategy, aborts, sent, announced, lockedAt>>

Next ==
  \/ \E held \in SUBSET Coins : ScanPlan(held)
  \/ ScanExecute
  \/ ScanDispatch
  \/ ScanSave
  \/ ScanAbort
  \/ SubmitStrategy
  \/ Midnight

Spec == Init /\ [][Next]_vars

\* The thread loops for as long as the process runs, and an exception only
\* costs it the scan at hand.
FairSpec ==
  /\ Spec
  /\ WF_vars(\E held \in SUBSET Coins : ScanPlan(held))
  /\ WF_vars(ScanExecute)
  /\ WF_vars(ScanDispatch)
  /\ WF_vars(ScanSave)

-----------------------------------------------------------------------------
(* Properties.                                                             *)

\* From one saved state to the next, a coin under a lock stays under one
\* unless a later strategy was seen.
KeepsLocks(old, new) ==
  \A c \in Coins :
    LockModeOn(old, c) # Unlocked /\ LockModeOn(new, c) = Unlocked
      => new.seenKey > old.seenKey

\* A coin that is under a lock stays under one, whatever scans, midnights and
\* failures follow, until a scan has seen a later strategy.  (FR-009: locks
\* have no timeout, only a new PM revision releases them.)
LockedUntilRevision == [][KeepsLocks(brake, brake')]_vars

\* A line orders were sent for is not acted on again the same day, except by
\* a scan that follows one cut off after it had sent them.
NoRepeatedOrders ==
  scan.pc = "planned" => scan.lines \cap sent.lines \subseteq sent.lost

\* A lock never stands without a PM trigger event recorded under its key: were
\* the state saved before the event, a crash in between would leave a locked
\* book and nobody asked to revise the strategy.
LockAnnounced ==
  /\ brake.lock.mode # Unlocked => brake.lock.key \in announced
  /\ \A c \in Coins :
       brake.coinLock[c].mode # Unlocked => brake.coinLock[c].key \in announced

\* From one saved state to the next, what newly reaches exit is under flat_only.
LocksExits(old, new) ==
  LET before == NormalizeState(old, new.day) IN
  /\ before.ladder < Exit /\ new.ladder >= Exit => new.lock.mode = FlatOnly
  /\ \A c \in Coins :
       before.coinLadder[c] < Exit /\ new.coinLadder[c] >= Exit
         => LockModeOn(new, c) = FlatOnly

\* When a saved ladder reaches exit, for the portfolio or for a coin, whichever
\* of several simultaneous lines won, flat_only is in force there from the same
\* save on.
ExitLocks == [][LocksExits(brake, brake')]_vars

\* A lock set under a superseded strategy does not stay for ever.  (Scenario 2,
\* criterion 2: a new revision releases the locks.)
StaleLockReleased ==
  \A k \in Key :
    brake.lock = NewLock(FlatOnly, k) /\ strategy > k ~> brake.lock # NewLock(FlatOnly, k)

\* What readers of the stored state rely on: a lock that stands was set or
\* kept under the strategy the state says it has seen last.
LocksUnderSeenKey ==
  /\ brake.lock.mode # Unlocked => brake.lock.key = brake.seenKey
  /\ \A c \in Coins :
       brake.coinLock[c].mode # Unlocked => brake.coinLock[c].key = brake.seenKey

Promise ==
  INSTANCE RiskLock WITH mode <- [c \in Coins |-> LockModeOn(brake, c)],
                         seen <- brake.seenKey

\* The scans, ladders, midnights and failures together do no more to the locks
\* than the promise allows.
KeepsPromise == Promise!LockSpec

-----------------------------------------------------------------------------
(* What specs/008-risk-peak-brakes/spec.md says and the code does not do.  *)

\* NFR-002: brake actions are idempotent, one rising edge never orders twice.
OneOrderPerEdge ==
  scan.pc = "planned" => scan.lines \cap sent.lines = {}

\* Scenario 2, criterion 1: flat_only stays in force until a new revision.
FlatOnlyUntilRevision ==
  [][\A c \in Coins :
       LockModeOn(brake, c) = FlatOnly /\ LockModeOn(brake', c) # FlatOnly
         => brake'.seenKey > brake.seenKey]_vars

\* Scenario 2: the strategy that releases a lock is one the PM submitted after,
\* and in view of, the brake's action.
ReleaseKnowsTheBrake ==
  [][brake.lock.mode # Unlocked /\ brake'.lock.mode = Unlocked
       => brake'.seenKey > lockedAt]_vars
=============================================================================
