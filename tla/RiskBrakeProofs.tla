--------------------------- MODULE RiskBrakeProofs ---------------------------
(***************************************************************************)
(* Proofs about RiskBrake for every set of coins, every set of levels and  *)
(* every bound.  Everything follows from one inductive invariant, IInv,    *)
(* which says what the stored state and the state a scan is about to save  *)
(* have to do with each other and with the orders already sent.            *)
(***************************************************************************)
EXTENDS RiskBrake, TLAPS

USE DEF Normal, Observe, Reduce, Exit, Breaker, Unlocked, ReduceOnly, FlatOnly

-----------------------------------------------------------------------------
(* Types of the operators a scan is built from.                            *)

\* Whatever a scan reads has the type the planning operators are written for.
LEMMA ReadingType ==
  ASSUME TypeOK, NEW held \in SUBSET Coins, NEW r \in ReadableNow(held)
  PROVE  /\ r \in Reading
         /\ r.base = ReleaseLocksForStrategy(NormalizeState(brake, day), strategy)
         /\ r.base \in BrakeState
         /\ r.key = strategy
         /\ r.portfolio \in PortfolioLevels
         /\ r.coin \in [Coins -> CoinLevels]
         /\ r.held = held
         /\ r.losing \in SUBSET held
<1>1. NormalizeState(brake, day) \in BrakeState
  <2>1. day \in 0 .. MaxDay /\ AllNormal \in [Coins -> Level] /\ Normal \in Level
    BY BoundsAssumption DEF TypeOK, Day, AllNormal, Level
  <2> QED
    BY <2>1 DEF TypeOK, BrakeState, NormalizeState
<1>2. ASSUME NEW s \in BrakeState, NEW k \in Key
      PROVE  ReleaseLocksForStrategy(s, k) \in BrakeState
  <2>1. ASSUME NEW l \in Lock(Key) PROVE ReleaseLock(l, k) \in Lock(Key)
    BY BoundsAssumption DEF ReleaseLock, Lock, NoLock, LockMode, Key
  <2>2. /\ ReleaseLock(s.lock, k) \in Lock(Key)
        /\ [c \in Coins |-> ReleaseLock(s.coinLock[c], k)] \in [Coins -> Lock(Key)]
    BY <2>1 DEF BrakeState
  <2> QED
    BY <2>2 DEF BrakeState, ReleaseLocksForStrategy
<1>3. ReleaseLocksForStrategy(NormalizeState(brake, day), strategy) \in BrakeState
  BY <1>1, <1>2 DEF TypeOK
<1>4. /\ r.base = ReleaseLocksForStrategy(NormalizeState(brake, day), strategy)
      /\ r.key = strategy
      /\ r.portfolio \in PortfolioLevels
      /\ r.coin \in [Coins -> CoinLevels]
      /\ r.held = held
      /\ r.losing \in SUBSET held
      /\ r = [base |-> r.base, key |-> r.key, portfolio |-> r.portfolio,
              coin |-> r.coin, held |-> r.held, losing |-> r.losing]
  BY DEF ReadableNow
<1>5. r.portfolio \in Level /\ r.coin \in [Coins -> Level] /\ r.losing \in SUBSET Coins
  BY <1>4, LevelsAssumption DEF Level
<1>6. r.base \in BrakeState /\ r.key \in Key
  BY <1>3, <1>4 DEF TypeOK
<1> QED
  BY <1>4, <1>5, <1>6 DEF Reading

\* The state a scan starts from, field by field.
LEMMA BaseFields ==
  ASSUME TypeOK, NEW held \in SUBSET Coins, NEW r \in ReadableNow(held)
  PROVE  /\ r.base.day = day
         /\ r.base.ladder = IF brake.day = day THEN brake.ladder ELSE Normal
         /\ \A c \in Coins :
              r.base.coinLadder[c] = IF brake.day = day THEN brake.coinLadder[c] ELSE Normal
         /\ r.base.lock = ReleaseLock(brake.lock, strategy)
         /\ \A c \in Coins : r.base.coinLock[c] = ReleaseLock(brake.coinLock[c], strategy)
<1> DEFINE n == NormalizeState(brake, day)
<1>1. /\ n \in BrakeState /\ n.day = day
      /\ n.lock = brake.lock /\ n.coinLock = brake.coinLock
      /\ n.ladder = IF brake.day = day THEN brake.ladder ELSE Normal
      /\ n.coinLadder = IF brake.day = day THEN brake.coinLadder ELSE AllNormal
  <2>1. day \in 0 .. MaxDay /\ AllNormal \in [Coins -> Level] /\ Normal \in Level
    BY BoundsAssumption DEF TypeOK, Day, AllNormal, Level
  <2> QED
    BY <2>1 DEF TypeOK, BrakeState, NormalizeState
<1> HIDE DEF n
<1>2. r.base = [n EXCEPT !.lock = ReleaseLock(@, strategy),
                         !.coinLock = [c \in Coins |-> ReleaseLock(@[c], strategy)]]
  BY ReadingType DEF ReleaseLocksForStrategy, n
<1>3. /\ r.base.day = n.day /\ r.base.ladder = n.ladder
      /\ r.base.coinLadder = n.coinLadder
      /\ r.base.lock = ReleaseLock(n.lock, strategy)
      /\ r.base.coinLock = [c \in Coins |-> ReleaseLock(n.coinLock[c], strategy)]
  BY <1>1, <1>2 DEF BrakeState
<1> QED
  BY <1>1, <1>3 DEF AllNormal

\* The last release of a scan finds nothing to release: the locks that were
\* kept were kept under this key, and the new ones carry it.
LEMMA UpdatedStateFields ==
  ASSUME TypeOK, NEW held \in SUBSET Coins, NEW r \in ReadableNow(held)
  PROVE  /\ UpdatedState(r) \in BrakeState
         /\ UpdatedState(r).day = day
         /\ UpdatedState(r).seenKey = strategy
         /\ UpdatedState(r).ladder = MaxRank(r.base.ladder, r.portfolio)
         /\ \A c \in Coins :
              UpdatedState(r).coinLadder[c] = MaxRank(r.base.coinLadder[c], r.coin[c])
         /\ UpdatedState(r).lock = PlannedPortfolioLock(r)
         /\ \A c \in Coins : UpdatedState(r).coinLock[c] = PlannedCoinLock(r, c)
<1> DEFINE base == r.base
           raw  == [base EXCEPT
                     !.seenKey    = r.key,
                     !.ladder     = MaxRank(@, r.portfolio),
                     !.coinLadder = [c \in Coins |-> MaxRank(@[c], r.coin[c])],
                     !.lock       = PlannedPortfolioLock(r),
                     !.coinLock   = [c \in Coins |-> PlannedCoinLock(r, c)]]
<1>1. /\ base \in BrakeState /\ base.day = day /\ r.key = strategy /\ strategy \in Key
      /\ r.portfolio \in Level /\ r.coin \in [Coins -> Level]
  BY ReadingType, BaseFields DEF Reading, TypeOK
<1>2. ASSUME NEW x \in Level, NEW y \in Level PROVE MaxRank(x, y) \in Level
  BY <1>2 DEF MaxRank, Level
<1>3. ASSUME NEW mode \in LockMode PROVE NewLock(mode, r.key) \in Lock(Key)
  BY <1>1, <1>3 DEF NewLock, Lock
<1>4. /\ PlannedPortfolioLock(r) \in Lock(Key)
      /\ \A c \in Coins : PlannedCoinLock(r, c) \in Lock(Key)
  BY <1>1, <1>3 DEF PlannedPortfolioLock, PlannedCoinLock, BrakeState, LockMode
<1>5. /\ ReleaseLock(PlannedPortfolioLock(r), r.key) = PlannedPortfolioLock(r)
      /\ \A c \in Coins : ReleaseLock(PlannedCoinLock(r, c), r.key) = PlannedCoinLock(r, c)
  <2>1. ReleaseLock(NewLock(FlatOnly, r.key), r.key) = NewLock(FlatOnly, r.key)
    BY DEF ReleaseLock, NewLock
  <2>2. ReleaseLock(NewLock(ReduceOnly, r.key), r.key) = NewLock(ReduceOnly, r.key)
    BY DEF ReleaseLock, NewLock
  <2>3. ASSUME NEW l PROVE ReleaseLock(ReleaseLock(l, r.key), r.key) = ReleaseLock(l, r.key)
    BY DEF ReleaseLock, NoLock
  <2>4. /\ base.lock = ReleaseLock(brake.lock, r.key)
        /\ \A c \in Coins : base.coinLock[c] = ReleaseLock(brake.coinLock[c], r.key)
    BY <1>1, BaseFields
  <2>5. /\ ReleaseLock(base.lock, r.key) = base.lock
        /\ \A c \in Coins : ReleaseLock(base.coinLock[c], r.key) = base.coinLock[c]
    BY <2>3, <2>4
  <2> QED
    BY <2>1, <2>2, <2>5 DEF PlannedPortfolioLock, PlannedCoinLock
<1>6. /\ raw.day = day /\ raw.seenKey = r.key
      /\ raw.ladder = MaxRank(base.ladder, r.portfolio)
      /\ raw.coinLadder = [c \in Coins |-> MaxRank(base.coinLadder[c], r.coin[c])]
      /\ raw.lock = PlannedPortfolioLock(r)
      /\ raw.coinLock = [c \in Coins |-> PlannedCoinLock(r, c)]
      /\ raw \in BrakeState
  BY <1>1, <1>2, <1>4 DEF BrakeState
<1>7. UpdatedState(r) = ReleaseLocksForStrategy(raw, r.key)
  BY DEF UpdatedState
<1> HIDE DEF raw
<1>8. UpdatedState(r) = [raw EXCEPT !.lock = ReleaseLock(@, r.key),
                           !.coinLock = [c \in Coins |-> ReleaseLock(@[c], r.key)]]
  BY <1>7 DEF ReleaseLocksForStrategy
<1>9. [c \in Coins |-> ReleaseLock(raw.coinLock[c], r.key)] = raw.coinLock
  BY <1>5, <1>6
<1>10. UpdatedState(r) = raw
  <2>1. UpdatedState(r) = [raw EXCEPT !.lock = raw.lock, !.coinLock = raw.coinLock]
    BY <1>5, <1>6, <1>8, <1>9
  <2> QED
    BY <1>6, <2>1 DEF BrakeState
<1> QED
  BY <1>1, <1>6, <1>10

-----------------------------------------------------------------------------
(* The inductive invariant.                                                *)

Active == scan.pc # "idle"

Locked(state) ==
  state.lock.mode # Unlocked \/ \E c \in Coins : state.coinLock[c].mode # Unlocked

\* A lock in force carries the key of the strategy last seen.
LocksKeyed(state) ==
  /\ state.lock.mode # Unlocked => state.lock.key = state.seenKey
  /\ \A c \in Coins :
       state.coinLock[c].mode # Unlocked => state.coinLock[c].key = state.seenKey

KeysInv ==
  /\ brake.seenKey <= strategy
  /\ LocksKeyed(brake)
  /\ Active => /\ scan.next.seenKey = scan.key
               /\ brake.seenKey <= scan.key
               /\ scan.key <= strategy
               /\ LocksKeyed(scan.next)

\* The state about to be saved keeps what the saved one promises.
StepInv ==
  Active => KeepsLocks(brake, scan.next) /\ LocksExits(brake, scan.next)

AnnouncedInv ==
  /\ Locked(brake) => brake.seenKey \in announced
  /\ Active /\ Locked(scan.next) => scan.alert \/ scan.key \in announced
  /\ scan.pc = "dispatched" => ~scan.alert

LadderOf(state, x) == IF x = "portfolio" THEN state.ladder ELSE state.coinLadder[x]

\* The state has these lines of today behind it.
Remembers(state, lines) ==
  \A l \in lines : state.day = sent.day /\ LadderOf(state, l[1]) >= l[2]

\* Lines of the scan in progress that orders went out for.
InFlight == IF scan.pc \in {"executed", "dispatched"} THEN scan.lines ELSE {}

LinesInv ==
  /\ Remembers(brake, (sent.lines \ sent.lost) \ InFlight)
  /\ Active => /\ scan.next.day = sent.day
               /\ Remembers(scan.next, (sent.lines \ sent.lost) \cup scan.lines)
  /\ scan.pc = "planned" =>
       \A l \in scan.lines : brake.day = sent.day => LadderOf(brake, l[1]) < l[2]

IInv == TypeOK /\ KeysInv /\ StepInv /\ AnnouncedInv /\ LinesInv

LEMMA InitIInv == Init => IInv
<1> SUFFICES ASSUME Init PROVE IInv
  OBVIOUS
<1>1. EmptyState \in BrakeState
  BY BoundsAssumption
  DEF EmptyState, BrakeState, AllNormal, Level, NoLock, Lock, LockMode, Key
<1>2. scan \in ScanState
  <2>1. NoOrders \in [Coins -> Order] /\ 0 \in Key
    BY BoundsAssumption DEF NoOrders, Order, Key
  <2> QED
    BY <1>1, <2>1 DEF Init, Idle, ScanState
<1>3. TypeOK
  BY <1>1, <1>2, BoundsAssumption DEF Init, TypeOK, NothingSent, Key, Day
<1>4. KeysInv
  BY DEF Init, KeysInv, Active, Idle, LocksKeyed, EmptyState, NoLock
<1>5. AnnouncedInv
  BY DEF Init, AnnouncedInv, Active, Idle, Locked, EmptyState, NoLock
<1>6. StepInv /\ LinesInv
  BY DEF Init, StepInv, LinesInv, Active, Idle, Remembers, NothingSent, InFlight
<1> QED
  BY <1>3, <1>4, <1>5, <1>6 DEF IInv

-----------------------------------------------------------------------------
(* What the plan of a scan guarantees.                                     *)

\* The locks kept or set by a scan are keyed by the strategy it has seen.
LEMMA PlanKeys ==
  ASSUME TypeOK, KeysInv, NEW held \in SUBSET Coins, NEW r \in ReadableNow(held)
  PROVE  LocksKeyed(UpdatedState(r))
<1>1. ASSUME NEW l \in Lock(Key), l.mode # Unlocked => l.key = brake.seenKey
      PROVE  LET k == ReleaseLock(l, strategy)
             IN  k.mode # Unlocked => k.key = strategy
  BY <1>1 DEF ReleaseLock, NoLock, KeysInv, TypeOK, Key, Lock
<1>2. ASSUME NEW mode PROVE NewLock(mode, r.key).key = strategy
  BY ReadingType DEF NewLock
<1>3. /\ r.base.lock.mode # Unlocked => r.base.lock.key = strategy
      /\ \A c \in Coins :
           r.base.coinLock[c].mode # Unlocked => r.base.coinLock[c].key = strategy
  BY <1>1, BaseFields DEF KeysInv, LocksKeyed, TypeOK, BrakeState
<1>4. /\ PlannedPortfolioLock(r).mode # Unlocked => PlannedPortfolioLock(r).key = strategy
      /\ \A c \in Coins :
           PlannedCoinLock(r, c).mode # Unlocked => PlannedCoinLock(r, c).key = strategy
  BY <1>2, <1>3 DEF PlannedPortfolioLock, PlannedCoinLock
<1> QED
  BY <1>4, UpdatedStateFields DEF LocksKeyed

\* A scan unlocks a coin only when the strategy has changed.
LEMMA PlanKeeps ==
  ASSUME TypeOK, KeysInv, NEW held \in SUBSET Coins, NEW r \in ReadableNow(held)
  PROVE  KeepsLocks(brake, UpdatedState(r))
<1> SUFFICES ASSUME NEW c \in Coins,
                    LockModeOn(brake, c) # Unlocked,
                    LockModeOn(UpdatedState(r), c) = Unlocked
             PROVE  strategy > brake.seenKey
  BY UpdatedStateFields DEF KeepsLocks
<1>1. /\ brake.lock \in Lock(Key) /\ brake.coinLock[c] \in Lock(Key)
      /\ brake.seenKey \in Key /\ strategy \in Key
  BY DEF TypeOK, BrakeState
<1>2. brake.lock.mode # Unlocked \/ brake.coinLock[c].mode # Unlocked
  BY <1>1 DEF LockModeOn, CombineLockModes, MaxRank
<1>3. /\ PlannedPortfolioLock(r).mode = Unlocked
      /\ PlannedCoinLock(r, c).mode = Unlocked
  <2>1. /\ UpdatedState(r).lock.mode \in LockMode
        /\ UpdatedState(r).coinLock[c].mode \in LockMode
    BY UpdatedStateFields DEF BrakeState, Lock
  <2> QED
    BY <2>1, UpdatedStateFields DEF LockModeOn, CombineLockModes, MaxRank, LockMode
<1>4. r.base.lock.mode = Unlocked /\ r.base.coinLock[c].mode = Unlocked
  BY <1>3 DEF PlannedPortfolioLock, PlannedCoinLock, NewLock
<1>5. strategy # brake.seenKey
  BY <1>1, <1>2, <1>4, BaseFields DEF ReleaseLock, KeysInv, LocksKeyed
<1> QED
  BY <1>1, <1>5 DEF KeysInv, Key

\* What a scan finds newly at exit it puts under flat_only.
LEMMA PlanLocksExits ==
  ASSUME TypeOK, NEW held \in SUBSET Coins, NEW r \in ReadableNow(held)
  PROVE  LocksExits(brake, UpdatedState(r))
<1> DEFINE u == UpdatedState(r)
           before == NormalizeState(brake, u.day)
<1>1. /\ before.ladder = r.base.ladder
      /\ \A c \in Coins : before.coinLadder[c] = r.base.coinLadder[c]
  BY UpdatedStateFields, BaseFields
  DEF NormalizeState, TypeOK, BrakeState, AllNormal
<1>2. /\ r.base \in BrakeState /\ r.portfolio \in Normal .. Exit
      /\ r.coin \in [Coins -> Level]
  <2>1. /\ r.base \in BrakeState /\ r.portfolio \in PortfolioLevels
        /\ r.coin \in [Coins -> CoinLevels]
    BY ReadingType
  <2> QED
    BY <2>1, LevelsAssumption
<1> DEFINE flat == NewLock(FlatOnly, r.key)
<1>3. flat.mode = FlatOnly
  BY DEF NewLock
<1>4. /\ u.lock = PlannedPortfolioLock(r)
      /\ \A c \in Coins : u.coinLock[c] = PlannedCoinLock(r, c)
  BY UpdatedStateFields
<1>5. \A c \in Coins : CoinRise(r, c) \in Normal .. Exit
  BY <1>2 DEF CoinRise, Rise, BrakeState, Level
<1>6. ASSUME r.base.ladder < Exit, u.ladder >= Exit PROVE u.lock.mode = FlatOnly
  <2>1. PortfolioRise(r) = Exit
    BY <1>2, <1>6, UpdatedStateFields
    DEF PortfolioRise, Rise, MaxRank, BrakeState, Level
  <2>2. PortfolioScope(r)
    BY <1>5, <2>1 DEF PortfolioScope
  <2>3. PlannedPortfolioLock(r) = flat
    BY <2>1, <2>2 DEF PlannedPortfolioLock
  <2> QED
    BY <1>3, <1>4, <2>3
<1>7. ASSUME NEW c \in Coins, r.base.coinLadder[c] < Exit, u.coinLadder[c] >= Exit
      PROVE  LockModeOn(u, c) = FlatOnly
  <2>1. CoinRise(r, c) = Exit
    BY <1>2, <1>7, UpdatedStateFields
    DEF CoinRise, Rise, MaxRank, BrakeState, Level
  <2>2. PortfolioRise(r) \in Normal .. Exit
    BY <1>2 DEF PortfolioRise, Rise, BrakeState, Level
  <2>3. u.lock.mode \in LockMode /\ u.coinLock[c].mode \in LockMode
    BY UpdatedStateFields DEF BrakeState, Lock
  <2>4. CASE PortfolioScope(r)
    <3>1. PortfolioRise(r) = Exit
      BY <2>1, <2>2, <2>4 DEF PortfolioScope
    <3>2. PlannedPortfolioLock(r) = flat
      BY <2>4, <3>1 DEF PlannedPortfolioLock
    <3>3. u.lock.mode = FlatOnly
      BY <1>3, <1>4, <3>2
    <3> QED
      BY <2>3, <3>3 DEF LockModeOn, CombineLockModes, MaxRank, LockMode
  <2>5. CASE ~PortfolioScope(r)
    <3>1. PlannedCoinLock(r, c) = flat
      BY <2>1, <2>5 DEF PlannedCoinLock
    <3>2. u.coinLock[c].mode = FlatOnly
      BY <1>3, <1>4, <1>7, <3>1
    <3> QED
      BY <2>3, <3>2 DEF LockModeOn, CombineLockModes, MaxRank, LockMode
  <2> QED
    BY <2>4, <2>5
<1> QED
  BY <1>1, <1>6, <1>7 DEF LocksExits

\* A lock a scan sets is announced by it; one it keeps was announced before.
LEMMA PlanAnnounces ==
  ASSUME TypeOK, KeysInv, AnnouncedInv,
         NEW held \in SUBSET Coins, NEW r \in ReadableNow(held),
         Locked(UpdatedState(r)), ~ReachesReduce(r)
  PROVE  strategy \in announced
<1>1. /\ PortfolioRise(r) < Reduce
      /\ \A c \in Coins : CoinRise(r, c) < Reduce
  <2>1. PortfolioRise(r) \in Level /\ \A c \in Coins : CoinRise(r, c) \in Level
    BY ReadingType DEF PortfolioRise, CoinRise, Rise, Reading, BrakeState, Level
  <2> QED
    BY <2>1 DEF ReachesReduce, Level
<1>2. /\ PlannedPortfolioLock(r) = r.base.lock
      /\ \A c \in Coins : PlannedCoinLock(r, c) = r.base.coinLock[c]
  BY <1>1 DEF PlannedPortfolioLock, PlannedCoinLock
<1>3. \/ r.base.lock.mode # Unlocked
      \/ \E c \in Coins : r.base.coinLock[c].mode # Unlocked
  BY <1>2, UpdatedStateFields DEF Locked
<1>4. Locked(brake) /\ (strategy = 0 \/ strategy = brake.seenKey)
  BY <1>3, BaseFields DEF ReleaseLock, NoLock, Locked, KeysInv, LocksKeyed
<1>5. strategy = brake.seenKey
  BY <1>4 DEF KeysInv, TypeOK, BrakeState, Key
<1> QED
  BY <1>4, <1>5 DEF AnnouncedInv

\* The ladder a scan saves has every line of today behind it: those already
\* remembered and those this scan sends orders for, which are above the ladder
\* it started from.
LEMMA PlanLines ==
  ASSUME TypeOK, NEW held \in SUBSET Coins, NEW r \in ReadableNow(held)
  PROVE  /\ OrderLines(r) \in SUBSET Line
         /\ \A l \in OrderLines(r) :
              /\ LadderOf(UpdatedState(r), l[1]) >= l[2]
              /\ brake.day = day => LadderOf(brake, l[1]) < l[2]
         /\ \A x \in Coins \cup {"portfolio"} :
              brake.day = day => LadderOf(UpdatedState(r), x) >= LadderOf(brake, x)
<1> DEFINE u == UpdatedState(r)
<1>1. /\ r.base \in BrakeState /\ brake \in BrakeState
      /\ r.portfolio \in Level /\ r.coin \in [Coins -> Level]
  BY ReadingType DEF Reading, TypeOK
<1>2. /\ u.ladder = MaxRank(r.base.ladder, r.portfolio)
      /\ brake.day = day => r.base.ladder = brake.ladder
  BY UpdatedStateFields, BaseFields
<1>3. ASSUME NEW c \in Coins
      PROVE  /\ u.coinLadder[c] = MaxRank(r.base.coinLadder[c], r.coin[c])
             /\ brake.day = day => r.base.coinLadder[c] = brake.coinLadder[c]
  BY UpdatedStateFields, BaseFields
<1>4. ASSUME NEW x \in Level, NEW y \in Level, Rise(x, y) >= Reduce
      PROVE  /\ Rise(x, y) \in {Reduce, Exit}
             /\ x < Rise(x, y)
             /\ MaxRank(x, y) >= Rise(x, y)
  BY <1>4 DEF Rise, MaxRank, Level
<1>5. ASSUME NEW x \in Level, NEW y \in Level PROVE MaxRank(x, y) >= x
  BY <1>5 DEF MaxRank, Level
<1>6. \A c \in AcceptedOrders(r) :
        /\ c \in Coins
        /\ PortfolioScope(r) => PortfolioRise(r) >= Reduce
        /\ ~PortfolioScope(r) => CoinRise(r, c) >= Reduce
  <2>1. r.held \in SUBSET Coins
    BY ReadingType
  <2>2. \A c \in AcceptedOrders(r) : c \in Coins /\ PlannedAction(r, c) # "none"
    BY <2>1 DEF AcceptedOrders
  <2> QED
    BY <2>2 DEF PlannedAction
<1>7. ASSUME NEW l \in OrderLines(r)
      PROVE  /\ l \in Line
             /\ LadderOf(u, l[1]) >= l[2]
             /\ brake.day = day => LadderOf(brake, l[1]) < l[2]
  <2>1. CASE PortfolioScope(r)
    <3>1. l = <<"portfolio", PortfolioRise(r)>> /\ PortfolioRise(r) >= Reduce
      BY <1>6, <1>7, <2>1 DEF OrderLines
    <3>2. /\ PortfolioRise(r) \in {Reduce, Exit}
          /\ r.base.ladder < PortfolioRise(r)
          /\ u.ladder >= PortfolioRise(r)
      <4>1. r.base.ladder \in Level
        BY <1>1 DEF BrakeState
      <4> QED
        BY <1>1, <1>2, <1>4, <3>1, <4>1 DEF PortfolioRise
    <3> QED
      BY <1>2, <3>1, <3>2 DEF Line, LadderOf
  <2>2. CASE ~PortfolioScope(r)
    <3>1. PICK c \in AcceptedOrders(r) : l = <<c, CoinRise(r, c)>>
      BY <1>7, <2>2 DEF OrderLines
    <3>2. c \in Coins /\ CoinRise(r, c) >= Reduce /\ c # "portfolio"
      BY <1>6, <2>2, CoinsAssumption
    <3>3. /\ CoinRise(r, c) \in {Reduce, Exit}
          /\ r.base.coinLadder[c] < CoinRise(r, c)
          /\ u.coinLadder[c] >= CoinRise(r, c)
      <4>1. r.base.coinLadder[c] \in Level /\ r.coin[c] \in Level
        BY <1>1, <3>2 DEF BrakeState
      <4> QED
        BY <1>3, <1>4, <3>2, <4>1 DEF CoinRise
    <3> QED
      BY <1>3, <3>1, <3>2, <3>3 DEF Line, LadderOf
  <2> QED
    BY <2>1, <2>2
<1>8. ASSUME NEW x \in Coins \cup {"portfolio"}, brake.day = day
      PROVE  LadderOf(u, x) >= LadderOf(brake, x)
  <2>1. brake.ladder \in Level /\ \A c \in Coins : brake.coinLadder[c] \in Level
    BY <1>1 DEF BrakeState
  <2> QED
    BY <1>1, <1>2, <1>3, <1>5, <1>8, <2>1 DEF LadderOf
<1> QED
  BY <1>7, <1>8

-----------------------------------------------------------------------------
(* Every step keeps the invariant.                                         *)

LEMMA ScanPlanIInv ==
  ASSUME IInv, NEW held \in SUBSET Coins, ScanPlan(held)
  PROVE  IInv'
<1>1. PICK r \in ReadableNow(held) :
        scan' = [pc     |-> "planned",
                 key    |-> r.key,
                 next   |-> UpdatedState(r),
                 orders |-> [c \in Coins |-> IF c \in AcceptedOrders(r)
                                              THEN PlannedAction(r, c) ELSE "none"],
                 lines  |-> OrderLines(r),
                 alert  |-> ReachesReduce(r)]
  BY DEF ScanPlan
<1>2. TypeOK /\ KeysInv /\ StepInv /\ AnnouncedInv /\ LinesInv
  BY DEF IInv
<1>3. /\ UNCHANGED <<brake, strategy, day, aborts, announced, lockedAt>>
      /\ sent' = IF sent.day = day THEN sent ELSE NothingSent(day)
  BY DEF ScanPlan
<1>4. /\ scan'.pc = "planned" /\ scan'.key = strategy
      /\ scan'.next = UpdatedState(r) /\ scan'.lines = OrderLines(r)
      /\ scan'.alert = ReachesReduce(r)
  BY <1>1, <1>2, ReadingType
<1>5. TypeOK'
  <2>1. [c \in Coins |-> IF c \in AcceptedOrders(r) THEN PlannedAction(r, c) ELSE "none"]
          \in [Coins -> Order]
    BY DEF PlannedAction, Order
  <2>2. ReachesReduce(r) \in BOOLEAN
    BY DEF ReachesReduce
  <2>3. scan' \in ScanState
    BY <1>1, <1>2, <2>1, <2>2, ReadingType, UpdatedStateFields, PlanLines
    DEF ScanState, TypeOK
  <2>4. sent' \in [day : 0 .. MaxDay, lines : SUBSET Line, lost : SUBSET Line]
    BY <1>2, <1>3, BoundsAssumption DEF TypeOK, NothingSent, Day
  <2> QED
    BY <1>2, <1>3, <2>3, <2>4 DEF TypeOK
<1>6. KeysInv'
  <2>1. LocksKeyed(UpdatedState(r)) /\ UpdatedState(r).seenKey = strategy
    BY <1>2, PlanKeys, UpdatedStateFields
  <2>2. strategy \in Nat
    BY <1>2, BoundsAssumption DEF TypeOK, Key
  <2> QED
    BY <1>2, <1>3, <1>4, <2>1, <2>2 DEF KeysInv, LocksKeyed
<1>7. StepInv'
  BY <1>2, <1>3, <1>4, PlanKeeps, PlanLocksExits
  DEF StepInv, KeepsLocks, LocksExits, NormalizeState, LockModeOn
<1>8. AnnouncedInv'
  <2>1. Locked(UpdatedState(r)) => ReachesReduce(r) \/ strategy \in announced
    BY <1>2, PlanAnnounces
  <2> QED
    BY <1>2, <1>3, <1>4, <2>1 DEF AnnouncedInv, Locked
<1>9. LinesInv'
  <2>1. /\ sent'.day = day
        /\ \A l \in sent'.lines \ sent'.lost : l \in sent.lines \ sent.lost /\ sent.day = day
    BY <1>3 DEF NothingSent
  <2>2. InFlight = {} /\ InFlight' = {}
    BY <1>4 DEF ScanPlan, InFlight
  <2>3. \A l \in sent'.lines \ sent'.lost :
          /\ brake.day = day /\ LadderOf(brake, l[1]) >= l[2]
          /\ l \in Line
    BY <1>2, <2>1, <2>2 DEF LinesInv, Remembers, TypeOK
  <2>4. \A l \in sent'.lines \ sent'.lost : LadderOf(UpdatedState(r), l[1]) >= l[2]
    <3> SUFFICES ASSUME NEW l \in sent'.lines \ sent'.lost
                 PROVE  LadderOf(UpdatedState(r), l[1]) >= l[2]
      OBVIOUS
    <3> DEFINE x == l[1]
    <3>1. /\ brake.day = day /\ LadderOf(brake, x) >= l[2]
          /\ x \in Coins \cup {"portfolio"} /\ l[2] \in {Reduce, Exit}
      BY <2>3 DEF Line
    <3>2. LadderOf(UpdatedState(r), x) >= LadderOf(brake, x)
      BY <1>2, <3>1, PlanLines
    <3>3. LadderOf(brake, x) \in Level /\ LadderOf(UpdatedState(r), x) \in Level
      BY <1>2, <3>1, UpdatedStateFields DEF LadderOf, TypeOK, BrakeState
    <3> HIDE DEF x
    <3> QED
      BY <3>1, <3>2, <3>3 DEF Level, x
  <2>5. UpdatedState(r).day = day
    BY <1>2, UpdatedStateFields
  <2>6. \A l \in OrderLines(r) :
          /\ LadderOf(UpdatedState(r), l[1]) >= l[2]
          /\ brake.day = day => LadderOf(brake, l[1]) < l[2]
    BY <1>2, PlanLines
  <2>7. Remembers(brake, (sent.lines \ sent.lost) \ InFlight)'
    BY <1>3, <2>1, <2>3 DEF Remembers, LadderOf
  <2>8. Remembers(scan.next, (sent.lines \ sent.lost) \cup scan.lines)'
    BY <1>4, <2>1, <2>4, <2>5, <2>6 DEF Remembers, LadderOf
  <2>9. \A l \in scan'.lines : brake'.day = sent'.day => LadderOf(brake', l[1]) < l[2]
    BY <1>3, <1>4, <2>1, <2>6
  <2> QED
    BY <1>4, <2>1, <2>5, <2>7, <2>8, <2>9 DEF LinesInv, Active, LadderOf
<1> QED
  BY <1>5, <1>6, <1>7, <1>8, <1>9 DEF IInv

LEMMA ScanExecuteIInv ==
  ASSUME IInv, ScanExecute
  PROVE  IInv'
<1>1. /\ TypeOK /\ KeysInv /\ StepInv /\ AnnouncedInv /\ LinesInv
      /\ scan.pc = "planned" /\ scan \in ScanState
      /\ UNCHANGED <<brake, strategy, day, aborts, announced, lockedAt>>
  BY DEF IInv, ScanExecute, TypeOK
<1>2. /\ scan'.pc = "executed" /\ scan'.key = scan.key /\ scan'.next = scan.next
      /\ scan'.lines = scan.lines /\ scan'.alert = scan.alert
      /\ scan' \in ScanState
  <2>1. NoOrders \in [Coins -> Order]
    BY DEF NoOrders, Order
  <2> QED
    BY <1>1, <2>1 DEF ScanExecute, ScanState
<1>3. /\ sent'.day = sent.day /\ sent'.lost = sent.lost
      /\ sent'.lines = sent.lines \cup scan.lines
      /\ sent' \in [day : 0 .. MaxDay, lines : SUBSET Line, lost : SUBSET Line]
  BY <1>1 DEF ScanExecute, TypeOK, ScanState
<1>4. TypeOK'
  BY <1>1, <1>2, <1>3 DEF TypeOK
<1>5. KeysInv' /\ StepInv' /\ AnnouncedInv'
  BY <1>1, <1>2
  DEF KeysInv, StepInv, AnnouncedInv, Active, LocksKeyed, Locked, KeepsLocks,
      LocksExits, NormalizeState, LockModeOn
<1>6. LinesInv'
  BY <1>1, <1>2, <1>3 DEF LinesInv, Remembers, InFlight, Active, LadderOf
<1> QED
  BY <1>4, <1>5, <1>6 DEF IInv

LEMMA ScanDispatchIInv ==
  ASSUME IInv, ScanDispatch
  PROVE  IInv'
<1>1. /\ TypeOK /\ KeysInv /\ StepInv /\ AnnouncedInv /\ LinesInv
      /\ scan.pc = "executed" /\ scan \in ScanState
      /\ UNCHANGED <<brake, strategy, day, aborts, sent, lockedAt>>
      /\ announced' = IF scan.alert THEN announced \cup {scan.key} ELSE announced
  BY DEF IInv, ScanDispatch, TypeOK
<1>2. /\ scan'.pc = "dispatched" /\ scan'.key = scan.key /\ scan'.next = scan.next
      /\ scan'.lines = scan.lines /\ scan'.alert = FALSE
      /\ scan' \in ScanState
  BY <1>1 DEF ScanDispatch, ScanState
<1>3. TypeOK'
  BY <1>1, <1>2 DEF TypeOK, ScanState
<1>4. KeysInv' /\ StepInv' /\ AnnouncedInv'
  BY <1>1, <1>2
  DEF KeysInv, StepInv, AnnouncedInv, Active, LocksKeyed, Locked, KeepsLocks,
      LocksExits, NormalizeState, LockModeOn
<1>5. LinesInv'
  BY <1>1, <1>2 DEF LinesInv, Remembers, InFlight, Active, LadderOf
<1> QED
  BY <1>3, <1>4, <1>5 DEF IInv

\* What becomes of the invariant when a scan is over and its locals are gone.
LEMMA IdleIInv ==
  ASSUME TypeOK', scan' = Idle,
         brake'.seenKey <= strategy', LocksKeyed(brake)',
         Locked(brake)' => brake'.seenKey \in announced',
         Remembers(brake, sent.lines \ sent.lost)'
  PROVE  IInv'
<1>1. scan'.pc = "idle"
  BY DEF Idle
<1>2. KeysInv' /\ StepInv' /\ AnnouncedInv'
  BY <1>1 DEF KeysInv, StepInv, AnnouncedInv, Active
<1>3. LinesInv'
  BY <1>1 DEF LinesInv, InFlight, Active, Remembers
<1> QED
  BY <1>2, <1>3 DEF IInv

LEMMA IdleType == Idle \in ScanState
<1>1. EmptyState \in BrakeState
  BY BoundsAssumption
  DEF EmptyState, BrakeState, AllNormal, Level, NoLock, Lock, LockMode, Key
<1>2. NoOrders \in [Coins -> Order] /\ 0 \in Key
  BY BoundsAssumption DEF NoOrders, Order, Key
<1> QED
  BY <1>1, <1>2 DEF Idle, ScanState

LEMMA ScanSaveIInv ==
  ASSUME IInv, ScanSave
  PROVE  IInv'
<1>1. /\ TypeOK /\ KeysInv /\ StepInv /\ AnnouncedInv /\ LinesInv
      /\ scan.pc = "dispatched" /\ scan \in ScanState
      /\ UNCHANGED <<strategy, day, aborts, announced>>
      /\ brake' = scan.next /\ scan' = Idle
      /\ lockedAt' \in {strategy, lockedAt}
  BY DEF IInv, ScanSave, TypeOK
<1>2. /\ sent'.day = sent.day /\ sent'.lines = sent.lines
      /\ sent'.lost = sent.lost \ scan.lines
      /\ sent' \in [day : 0 .. MaxDay, lines : SUBSET Line, lost : SUBSET Line]
  BY <1>1 DEF ScanSave, TypeOK
<1>3. TypeOK'
  BY <1>1, <1>2, IdleType DEF TypeOK, ScanState
<1>4. /\ brake'.seenKey <= strategy' /\ LocksKeyed(brake)'
      /\ Locked(brake)' => brake'.seenKey \in announced'
  BY <1>1 DEF KeysInv, AnnouncedInv, Active, LocksKeyed, Locked
<1>5. Remembers(brake, sent.lines \ sent.lost)'
  BY <1>1, <1>2 DEF LinesInv, Active, Remembers, LadderOf
<1> QED
  BY <1>1, <1>3, <1>4, <1>5, IdleIInv

LEMMA ScanAbortIInv ==
  ASSUME IInv, ScanAbort
  PROVE  IInv'
<1>1. /\ TypeOK /\ KeysInv /\ AnnouncedInv /\ LinesInv /\ scan \in ScanState
      /\ UNCHANGED <<brake, strategy, day, announced, lockedAt>>
      /\ scan.pc # "idle" /\ scan' = Idle
      /\ aborts' = aborts + 1 /\ aborts < MaxAborts
  BY DEF IInv, ScanAbort, TypeOK
<1>2. /\ sent'.day = sent.day /\ sent'.lines = sent.lines
      /\ sent'.lost = sent.lost \cup InFlight
      /\ sent' \in [day : 0 .. MaxDay, lines : SUBSET Line, lost : SUBSET Line]
  BY <1>1 DEF ScanAbort, TypeOK, ScanState, InFlight
<1>3. TypeOK'
  BY <1>1, <1>2, IdleType, BoundsAssumption DEF TypeOK
<1>4. /\ brake'.seenKey <= strategy' /\ LocksKeyed(brake)'
      /\ Locked(brake)' => brake'.seenKey \in announced'
  BY <1>1 DEF KeysInv, AnnouncedInv, LocksKeyed, Locked
<1>5. Remembers(brake, sent.lines \ sent.lost)'
  BY <1>1, <1>2 DEF LinesInv, Remembers, LadderOf
<1> QED
  BY <1>1, <1>3, <1>4, <1>5, IdleIInv

\* Everything but the scans leaves the state, the scan and the history alone.
LEMMA OutsideIInv ==
  ASSUME IInv, TypeOK', strategy' >= strategy,
         UNCHANGED <<brake, scan, sent, announced>>
  PROVE  IInv'
<1>1. TypeOK /\ KeysInv /\ StepInv /\ AnnouncedInv /\ LinesInv
  BY DEF IInv
<1>2. KeysInv'
  <2>1. /\ brake.seenKey \in Nat /\ strategy \in Nat /\ strategy' \in Nat
        /\ scan.key \in Nat
    BY <1>1, BoundsAssumption DEF TypeOK, BrakeState, ScanState, Key
  <2> QED
    BY <1>1, <2>1 DEF KeysInv, Active, LocksKeyed
<1>3. StepInv' /\ AnnouncedInv' /\ LinesInv'
  BY <1>1
  DEF StepInv, AnnouncedInv, LinesInv, Active, Locked, KeepsLocks, LocksExits,
      NormalizeState, LockModeOn, Remembers, InFlight, LadderOf
<1> QED
  BY <1>2, <1>3 DEF IInv

LEMMA NextIInv == IInv /\ [Next]_vars => IInv'
<1> SUFFICES ASSUME IInv, [Next]_vars PROVE IInv'
  OBVIOUS
<1>1. TypeOK /\ strategy \in Nat /\ day \in Nat
  BY BoundsAssumption DEF IInv, TypeOK, Key, Day
<1>2. CASE \E held \in SUBSET Coins : ScanPlan(held)
  BY <1>2, ScanPlanIInv
<1>3. CASE ScanExecute
  BY <1>3, ScanExecuteIInv
<1>4. CASE ScanDispatch
  BY <1>4, ScanDispatchIInv
<1>5. CASE ScanSave
  BY <1>5, ScanSaveIInv
<1>6. CASE ScanAbort
  BY <1>6, ScanAbortIInv
<1>7. CASE SubmitStrategy
  <2>1. TypeOK' /\ strategy' >= strategy
    BY <1>1, <1>7, BoundsAssumption DEF SubmitStrategy, TypeOK, Key
  <2> QED
    BY <1>7, <2>1, OutsideIInv DEF SubmitStrategy
<1>8. CASE Midnight
  <2>1. TypeOK' /\ strategy' >= strategy
    BY <1>1, <1>8, BoundsAssumption DEF Midnight, TypeOK, Day
  <2> QED
    BY <1>8, <2>1, OutsideIInv DEF Midnight
<1>9. CASE UNCHANGED vars
  <2>1. TypeOK' /\ strategy' >= strategy
    BY <1>1, <1>9 DEF vars, TypeOK
  <2> QED
    BY <1>9, <2>1, OutsideIInv DEF vars
<1> QED
  BY <1>2, <1>3, <1>4, <1>5, <1>6, <1>7, <1>8, <1>9 DEF Next

\* The inductive invariant holds throughout.
THEOREM Invariance == Spec => []IInv
  BY InitIInv, NextIInv, PTL DEF Spec

-----------------------------------------------------------------------------
(* The properties of RiskBrake.                                            *)

\* Every variable keeps its type, whatever the levels, coins and bounds.
THEOREM TypeCorrect == Spec => []TypeOK
  BY Invariance, PTL DEF IInv

\* A line is ordered again on the same day only after a scan that was cut off
\* behind its orders.
THEOREM OrdersNotRepeated == Spec => []NoRepeatedOrders
<1>1. IInv => NoRepeatedOrders
  <2> SUFFICES ASSUME IInv, scan.pc = "planned",
                      NEW l \in scan.lines \cap sent.lines, l \notin sent.lost
               PROVE  FALSE
    BY DEF NoRepeatedOrders
  <2>1. InFlight = {}
    BY DEF InFlight
  <2>2. brake.day = sent.day /\ LadderOf(brake, l[1]) >= l[2]
    BY <2>1 DEF IInv, LinesInv, Remembers
  <2>3. LadderOf(brake, l[1]) < l[2]
    BY <2>2 DEF IInv, LinesInv
  <2>4. LadderOf(brake, l[1]) \in Level /\ l[2] \in {Reduce, Exit}
    <3>1. l \in Line
      BY DEF IInv, TypeOK, ScanState
    <3> QED
      BY <3>1 DEF LadderOf, Line, IInv, TypeOK, BrakeState
  <2> QED
    BY <2>2, <2>3, <2>4 DEF Level
<1> QED
  BY <1>1, Invariance, PTL

\* No lock stands without a PM trigger event under its key.
THEOREM LocksAnnounced == Spec => []LockAnnounced
<1>1. IInv => LockAnnounced
  BY DEF IInv, AnnouncedInv, KeysInv, LocksKeyed, Locked, LockAnnounced
<1> QED
  BY <1>1, Invariance, PTL

\* Only ScanSave writes the saved state, and it writes what the scan prepared.
LEMMA BrakeSteps ==
  ASSUME IInv, [Next]_vars
  PROVE  \/ brake' = brake
         \/ Active /\ brake' = scan.next
<1>1. CASE Next
  BY <1>1 DEF Next, ScanPlan, ScanExecute, ScanDispatch, ScanSave, ScanAbort,
              SubmitStrategy, Midnight, Active
<1>2. CASE UNCHANGED vars
  BY <1>2 DEF vars
<1> QED
  BY <1>1, <1>2

\* Only a later strategy takes a coin out of its lock.
THEOREM LocksOutlastAllButRevisions == Spec => LockedUntilRevision
<1>1. IInv /\ [Next]_vars => [KeepsLocks(brake, brake')]_vars
  <2> SUFFICES ASSUME IInv, [Next]_vars PROVE KeepsLocks(brake, brake')
    OBVIOUS
  <2>1. CASE brake' = brake
    BY <2>1 DEF KeepsLocks, LockModeOn
  <2>2. CASE Active /\ brake' = scan.next
    BY <2>2 DEF IInv, StepInv
  <2> QED
    BY <2>1, <2>2, BrakeSteps
<1> QED
  BY <1>1, Invariance, PTL DEF Spec, LockedUntilRevision

\* What reaches exit is under flat_only from the same save on.
THEOREM ExitsLocked == Spec => ExitLocks
<1>1. IInv /\ [Next]_vars => [LocksExits(brake, brake')]_vars
  <2> SUFFICES ASSUME IInv, [Next]_vars PROVE LocksExits(brake, brake')
    OBVIOUS
  <2>1. CASE brake' = brake
    <3>1. NormalizeState(brake, brake'.day) = brake
      BY <2>1 DEF NormalizeState
    <3>2. brake.ladder \in Level /\ \A c \in Coins : brake.coinLadder[c] \in Level
      BY DEF IInv, TypeOK, BrakeState
    <3> QED
      BY <2>1, <3>1, <3>2 DEF LocksExits, Level
  <2>2. CASE Active /\ brake' = scan.next
    BY <2>2 DEF IInv, StepInv
  <2> QED
    BY <2>1, <2>2, BrakeSteps
<1> QED
  BY <1>1, Invariance, PTL DEF Spec, ExitLocks

\* The stored locks stand under the strategy the state has seen last.
THEOREM LocksKeyedBySeen == Spec => []LocksUnderSeenKey
<1>1. IInv => LocksUnderSeenKey
  BY DEF IInv, KeysInv, LocksKeyed, LocksUnderSeenKey
<1> QED
  BY <1>1, Invariance, PTL

\* The brake implements the promise of RiskLock: only ScanSave moves the
\* stored locks, and it moves them the way SetLocks may.
THEOREM PromiseKept == Spec => KeepsPromise
<1>1. Init => Promise!LockInit
  <2> SUFFICES ASSUME Init PROVE Promise!LockInit
    OBVIOUS
  <2>1. \A c \in Coins : LockModeOn(brake, c) = Unlocked
    BY DEF Init, EmptyState, NoLock, LockModeOn, CombineLockModes, MaxRank
  <2>2. brake.seenKey = 0 /\ strategy = 0
    BY DEF Init, EmptyState
  <2>3. [c \in Coins |-> LockModeOn(brake, c)] = [c \in Coins |-> Unlocked]
    BY <2>1
  <2> QED
    BY <2>2, <2>3 DEF Promise!LockInit, Promise!Unlocked
<1>2. IInv /\ [Next]_vars => [Promise!LockNext]_(Promise!lockVars)
  <2> SUFFICES ASSUME IInv, [Next]_vars
               PROVE  [Promise!LockNext]_(Promise!lockVars)
    OBVIOUS
  <2>1. /\ brake' = brake => UNCHANGED [c \in Coins |-> LockModeOn(brake, c)]
        /\ brake' = brake => brake'.seenKey = brake.seenKey
    BY DEF LockModeOn
  <2>2. CASE SubmitStrategy
    BY <2>1, <2>2
    DEF SubmitStrategy, Promise!LockNext, Promise!Publish, Promise!lockVars
  <2>3. CASE ScanSave
    <3>0. /\ Active /\ brake' = scan.next /\ UNCHANGED strategy
          /\ StepInv /\ KeysInv /\ TypeOK
      BY <2>3 DEF ScanSave, IInv, Active
    <3>1. /\ brake' = scan.next /\ UNCHANGED strategy
          /\ KeepsLocks(brake, brake')
          /\ brake'.seenKey = scan.key
          /\ brake.seenKey \in Nat /\ scan.key \in Nat /\ strategy \in Nat
          /\ brake.seenKey <= scan.key /\ scan.key <= strategy
          /\ brake' \in BrakeState
      <4>1. /\ brake.seenKey \in Nat /\ scan.key \in Nat /\ strategy \in Nat
            /\ scan.next \in BrakeState
        BY <3>0, BoundsAssumption DEF TypeOK, ScanState, BrakeState, Key
      <4>2. KeepsLocks(brake, scan.next) /\ scan.next.seenKey = scan.key
        BY <3>0 DEF StepInv, KeysInv
      <4> QED
        BY <3>0, <4>1, <4>2 DEF KeysInv
    <3>2. brake'.seenKey \in brake.seenKey .. strategy
      BY <3>1
    <3>3. [c \in Coins |-> LockModeOn(brake', c)] \in [Coins -> LockMode]
      BY <3>1 DEF BrakeState, Lock, LockModeOn, CombineLockModes, MaxRank
    <3>4. \A c \in Coins :
             [d \in Coins |-> LockModeOn(brake, d)][c] # Unlocked
               /\ [d \in Coins |-> LockModeOn(brake', d)][c] = Unlocked
             => brake'.seenKey > brake.seenKey
      BY <3>1 DEF KeepsLocks
    <3>5. Promise!SetLocks
      BY <3>1, <3>2, <3>3, <3>4
      DEF Promise!SetLocks, Promise!Unlocked, Promise!LockMode, Promise!FlatOnly, LockMode
    <3> QED
      BY <3>5 DEF Promise!LockNext
  <2>4. CASE UNCHANGED <<brake, strategy>>
    BY <2>1, <2>4 DEF Promise!lockVars
  <2> QED
    BY <2>2, <2>3, <2>4
    DEF Next, ScanPlan, ScanExecute, ScanDispatch, ScanAbort, Midnight, vars
<1> QED
  BY <1>1, <1>2, Invariance, PTL DEF Spec, KeepsPromise, Promise!LockSpec
=============================================================================
