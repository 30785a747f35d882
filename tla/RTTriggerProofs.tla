--------------------------- MODULE RTTriggerProofs ---------------------------
(***************************************************************************)
(* Ordinary wakes are held back, what is new wakes RT once, and a scan     *)
(* that finds nothing follows a wake: for every set of items, every limit  *)
(* and every distance.  The invariant says of each of the three states     *)
(* there can be (the saved one, the scan's, the brake's) which wakes it    *)
(* knows of: all but those whose record was lost, that of the scan which   *)
(* has not saved yet, and those saved since the brake read.                *)
(***************************************************************************)
EXTENDS RTTrigger, FiniteSetTheorems, TLAPS

Types ==
  /\ state \in RTState /\ scan \in ScanState /\ brake \in BrakeState
  /\ strategy \in Key /\ arrived \in [Items -> Time] /\ clock \in Time
  /\ wakes \subseteq Wake /\ IsFiniteSet(wakes)
  /\ IsFiniteSet({i \in Items : arrived[i] # 0})

\* The states the two threads hold, which one of them saves.
States == {state, scan.loaded, brake.loaded}

\* Every stamp is of the past, and every scan has one of its own.
Stamps ==
  /\ 0 < clock
  /\ scan.pc # "idle" => 0 < scan.at /\ scan.at < clock
  /\ brake.pc # "idle" => 0 < brake.at /\ brake.at < clock
  /\ scan.pc # "handled" => ~scan.fired
  /\ \A w \in wakes : 0 < w.at /\ w.at < clock
  /\ \A i \in Items : arrived[i] < clock
  /\ \A w, e \in Own : w.at = e.at => w = e
  /\ \A w \in Own :
       /\ scan.pc = "detected" => w.at < scan.at
       /\ scan.pc = "handled" => w.at <= scan.at
       /\ scan.pc = "handled" /\ w.at = scan.at => scan.fired /\ w.subject = scan.chosen.subject
  /\ \A s \in States : s.seenKey <= strategy /\ \A t \in s.recent : t < clock

\* What a scan has decided on is there, and is nothing that RT was woken for.
Chosen ==
  LET about == scan.chosen.subject
  IN  /\ scan.pc = "detected" => scan.chosen \in Decision
      /\ scan.fired => scan.chosen \in Decision /\ \E w \in wakes : w.at = scan.at
      /\ about[1] = "strategy" => about[2] <= strategy
      /\ about[1] = "news" => about[2] \in News /\ arrived[about[2]] # 0
      /\ about[1] = "followup" =>
           about[2] \in Results /\ arrived[about[2]] # 0 /\ Ready(about[2], scan.at)
      /\ scan.pc = "detected" /\ about[1] \in {"strategy", "news", "followup"} =>
           \A e \in Remembered : e.subject = about => about[1] # "strategy" /\ about[2] \in evicted

\* An item that later ones have pushed out of what is read.
Gone(i) == arrived[i] # 0 /\ \A S \in {Macro, Submissions, Results} : i \notin Recent(S, MarkLimit)

\* A state knows of a wake: of its time, and of what it was about.
Knows(s, e) ==
  /\ e.at <= s.last
  /\ e.at <= s.byKey[CooldownKeyOf(e.subject)]
  /\ e.subject[1] = "strategy" => e.subject[2] <= s.seenKey
  /\ e.subject[1] \in {"news", "followup"} =>
       e.subject[2] \in s.seenNews \cup s.seenResults \cup evicted \/ Gone(e.subject[2])

\* Its time counts in any hour that is not over at a time.
Counts(s, e, now) == \A c \in Nat : now <= c /\ HourStart(c) <= e.at => e.at \in s.recent

StateKnows == \A e \in Remembered : e.at \notin OwnWake => Knows(state, e) /\ Counts(state, e, clock)

ScanKnows ==
  scan.pc # "idle" =>
    \A e \in Remembered : e.at \notin OwnWake => Knows(scan.loaded, e) /\ Counts(scan.loaded, e, scan.at)

BrakeKnows ==
  brake.pc = "woken" =>
    \A e \in Remembered : e.at \notin OwnWake \cup brake.missed =>
      Knows(brake.loaded, e) /\ Counts(brake.loaded, e, clock)

Known(k) == k \in {0} \cup handled \cup InternalOnly \cup overtaken

KeysKnown ==
  /\ \A s \in States : Known(s.seenKey)
  /\ scan.pc # "idle" =>
       Known(strategy) \/ (scan.pc = "detected" /\ scan.chosen.subject = <<"strategy", strategy>>)

\* The last wake a state knows of has gone out.
LastWasSent ==
  /\ \A s \in States : s.last # 0 => \E w \in wakes : w.at = s.last
  /\ brake.pc = "woken" => \E w \in wakes : w.at = brake.at

IInv ==
  /\ Types /\ Stamps /\ Chosen /\ StateKnows /\ ScanKnows /\ BrakeKnows /\ KeysKnown /\ LastWasSent
  /\ CooldownKept /\ ClockHourLimit /\ WokenOnce

-----------------------------------------------------------------------------
\* The hour of a time begins at most an hour before it, and no earlier than that of
\* an earlier time.
LEMMA HourStartIs ==
  ASSUME NEW t \in Nat PROVE HourStart(t) \in Int /\ HourStart(t) <= t /\ t < HourStart(t) + Hour
<1>1. Hour \in Nat /\ Hour > 0
  BY TimesAssumption
<1> DEFINE q == t \div Hour
<1>2. q \in Int /\ q * Hour <= t /\ t < q * Hour + Hour
  BY <1>1, Z3
<1>3. q * Hour \in Int
  BY <1>1, <1>2
<1> QED
  BY <1>2, <1>3 DEF HourStart

LEMMA HoursGrow ==
  ASSUME NEW s \in Nat, NEW t \in Nat, s <= t PROVE HourStart(s) <= HourStart(t)
<1>1. Hour \in Nat /\ Hour > 0
  BY TimesAssumption
<1> DEFINE p == s \div Hour
           q == t \div Hour
<1>2. p \in Int /\ q \in Int /\ p <= q
  BY <1>1, Z3
<1> HIDE DEF p, q
<1>3. p * Hour <= q * Hour
  BY <1>1, <1>2, Z3
<1> QED
  BY <1>3 DEF HourStart, p, q

-----------------------------------------------------------------------------
\* What is decided on is the first of what was detected.
LEMMA DetectedIs ==
  ASSUME NEW s, NEW now, NEW held, NEW holds, NEW d \in Detected(s, now, held, holds)
  PROVE  /\ \/ d = Nothing /\ Silence(s, now, held) = {}
            \/ d \in StrategyUpdate(s) \cup HighImpactNews(s) \cup ExecutionFollowup(s, now)
                     \cup MarketCondition(holds) \cup Silence(s, now, held)
         /\ StrategyUpdate(s) # {} => d \in StrategyUpdate(s)
<1> DEFINE order == <<StrategyUpdate(s), HighImpactNews(s), ExecutionFollowup(s, now), MarketCondition(holds),
                      Silence(s, now, held)>>
           found == {n \in DOMAIN order : order[n] # {}}
<1>1. d \in IF found = {} THEN {Nothing} ELSE order[CHOOSE n \in found : \A m \in found : n <= m]
  BY DEF Detected
<1>2. /\ order[1] = StrategyUpdate(s) /\ order[2] = HighImpactNews(s) /\ order[3] = ExecutionFollowup(s, now)
      /\ order[4] = MarketCondition(holds) /\ order[5] = Silence(s, now, held) /\ DOMAIN order = 1 .. 5
  OBVIOUS
<1> HIDE DEF order
<1>3. found \subseteq {1, 2, 3, 4, 5}
  BY <1>2
<1>4. CASE found = {}
  BY <1>1, <1>2, <1>4
<1>5. CASE found # {}
  <2> DEFINE n == CHOOSE n \in found : \A m \in found : n <= m
  <2>1. \E k \in found : \A m \in found : k <= m
    <3> HIDE DEF found
    <3>0. \A m \in found : m = 1 \/ m = 2 \/ m = 3 \/ m = 4 \/ m = 5
      BY <1>3
    <3>1. CASE 1 \in found
      BY <3>0, <3>1
    <3>2. CASE 1 \notin found /\ 2 \in found
      BY <3>0, <3>2
    <3>3. CASE 1 \notin found /\ 2 \notin found /\ 3 \in found
      BY <3>0, <3>3
    <3>4. CASE 1 \notin found /\ 2 \notin found /\ 3 \notin found /\ 4 \in found
      BY <3>0, <3>4
    <3>5. CASE 1 \notin found /\ 2 \notin found /\ 3 \notin found /\ 4 \notin found
      BY <1>5, <3>0, <3>5
    <3> QED
      BY <3>1, <3>2, <3>3, <3>4, <3>5
  <2>2. n \in found /\ \A m \in found : n <= m
    BY <2>1
  <2>3. d \in order[n]
    BY <1>1, <1>5
  <2> HIDE DEF n
  <2>4. n \in {1, 2, 3, 4, 5}
    BY <1>3, <2>2
  <2>5. d \in order[1] \/ d \in order[2] \/ d \in order[3] \/ d \in order[4] \/ d \in order[5]
    BY <2>3, <2>4
  <2>6. order[1] # {} => n = 1
    BY <1>2, <2>2, <2>4
  <2> QED
    BY <1>2, <2>3, <2>5, <2>6
<1> QED
  BY <1>4, <1>5

-----------------------------------------------------------------------------
\* Who is among the newest few is among the newest many.
LEMMA RecentGrows ==
  ASSUME Types, NEW S \in {Macro, Submissions, Results} PROVE Recent(S, DetectLimit) \subseteq Recent(S, MarkLimit)
<1> DEFINE there == {i \in S : arrived[i] # 0}
<1>1. IsFiniteSet(there)
  <2>1. there \subseteq {i \in Items : arrived[i] # 0}
    BY DEF Items, News
  <2> QED
    BY <2>1, FS_Subset DEF Types
<1> SUFFICES ASSUME NEW i \in there, Cardinality({j \in there : arrived[j] > arrived[i]}) < DetectLimit
             PROVE  Cardinality({j \in there : arrived[j] > arrived[i]}) < MarkLimit
  BY DEF Recent
<1> DEFINE later == {j \in there : arrived[j] > arrived[i]}
<1>2. IsFiniteSet(later)
  BY <1>1, FS_Subset
<1>3. Cardinality(later) \in Nat
  BY <1>2, FS_CardinalityType
<1> QED
  BY <1>3, LimitsAssumption

\* What is gone stays so.
LEMMA GoneStays ==
  ASSUME IInv, NEW i \in Items, Gone(i), NEW j \in Items, Arrive(j) PROVE Gone(i)'
<1>1. /\ arrived \in [Items -> Time] /\ arrived[j] = 0 /\ arrived' = [arrived EXCEPT ![j] = clock]
      /\ clock \in Nat /\ \A k \in Items : arrived[k] \in Nat /\ arrived[k] < clock
  BY TimesAssumption DEF IInv, Types, Arrive, Stamps, Time
<1>2. \A k \in Items : k # j => arrived'[k] = arrived[k]
  BY <1>1
<1>3. arrived'[j] = clock /\ i # j
  BY <1>1 DEF Gone
<1>4. arrived'[i] = arrived[i] /\ arrived[i] # 0
  BY <1>2, <1>3 DEF Gone
<1>5. IsFiniteSet({k \in Items : arrived'[k] # 0})
  <2>1. {k \in Items : arrived'[k] # 0} \subseteq {k \in Items : arrived[k] # 0} \cup {j}
    BY <1>2
  <2>2. IsFiniteSet({k \in Items : arrived[k] # 0} \cup {j})
    BY FS_AddElement DEF IInv, Types
  <2> QED
    BY <2>1, <2>2, FS_Subset
<1>6. ASSUME NEW S \in {Macro, Submissions, Results}, i \in Recent(S, MarkLimit)' PROVE FALSE
  <2> DEFINE later == {k \in {x \in S : arrived[x] # 0} : arrived[k] > arrived[i]}
             laterNow == {k \in {x \in S : arrived'[x] # 0} : arrived'[k] > arrived'[i]}
  <2>1. S \subseteq Items
    BY DEF Items, News
  <2>2. i \in S /\ Cardinality(laterNow) < MarkLimit
    BY <1>6 DEF Recent
  <2>3. ~ (Cardinality(later) < MarkLimit)
    BY <1>4, <2>2 DEF Gone, Recent
  <2>4. later \subseteq laterNow
    <3> SUFFICES ASSUME NEW k \in later PROVE k \in laterNow
      OBVIOUS
    <3>1. k # j /\ k \in Items
      BY <1>1, <2>1
    <3> QED
      BY <1>2, <1>4, <3>1
  <2>5. laterNow \subseteq {k \in Items : arrived'[k] # 0}
    BY <2>1
  <2>6. IsFiniteSet(laterNow)
    BY <1>5, <2>5, FS_Subset
  <2> HIDE DEF later, laterNow
  <2>7. Cardinality(later) <= Cardinality(laterNow) /\ Cardinality(later) \in Nat /\ Cardinality(laterNow) \in Nat
    BY <2>4, <2>6, FS_Subset, FS_CardinalityType
  <2> QED
    BY <2>2, <2>3, <2>7, LimitsAssumption
<1> QED
  BY <1>4, <1>6 DEF Gone

-----------------------------------------------------------------------------
\* The fields of the state a scan saves.
LEMMA SavedIs ==
  ASSUME Types, NEW sc \in ScanState, sc.fired => sc.chosen \in Decision
  PROVE  /\ StateToSave(sc) \in RTState
         /\ StateToSave(sc).last = (IF sc.fired THEN sc.at ELSE sc.loaded.last)
         /\ StateToSave(sc).byKey = (IF sc.fired THEN [sc.loaded.byKey EXCEPT ![CooldownKeyOf(sc.chosen.subject)] = sc.at]
                                                 ELSE sc.loaded.byKey)
         /\ StateToSave(sc).recent = WithinHour(sc.loaded.recent, sc.at) \cup (IF sc.fired THEN {sc.at} ELSE {})
         /\ StateToSave(sc).seenKey = (IF strategy # 0 THEN strategy ELSE sc.loaded.seenKey)
         /\ StateToSave(sc).seenNews = Truncated(MarkedNews(sc.loaded))
         /\ StateToSave(sc).seenResults = Truncated(MarkedResults(sc.loaded, sc.at))
<1> DEFINE s == sc.loaded
           u == UpdatedStateAfterScan(s, sc.at)
           n == StateToSave(sc)
           key == CooldownKeyOf(sc.chosen.subject)
           sk == IF strategy # 0 THEN strategy ELSE s.seenKey
           sn == Truncated(MarkedNews(s))
           sr == Truncated(MarkedResults(s, sc.at))
           rc == WithinHour(s.recent, sc.at)
<1>1. s \in RTState /\ sc.at \in Time /\ sc.fired \in BOOLEAN
  BY DEF ScanState
<1>2. /\ s.last \in Time /\ s.byKey \in [CooldownKey -> Time] /\ s.recent \subseteq Time /\ s.seenKey \in Key
      /\ s.seenNews \subseteq News /\ s.seenResults \subseteq Results
  BY <1>1 DEF RTState
<1>3. s = [last |-> s.last, byKey |-> s.byKey, recent |-> s.recent, seenKey |-> s.seenKey, seenNews |-> s.seenNews,
           seenResults |-> s.seenResults]
  BY <1>1 DEF RTState
<1>4. sk \in Key /\ sn \subseteq News /\ sr \subseteq Results /\ rc \subseteq Time
  BY <1>2 DEF Types, Truncated, MarkedNews, MarkedResults, Recent, WithinHour, News
<1>5. u = [[[[s EXCEPT !.seenKey = sk] EXCEPT !.seenNews = sn] EXCEPT !.seenResults = sr] EXCEPT !.recent = rc]
  BY DEF UpdatedStateAfterScan
<1> HIDE DEF s, sk, sn, sr, rc
<1>6. u = [last |-> s.last, byKey |-> s.byKey, recent |-> rc, seenKey |-> sk, seenNews |-> sn, seenResults |-> sr]
  <2>1. [[last |-> s.last, byKey |-> s.byKey, recent |-> s.recent, seenKey |-> s.seenKey,
         seenNews |-> s.seenNews, seenResults |-> s.seenResults] EXCEPT !.seenKey = sk]
        = [last |-> s.last, byKey |-> s.byKey, recent |-> s.recent, seenKey |-> sk,
           seenNews |-> s.seenNews, seenResults |-> s.seenResults]
    OBVIOUS
  <2>2. [[last |-> s.last, byKey |-> s.byKey, recent |-> s.recent, seenKey |-> sk,
         seenNews |-> s.seenNews, seenResults |-> s.seenResults] EXCEPT !.seenNews = sn]
        = [last |-> s.last, byKey |-> s.byKey, recent |-> s.recent, seenKey |-> sk,
           seenNews |-> sn, seenResults |-> s.seenResults]
    OBVIOUS
  <2>3. [[last |-> s.last, byKey |-> s.byKey, recent |-> s.recent, seenKey |-> sk,
         seenNews |-> sn, seenResults |-> s.seenResults] EXCEPT !.seenResults = sr]
        = [last |-> s.last, byKey |-> s.byKey, recent |-> s.recent, seenKey |-> sk,
           seenNews |-> sn, seenResults |-> sr]
    OBVIOUS
  <2>4. [[last |-> s.last, byKey |-> s.byKey, recent |-> s.recent, seenKey |-> sk,
         seenNews |-> sn, seenResults |-> sr] EXCEPT !.recent = rc]
        = [last |-> s.last, byKey |-> s.byKey, recent |-> rc, seenKey |-> sk,
           seenNews |-> sn, seenResults |-> sr]
    OBVIOUS
  <2> QED
    BY <1>3, <1>5, <2>1, <2>2, <2>3, <2>4, Zenon
<1> HIDE DEF u
<1>7. CASE ~sc.fired
  <2>1. n = u
    BY <1>7 DEF StateToSave, u, s
  <2>2. n \in RTState
    BY <1>2, <1>4, <1>6, <2>1 DEF RTState
  <2>3. /\ n.last = s.last /\ n.byKey = s.byKey /\ n.recent = rc /\ n.seenKey = sk /\ n.seenNews = sn
        /\ n.seenResults = sr
    BY <1>6, <2>1
  <2> QED
    BY <1>7, <2>2, <2>3 DEF s, sk, sn, sr, rc
<1>8. CASE sc.fired
  <2> DEFINE bk == [s.byKey EXCEPT ![key] = sc.at]
  <2>1. key \in CooldownKey
    BY <1>8 DEF CooldownKey, Decision
  <2>2. bk \in [CooldownKey -> Time]
    BY <1>1, <1>2
  <2>3. n = [[[u EXCEPT !.last = sc.at] EXCEPT !.recent = rc \cup {sc.at}] EXCEPT !.byKey = bk]
    <3>1. n = [u EXCEPT !.last = sc.at, !.recent = @ \cup {sc.at}, !.byKey[key] = sc.at]
      BY <1>8 DEF StateToSave, u, s
    <3>2. u.recent = rc /\ u.byKey = s.byKey
      BY <1>6
    <3> QED
      BY <3>1, <3>2
  <2> HIDE DEF key, bk
  <2>4. n = [last |-> sc.at, byKey |-> bk, recent |-> rc \cup {sc.at}, seenKey |-> sk, seenNews |-> sn,
             seenResults |-> sr]
    <3>1. [[last |-> s.last, byKey |-> s.byKey, recent |-> rc, seenKey |-> sk,
           seenNews |-> sn, seenResults |-> sr] EXCEPT !.last = sc.at]
          = [last |-> sc.at, byKey |-> s.byKey, recent |-> rc, seenKey |-> sk,
             seenNews |-> sn, seenResults |-> sr]
      OBVIOUS
    <3>2. [[last |-> sc.at, byKey |-> s.byKey, recent |-> rc, seenKey |-> sk,
           seenNews |-> sn, seenResults |-> sr] EXCEPT !.recent = rc \cup {sc.at}]
          = [last |-> sc.at, byKey |-> s.byKey, recent |-> rc \cup {sc.at}, seenKey |-> sk,
             seenNews |-> sn, seenResults |-> sr]
      OBVIOUS
    <3>3. [[last |-> sc.at, byKey |-> s.byKey, recent |-> rc \cup {sc.at}, seenKey |-> sk,
           seenNews |-> sn, seenResults |-> sr] EXCEPT !.byKey = bk]
          = [last |-> sc.at, byKey |-> bk, recent |-> rc \cup {sc.at}, seenKey |-> sk,
             seenNews |-> sn, seenResults |-> sr]
      OBVIOUS
    <3> QED
      BY <1>6, <2>3, <3>1, <3>2, <3>3, Zenon
  <2> HIDE DEF n
  <2>5. n \in RTState
    BY <1>1, <1>4, <2>2, <2>4 DEF RTState
  <2>6. /\ n.last = sc.at /\ n.byKey = bk /\ n.recent = rc \cup {sc.at} /\ n.seenKey = sk /\ n.seenNews = sn
        /\ n.seenResults = sr
    BY <2>4
  <2> QED
    BY <1>8, <2>5, <2>6 DEF s, sk, sn, sr, rc, bk, n, key
<1> QED
  BY <1>1, <1>7, <1>8

\* The fields of the state the brake saves.
LEMMA BrakeSavedIs ==
  ASSUME NEW s \in RTState, NEW now \in Time
  PROVE  /\ StateWithBrakeWake(s, now) \in RTState
         /\ StateWithBrakeWake(s, now).last = now
         /\ \A k \in CooldownKey : k # <<"brake", 0>> => StateWithBrakeWake(s, now).byKey[k] = s.byKey[k]
         /\ StateWithBrakeWake(s, now).recent = {t \in s.recent : t >= HourStart(now)} \cup {now}
         /\ StateWithBrakeWake(s, now).seenKey = s.seenKey
         /\ StateWithBrakeWake(s, now).seenNews = s.seenNews
         /\ StateWithBrakeWake(s, now).seenResults = s.seenResults
<1> DEFINE n == StateWithBrakeWake(s, now)
           bk == [s.byKey EXCEPT ![<<"brake", 0>>] = now]
           rc == {t \in s.recent : t >= HourStart(now)} \cup {now}
<1>1. /\ s.last \in Time /\ s.byKey \in [CooldownKey -> Time] /\ s.recent \subseteq Time /\ s.seenKey \in Key
      /\ s.seenNews \subseteq News /\ s.seenResults \subseteq Results
  BY DEF RTState
<1>2. bk \in [CooldownKey -> Time] /\ rc \subseteq Time
  BY <1>1
<1>3. s = [last |-> s.last, byKey |-> s.byKey, recent |-> s.recent, seenKey |-> s.seenKey, seenNews |-> s.seenNews,
           seenResults |-> s.seenResults]
  BY DEF RTState
<1>4. n = [[[s EXCEPT !.last = now] EXCEPT !.recent = rc] EXCEPT !.byKey = bk]
  BY DEF StateWithBrakeWake
<1> HIDE DEF rc, n, bk
<1>5. n = [last |-> now, byKey |-> bk, recent |-> rc, seenKey |-> s.seenKey, seenNews |-> s.seenNews,
           seenResults |-> s.seenResults]
  <2>1. [[last |-> s.last, byKey |-> s.byKey, recent |-> s.recent, seenKey |-> s.seenKey,
         seenNews |-> s.seenNews, seenResults |-> s.seenResults] EXCEPT !.last = now]
        = [last |-> now, byKey |-> s.byKey, recent |-> s.recent, seenKey |-> s.seenKey,
           seenNews |-> s.seenNews, seenResults |-> s.seenResults]
    OBVIOUS
  <2>2. [[last |-> now, byKey |-> s.byKey, recent |-> s.recent, seenKey |-> s.seenKey,
         seenNews |-> s.seenNews, seenResults |-> s.seenResults] EXCEPT !.recent = rc]
        = [last |-> now, byKey |-> s.byKey, recent |-> rc, seenKey |-> s.seenKey,
           seenNews |-> s.seenNews, seenResults |-> s.seenResults]
    OBVIOUS
  <2>3. [[last |-> now, byKey |-> s.byKey, recent |-> rc, seenKey |-> s.seenKey,
         seenNews |-> s.seenNews, seenResults |-> s.seenResults] EXCEPT !.byKey = bk]
        = [last |-> now, byKey |-> bk, recent |-> rc, seenKey |-> s.seenKey,
           seenNews |-> s.seenNews, seenResults |-> s.seenResults]
    OBVIOUS
  <2> QED
    BY <1>3, <1>4, <2>1, <2>2, <2>3, Zenon
<1>6. n \in RTState
  BY <1>1, <1>2, <1>5 DEF RTState
<1>7. \A k \in CooldownKey : k # <<"brake", 0>> => bk[k] = s.byKey[k]
  BY <1>1 DEF bk
<1>8. /\ n.last = now /\ n.byKey = bk /\ n.recent = rc /\ n.seenKey = s.seenKey /\ n.seenNews = s.seenNews
      /\ n.seenResults = s.seenResults
  BY <1>5
<1> QED
  BY <1>6, <1>7, <1>8 DEF n, rc

-----------------------------------------------------------------------------
LEMMA InitInv == Init => IInv
<1> SUFFICES ASSUME Init PROVE IInv
  OBVIOUS
<1>1. FirstTime \in Nat /\ FirstTime > 0 /\ FirstTime \in Time /\ 0 \in Time /\ 0 \in Key /\ MaxRevision \in Nat
  BY TimesAssumption DEF Time, Key
<1>2. EmptyState \in RTState /\ EmptyState.last = 0 /\ EmptyState.seenKey = 0 /\ EmptyState.recent = {}
  BY <1>1 DEF EmptyState, RTState
<1>3. IdleScan \in ScanState /\ IdleBrake \in BrakeState
  BY <1>1, <1>2 DEF IdleScan, IdleBrake, ScanState, BrakeState
<1>4. Types
  <2>1. {i \in Items : arrived[i] # 0} = {}
    BY DEF Init
  <2>2. arrived \in [Items -> Time]
    BY <1>1 DEF Init
  <2> QED
    BY <1>1, <1>2, <1>3, <2>1, <2>2, FS_EmptySet DEF Init, Types
<1>5. \A s \in States : s = EmptyState
  BY DEF States, Init, IdleScan, IdleBrake
<1>6. Own = {}
  BY DEF Own, Init
<1>7. scan.pc = "idle" /\ ~scan.fired /\ brake.pc = "idle" /\ scan.chosen = Nothing
  BY DEF Init, IdleScan, IdleBrake
<1>8. Stamps
  BY <1>1, <1>2, <1>5, <1>6, <1>7 DEF Stamps, Init
<1>9. Chosen
  BY <1>7 DEF Chosen, Nothing
<1>10. StateKnows /\ ScanKnows /\ BrakeKnows
  BY <1>6, <1>7 DEF StateKnows, ScanKnows, BrakeKnows, Remembered
<1>11. KeysKnown /\ LastWasSent
  BY <1>2, <1>5, <1>7 DEF KeysKnown, LastWasSent, Known
<1>12. CooldownKept /\ ClockHourLimit /\ WokenOnce
  BY <1>6 DEF CooldownKept, ClockHourLimit, WokenOnce, Ordinary
<1> QED
  BY <1>4, <1>8, <1>9, <1>10, <1>11, <1>12 DEF IInv

\* Nothing in these three properties comes from later than the wakes.
LEMMA SentStays ==
  ASSUME IInv, Own' = Own, lost \subseteq lost', evicted \subseteq evicted'
  PROVE  CooldownKept' /\ ClockHourLimit' /\ WokenOnce' /\ Remembered' \subseteq Remembered
<1>1. Remembered' \subseteq Remembered /\ Ordinary' = Ordinary
  BY DEF Remembered, Ordinary
<1>2. CooldownKept'
  BY <1>1 DEF IInv, CooldownKept
<1>3. WokenOnce'
  BY <1>1 DEF IInv, WokenOnce
<1>4. ClockHourLimit'
  <2> SUFFICES ASSUME NEW w \in Ordinary
               PROVE  Cardinality({e \in Remembered' : HourStart(w.at) <= e.at /\ e.at < w.at}) < MaxPerHour
    BY <1>1 DEF ClockHourLimit
  <2> DEFINE then == {e \in Remembered : HourStart(w.at) <= e.at /\ e.at < w.at}
             now == {e \in Remembered' : HourStart(w.at) <= e.at /\ e.at < w.at}
  <2>1. Cardinality(then) < MaxPerHour
    BY DEF IInv, ClockHourLimit
  <2>2. then \subseteq wakes /\ now \subseteq then
    BY <1>1 DEF Remembered, Own
  <2>3. IsFiniteSet(then)
    BY <2>2, FS_Subset DEF IInv, Types
  <2> HIDE DEF then, now
  <2>4. Cardinality(now) <= Cardinality(then) /\ Cardinality(now) \in Nat /\ Cardinality(then) \in Nat
    BY <2>2, <2>3, FS_Subset, FS_CardinalityType
  <2>5. Cardinality(now) < MaxPerHour
    BY <2>1, <2>4, TimesAssumption
  <2> QED
    BY <2>5 DEF now
<1> QED
  BY <1>1, <1>2, <1>3, <1>4

\* A wake is about a subject, and its key is one of the cooldown's.
LEMMA WakeIs ==
  ASSUME Types, NEW e \in Own
  PROVE  /\ e \in Wake /\ e.at \in Nat /\ e.subject \in Subject
         /\ CooldownKeyOf(e.subject) \in CooldownKey /\ CooldownKeyOf(e.subject) # <<"brake", 0>>
         /\ e.subject[1] \in {"news", "followup"} => e.subject[2] \in Items
<1>1. e \in Wake /\ e.subject \in Subject /\ e.subject[1] # "brake"
  BY DEF Types, Own, Wake
<1>2. e.at \in Nat
  BY <1>1, TimesAssumption DEF Wake, Time
<1>3. e.subject[1] \in {"news", "followup"} => e.subject[2] \in Items
  BY <1>1 DEF Subject
<1>4. CooldownKeyOf(e.subject)[1] # "brake"
  BY <1>1 DEF CooldownKeyOf
<1> QED
  BY <1>1, <1>2, <1>3, <1>4 DEF CooldownKey

\* What a state knows it keeps, while only more is dropped and more comes in.
LEMMA KnowsStays ==
  ASSUME IInv, evicted \subseteq evicted', \A i \in Items : Gone(i) => Gone(i)',
         NEW s, NEW e \in Own, Knows(s, e)
  PROVE  Knows(s, e)'
BY WakeIs DEF Knows, IInv

\* Time passes, a strategy comes out, or an item arrives.
LEMMA QuietInv ==
  ASSUME IInv, UNCHANGED <<state, scan, brake, wakes, lost, evicted, handled>>,
         clock <= clock', clock' \in Time, strategy <= strategy', strategy' \in Key,
         strategy' = strategy \/ scan.pc = "idle" \/ strategy' \in overtaken', overtaken \subseteq overtaken',
         arrived' \in [Items -> Time], IsFiniteSet({i \in Items : arrived'[i] # 0}),
         \A i \in Items : arrived[i] # 0 => arrived'[i] = arrived[i],
         \A i \in Items : arrived'[i] < clock',
         \A i \in Items : Gone(i) => Gone(i)'
  PROVE  IInv'
<1>1. Own' = Own /\ Remembered' = Remembered /\ OwnWake' = OwnWake /\ States' = States
  BY DEF Own, Remembered, OwnWake, States
<1>2. /\ clock \in Nat /\ clock' \in Nat /\ strategy \in Nat /\ strategy' \in Nat
      /\ \A s \in States : s \in RTState
  BY TimesAssumption DEF IInv, Types, Time, Key, States, ScanState, BrakeState
<1>3. Types'
  BY DEF IInv, Types
<1>4. Stamps'
  <2>1. \A s \in States : s.seenKey \in Nat /\ s.recent \subseteq Nat
    BY <1>2, TimesAssumption DEF RTState, Key, Time
  <2>2. scan.at \in Nat /\ brake.at \in Nat /\ \A w \in wakes : w.at \in Nat
    BY TimesAssumption DEF IInv, Types, ScanState, BrakeState, Wake, Time
  <2> QED
    BY <1>1, <1>2, <2>1, <2>2 DEF IInv, Stamps
<1>5. Chosen'
  <2>1. \A i \in Items : arrived[i] # 0 /\ Ready(i, scan.at) => Ready(i, scan.at)'
    BY DEF Ready
  <2>2. scan.chosen.subject[1] = "strategy" => scan.chosen.subject[2] <= strategy'
    <3>1. ASSUME scan.chosen.subject[1] = "strategy" PROVE scan.chosen.subject[2] \in Nat
      <4>1. scan.chosen \in Decision
        BY <3>1 DEF IInv, Types, ScanState, Nothing
      <4> QED
        BY <3>1, <4>1, TimesAssumption DEF Decision, Subject, Key
    <3> QED
      BY <1>2, <3>1 DEF IInv, Chosen
  <2>3. scan.chosen.subject[1] = "news" => scan.chosen.subject[2] \in News /\ arrived'[scan.chosen.subject[2]] # 0
    BY DEF IInv, Chosen, Items
  <2>4. scan.chosen.subject[1] = "followup" =>
          /\ scan.chosen.subject[2] \in Results /\ arrived'[scan.chosen.subject[2]] # 0
          /\ Ready(scan.chosen.subject[2], scan.at)'
    BY <2>1 DEF IInv, Chosen, Items
  <2>5. /\ scan.pc = "detected" => scan.chosen \in Decision
        /\ scan.fired => scan.chosen \in Decision /\ \E w \in wakes : w.at = scan.at
        /\ scan.pc = "detected" /\ scan.chosen.subject[1] \in {"strategy", "news", "followup"} =>
             \A e \in Remembered : e.subject = scan.chosen.subject =>
               scan.chosen.subject[1] # "strategy" /\ scan.chosen.subject[2] \in evicted
    BY DEF IInv, Chosen
  <2> QED
    BY <1>1, <2>2, <2>3, <2>4, <2>5 DEF Chosen
<1>6. \A s, e : e \in Own /\ Knows(s, e) => Knows(s, e)'
  BY KnowsStays
<1>7. \A s, e : Counts(s, e, clock) => Counts(s, e, clock)'
  BY <1>2 DEF Counts
<1>8. StateKnows' /\ ScanKnows' /\ BrakeKnows'
  <2>1. Remembered \subseteq Own
    BY DEF Remembered
  <2>2. StateKnows'
    BY <1>1, <1>6, <1>7, <2>1 DEF IInv, StateKnows
  <2>3. ScanKnows'
    BY <1>1, <1>6, <2>1 DEF IInv, ScanKnows, Counts
  <2>4. BrakeKnows'
    BY <1>1, <1>6, <1>7, <2>1 DEF IInv, BrakeKnows
  <2> QED
    BY <2>2, <2>3, <2>4
<1>9. KeysKnown'
  BY <1>1 DEF IInv, KeysKnown, Known
<1>10. LastWasSent'
  BY <1>1 DEF IInv, LastWasSent
<1> QED
  BY <1>1, <1>3, <1>4, <1>5, <1>8, <1>9, <1>10, SentStays DEF IInv

LEMMA PublishInv == ASSUME IInv, Publish PROVE IInv'
<1>1. /\ strategy' = strategy + 1 /\ strategy' \in Key /\ strategy <= strategy'
  BY TimesAssumption DEF Publish, IInv, Types, Key
<1>2. \A i \in Items : Gone(i) => Gone(i)'
  BY DEF Publish, Gone, Recent
<1>3. clock \in Time /\ clock <= clock' /\ clock' = clock
  BY TimesAssumption DEF Publish, IInv, Types, Time
<1> QED
  BY <1>1, <1>2, <1>3, QuietInv DEF Publish, IInv, Types, Stamps

LEMMA ClockIs == ASSUME IInv, ClockMoves PROVE clock' = clock + 1 /\ clock \in Nat /\ clock' \in Nat /\ clock < clock' /\ clock' \in Time
BY TimesAssumption DEF ClockMoves, IInv, Types, Time

LEMMA TickInv == ASSUME IInv, Tick PROVE IInv'
<1>1. \A i \in Items : Gone(i) => Gone(i)'
  BY DEF Tick, Gone, Recent
<1>2. \A i \in Items : arrived[i] \in Nat /\ arrived[i] < clock
  BY TimesAssumption DEF IInv, Types, Stamps, Time
<1>3. strategy <= strategy
  BY TimesAssumption DEF IInv, Types, Key
<1> QED
  BY <1>1, <1>2, <1>3, ClockIs, QuietInv DEF Tick, IInv, Types

LEMMA ArriveInv == ASSUME IInv, NEW j \in Items, Arrive(j) PROVE IInv'
<1>1. /\ arrived \in [Items -> Time] /\ arrived[j] = 0 /\ arrived' = [arrived EXCEPT ![j] = clock] /\ clock \in Time
      /\ \A i \in Items : arrived[i] \in Nat /\ arrived[i] < clock
  BY TimesAssumption DEF IInv, Types, Arrive, Stamps, Time
<1>2. \A i \in Items : i # j => arrived'[i] = arrived[i]
  BY <1>1
<1>3. arrived' \in [Items -> Time] /\ arrived'[j] = clock
  BY <1>1
<1>4. IsFiniteSet({i \in Items : arrived'[i] # 0})
  <2>1. {i \in Items : arrived'[i] # 0} \subseteq {i \in Items : arrived[i] # 0} \cup {j}
    BY <1>2
  <2>2. IsFiniteSet({i \in Items : arrived[i] # 0} \cup {j})
    BY FS_AddElement DEF IInv, Types
  <2> QED
    BY <2>1, <2>2, FS_Subset
<1>5. \A i \in Items : arrived'[i] < clock'
  BY <1>1, <1>2, <1>3, ClockIs DEF Arrive
<1>6. \A i \in Items : Gone(i) => Gone(i)'
  BY GoneStays
<1>7. strategy <= strategy
  BY TimesAssumption DEF IInv, Types, Key
<1> QED
  BY <1>1, <1>2, <1>3, <1>4, <1>5, <1>6, <1>7, ClockIs, QuietInv DEF Arrive, IInv, Types

-----------------------------------------------------------------------------
\* What a scan decides on is new to the state it loaded, and is there.
LEMMA DecisionIs ==
  ASSUME IInv, NEW held \in BOOLEAN, NEW holds \in {{}} \cup {{c} : c \in Conditions},
         NEW d \in Detected(state, clock, held, holds), d # Nothing
  PROVE  /\ d \in Decision
         /\ d.subject[1] = "strategy" => d.subject[2] = strategy /\ strategy # state.seenKey
         /\ d.subject[1] = "news" =>
              /\ d.subject[2] \in News \ state.seenNews /\ arrived[d.subject[2]] # 0 /\ ~Gone(d.subject[2])
         /\ d.subject[1] = "followup" =>
              /\ d.subject[2] \in Results \ state.seenResults /\ arrived[d.subject[2]] # 0 /\ ~Gone(d.subject[2])
              /\ Ready(d.subject[2], clock)
<1>1. d \in StrategyUpdate(state) \cup HighImpactNews(state) \cup ExecutionFollowup(state, clock)
              \cup MarketCondition(holds) \cup Silence(state, clock, held)
  BY DetectedIs
<1>2. CASE d \in StrategyUpdate(state)
  <2>1. d = [subject |-> <<"strategy", strategy>>, bypass |-> TRUE] /\ strategy # state.seenKey
    BY <1>2 DEF StrategyUpdate
  <2>2. strategy \in Key
    BY DEF IInv, Types
  <2> QED
    BY <2>1, <2>2 DEF Decision, Subject
<1>3. CASE d \in HighImpactNews(state)
  <2>1. PICK S \in {Macro, Submissions} : d \in NewsOf(S, state)
    BY <1>3 DEF HighImpactNews
  <2>2. PICK i \in Recent(S, DetectLimit) \ state.seenNews : d = [subject |-> <<"news", i>>, bypass |-> i \in Critical]
    BY <2>1 DEF NewsOf, Newest
  <2>3. i \in S /\ arrived[i] # 0 /\ i \in News
    BY <2>2 DEF Recent, News
  <2>4. i \in Recent(S, MarkLimit)
    BY <2>2, RecentGrows DEF IInv
  <2>5. ~Gone(i)
    BY <2>4 DEF Gone
  <2> QED
    BY <2>2, <2>3, <2>5 DEF Decision, Subject, Items
<1>4. CASE d \in ExecutionFollowup(state, clock)
  <2>1. PICK i \in Recent(Results, DetectLimit) \cap Filled :
           /\ i \notin state.seenResults /\ clock - arrived[i] >= Delay
           /\ d = [subject |-> <<"followup", i>>, bypass |-> FALSE]
    BY <1>4 DEF ExecutionFollowup, Newest
  <2>2. i \in Results /\ arrived[i] # 0 /\ Ready(i, clock)
    BY <2>1 DEF Recent, Ready
  <2>3. i \in Recent(Results, MarkLimit)
    BY <2>1, RecentGrows DEF IInv
  <2>4. ~Gone(i)
    BY <2>3 DEF Gone
  <2> QED
    BY <2>1, <2>2, <2>4 DEF Decision, Subject, Items
<1>5. CASE d \in MarketCondition(holds)
  <2>1. PICK c \in Conditions : d = [subject |-> <<"market", c>>, bypass |-> FALSE]
    BY <1>5 DEF MarketCondition
  <2> QED
    BY <2>1 DEF Decision, Subject
<1>6. CASE d \in Silence(state, clock, held)
  <2>1. d = [subject |-> <<"heartbeat", held>>, bypass |-> FALSE]
    BY <1>6 DEF Silence
  <2> QED
    BY <2>1 DEF Decision, Subject
<1> QED
  BY <1>1, <1>2, <1>3, <1>4, <1>5, <1>6

LEMMA ScanDetectInv ==
  ASSUME IInv, NEW held \in BOOLEAN, NEW holds \in {{}} \cup {{c} : c \in Conditions}, ScanDetect(held, holds)
  PROVE  IInv'
<1>1. scan.pc = "idle" /\ ~scan.fired /\ OwnWake = {}
  BY DEF ScanDetect, IInv, Stamps, OwnWake
<1>2. PICK d \in Detected(state, clock, held, holds) :
        scan' = [pc |-> IF d = Nothing THEN "handled" ELSE "detected", at |-> clock, held |-> held, loaded |-> state,
                 chosen |-> d, fired |-> FALSE, missed |-> {}]
  BY DEF ScanDetect
<1>3. UNCHANGED <<state, brake, strategy, arrived, aborts, wakes, lost, evicted, handled, overtaken>>
  BY DEF ScanDetect
<1>4. /\ scan'.pc = (IF d = Nothing THEN "handled" ELSE "detected") /\ scan'.at = clock /\ scan'.held = held
      /\ scan'.loaded = state /\ scan'.chosen = d /\ scan'.fired = FALSE /\ scan'.missed = {}
  BY <1>2
<1>5. clock' = clock + 1 /\ clock \in Nat /\ clock' \in Nat /\ clock < clock' /\ clock' \in Time
  BY ClockIs DEF ScanDetect
<1>6. clock \in Time /\ state \in RTState
  BY DEF IInv, Types
<1>7. d # Nothing => d \in Decision
  BY DecisionIs
<1>8. Own' = Own /\ Remembered' = Remembered /\ OwnWake' = {} /\ \A s \in States' : s \in States
  BY <1>3, <1>4 DEF Own, Remembered, OwnWake, States
<1>9. Types'
  <2>1. scan' \in ScanState
    BY <1>2, <1>6, <1>7 DEF ScanState
  <2> QED
    BY <1>3, <1>5, <2>1 DEF IInv, Types
<1>10. \A s \in States : s.seenKey \in Nat /\ s.recent \subseteq Nat
  BY TimesAssumption DEF IInv, Types, States, ScanState, BrakeState, RTState, Key, Time
<1>11. brake.at \in Nat /\ (\A w \in wakes : w.at \in Nat /\ w.at < clock) /\ \A i \in Items : arrived[i] \in Nat
  BY TimesAssumption DEF IInv, Types, Stamps, BrakeState, Wake, Time
<1>12. clock > 0
  BY DEF IInv, Stamps
<1>13. Stamps'
  <2>1. \A w \in Own : w \in wakes
    BY DEF Own
  <2> QED
    BY <1>3, <1>4, <1>5, <1>8, <1>10, <1>11, <1>12, <2>1 DEF IInv, Stamps
<1>14. \A s, e : e \in Own /\ Knows(s, e) => Knows(s, e)'
  <2>1. \A i : Gone(i)' <=> Gone(i)
    BY <1>3 DEF Gone, Recent
  <2> QED
    BY <1>3, <2>1, KnowsStays
<1>15. \A s, e : Counts(s, e, clock) => Counts(s, e, clock)'
  BY <1>5 DEF Counts
<1>16. Remembered \subseteq Own
  BY DEF Remembered
<1>17. \A e \in Remembered : Knows(state, e) /\ Counts(state, e, clock)
  BY <1>1 DEF IInv, StateKnows
<1>18. Chosen'
  <2>1. CASE d = Nothing
    BY <1>4, <2>1 DEF Chosen, Nothing
  <2>2. CASE d # Nothing
    <3>1. /\ d \in Decision
          /\ d.subject[1] = "strategy" => d.subject[2] = strategy /\ strategy # state.seenKey
          /\ d.subject[1] = "news" =>
               /\ d.subject[2] \in News \ state.seenNews /\ arrived[d.subject[2]] # 0 /\ ~Gone(d.subject[2])
          /\ d.subject[1] = "followup" =>
               /\ d.subject[2] \in Results \ state.seenResults /\ arrived[d.subject[2]] # 0 /\ ~Gone(d.subject[2])
               /\ Ready(d.subject[2], clock)
      BY <2>2, DecisionIs
    <3>2. ASSUME NEW e \in Remembered, e.subject = d.subject, d.subject[1] = "strategy" PROVE FALSE
      <4>1. d.subject[2] <= state.seenKey
        BY <1>17, <3>2 DEF Knows
      <4>2. state.seenKey <= strategy /\ state.seenKey \in Nat /\ strategy \in Nat
        BY TimesAssumption DEF IInv, Stamps, States, Types, RTState, Key
      <4> QED
        BY <3>1, <3>2, <4>1, <4>2
    <3>3. ASSUME NEW e \in Remembered, e.subject = d.subject, d.subject[1] \in {"news", "followup"}
          PROVE  d.subject[2] \in evicted
      <4>1. d.subject[2] \in state.seenNews \cup state.seenResults \cup evicted
        BY <1>17, <3>1, <3>3 DEF Knows
      <4>2. state.seenNews \subseteq News /\ state.seenResults \subseteq Results
        BY <1>6 DEF RTState
      <4> QED
        BY <3>1, <3>3, <4>1, <4>2, ItemsAssumption
    <3>4. strategy \in Nat
      BY TimesAssumption DEF IInv, Types, Key
    <3>5. d.subject[1] = "followup" => (d.subject[2] \in Filled => clock - arrived'[d.subject[2]] >= Delay)
      BY <1>3, <3>1 DEF Ready
    <3> QED
      BY <1>3, <1>4, <1>8, <3>1, <3>2, <3>3, <3>4, <3>5 DEF Chosen, Ready
  <2> QED
    BY <2>1, <2>2
<1>19. StateKnows'
  BY <1>3, <1>8, <1>14, <1>15, <1>16, <1>17 DEF StateKnows
<1>20. ScanKnows'
  <2>1. \A e \in Remembered : Counts(state, e, clock)
    BY <1>17
  <2> QED
    BY <1>4, <1>8, <1>14, <1>16, <1>17, <2>1 DEF ScanKnows, Counts
<1>21. BrakeKnows'
  BY <1>1, <1>3, <1>8, <1>14, <1>15, <1>16 DEF IInv, BrakeKnows
<1>22. KeysKnown'
  <2>1. \A s \in States' : Known(s.seenKey)'
    BY <1>3, <1>8 DEF IInv, KeysKnown, Known
  <2>2. Known(strategy)' \/ (scan'.pc = "detected" /\ scan'.chosen.subject = <<"strategy", strategy'>>)
    <3>1. CASE StrategyUpdate(state) = {}
      <4>1. strategy \in {0, state.seenKey} \cup InternalOnly
        BY <3>1 DEF StrategyUpdate
      <4> QED
        BY <1>3, <4>1 DEF IInv, KeysKnown, Known, States
    <3>2. CASE StrategyUpdate(state) # {}
      <4>1. d \in StrategyUpdate(state)
        BY <3>2, DetectedIs
      <4>2. d = [subject |-> <<"strategy", strategy>>, bypass |-> TRUE]
        BY <4>1 DEF StrategyUpdate
      <4>3. d.subject = <<"strategy", strategy>> /\ d # Nothing
        BY <4>2 DEF Nothing
      <4> QED
        BY <1>3, <1>4, <4>3
    <3> QED
      BY <3>1, <3>2
  <2> QED
    BY <2>1, <2>2 DEF KeysKnown
<1>23. LastWasSent'
  BY <1>3, <1>8 DEF IInv, LastWasSent
<1> QED
  BY <1>3, <1>8, <1>9, <1>13, <1>18, <1>19, <1>20, <1>21, <1>22, <1>23, SentStays DEF IInv

\* The wake of a scan comes at its distance from those before it.
LEMMA OrdinaryWaits ==
  ASSUME IInv, scan.pc = "detected", ~CoolingDown(scan.chosen, scan.loaded, scan.at), ~scan.chosen.bypass
  PROVE  /\ \A e \in Remembered :
              /\ scan.at - e.at >= GlobalCooldown
              /\ CooldownKeyOf(e.subject) = CooldownKeyOf(scan.chosen.subject) => scan.at - e.at >= KeyCooldown
         /\ Cardinality({e \in Remembered : HourStart(scan.at) <= e.at /\ e.at < scan.at}) < MaxPerHour
<1> DEFINE s == scan.loaded
           key == CooldownKeyOf(scan.chosen.subject)
<1>1. /\ ~ (s.last # 0 /\ scan.at - s.last < GlobalCooldown)
      /\ ~ (s.byKey[key] # 0 /\ scan.at - s.byKey[key] < KeyCooldown)
      /\ ~ (Cardinality(WithinHour(s.recent, scan.at)) >= MaxPerHour)
  BY DEF CoolingDown
<1>2. OwnWake = {}
  BY DEF IInv, Stamps, OwnWake
<1>3. \A e \in Remembered : Knows(s, e) /\ Counts(s, e, scan.at)
  BY <1>2 DEF IInv, ScanKnows
<1>4. s \in RTState /\ scan.at \in Nat
  BY TimesAssumption DEF IInv, Types, ScanState, Time
<1>5. s.last \in Nat /\ (\A k \in CooldownKey : s.byKey[k] \in Nat) /\ s.recent \subseteq Time
  BY <1>4, TimesAssumption DEF RTState, Time
<1>6. \A e \in Remembered : e \in Own /\ e.at \in Nat /\ e.at > 0 /\ CooldownKeyOf(e.subject) \in CooldownKey
  BY WakeIs DEF Remembered, IInv, Stamps, Own
<1> HIDE DEF s, key
<1>7. \A e \in Remembered : scan.at - e.at >= GlobalCooldown
  <2> SUFFICES ASSUME NEW e \in Remembered PROVE scan.at - e.at >= GlobalCooldown
    OBVIOUS
  <2>1. e.at <= s.last
    BY <1>3 DEF Knows
  <2> QED
    BY <1>1, <1>4, <1>5, <1>6, <2>1, TimesAssumption
<1>8. \A e \in Remembered : CooldownKeyOf(e.subject) = key => scan.at - e.at >= KeyCooldown
  <2> SUFFICES ASSUME NEW e \in Remembered, CooldownKeyOf(e.subject) = key PROVE scan.at - e.at >= KeyCooldown
    OBVIOUS
  <2>1. e.at <= s.byKey[key] /\ key \in CooldownKey
    BY <1>3, <1>6 DEF Knows
  <2> QED
    BY <1>1, <1>4, <1>5, <1>6, <2>1, TimesAssumption
<1>9. Cardinality({e \in Remembered : HourStart(scan.at) <= e.at /\ e.at < scan.at}) < MaxPerHour
  <2> DEFINE E == {e \in Remembered : HourStart(scan.at) <= e.at /\ e.at < scan.at}
             T == WithinHour(s.recent, scan.at)
             f == [e \in E |-> e.at]
  <2>1. IsFiniteSet(T)
    <3>1. Time = 0 .. MaxTime /\ IsFiniteSet(0 .. MaxTime)
      BY FS_Interval, TimesAssumption DEF Time
    <3>2. T \subseteq Time
      BY <1>5 DEF WithinHour
    <3> QED
      BY <3>1, <3>2, FS_Subset
  <2>2. ASSUME NEW e \in E PROVE e.at \in T
    <3>1. e.at \in s.recent
      BY <1>3, <1>4 DEF Counts
    <3>2. HourStart(scan.at) \in Int /\ scan.at < HourStart(scan.at) + Hour
      BY <1>4, HourStartIs
    <3>3. e.at >= scan.at - Hour
      BY <1>4, <1>6, <3>2, TimesAssumption
    <3> QED
      BY <3>1, <3>3 DEF WithinHour
  <2>3. \A e1, e2 \in E : e1.at = e2.at => e1 = e2
    BY <1>6 DEF IInv, Stamps
  <2> HIDE DEF E, T
  <2>4. f \in Injection(E, T)
    <3>1. f \in [E -> T]
      BY <2>2
    <3>2. \A a, b \in DOMAIN f : f[a] = f[b] => a = b
      BY <2>3
    <3> QED
      BY <3>1, <3>2 DEF Injection, IsInjective
  <2>5. Cardinality(E) <= Cardinality(T) /\ IsFiniteSet(E)
    BY <2>1, <2>4, FS_Injection
  <2>6. Cardinality(E) \in Nat /\ Cardinality(T) \in Nat
    BY <2>1, <2>5, FS_CardinalityType
  <2>7. Cardinality(E) < MaxPerHour
    BY <1>1, <2>5, <2>6, TimesAssumption DEF T
  <2> QED
    BY <2>7 DEF E
<1> QED
  BY <1>7, <1>8, <1>9 DEF key

LEMMA ScanHandleInv == ASSUME IInv, ScanHandle PROVE IInv'
<1> DEFINE new == [at |-> scan.at, subject |-> scan.chosen.subject, ordinary |-> ~scan.chosen.bypass]
           known == IF scan.chosen.subject[1] = "strategy" THEN handled \cup {scan.chosen.subject[2]} ELSE handled
<1>1. PICK ok \in BOOLEAN :
        /\ ok => ~CoolingDown(scan.chosen, scan.loaded, scan.at)
        /\ scan' = [scan EXCEPT !.pc = "handled", !.fired = ok]
        /\ wakes' = IF ok THEN wakes \cup {new} ELSE wakes
  BY DEF ScanHandle
<1>2. /\ scan.pc = "detected" /\ handled' = known
      /\ UNCHANGED <<state, brake, strategy, arrived, clock, aborts, lost, evicted, overtaken>>
  BY DEF ScanHandle
<1>3. scan' = [pc |-> "handled", at |-> scan.at, held |-> scan.held, loaded |-> scan.loaded,
               chosen |-> scan.chosen, fired |-> ok, missed |-> scan.missed]
  BY <1>1 DEF IInv, Types, ScanState
<1>4. /\ scan'.pc = "handled" /\ scan'.at = scan.at /\ scan'.loaded = scan.loaded /\ scan'.chosen = scan.chosen
      /\ scan'.fired = ok /\ scan'.missed = scan.missed
  BY <1>3
<1>5. scan.chosen \in Decision /\ ~scan.fired /\ OwnWake = {} /\ scan \in ScanState
  BY <1>2 DEF IInv, Chosen, Stamps, OwnWake, Types
<1>6. /\ scan.chosen.subject \in Subject /\ scan.chosen.bypass \in BOOLEAN /\ scan.at \in Time /\ scan.at \in Nat
      /\ scan.chosen.subject[1] # "brake" \/ scan.chosen.subject = <<"brake", 0>>
  BY <1>5, TimesAssumption DEF Decision, ScanState, Subject, Time
<1>7. new \in Wake /\ new.at = scan.at /\ new.subject = scan.chosen.subject /\ new.ordinary = ~scan.chosen.bypass
  BY <1>6 DEF Wake
<1> HIDE DEF new
<1>8. wakes \subseteq wakes' /\ wakes' \subseteq wakes \cup {new} /\ (~ok => wakes' = wakes) /\ (ok => new \in wakes')
  BY <1>1
<1>9. OwnWake' = (IF ok THEN {scan.at} ELSE {}) /\ States' = States
  BY <1>2, <1>4 DEF OwnWake, States
<1>10. Own \subseteq Own' /\ Own' \subseteq Own \cup {new}
  BY <1>8 DEF Own
<1>11. \A e \in Own : e.at < scan.at /\ e.at \in Nat /\ e # new
  BY <1>2, <1>7, WakeIs DEF IInv, Stamps
<1>12. Remembered' \subseteq Remembered \cup {new}
  BY <1>2, <1>10 DEF Remembered
<1>13. Types'
  <2>1. scan' \in ScanState
    BY <1>3, <1>5 DEF ScanState
  <2>2. IsFiniteSet(wakes \cup {new})
    BY FS_AddElement DEF IInv, Types
  <2>3. IsFiniteSet(wakes') /\ wakes' \subseteq Wake
    BY <1>7, <1>8, <2>2, FS_Subset DEF IInv, Types
  <2> QED
    BY <1>2, <2>1, <2>3 DEF IInv, Types
<1>14. Stamps'
  <2>1. 0 < scan.at /\ scan.at < clock
    BY <1>2 DEF IInv, Stamps
  <2>2. \A w \in wakes' : 0 < w.at /\ w.at < clock
    BY <1>7, <1>8, <2>1 DEF IInv, Stamps
  <2>3. \A w, e \in Own' : w.at = e.at => w = e
    BY <1>7, <1>10, <1>11, <1>6 DEF IInv, Stamps
  <2>4. \A w \in Own' : w.at <= scan.at /\ (w.at = scan.at => ok /\ w.subject = scan.chosen.subject)
    <3> SUFFICES ASSUME NEW w \in Own' PROVE w.at <= scan.at /\ (w.at = scan.at => ok /\ w.subject = scan.chosen.subject)
      OBVIOUS
    <3>1. CASE w \in Own
      BY <1>6, <1>11, <3>1
    <3>2. CASE w \notin Own
      <4>1. w = new /\ ok
        BY <1>8, <1>10, <3>2 DEF Own
      <4> QED
        BY <1>6, <1>7, <4>1
    <3> QED
      BY <3>1, <3>2
  <2> QED
    BY <1>2, <1>4, <1>9, <2>1, <2>2, <2>3, <2>4 DEF IInv, Stamps
<1>15. Chosen'
  <2>1. ok => \E w \in wakes' : w.at = scan.at
    BY <1>7, <1>8
  <2>2. scan.chosen.subject[1] = "followup" => Ready(scan.chosen.subject[2], scan.at)'
    BY <1>2, <1>4 DEF IInv, Chosen, Ready
  <2> QED
    BY <1>2, <1>4, <1>5, <2>1, <2>2 DEF IInv, Chosen, Ready
<1>16. \A s, e : e \in Own /\ Knows(s, e) => Knows(s, e)'
  <2>1. \A i : Gone(i)' <=> Gone(i)
    BY <1>2 DEF Gone, Recent
  <2> QED
    BY <1>2, <2>1, KnowsStays
<1>17. Remembered \subseteq Own /\ \A e \in Remembered' : e.at \notin OwnWake' => e \in Remembered
  <2>1. ASSUME NEW e \in Remembered', e.at \notin OwnWake', e \notin Remembered PROVE FALSE
    <3>1. e = new /\ ok
      BY <1>8, <1>12, <1>2, <2>1 DEF Remembered, Own
    <3> QED
      BY <1>7, <1>9, <2>1, <3>1
  <2> QED
    BY <2>1 DEF Remembered
<1>18. StateKnows'
  BY <1>2, <1>5, <1>16, <1>17 DEF IInv, StateKnows, Counts
<1>19. ScanKnows'
  BY <1>2, <1>4, <1>5, <1>16, <1>17 DEF IInv, ScanKnows, Counts
<1>20. BrakeKnows'
  BY <1>2, <1>5, <1>16, <1>17 DEF IInv, BrakeKnows, Counts
<1>21. KeysKnown'
  <2>1. handled \subseteq handled'
    BY <1>2
  <2>2. scan.chosen.subject = <<"strategy", strategy>> => strategy \in handled'
    BY <1>2
  <2>3. \A s \in States : Known(s.seenKey)'
    BY <1>2, <2>1 DEF IInv, KeysKnown, Known
  <2>4. Known(strategy)'
    BY <1>2, <2>1, <2>2 DEF IInv, KeysKnown, Known
  <2> QED
    BY <1>9, <2>3, <2>4 DEF KeysKnown, Known
<1>22. LastWasSent'
  BY <1>2, <1>8, <1>9 DEF IInv, LastWasSent
<1>23. Remembered \cap Remembered' \subseteq Remembered /\ \A e \in Remembered' : e \in Remembered \/ e = new
  BY <1>12
<1>24. \A w \in Ordinary' : w \in Ordinary \/ (w = new /\ ok /\ ~scan.chosen.bypass)
  <2> SUFFICES ASSUME NEW w \in Ordinary', w \notin Ordinary PROVE w = new /\ ok /\ ~scan.chosen.bypass
    OBVIOUS
  <2>1. w \in Own' /\ w.ordinary /\ w \notin Own
    BY DEF Ordinary
  <2>2. w = new /\ ok
    BY <1>8, <1>10, <2>1 DEF Own
  <2> QED
    BY <1>7, <2>1, <2>2
<1>25. \A w \in Ordinary : w.at < scan.at /\ w.at \in Nat
  BY <1>11 DEF Ordinary
<1>26. CooldownKept'
  <2> SUFFICES ASSUME NEW w \in Ordinary', NEW e \in Remembered', e.at < w.at
               PROVE  /\ w.at - e.at >= GlobalCooldown
                      /\ CooldownKeyOf(e.subject) = CooldownKeyOf(w.subject) => w.at - e.at >= KeyCooldown
    BY DEF CooldownKept
  <2>1. w.at <= scan.at /\ w.at \in Nat
    BY <1>6, <1>7, <1>24, <1>25
  <2>2. e \in Remembered
    BY <1>6, <1>7, <1>23, <2>1
  <2>3. CASE w \in Ordinary
    BY <2>2, <2>3 DEF IInv, CooldownKept
  <2>4. CASE w \notin Ordinary
    BY <1>1, <1>2, <1>7, <1>24, <2>2, <2>4, OrdinaryWaits
  <2> QED
    BY <2>3, <2>4
<1>27. ClockHourLimit'
  <2> SUFFICES ASSUME NEW w \in Ordinary'
               PROVE  Cardinality({e \in Remembered' : HourStart(w.at) <= e.at /\ e.at < w.at}) < MaxPerHour
    BY DEF ClockHourLimit
  <2>1. w.at <= scan.at /\ w.at \in Nat
    BY <1>6, <1>7, <1>24, <1>25
  <2>2. {e \in Remembered' : HourStart(w.at) <= e.at /\ e.at < w.at}
        = {e \in Remembered : HourStart(w.at) <= e.at /\ e.at < w.at}
    <3>1. \A e \in Remembered' : e.at < w.at => e \in Remembered
      BY <1>6, <1>7, <1>23, <2>1
    <3>2. Remembered \subseteq Remembered'
      BY <1>2, <1>10 DEF Remembered
    <3> QED
      BY <3>1, <3>2
  <2>3. CASE w \in Ordinary
    BY <2>2, <2>3 DEF IInv, ClockHourLimit
  <2>4. CASE w \notin Ordinary
    BY <1>1, <1>2, <1>7, <1>24, <2>2, <2>4, OrdinaryWaits
  <2> QED
    BY <2>3, <2>4
<1>28. WokenOnce'
  <2> SUFFICES ASSUME NEW w \in Own', NEW e \in Remembered', w.subject[1] \in {"strategy", "news", "followup"},
                      e.subject = w.subject, e.at < w.at
               PROVE  w.subject[1] # "strategy" /\ w.subject[2] \in evicted'
    BY DEF WokenOnce
  <2>1. w.at <= scan.at /\ w.at \in Nat
    BY <1>6, <1>7, <1>10, <1>11
  <2>2. e \in Remembered
    BY <1>6, <1>7, <1>23, <2>1
  <2>3. CASE w \in Own
    BY <1>2, <2>2, <2>3 DEF IInv, WokenOnce
  <2>4. CASE w \notin Own
    BY <1>2, <1>7, <1>10, <2>2, <2>4 DEF IInv, Chosen
  <2> QED
    BY <2>3, <2>4
<1> QED
  BY <1>13, <1>14, <1>15, <1>18, <1>19, <1>20, <1>21, <1>22, <1>26, <1>27, <1>28 DEF IInv

-----------------------------------------------------------------------------
\* What a scan saves keeps what the state it loaded knew, and knows of its own wake.
LEMMA SavedKnows ==
  ASSUME IInv, ScanSave, NEW e \in Remembered, NEW r, r = state'
  PROVE  Knows(r, e)' /\ Counts(r, e, clock)
<1> DEFINE n == StateToSave(scan)
           s == scan.loaded
           key == CooldownKeyOf(scan.chosen.subject)
<1>1. /\ scan.pc = "handled" /\ state' = n /\ UNCHANGED <<strategy, arrived, clock, wakes>>
      /\ evicted' = evicted \cup ((MarkedNews(s) \cup MarkedResults(s, scan.at)) \ (state'.seenNews \cup state'.seenResults))
  BY DEF ScanSave
<1>2. scan \in ScanState /\ (scan.fired => scan.chosen \in Decision) /\ s \in RTState /\ scan.at \in Time /\ scan.at \in Nat
  BY TimesAssumption DEF IInv, Types, Chosen, ScanState, Time
<1>3. /\ state' \in RTState
      /\ state'.last = (IF scan.fired THEN scan.at ELSE s.last)
      /\ state'.byKey = (IF scan.fired THEN [s.byKey EXCEPT ![key] = scan.at] ELSE s.byKey)
      /\ state'.recent = WithinHour(s.recent, scan.at) \cup (IF scan.fired THEN {scan.at} ELSE {})
      /\ state'.seenKey = (IF strategy # 0 THEN strategy ELSE s.seenKey)
  BY <1>1, <1>2, SavedIs DEF IInv
<1>4. MarkedNews(s) \cup MarkedResults(s, scan.at) \subseteq state'.seenNews \cup state'.seenResults \cup evicted'
  BY <1>1
<1>5. /\ s.last \in Nat /\ s.byKey \in [CooldownKey -> Time] /\ (\A k \in CooldownKey : s.byKey[k] \in Nat)
      /\ s.seenKey \in Nat /\ s.recent \subseteq Nat /\ strategy \in Nat /\ clock \in Nat
  BY <1>2, TimesAssumption DEF IInv, Types, RTState, Time, Key
<1>6. s.seenKey <= strategy /\ scan.at < clock
  BY <1>1 DEF IInv, Stamps, States
<1>7. /\ e \in Own /\ e.at \in Nat /\ CooldownKeyOf(e.subject) \in CooldownKey /\ e.at <= scan.at
      /\ e.subject[1] \in {"news", "followup"} => e.subject[2] \in Items
  BY <1>1, WakeIs DEF IInv, Stamps, Remembered
<1>8. \A i : Gone(i)' <=> Gone(i)
  BY <1>1 DEF Gone, Recent
<1>9. s.seenNews \cup s.seenResults \subseteq MarkedNews(s) \cup MarkedResults(s, scan.at)
  BY DEF MarkedNews, MarkedResults
<1>10. Hour \in Nat
  BY TimesAssumption
<1>11. CASE e.at \notin OwnWake
  <2>1. Knows(s, e) /\ Counts(s, e, scan.at)
    BY <1>1, <1>11 DEF IInv, ScanKnows
  <2>2. e.at <= state'.last
    BY <1>2, <1>3, <1>5, <1>7, <2>1 DEF Knows
  <2>3. e.at <= state'.byKey[CooldownKeyOf(e.subject)]
    <3>1. CASE scan.fired /\ CooldownKeyOf(e.subject) = key
      <4>1. state'.byKey[CooldownKeyOf(e.subject)] = scan.at
        BY <1>3, <1>5, <1>7, <3>1
      <4> QED
        BY <1>7, <4>1
    <3>2. CASE ~(scan.fired /\ CooldownKeyOf(e.subject) = key)
      <4>1. state'.byKey[CooldownKeyOf(e.subject)] = s.byKey[CooldownKeyOf(e.subject)]
        BY <1>3, <1>5, <1>7, <3>2
      <4> QED
        BY <2>1, <4>1 DEF Knows
    <3> QED
      BY <3>1, <3>2
  <2>4. e.subject[1] = "strategy" => e.subject[2] <= state'.seenKey
    <3> SUFFICES ASSUME e.subject[1] = "strategy" PROVE e.subject[2] <= state'.seenKey
      OBVIOUS
    <3>1. e.subject[2] <= s.seenKey
      BY <2>1 DEF Knows
    <3>2. e.subject[2] \in Nat
      BY WakeIs, TimesAssumption DEF Remembered, IInv, Subject, Key
    <3> QED
      BY <1>3, <1>5, <1>6, <3>1, <3>2
  <2>5. e.subject[1] \in {"news", "followup"} =>
          e.subject[2] \in state'.seenNews \cup state'.seenResults \cup evicted' \/ Gone(e.subject[2])'
    BY <1>1, <1>4, <1>8, <1>9, <2>1 DEF Knows
  <2>6. Counts(r, e, clock)
    <3> SUFFICES ASSUME NEW c \in Nat, clock <= c, HourStart(c) <= e.at PROVE e.at \in state'.recent
      BY DEF Counts
    <3>1. scan.at <= c
      BY <1>2, <1>5, <1>6
    <3>2. e.at \in s.recent
      BY <2>1, <3>1 DEF Counts
    <3>3. HourStart(c) \in Int /\ c < HourStart(c) + Hour
      BY HourStartIs
    <3>4. e.at >= scan.at - Hour
      BY <1>2, <1>7, <1>10, <3>1, <3>3
    <3> QED
      BY <1>3, <3>2, <3>4 DEF WithinHour
  <2> HIDE DEF n
  <2> QED
    BY <2>2, <2>3, <2>4, <2>5, <2>6 DEF Knows
<1>12. CASE e.at \in OwnWake
  <2>1. scan.fired /\ e.at = scan.at /\ e.subject = scan.chosen.subject
    BY <1>1, <1>7, <1>12 DEF OwnWake, IInv, Stamps
  <2>2. e.at <= state'.last
    BY <1>2, <1>3, <2>1
  <2>3. e.at <= state'.byKey[CooldownKeyOf(e.subject)]
    BY <1>2, <1>3, <1>5, <1>7, <2>1
  <2>4. e.subject[1] = "strategy" => e.subject[2] <= state'.seenKey
    <3> SUFFICES ASSUME e.subject[1] = "strategy" PROVE e.subject[2] <= state'.seenKey
      OBVIOUS
    <3>1. e.subject[2] <= strategy
      BY <2>1 DEF IInv, Chosen
    <3>2. e.subject[2] \in Nat
      BY WakeIs, TimesAssumption DEF Remembered, IInv, Subject, Key
    <3> QED
      BY <1>3, <1>5, <1>6, <3>1, <3>2
  <2>5. e.subject[1] = "news" =>
          e.subject[2] \in state'.seenNews \cup state'.seenResults \cup evicted' \/ Gone(e.subject[2])'
    <3> SUFFICES ASSUME e.subject[1] = "news", ~Gone(e.subject[2])
                 PROVE  e.subject[2] \in MarkedNews(s)
      BY <1>4, <1>8
    <3>1. e.subject[2] \in News /\ arrived[e.subject[2]] # 0
      BY <2>1 DEF IInv, Chosen
    <3>2. PICK S \in {Macro, Submissions, Results} : e.subject[2] \in Recent(S, MarkLimit)
      BY <3>1 DEF Gone
    <3>3. e.subject[2] \in S
      BY <3>2 DEF Recent
    <3>4. S # Results
      BY <3>1, <3>3, ItemsAssumption
    <3> QED
      BY <3>2, <3>4 DEF MarkedNews
  <2>6. e.subject[1] = "followup" =>
          e.subject[2] \in state'.seenNews \cup state'.seenResults \cup evicted' \/ Gone(e.subject[2])'
    <3> SUFFICES ASSUME e.subject[1] = "followup", ~Gone(e.subject[2])
                 PROVE  e.subject[2] \in MarkedResults(s, scan.at)
      BY <1>4, <1>8
    <3>1. e.subject[2] \in Results /\ arrived[e.subject[2]] # 0 /\ Ready(e.subject[2], scan.at)
      BY <2>1 DEF IInv, Chosen
    <3>2. PICK S \in {Macro, Submissions, Results} : e.subject[2] \in Recent(S, MarkLimit)
      BY <3>1 DEF Gone
    <3>3. e.subject[2] \in S
      BY <3>2 DEF Recent
    <3>4. S = Results
      BY <3>1, <3>3, ItemsAssumption DEF News
    <3> QED
      BY <3>1, <3>2, <3>4 DEF MarkedResults
  <2>7. Counts(r, e, clock)
    BY <1>3, <2>1 DEF Counts
  <2> HIDE DEF n
  <2> QED
    BY <2>2, <2>3, <2>4, <2>5, <2>6, <2>7 DEF Knows
<1> QED
  BY <1>11, <1>12

LEMMA ScanSaveInv == ASSUME IInv, ScanSave PROVE IInv'
<1>1. /\ scan.pc = "handled" /\ state' = StateToSave(scan) /\ scan' = IdleScan
      /\ brake' = (IF brake.pc = "woken" THEN [brake EXCEPT !.missed = @ \cup OwnWake] ELSE brake)
      /\ lost' = lost \cup scan.missed /\ evicted \subseteq evicted'
      /\ UNCHANGED <<strategy, arrived, clock, aborts, wakes, handled, overtaken>>
  BY DEF ScanSave
<1>2. scan \in ScanState /\ (scan.fired => scan.chosen \in Decision) /\ brake \in BrakeState /\ scan.loaded \in RTState
  BY DEF IInv, Types, Chosen, ScanState
<1>3. /\ state' \in RTState
      /\ state'.last = (IF scan.fired THEN scan.at ELSE scan.loaded.last)
      /\ state'.recent = WithinHour(scan.loaded.recent, scan.at) \cup (IF scan.fired THEN {scan.at} ELSE {})
      /\ state'.seenKey = (IF strategy # 0 THEN strategy ELSE scan.loaded.seenKey)
  BY <1>1, <1>2, SavedIs DEF IInv
<1>4. /\ scan'.pc = "idle" /\ scan'.fired = FALSE /\ scan'.chosen = Nothing /\ scan'.loaded = EmptyState
      /\ scan' \in ScanState /\ EmptyState \in RTState
      /\ EmptyState.last = 0 /\ EmptyState.seenKey = 0 /\ EmptyState.recent = {}
  <2>1. 0 \in Time /\ 0 \in Key
    BY TimesAssumption DEF Time, Key
  <2>2. EmptyState \in RTState /\ EmptyState.last = 0 /\ EmptyState.seenKey = 0 /\ EmptyState.recent = {}
    BY <2>1 DEF EmptyState, RTState
  <2> QED
    BY <1>1, <2>1, <2>2 DEF IdleScan, ScanState
<1>5. OwnWake \subseteq Time
  BY <1>2 DEF OwnWake, ScanState
<1>6. /\ brake' \in BrakeState /\ brake'.pc = brake.pc /\ brake'.at = brake.at /\ brake'.loaded = brake.loaded
      /\ brake.pc = "woken" => brake'.missed = brake.missed \cup OwnWake
  BY <1>1, <1>2, <1>5 DEF BrakeState
<1>7. Own' = Own /\ Remembered' \subseteq Remembered /\ OwnWake' = {} /\ \A s \in States' : s \in {state', EmptyState, brake.loaded}
  BY <1>1, <1>4, <1>6 DEF Own, Remembered, OwnWake, States
<1>8. Types'
  BY <1>1, <1>3, <1>4, <1>6 DEF IInv, Types
<1>9. Stamps'
  <2>1. scan.at < clock /\ scan.at \in Nat /\ clock \in Nat /\ strategy \in Nat
    BY <1>1, <1>2, TimesAssumption DEF IInv, Stamps, Types, Time, Key, ScanState
  <2>2. \A s \in States : s.seenKey <= strategy /\ \A t \in s.recent : t < clock
    BY DEF IInv, Stamps
  <2>3. state'.seenKey <= strategy /\ \A t \in state'.recent : t < clock
    BY <1>3, <2>1, <2>2 DEF States, WithinHour
  <2>4. EmptyState.seenKey <= strategy /\ \A t \in EmptyState.recent : t < clock
    BY <1>4, <2>1
  <2>5. \A s \in States' : s.seenKey <= strategy /\ \A t \in s.recent : t < clock
    BY <1>7, <2>2, <2>3, <2>4 DEF States
  <2> QED
    BY <1>1, <1>4, <1>6, <1>7, <2>5 DEF IInv, Stamps
<1>10. Chosen'
  BY <1>4 DEF Chosen, Nothing
<1>11. StateKnows'
  <2>1. \A r : r = state' => \A e \in Remembered' : Knows(r, e)' /\ Counts(r, e, clock)
    BY <1>7, SavedKnows DEF Remembered
  <2> QED
    BY <1>1, <2>1 DEF StateKnows, Knows, Counts
<1>12. ScanKnows'
  BY <1>4 DEF ScanKnows
<1>13. BrakeKnows'
  <2> SUFFICES ASSUME brake.pc = "woken", NEW e \in Remembered', e.at \notin brake.missed \cup OwnWake
               PROVE  Knows(brake.loaded, e)' /\ Counts(brake.loaded, e, clock)
    BY <1>1, <1>6, <1>7 DEF BrakeKnows, Knows, Counts
  <2>1. e \in Remembered /\ e \in Own
    BY <1>7 DEF Remembered
  <2>2. \A i : Gone(i)' <=> Gone(i)
    BY <1>1 DEF Gone, Recent
  <2>3. Knows(brake.loaded, e) /\ Counts(brake.loaded, e, clock)
    BY <2>1 DEF IInv, BrakeKnows
  <2>4. Knows(brake.loaded, e)'
    BY <1>1, <1>6, <2>2, <2>3 DEF Knows
  <2> QED
    BY <1>1, <1>6, <2>3, <2>4 DEF Knows
<1>14. KeysKnown'
  <2>1. Known(scan.loaded.seenKey) /\ Known(strategy) /\ Known(brake.loaded.seenKey)
    BY <1>1 DEF IInv, KeysKnown, States
  <2>2. Known(state'.seenKey) /\ Known(EmptyState.seenKey)
    BY <1>3, <1>4, <2>1 DEF Known
  <2>3. \A s \in States' : Known(s.seenKey)
    BY <1>7, <2>1, <2>2
  <2> QED
    BY <1>1, <1>4, <2>3 DEF KeysKnown, Known
<1>15. LastWasSent'
  <2>1. state'.last # 0 => \E w \in wakes : w.at = state'.last
    BY <1>1, <1>3 DEF IInv, LastWasSent, Chosen, States
  <2>2. \A s \in States' : s.last # 0 => \E w \in wakes : w.at = s.last
    BY <1>4, <1>7, <2>1 DEF IInv, LastWasSent, States
  <2> QED
    BY <1>1, <1>6, <2>2 DEF IInv, LastWasSent
<1> QED
  BY <1>1, <1>7, <1>8, <1>9, <1>10, <1>11, <1>12, <1>13, <1>14, <1>15, SentStays DEF IInv

-----------------------------------------------------------------------------
LEMMA IdleIs ==
  /\ EmptyState \in RTState /\ EmptyState.last = 0 /\ EmptyState.seenKey = 0 /\ EmptyState.recent = {}
  /\ IdleScan \in ScanState /\ IdleScan.pc = "idle" /\ ~IdleScan.fired /\ IdleScan.chosen = Nothing
  /\ IdleScan.loaded = EmptyState
  /\ IdleBrake \in BrakeState /\ IdleBrake.pc = "idle" /\ IdleBrake.loaded = EmptyState
<1>1. 0 \in Time /\ 0 \in Key
  BY TimesAssumption DEF Time, Key
<1>2. EmptyState \in RTState /\ EmptyState.last = 0 /\ EmptyState.seenKey = 0 /\ EmptyState.recent = {}
  BY <1>1 DEF EmptyState, RTState
<1> QED
  BY <1>1, <1>2 DEF IdleScan, IdleBrake, ScanState, BrakeState

\* A scan or a brake's wake that is cut off leaves the saved state as it was.
LEMMA ScanAbortInv == ASSUME IInv, ScanAbort PROVE IInv'
<1>1. /\ scan.pc # "idle" /\ scan' = IdleScan /\ lost' = lost \cup OwnWake
      /\ UNCHANGED <<state, brake, strategy, arrived, clock, wakes, evicted, handled, overtaken>>
  BY DEF ScanAbort
<1>2. /\ Own' = Own /\ OwnWake' = {} /\ Remembered' \subseteq Remembered
      /\ \A e \in Remembered' : e.at \notin OwnWake
      /\ \A s \in States' : s \in {state, EmptyState, brake.loaded}
  BY <1>1, IdleIs DEF Own, OwnWake, Remembered, States
<1>3. \A s, e : Knows(s, e) => Knows(s, e)'
  <2>1. \A i : Gone(i)' <=> Gone(i)
    BY <1>1 DEF Gone, Recent
  <2> QED
    BY <1>1, <2>1 DEF Knows
<1>4. Types'
  BY <1>1, IdleIs DEF IInv, Types
<1>5. Stamps'
  <2>1. EmptyState.seenKey <= strategy /\ \A t \in EmptyState.recent : t < clock
    BY IdleIs, TimesAssumption DEF IInv, Types, Key
  <2>2. \A s \in States' : s.seenKey <= strategy /\ \A t \in s.recent : t < clock
    BY <1>2, <2>1 DEF IInv, Stamps, States
  <2> QED
    BY <1>1, <1>2, <2>2, IdleIs DEF IInv, Stamps
<1>6. Chosen'
  BY <1>1, IdleIs DEF Chosen, Nothing
<1>7. StateKnows'
  BY <1>1, <1>2, <1>3 DEF IInv, StateKnows, Counts
<1>8. ScanKnows'
  BY <1>1, IdleIs DEF ScanKnows
<1>9. BrakeKnows'
  BY <1>1, <1>2, <1>3 DEF IInv, BrakeKnows, Counts
<1>10. KeysKnown'
  <2>1. \A s \in States' : Known(s.seenKey)
    BY <1>2, IdleIs DEF IInv, KeysKnown, States, Known
  <2> QED
    BY <1>1, <2>1, IdleIs DEF KeysKnown, Known
<1>11. LastWasSent'
  <2>1. \A s \in States' : s.last # 0 => \E w \in wakes : w.at = s.last
    BY <1>2, IdleIs DEF IInv, LastWasSent, States
  <2> QED
    BY <1>1, <2>1 DEF IInv, LastWasSent
<1> QED
  BY <1>1, <1>2, <1>4, <1>5, <1>6, <1>7, <1>8, <1>9, <1>10, <1>11, SentStays DEF IInv

LEMMA BrakeAbortInv == ASSUME IInv, BrakeAbort PROVE IInv'
<1>1. /\ brake' = IdleBrake /\ lost \subseteq lost'
      /\ UNCHANGED <<state, scan, strategy, arrived, clock, wakes, evicted, handled, overtaken>>
  BY DEF BrakeAbort
<1>2. /\ Own' = Own /\ OwnWake' = OwnWake /\ Remembered' \subseteq Remembered
      /\ \A s \in States' : s \in {state, EmptyState, scan.loaded}
  BY <1>1, IdleIs DEF Own, OwnWake, Remembered, States
<1>3. \A s, e : Knows(s, e) => Knows(s, e)'
  <2>1. \A i : Gone(i)' <=> Gone(i)
    BY <1>1 DEF Gone, Recent
  <2> QED
    BY <1>1, <2>1 DEF Knows
<1>4. Types'
  BY <1>1, IdleIs DEF IInv, Types
<1>5. Stamps'
  <2>1. EmptyState.seenKey <= strategy /\ \A t \in EmptyState.recent : t < clock
    BY IdleIs, TimesAssumption DEF IInv, Types, Key
  <2>2. \A s \in States' : s.seenKey <= strategy /\ \A t \in s.recent : t < clock
    BY <1>2, <2>1 DEF IInv, Stamps, States
  <2> QED
    BY <1>1, <1>2, <2>2, IdleIs DEF IInv, Stamps
<1>6. Chosen'
  BY <1>1, <1>2 DEF IInv, Chosen, Ready
<1>7. StateKnows'
  BY <1>1, <1>2, <1>3 DEF IInv, StateKnows, Counts
<1>8. ScanKnows'
  BY <1>1, <1>2, <1>3 DEF IInv, ScanKnows, Counts
<1>9. BrakeKnows'
  BY <1>1, IdleIs DEF BrakeKnows
<1>10. KeysKnown'
  <2>1. \A s \in States' : Known(s.seenKey)
    BY <1>2, IdleIs DEF IInv, KeysKnown, States, Known
  <2> QED
    BY <1>1, <2>1 DEF IInv, KeysKnown, Known
<1>11. LastWasSent'
  <2>1. \A s \in States' : s.last # 0 => \E w \in wakes : w.at = s.last
    BY <1>2, IdleIs DEF IInv, LastWasSent, States
  <2> QED
    BY <1>1, <2>1, IdleIs DEF LastWasSent
<1> QED
  BY <1>1, <1>2, <1>4, <1>5, <1>6, <1>7, <1>8, <1>9, <1>10, <1>11, SentStays DEF IInv

LEMMA BrakeScanInv == ASSUME IInv, BrakeScan PROVE IInv'
<1>1. /\ brake' = [brake EXCEPT !.pc = "scanning", !.at = clock]
      /\ UNCHANGED <<state, scan, strategy, arrived, wakes, lost, evicted, handled, overtaken>>
      /\ clock' = clock + 1 /\ clock \in Nat /\ clock \in Time /\ clock' \in Time /\ 0 < clock
  BY ClockIs DEF BrakeScan, IInv, Types, Stamps
<1>2. /\ brake' = [pc |-> "scanning", at |-> clock, loaded |-> brake.loaded, missed |-> brake.missed]
      /\ brake.loaded \in RTState /\ brake.missed \subseteq Time
  BY <1>1 DEF IInv, Types, BrakeState
<1>3. /\ Own' = Own /\ OwnWake' = OwnWake /\ Remembered' = Remembered
      /\ brake'.pc = "scanning" /\ brake'.at = clock /\ States' = States
  BY <1>1, <1>2 DEF Own, OwnWake, Remembered, States
<1>4. \A s, e : /\ Knows(s, e) => Knows(s, e)'
                /\ Counts(s, e, clock) => Counts(s, e, clock)'
  <2>1. \A i : Gone(i)' <=> Gone(i)
    BY <1>1 DEF Gone, Recent
  <2> QED
    BY <1>1, <2>1 DEF Knows, Counts
<1>5. Types'
  <2>1. brake' \in BrakeState
    BY <1>1, <1>2 DEF BrakeState
  <2> QED
    BY <1>1, <2>1 DEF IInv, Types
<1>6. Stamps'
  <2>1. \A s \in States : s \in RTState
    BY <1>2 DEF IInv, Types, ScanState, States
  <2>2. \A s \in States : s.recent \subseteq Nat
    BY <2>1, TimesAssumption DEF RTState, Time
  <2>3. /\ scan.at \in Nat /\ \A w \in wakes : w.at \in Nat
        /\ \A i \in Items : arrived[i] \in Nat
    BY TimesAssumption DEF IInv, Types, ScanState, Wake, Time
  <2>4. \A s \in States : s.seenKey <= strategy /\ \A t \in s.recent : t < clock'
    BY <1>1, <2>2 DEF IInv, Stamps
  <2>5. /\ \A w \in wakes : 0 < w.at /\ w.at < clock'
        /\ \A i \in Items : arrived[i] < clock'
        /\ scan.pc # "idle" => 0 < scan.at /\ scan.at < clock'
    BY <1>1, <2>3 DEF IInv, Stamps
  <2> QED
    BY <1>1, <1>3, <2>4, <2>5 DEF IInv, Stamps
<1>7. Chosen'
  BY <1>1, <1>3 DEF IInv, Chosen, Ready
<1>8. StateKnows'
  BY <1>1, <1>3, <1>4 DEF IInv, StateKnows
<1>9. ScanKnows'
  BY <1>1, <1>3, <1>4 DEF IInv, ScanKnows, Counts
<1>10. BrakeKnows'
  BY <1>3 DEF BrakeKnows
<1>11. KeysKnown' /\ LastWasSent'
  BY <1>1, <1>3 DEF IInv, KeysKnown, LastWasSent, Known
<1> QED
  BY <1>1, <1>3, <1>5, <1>6, <1>7, <1>8, <1>9, <1>10, <1>11, SentStays DEF IInv
LEMMA BrakeWakeInv == ASSUME IInv, BrakeWake PROVE IInv'
<1> DEFINE new == [at |-> brake.at, subject |-> <<"brake", 0>>, ordinary |-> FALSE]
<1>1. /\ brake.pc = "scanning" /\ wakes' = wakes \cup {new}
      /\ brake' = [brake EXCEPT !.pc = "woken", !.loaded = state, !.missed = {}]
      /\ UNCHANGED <<state, scan, strategy, arrived, clock, lost, evicted, handled, overtaken>>
  BY DEF BrakeWake
<1>2. brake' = [pc |-> "woken", at |-> brake.at, loaded |-> state, missed |-> {}]
  BY <1>1 DEF IInv, Types, BrakeState
<1>3. brake.at \in Time /\ 0 < brake.at /\ brake.at < clock /\ state \in RTState
  BY <1>1 DEF IInv, Types, Stamps, BrakeState
<1>4. new \in Wake /\ new.at = brake.at /\ new.subject[1] = "brake"
  BY <1>3 DEF Wake, Subject
<1> HIDE DEF new
<1>5. /\ Own' = Own /\ OwnWake' = OwnWake /\ Remembered' = Remembered
      /\ \A s \in States' : s \in States
  BY <1>1, <1>2, <1>4 DEF Own, OwnWake, Remembered, States
<1>6. \A s, e : Knows(s, e) => Knows(s, e)'
  <2>1. \A i : Gone(i)' <=> Gone(i)
    BY <1>1 DEF Gone, Recent
  <2> QED
    BY <1>1, <2>1 DEF Knows
<1>7. Types'
  <2>1. brake' \in BrakeState
    BY <1>2, <1>3 DEF BrakeState
  <2>2. wakes' \subseteq Wake /\ IsFiniteSet(wakes')
    BY <1>1, <1>4, FS_AddElement DEF IInv, Types
  <2> QED
    BY <1>1, <2>1, <2>2 DEF IInv, Types
<1>8. Stamps'
  <2>1. \A w \in wakes' : 0 < w.at /\ w.at < clock
    BY <1>1, <1>3, <1>4 DEF IInv, Stamps
  <2>2. brake'.at = brake.at
    BY <1>2
  <2> QED
    BY <1>1, <1>3, <1>5, <2>1, <2>2 DEF IInv, Stamps
<1>9. Chosen'
  <2>1. scan.fired => \E w \in wakes' : w.at = scan.at
    BY <1>1 DEF IInv, Chosen
  <2> QED
    BY <1>1, <1>5, <2>1 DEF IInv, Chosen, Ready
<1>10. StateKnows'
  BY <1>1, <1>5, <1>6 DEF IInv, StateKnows, Counts
<1>11. ScanKnows'
  BY <1>1, <1>5, <1>6 DEF IInv, ScanKnows, Counts
<1>12. BrakeKnows'
  BY <1>1, <1>2, <1>5, <1>6 DEF IInv, StateKnows, BrakeKnows, Counts
<1>13. KeysKnown'
  BY <1>1, <1>5 DEF IInv, KeysKnown, Known
<1>14. LastWasSent'
  <2>1. \A s \in States : s.last # 0 => \E w \in wakes' : w.at = s.last
    BY <1>1 DEF IInv, LastWasSent
  <2>2. brake'.pc = "woken" => \E w \in wakes' : w.at = brake'.at
    BY <1>1, <1>2, <1>4
  <2> QED
    BY <1>5, <2>1, <2>2 DEF LastWasSent
<1> QED
  BY <1>1, <1>5, <1>7, <1>8, <1>9, <1>10, <1>11, <1>12, <1>13, <1>14, SentStays DEF IInv

\* The brake's record forgets what was saved since it read, and shadows what is
\* later than its own clock; what is left it knows of.
LEMMA BrakeRecordInv == ASSUME IInv, BrakeRecord PROVE IInv'
<1> DEFINE s == brake.loaded
<1>1. /\ brake.pc = "woken" /\ state' = StateWithBrakeWake(s, brake.at) /\ brake' = IdleBrake
      /\ scan' = (IF scan.pc = "idle" THEN scan ELSE [scan EXCEPT !.missed = @ \cup {brake.at}])
      /\ lost' = lost \cup brake.missed \cup {t \in 1 .. s.last : t > brake.at}
      /\ UNCHANGED <<strategy, arrived, clock, wakes, evicted, handled, overtaken>>
  BY DEF BrakeRecord
<1>2. /\ s \in RTState /\ brake.at \in Time /\ brake.at \in Nat /\ 0 < brake.at /\ brake.at < clock /\ clock \in Nat
      /\ s \in States
  BY <1>1, TimesAssumption DEF IInv, Types, Stamps, BrakeState, Time, States
<1>3. /\ state' \in RTState /\ state'.last = brake.at
      /\ \A k \in CooldownKey : k # <<"brake", 0>> => state'.byKey[k] = s.byKey[k]
      /\ state'.recent = {t \in s.recent : t >= HourStart(brake.at)} \cup {brake.at}
      /\ state'.seenKey = s.seenKey /\ state'.seenNews = s.seenNews /\ state'.seenResults = s.seenResults
  BY <1>1, <1>2, BrakeSavedIs
<1>4. /\ scan' \in ScanState /\ scan'.pc = scan.pc /\ scan'.at = scan.at /\ scan'.loaded = scan.loaded
      /\ scan'.chosen = scan.chosen /\ scan'.fired = scan.fired
  BY <1>1, <1>2 DEF IInv, Types, ScanState
<1>5. /\ Own' = Own /\ OwnWake' = OwnWake /\ Remembered' \subseteq Remembered
      /\ \A r \in States' : r \in {state', EmptyState, scan.loaded}
  BY <1>1, <1>4, IdleIs DEF Own, OwnWake, Remembered, States
<1>6. ASSUME NEW e \in Remembered'
      PROVE  e \in Own /\ e.at \in Nat /\ e.at > 0 /\ e.at \notin brake.missed /\ ~(e.at <= s.last /\ e.at > brake.at)
  <2>1. e \in Own /\ e \in Remembered
    BY <1>5 DEF Remembered
  <2>2. e.at \in Nat /\ e.at > 0
    BY <2>1, WakeIs DEF IInv, Stamps, Own
  <2>3. s.last \in Nat
    BY <1>2, TimesAssumption DEF RTState, Time
  <2>4. e.at \notin lost'
    BY DEF Remembered
  <2> QED
    BY <1>1, <2>1, <2>2, <2>3, <2>4
<1>7. \A i : Gone(i)' <=> Gone(i)
  BY <1>1 DEF Gone, Recent
<1>8. \A r, e : Knows(r, e) => Knows(r, e)'
  BY <1>1, <1>7 DEF Knows
<1>9. Types'
  BY <1>1, <1>3, <1>4, IdleIs DEF IInv, Types
<1>10. Stamps'
  <2>1. state'.seenKey <= strategy /\ \A t \in state'.recent : t < clock
    BY <1>2, <1>3 DEF IInv, Stamps
  <2>2. EmptyState.seenKey <= strategy /\ \A t \in EmptyState.recent : t < clock
    BY IdleIs, TimesAssumption DEF IInv, Types, Key
  <2>3. \A r \in States' : r.seenKey <= strategy /\ \A t \in r.recent : t < clock
    BY <1>5, <2>1, <2>2 DEF IInv, Stamps, States
  <2> QED
    BY <1>1, <1>4, <1>5, <2>3, IdleIs DEF IInv, Stamps
<1>11. Chosen'
  BY <1>1, <1>4, <1>5 DEF IInv, Chosen, Ready
<1>12. ASSUME NEW e \in Remembered', e.at \notin OwnWake, NEW r, r = state'
       PROVE  Knows(r, e)' /\ Counts(r, e, clock)
  <2>1. Knows(s, e) /\ Counts(s, e, clock)
    BY <1>1, <1>5, <1>6, <1>12 DEF IInv, BrakeKnows
  <2>2. e.at <= r.last
    BY <1>2, <1>3, <1>6, <1>12, <2>1 DEF Knows
  <2>3. e.at <= r.byKey[CooldownKeyOf(e.subject)]
    <3>1. CooldownKeyOf(e.subject) \in CooldownKey /\ CooldownKeyOf(e.subject) # <<"brake", 0>>
      BY <1>6, WakeIs DEF IInv
    <3> QED
      BY <1>3, <1>12, <2>1, <3>1 DEF Knows
  <2>4. Counts(r, e, clock)
    <3> SUFFICES ASSUME NEW c \in Nat, clock <= c, HourStart(c) <= e.at PROVE e.at \in r.recent
      BY DEF Counts
    <3>1. e.at \in s.recent
      BY <2>1 DEF Counts
    <3>2. HourStart(brake.at) <= HourStart(c) /\ HourStart(brake.at) \in Int /\ HourStart(c) \in Int
      BY <1>2, HoursGrow, HourStartIs
    <3> QED
      BY <1>3, <1>6, <1>12, <3>1, <3>2
  <2> QED
    BY <1>1, <1>3, <1>7, <1>12, <2>1, <2>2, <2>3, <2>4 DEF Knows
<1>13. StateKnows'
  <2>1. \A r : r = state' => \A e \in Remembered' : e.at \notin OwnWake => Knows(r, e)' /\ Counts(r, e, clock)
    BY <1>12
  <2> QED
    BY <1>1, <1>5, <2>1 DEF StateKnows, Knows, Counts
<1>14. ScanKnows'
  BY <1>4, <1>5, <1>8 DEF IInv, ScanKnows, Counts
<1>15. BrakeKnows'
  BY <1>1, IdleIs DEF BrakeKnows
<1>16. KeysKnown'
  <2>1. \A r \in States' : Known(r.seenKey)
    BY <1>2, <1>3, <1>5, IdleIs DEF IInv, KeysKnown, States, Known
  <2> QED
    BY <1>1, <1>4, <2>1 DEF IInv, KeysKnown, Known
<1>17. LastWasSent'
  <2>1. \E w \in wakes : w.at = brake.at
    BY <1>1 DEF IInv, LastWasSent
  <2>2. \A r \in States' : r.last # 0 => \E w \in wakes : w.at = r.last
    BY <1>3, <1>5, <2>1, IdleIs DEF IInv, LastWasSent, States
  <2> QED
    BY <1>1, <2>2, IdleIs DEF LastWasSent
<1> QED
  BY <1>1, <1>5, <1>9, <1>10, <1>11, <1>13, <1>14, <1>15, <1>16, <1>17, SentStays DEF IInv

-----------------------------------------------------------------------------
LEMMA StutterInv == ASSUME IInv, UNCHANGED vars PROVE IInv'
<1>1. \A i \in Items : Gone(i) => Gone(i)'
  BY DEF vars, Gone, Recent
<1>2. \A i \in Items : arrived[i] < clock
  BY DEF IInv, Stamps
<1>3. clock <= clock /\ strategy <= strategy
  BY TimesAssumption DEF IInv, Types, Time, Key
<1> QED
  BY <1>1, <1>2, <1>3, QuietInv DEF vars, IInv, Types

LEMMA StepInv == ASSUME IInv, [Next]_vars PROVE IInv'
<1>1. ASSUME NEW held \in BOOLEAN, NEW holds \in {{}} \cup {{c} : c \in Conditions}, ScanDetect(held, holds)
      PROVE  IInv'
  BY <1>1, ScanDetectInv
<1>2. ASSUME NEW i \in Items, Arrive(i) PROVE IInv'
  BY <1>2, ArriveInv
<1> QED
  BY <1>1, <1>2, ScanHandleInv, ScanSaveInv, ScanAbortInv, BrakeScanInv, BrakeWakeInv, BrakeRecordInv, BrakeAbortInv,
     PublishInv, TickInv, StutterInv DEF Next

LEMMA AlwaysInv == Spec => []IInv
<1>1. IInv /\ [Next]_vars => IInv'
  BY StepInv
<1> QED
  BY <1>1, InitInv, PTL DEF Spec

-----------------------------------------------------------------------------
\* The monitor's ordinary wakes come a cooldown after every wake it remembers,
\* and fewer than the limit before them in their clock hour: what
\* _cooldown_skip_reason decides from the asset is true of the wakes.
THEOREM WakesHeldBackAlways == Spec => []WakesHeldBack
<1>1. IInv => WakesHeldBack
  BY DEF IInv, WakesHeldBack
<1> QED
  BY <1>1, AlwaysInv, PTL

\* What is new wakes RT once, but for the records that were lost, dropped or
\* overtaken (_detect_strategy_update, _updated_state_after_scan).
THEOREM HandledOnceAlways == Spec => []HandledOnce
<1>1. IInv => HandledOnce
  BY DEF IInv, HandledOnce, KeysKnown, Known, States, HandledUnlessOvertaken
<1> QED
  BY <1>1, AlwaysInv, PTL

\* A scan that finds nothing to do follows a wake that really went out by less
\* than the heartbeat interval, whichever thread saved the state it read
\* (_detect_heartbeat).
LEMMA QuietScanFollowsWake ==
  ASSUME IInv, [Next]_vars, scan'.at # scan.at, scan'.chosen = Nothing, scan'.pc # "idle"
  PROVE  \E w \in wakes : scan'.at - w.at < Heartbeat[scan'.held]
<1>1. PICK held \in BOOLEAN, holds \in {{}} \cup {{c} : c \in Conditions} : ScanDetect(held, holds)
  <2>1. ~ScanHandle /\ ~ScanSave /\ ~ScanAbort /\ ~BrakeRecord
    BY IdleIs DEF ScanHandle, ScanSave, ScanAbort, BrakeRecord, IInv, Types, ScanState
  <2>2. scan' # scan
    OBVIOUS
  <2> QED
    BY <2>1, <2>2 DEF Next, BrakeScan, BrakeWake, BrakeAbort, Publish, Tick, Arrive, vars
<1>2. PICK d \in Detected(state, clock, held, holds) :
        scan' = [pc |-> IF d = Nothing THEN "handled" ELSE "detected", at |-> clock, held |-> held, loaded |-> state,
                 chosen |-> d, fired |-> FALSE, missed |-> {}]
  BY <1>1 DEF ScanDetect
<1>3. d = Nothing /\ scan'.at = clock /\ scan'.held = held
  BY <1>2
<1>4. Silence(state, clock, held) = {}
  <2>1. \/ d = Nothing /\ Silence(state, clock, held) = {}
        \/ d \in StrategyUpdate(state) \cup HighImpactNews(state) \cup ExecutionFollowup(state, clock)
                     \cup MarketCondition(holds) \cup Silence(state, clock, held)
    BY DetectedIs
  <2>2. \A r \in StrategyUpdate(state) \cup HighImpactNews(state) \cup ExecutionFollowup(state, clock)
                     \cup MarketCondition(holds) \cup Silence(state, clock, held) : r.subject[1] # "nothing"
    <3>1. \A r \in StrategyUpdate(state) : r.subject[1] # "nothing"
      BY DEF StrategyUpdate
    <3>2. \A S, r : r \in NewsOf(S, state) => r.subject[1] # "nothing"
      BY DEF NewsOf
    <3>3. \A r \in HighImpactNews(state) : r.subject[1] # "nothing"
      BY <3>2 DEF HighImpactNews
    <3>4. \A r \in ExecutionFollowup(state, clock) : r.subject[1] # "nothing"
      <4> DEFINE due == {i \in Recent(Results, DetectLimit) \cap Filled :
                           i \notin state.seenResults /\ clock - arrived[i] >= Delay}
      <4> HIDE DEF due
      <4>1. ExecutionFollowup(state, clock)
            = {[subject |-> <<"followup", i>>, bypass |-> FALSE] : i \in Newest(due)}
        BY DEF ExecutionFollowup, due
      <4> QED
        BY <4>1
    <3>5. \A r \in MarketCondition(holds) : r.subject[1] # "nothing"
      BY DEF MarketCondition
    <3>6. \A r \in Silence(state, clock, held) : r.subject[1] # "nothing"
      BY DEF Silence
    <3> QED
      BY <3>1, <3>3, <3>4, <3>5, <3>6
  <2>3. d.subject[1] = "nothing"
    BY <1>3 DEF Nothing
  <2> QED
    BY <2>1, <2>2, <2>3
<1>5. state.last # 0 /\ clock - state.last < Heartbeat[held]
  BY <1>4 DEF Silence
<1> QED
  BY <1>3, <1>5 DEF IInv, LastWasSent, States

THEOREM HeartbeatKeptAlways == Spec => HeartbeatKept
<1>1. IInv /\ [Next]_vars =>
        [scan'.at # scan.at /\ scan'.chosen = Nothing /\ scan'.pc # "idle" =>
           \E w \in wakes : scan'.at - w.at < Heartbeat[scan'.held]]_vars
  BY QuietScanFollowsWake
<1> QED
  BY <1>1, AlwaysInv, PTL DEF Spec, HeartbeatKept
=============================================================================
