------------------------------ MODULE RTTrigger ------------------------------
(***************************************************************************)
(* RTTriggerMonitor (workflow_orchestrator/rt_trigger.py): a daemon thread *)
(* that wakes the risk trader (RT) when something calls for it: a new      *)
(* strategy, high-impact news, a filled order old enough to follow up on,  *)
(* a market condition, or too long a silence.  What it remembers between   *)
(* scans is one asset, "rt_trigger_state", which it loads at the start of  *)
(* a scan and overwrites at the end.                                       *)
(*                                                                         *)
(* RiskBrakeMonitor wakes RT too, and notes its wakes in the same asset,   *)
(* also by loading, changing and saving it (_record_rt_dispatch).  Nothing *)
(* keeps the two threads apart.                                            *)
(*                                                                         *)
(* Time is counted in small units.  Whatever takes a time stamp also moves *)
(* the clock, so that two stamps are never equal.                          *)
(***************************************************************************)
EXTENDS Integers, FiniteSets

CONSTANTS
  Macro, Submissions,   \* macro events and news submissions, by asset id
  Results,              \* RT's execution results, by asset id
  High, Critical,       \* the news whose impact is high, is critical
  Filled,               \* the results that succeeded and have fills
  Conditions,           \* cooldown keys of the market-driven triggers
  InternalOnly,         \* strategies flagged internal_reasoning_only
  GlobalCooldown, KeyCooldown, Hour, MaxPerHour, Delay, Heartbeat,
  DetectLimit, MarkLimit, SeenLimit,   \* 20, 50 and 200 in the code
  MaxRevision,          \* bound: strategies published
  FirstTime, MaxTime,   \* bound: time units
  MaxBrakeWakes,        \* bound: wakes by the brake
  MaxAborts             \* bound: scans and brake wakes cut off

News == Macro \cup Submissions
Items == News \cup Results

ASSUME ItemsAssumption ==
  /\ Macro \subseteq Nat /\ Submissions \subseteq Nat /\ Results \subseteq Nat
  /\ Macro \cap Submissions = {} /\ News \cap Results = {}
  /\ High \cup Critical \subseteq News /\ Filled \subseteq Results

ASSUME TimesAssumption ==
  /\ GlobalCooldown \in Nat /\ KeyCooldown \in Nat /\ Hour \in Nat \ {0}
  /\ MaxPerHour \in Nat /\ Delay \in Nat
  /\ Heartbeat \in [BOOLEAN -> Nat \ {0}]   \* with and without a position
  /\ FirstTime \in 1 .. MaxTime /\ MaxTime \in Nat
  /\ MaxBrakeWakes \in Nat /\ MaxRevision \in Nat /\ MaxAborts \in Nat

ASSUME LimitsAssumption ==
  /\ DetectLimit \in Nat /\ MarkLimit \in Nat /\ SeenLimit \in Nat
  /\ DetectLimit <= MarkLimit

VARIABLES
  state,       \* the rt_trigger_state asset
  scan,        \* the local variables of the monitor's scan
  brake,       \* the local variables of the brake's scan, as far as RT's wake
  strategy,    \* key of the latest published strategy, 0 if there is none
  arrived,     \* when each item was saved, 0 if it was not
  clock,       \* the present
  aborts,      \* how many scans and wakes were cut off
  wakes,       \* history: RT's wakes
  lost,        \* history: times of wakes whose record was lost or shadowed
  evicted,     \* history: seen items that the length limit dropped
  handled,     \* history: strategies a trigger event was recorded for
  overtaken    \* history: strategies published while a scan was running

vars == <<state, scan, brake, strategy, arrived, clock, aborts,
          wakes, lost, evicted, handled, overtaken>>

Time == 0 .. MaxTime
Key == 0 .. MaxRevision

\* What a wake is about.  The subject of a brake's wake, of a heartbeat and of
\* a strategy update is no part of its cooldown key.
Subject ==
  ({"news", "followup"} \X Items) \cup ({"strategy"} \X Key)
  \cup ({"market"} \X Conditions) \cup ({"heartbeat"} \X BOOLEAN)
  \cup {<<"brake", 0>>}

CooldownKeyOf(subject) ==
  IF subject[1] = "strategy" THEN <<"strategy", 0>> ELSE subject

CooldownKey == {CooldownKeyOf(s) : s \in Subject}

Decision == [subject : Subject, bypass : BOOLEAN]

RTState ==
  [last        : Time,                  \* last_trigger_at_utc, 0 if never
   byKey       : [CooldownKey -> Time], \* last_trigger_by_key
   recent      : SUBSET Time,           \* recent_trigger_times_utc
   seenKey     : Key,                   \* last_seen_strategy_key
   seenNews    : SUBSET News,           \* last_seen_event_ids
   seenResults : SUBSET Results]        \* last_seen_execution_result_ids

Nothing == [subject |-> <<"nothing", 0>>, bypass |-> FALSE]

ScanState ==
  [pc     : {"idle", "detected", "handled"},
   at     : Time,                       \* current
   held   : BOOLEAN,                    \* has_position
   loaded : RTState,                    \* state
   chosen : Decision \cup {Nothing},    \* decisions[0]
   fired  : BOOLEAN,                    \* event_payload["dispatched"]
   missed : SUBSET Time]                \* history: wakes saved since the load

BrakeState ==
  [pc     : {"idle", "scanning", "woken"},
   at     : Time,                       \* now
   loaded : RTState,                    \* payload
   missed : SUBSET Time]                \* history: wakes saved since the load

Wake == [at : Time, subject : Subject, ordinary : BOOLEAN]

TypeOK ==
  /\ state \in RTState
  /\ Cardinality(state.seenNews) <= SeenLimit
  /\ Cardinality(state.seenResults) <= SeenLimit
  /\ scan \in ScanState
  /\ brake \in BrakeState
  /\ strategy \in Key
  /\ arrived \in [Items -> Time]
  /\ clock \in Time
  /\ aborts \in 0 .. MaxAborts
  /\ wakes \subseteq Wake
  /\ lost \subseteq Time
  /\ evicted \subseteq Items
  /\ handled \subseteq Key
  /\ overtaken \subseteq Key

-----------------------------------------------------------------------------
EmptyState ==
  [last |-> 0, byKey |-> [k \in CooldownKey |-> 0], recent |-> {},
   seenKey |-> 0, seenNews |-> {}, seenResults |-> {}]

IdleScan ==
  [pc |-> "idle", at |-> 0, held |-> FALSE, loaded |-> EmptyState,
   chosen |-> Nothing, fired |-> FALSE, missed |-> {}]

IdleBrake == [pc |-> "idle", at |-> 0, loaded |-> EmptyState, missed |-> {}]

\* recent_assets: the newest n of the items of one type.
Recent(S, n) ==
  LET saved == {i \in S : arrived[i] # 0}
  IN  {i \in saved : Cardinality({j \in saved : arrived[j] > arrived[i]}) < n}

Newest(S) == {i \in S : \A j \in S : arrived[j] <= arrived[i]}

\* Mutant of Ready: the fills that just came of age do not count yet.
ReadyLate(i, now) == i \in Filled => now - arrived[i] > Delay

Ready(i, now) == i \in Filled => now - arrived[i] >= Delay

-----------------------------------------------------------------------------
(* The detectors: each yields at most one decision.                        *)

\* Mutant of StrategyUpdate: the first strategy is only a baseline.
StrategyUpdateFromBaseline(s) ==
  IF strategy \in {0, s.seenKey} \cup InternalOnly \/ s.seenKey = 0 THEN {}
  ELSE {[subject |-> <<"strategy", strategy>>, bypass |-> TRUE]}

StrategyUpdate(s) ==
  IF strategy \in {0, s.seenKey} \cup InternalOnly THEN {}
  ELSE {[subject |-> <<"strategy", strategy>>, bypass |-> TRUE]}

NewsOf(type, s) ==
  {[subject |-> <<"news", i>>, bypass |-> i \in Critical] :
     i \in Newest((Recent(type, DetectLimit) \cap (High \cup Critical)) \ s.seenNews)}

\* Macro events come before submissions.
HighImpactNews(s) ==
  IF NewsOf(Macro, s) # {} THEN NewsOf(Macro, s) ELSE NewsOf(Submissions, s)

ExecutionFollowup(s, now) ==
  {[subject |-> <<"followup", i>>, bypass |-> FALSE] :
     i \in Newest({i \in Recent(Results, DetectLimit) \cap Filled :
                     i \notin s.seenResults /\ now - arrived[i] >= Delay})}

\* `holds` is the first of the market conditions that holds, if any does.
MarketCondition(holds) ==
  {[subject |-> <<"market", c>>, bypass |-> FALSE] : c \in holds}

Silence(s, now, held) ==
  IF s.last # 0 /\ now - s.last < Heartbeat[held] THEN {}
  ELSE {[subject |-> <<"heartbeat", held>>, bypass |-> FALSE]}

\* Only the first decision, in this order, is acted on.
Detected(s, now, held, holds) ==
  LET order == <<StrategyUpdate(s), HighImpactNews(s),
                 ExecutionFollowup(s, now), MarketCondition(holds),
                 Silence(s, now, held)>>
      found == {n \in DOMAIN order : order[n] # {}}
  IN  IF found = {} THEN {Nothing}
      ELSE order[CHOOSE n \in found : \A m \in found : n <= m]

-----------------------------------------------------------------------------
WithinHour(times, now) == {t \in times : t >= now - Hour}

\* Mutants of CoolingDown: the key's own cooldown is skipped; one wake too
\* many per hour.
CoolingDownGlobally(d, s, now) ==
  /\ ~d.bypass
  /\ \/ s.last # 0 /\ now - s.last < GlobalCooldown
     \/ Cardinality(WithinHour(s.recent, now)) >= MaxPerHour

CoolingDownLoosely(d, s, now) ==
  LET k == CooldownKeyOf(d.subject)
  IN  /\ ~d.bypass
      /\ \/ s.last # 0 /\ now - s.last < GlobalCooldown
         \/ s.byKey[k] # 0 /\ now - s.byKey[k] < KeyCooldown
         \/ Cardinality(WithinHour(s.recent, now)) > MaxPerHour

CoolingDown(d, s, now) ==
  LET k == CooldownKeyOf(d.subject)
  IN  /\ ~d.bypass
      /\ \/ s.last # 0 /\ now - s.last < GlobalCooldown
         \/ s.byKey[k] # 0 /\ now - s.byKey[k] < KeyCooldown
         \/ Cardinality(WithinHour(s.recent, now)) >= MaxPerHour

\* sorted(ids)[-200:]: the largest ids stay, whatever their age.
Truncated(ids) == {i \in ids : Cardinality({j \in ids : j > i}) < SeenLimit}

MarkedNews(s) == s.seenNews \cup Recent(Macro, MarkLimit) \cup Recent(Submissions, MarkLimit)

MarkedResults(s, now) ==
  s.seenResults \cup {i \in Recent(Results, MarkLimit) : Ready(i, now)}

\* The strategy, news and results are read again: what came in since the
\* detection is marked as seen with the rest.
UpdatedStateAfterScan(s, now) ==
  [s EXCEPT
     !.seenKey     = IF strategy # 0 THEN strategy ELSE @,
     !.seenNews    = Truncated(MarkedNews(s)),
     !.seenResults = Truncated(MarkedResults(s, now)),
     !.recent      = WithinHour(@, now)]

\* Mutant of StateToSave: a skipped trigger counts as a wake too.
StateToSaveAnyway(sc) ==
  LET u == UpdatedStateAfterScan(sc.loaded, sc.at)
  IN  IF sc.chosen = Nothing THEN u
      ELSE [u EXCEPT !.last = sc.at, !.recent = @ \cup {sc.at},
                     !.byKey[CooldownKeyOf(sc.chosen.subject)] = sc.at]

StateToSave(sc) ==
  LET u == UpdatedStateAfterScan(sc.loaded, sc.at)
  IN  IF ~sc.fired THEN u
      ELSE [u EXCEPT !.last = sc.at, !.recent = @ \cup {sc.at},
                     !.byKey[CooldownKeyOf(sc.chosen.subject)] = sc.at]

\* _record_rt_dispatch keeps the wakes of the current clock hour only.
HourStart(t) == (t \div Hour) * Hour

StateWithBrakeWake(s, now) ==
  [s EXCEPT !.last = now,
            !.recent = {t \in @ : t >= HourStart(now)} \cup {now},
            !.byKey[<<"brake", 0>>] = now]

-----------------------------------------------------------------------------
Init ==
  /\ state = EmptyState
  /\ scan = IdleScan
  /\ brake = IdleBrake
  /\ strategy = 0
  /\ arrived = [i \in Items |-> 0]
  /\ clock = FirstTime
  /\ aborts = 0
  /\ wakes = {} /\ lost = {} /\ evicted = {} /\ handled = {}
  /\ overtaken = {}

ClockMoves == clock < MaxTime /\ clock' = clock + 1

ScanDetect(held, holds) ==
  /\ scan.pc = "idle"
  /\ ClockMoves
  /\ \E d \in Detected(state, clock, held, holds) :
       scan' = [pc |-> IF d = Nothing THEN "handled" ELSE "detected",
                at |-> clock, held |-> held, loaded |-> state,
                chosen |-> d, fired |-> FALSE, missed |-> {}]
  /\ UNCHANGED <<state, brake, strategy, arrived, aborts, wakes, lost, evicted, handled, overtaken>>

\* The cron job may be running already, or fail to start.  Either way, and
\* when the trigger is cooling down, the event is recorded as skipped.
ScanHandle ==
  /\ scan.pc = "detected"
  /\ \E ok \in IF CoolingDown(scan.chosen, scan.loaded, scan.at) THEN {FALSE} ELSE BOOLEAN :
       /\ scan' = [scan EXCEPT !.pc = "handled", !.fired = ok]
       /\ wakes' = IF ok
                   THEN wakes \cup {[at |-> scan.at, subject |-> scan.chosen.subject,
                                     ordinary |-> ~scan.chosen.bypass]}
                   ELSE wakes
  /\ handled' = IF scan.chosen.subject[1] = "strategy"
                THEN handled \cup {scan.chosen.subject[2]} ELSE handled
  /\ UNCHANGED <<state, brake, strategy, arrived, clock, aborts, lost, evicted, overtaken>>

OwnWake == IF scan.fired THEN {scan.at} ELSE {}

ScanSave ==
  /\ scan.pc = "handled"
  /\ state' = StateToSave(scan)
  /\ scan' = IdleScan
  /\ brake' = IF brake.pc = "woken" THEN [brake EXCEPT !.missed = @ \cup OwnWake] ELSE brake
  /\ lost' = lost \cup scan.missed
  /\ evicted' = evicted \cup
       ((MarkedNews(scan.loaded) \cup MarkedResults(scan.loaded, scan.at))
         \ (state'.seenNews \cup state'.seenResults))
  /\ UNCHANGED <<strategy, arrived, clock, aborts, wakes, handled, overtaken>>

\* _loop swallows whatever the scan raises; a restart forgets it as well.
ScanAbort ==
  /\ scan.pc # "idle"
  /\ aborts < MaxAborts
  /\ aborts' = aborts + 1
  /\ scan' = IdleScan
  /\ lost' = lost \cup OwnWake
  /\ UNCHANGED <<state, brake, strategy, arrived, clock, wakes, evicted, handled, overtaken>>

-----------------------------------------------------------------------------
(* The brake's scan: its clock is read first, then come its orders, and    *)
(* only then the wake and its record.                                      *)

BrakeScan ==
  /\ brake.pc = "idle"
  /\ Cardinality({w \in wakes : w.subject[1] = "brake"}) < MaxBrakeWakes
  /\ ClockMoves
  /\ brake' = [brake EXCEPT !.pc = "scanning", !.at = clock]
  /\ UNCHANGED <<state, scan, strategy, arrived, aborts, wakes, lost, evicted, handled, overtaken>>

BrakeWake ==
  /\ brake.pc = "scanning"
  /\ brake' = [brake EXCEPT !.pc = "woken", !.loaded = state, !.missed = {}]
  /\ wakes' = wakes \cup {[at |-> brake.at, subject |-> <<"brake", 0>>, ordinary |-> FALSE]}
  /\ UNCHANGED <<state, scan, strategy, arrived, clock, aborts, lost, evicted, handled, overtaken>>

\* The brake's clock may be older than the last wake in the asset: that wake is
\* shadowed.
BrakeRecord ==
  /\ brake.pc = "woken"
  /\ state' = StateWithBrakeWake(brake.loaded, brake.at)
  /\ brake' = IdleBrake
  /\ scan' = IF scan.pc = "idle" THEN scan ELSE [scan EXCEPT !.missed = @ \cup {brake.at}]
  /\ lost' = lost \cup brake.missed \cup {t \in 1 .. brake.loaded.last : t > brake.at}
  /\ UNCHANGED <<strategy, arrived, clock, aborts, wakes, evicted, handled, overtaken>>

BrakeAbort ==
  /\ brake.pc # "idle"
  /\ aborts < MaxAborts
  /\ aborts' = aborts + 1
  /\ brake' = IdleBrake
  /\ lost' = IF brake.pc = "woken" THEN lost \cup {brake.at} ELSE lost
  /\ UNCHANGED <<state, scan, strategy, arrived, clock, wakes, evicted, handled, overtaken>>

-----------------------------------------------------------------------------
Publish ==
  /\ strategy < MaxRevision
  /\ strategy' = strategy + 1
  /\ overtaken' = IF scan.pc = "idle" THEN overtaken ELSE overtaken \cup {strategy + 1}
  /\ UNCHANGED <<state, scan, brake, arrived, clock, aborts, wakes, lost, evicted, handled>>

Arrive(i) ==
  /\ arrived[i] = 0
  /\ ClockMoves
  /\ arrived' = [arrived EXCEPT ![i] = clock]
  /\ UNCHANGED <<state, scan, brake, strategy, aborts, wakes, lost, evicted, handled, overtaken>>

Tick ==
  /\ ClockMoves
  /\ UNCHANGED <<state, scan, brake, strategy, arrived, aborts, wakes, lost, evicted, handled, overtaken>>

Next ==
  \/ \E held \in BOOLEAN, holds \in {{}} \cup {{c} : c \in Conditions} : ScanDetect(held, holds)
  \/ ScanHandle \/ ScanSave \/ ScanAbort
  \/ BrakeScan \/ BrakeWake \/ BrakeRecord \/ BrakeAbort
  \/ Publish \/ Tick
  \/ \E i \in Items : Arrive(i)

Spec == Init /\ [][Next]_vars

-----------------------------------------------------------------------------
(* The monitor's own wakes; an ordinary one is one that a cooldown could   *)
(* have held back.  `lost` names the wakes whose record did not survive:   *)
(* the scan was cut off before it saved, or the brake saved over it.       *)

Own == {w \in wakes : w.subject[1] # "brake"}
Ordinary == {w \in Own : w.ordinary}
Remembered == {w \in Own : w.at \notin lost}

\* An ordinary wake comes a global cooldown after every remembered wake, and a
\* key's cooldown after every remembered wake with its key: what
\* _cooldown_skip_reason decides from the asset is true of the wakes
\* themselves, through cut-off scans and the brake's saves.
CooldownKept ==
  \A w \in Ordinary, e \in Remembered :
    e.at < w.at =>
      /\ w.at - e.at >= GlobalCooldown
      /\ CooldownKeyOf(e.subject) = CooldownKeyOf(w.subject) => w.at - e.at >= KeyCooldown

\* Before an ordinary wake there were fewer than the limit in its clock hour:
\* _record_rt_dispatch forgets older wakes, never those.
ClockHourLimit ==
  \A w \in Ordinary :
    Cardinality({e \in Remembered : HourStart(w.at) <= e.at /\ e.at < w.at}) < MaxPerHour

\* A strategy, a piece of news or a fill wakes RT a second time only if the
\* record of the first wake was lost, or the length limit dropped its mark.
WokenOnce ==
  \A w \in Own, e \in Remembered :
    /\ w.subject[1] \in {"strategy", "news", "followup"}
    /\ e.subject = w.subject
    /\ e.at < w.at
    => w.subject[1] # "strategy" /\ w.subject[2] \in evicted

\* A scan that finds nothing to do does so within the heartbeat interval of a
\* wake that really went out (_detect_heartbeat), whoever wrote the asset last.
HeartbeatKept ==
  [][scan'.at # scan.at /\ scan'.chosen = Nothing /\ scan'.pc # "idle" =>
       \E w \in wakes : scan'.at - w.at < Heartbeat[scan'.held]]_vars

\* The monitor has marked a strategy as seen only if it recorded a trigger event
\* for it, the strategy is internal, or it came out while a scan was running
\* (_detect_strategy_update, _updated_state_after_scan).
HandledUnlessOvertaken == state.seenKey \in {0} \cup handled \cup InternalOnly \cup overtaken

\* Ordinary wakes are held back by the distances and by the limit of the hour,
\* whatever a cut-off scan or the brake's save has made of the lists (as above).
WakesHeldBack == CooldownKept /\ ClockHourLimit

\* What is new wakes RT, and wakes it once, but for the records that were lost,
\* dropped or overtaken (as above).
HandledOnce == WokenOnce /\ HandledUnlessOvertaken

\* The monitor may have marked a strategy as seen only if it recorded a trigger
\* event for it or the strategy is internal (specs/modules/workflow_orchestrator/
\* spec.md: every new formal strategy triggers one wake of RT).  It does not
\* hold: a strategy published while the scan is running is only marked.
EveryStrategyHandled == state.seenKey \in {0} \cup handled \cup InternalOnly

\* At most MaxPerHour ordinary wakes in any hour, as far as they are remembered
\* (same spec; the tests count back sixty minutes).  It does not hold: the
\* brake's record forgets those before the current clock hour.
SlidingHourLimit ==
  \A w \in Ordinary :
    Cardinality({e \in Remembered : w.at - Hour <= e.at /\ e.at < w.at}) < MaxPerHour

\* A fill is followed up once, as far as the wake is remembered (same spec).
\* It does not hold: the marks kept are those with the largest ids, and ids are
\* random.
FollowupOnce ==
  \A w \in Own, e \in Remembered :
    w.subject[1] = "followup" /\ e.subject = w.subject => e.at = w.at
=============================================================================
