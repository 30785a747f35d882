------------------------------ MODULE PMPanels ------------------------------
(***************************************************************************)
(* What the roles are shown of themselves before they decide (the panels   *)
(* of agent_gateway's runtime packs), and the checks of submit_strategy    *)
(* that go back to the same figures: the tier of the band and the prices   *)
(* that its prose names.                                                   *)
(*                                                                         *)
(* The panels are counted from the latest assets of a role when a pack is  *)
(* built and are frozen in its lease; the submission is checked against    *)
(* the ladder of its own time.  In between other packs may be pulled and   *)
(* answered, and the risk brake may move the ladder.                       *)
(*                                                                         *)
(* Time goes in halves of a day.  Shares are in percent of the exposure    *)
(* budget, the figures derived from them in hundredths.                    *)
(***************************************************************************)
EXTENDS Integers, Sequences, FiniteSets

CONSTANTS
  Leases,      \* the leases that may be open at once
  Plans,       \* what the PM may submit
  Markets,     \* portfolios, the day's marks and the change of 24 hours
  StandardTop, \* the ceiling of the standard tier
  HighTop,     \* the ceiling of the high tier
  Many,        \* how many strategies alike, or of a day, are many
  StreakLook,  \* how many strategies are looked back at
  HoldLook,    \* how many batches
  SinceLook,   \* how many news submissions
  MaxNow,      \* bound: half days
  MaxLog       \* bound: submissions

VARIABLES
  now,
  log,     \* the assets: strategies, execution batches and news submissions
  ladder,  \* portfolio_state_ladder_high
  lease    \* per lease, the role and the panels of its pack

vars == <<now, log, ladder, lease>>

Greatest(S) == CHOOSE n \in S : \A m \in S : m <= n
Greater(m, n) == IF m > n THEN m ELSE n
Lesser(m, n) == IF m < n THEN m ELSE n
Abs(n) == Greater(n, -n)

None == [role |-> "none"]

-----------------------------------------------------------------------------
\* The assets of a role, by their places in the log; the last n of some; and how
\* many of the last are alike.
Entries(role) == {k \in DOMAIN log : log[k].role = role}
Recent(ks, n) == {k \in ks : Cardinality({j \in ks : j >= k}) <= n}
Run(ks, look, alike) == Cardinality({k \in Recent(ks, look) : \A j \in ks : j >= k => j \in alike})

SamePlan(p, q) == p.lo = q.lo /\ p.hi = q.hi /\ p.side = q.side

LikeTheLast(ks) == {k \in ks : SamePlan(log[k].plan, log[Greatest(ks)].plan)}

\* Mutant of BandStreak: repetitions are counted, not strategies.
BandRepeats(strategies) == Greater(0, Run(strategies, StreakLook, LikeTheLast(strategies)) - 1)

BandStreak(strategies) == Run(strategies, StreakLook, LikeTheLast(strategies))

Holds == Run(Entries("rt"), HoldLook, {k \in Entries("rt") : ~log[k].entry})

QuietNews == Run(Entries("mea"), SinceLook, {k \in Entries("mea") : log[k].events = "none"})

\* evidence for, and the state of the ladder against, a band above the standard.
HighEligible == ladder = "normal"

BandTierError(p) ==
  IF p.tier = "standard"
    THEN p.hi > StandardTop
    ELSE p.hi > HighTop \/ ~p.argued \/ ~HighEligible

\* The next step is the high tier: the band is at the standard one's ceiling.
HintHigh(p) == p.tier = "standard" /\ p.hi >= StandardTop - 1 /\ HighEligible

\* A number of the prose is read up to its third digit unless it has commas.
Read(t) ==
  [op |-> t.op,
   value |-> IF t.commas \/ t.value < 1000 THEN t.value
             ELSE IF t.value < 10000 THEN t.value \div 10 ELSE t.value \div 100]

Unmonitored(p) == Greater(0, Cardinality({Read(t) : t \in p.named}) - Cardinality(p.watched))

\* How far the price must move, and whether it is there already.
Satisfied(sub, price) ==
  \/ price > sub.value /\ sub.op \in {">", ">="}
  \/ price < sub.value /\ sub.op \in {"<", "<="}
  \/ price = sub.value /\ sub.op \in {">=", "<="}
Distance(sub, price) ==
  ((IF sub.op \in {">", ">="} THEN sub.value - price ELSE price - sub.value) * 10000) \div sub.value
Distances(p, price) == {Distance(sub, price) : sub \in p.watched}
AnySatisfied(p, price) == \E sub \in p.watched : Satisfied(sub, price)

-----------------------------------------------------------------------------
\* Exposure, all of it in percent of the budget: equity times leverage.

CurrentPct(m) == (m.notional * 10000) \div (m.equity * m.leverage)

Gap(p, m) == ((p.lo + p.hi) * 100) \div 2 - CurrentPct(m)
GapToCeiling(p, m) == (p.hi + p.discretion) * 100 - CurrentPct(m)

\* What the day's best move would have brought, in the direction of the plan.
Favorable(p, m) ==
  LET up == m.high - m.open   down == m.open - m.low
  IN CASE p.side = "long" -> up
       [] p.side = "short" -> down
       [] OTHER -> Greater(up, down)

CeilingNow(p, m) == (m.notional * Favorable(p, m) * 10000) \div (m.equity * m.open)
CeilingAtBand(p, m) == (p.hi * m.leverage * Favorable(p, m) * 100) \div m.open
CeilingAtEnvelope(p, m) == ((p.hi + p.discretion) * m.leverage * Favorable(p, m) * 100) \div m.open

\* Whether price goes with the plan; changes are in tenths of a percent.
Alignment(side, change) ==
  IF side \notin {"long", "short"} THEN "unknown"
  ELSE IF Abs(change) < 5 \/ (side = "long") = (change > 0) THEN "aligned"
  ELSE IF Abs(change) > 10 THEN "diverged" ELSE "unknown"

-----------------------------------------------------------------------------
Today(entry) == entry.at \div 2 = now \div 2
WithinDay(entry) == entry.at >= now - 2

NewsSince(strategies) ==
  {k \in Recent(Entries("mea"), SinceLook) : strategies = {} \/ k > Greatest(strategies)}

RevisionsToday(strategies) == {k \in strategies : Today(log[k])}

\* Several revisions today, and nothing from outside that called for them.
Unprompted(strategies) ==
  /\ Cardinality(RevisionsToday(strategies)) >= Many
  /\ \A k \in NewsSince(strategies) : log[k].events # "flip_trigger"
  /\ \A k \in RevisionsToday(strategies) : log[k].trigger # "risk_brake"

\* MEA's own: the news of the last day against the strategies they led to.
Fatigued ==
  Cardinality({k \in Recent(Entries("mea"), SinceLook) : WithinDay(log[k]) /\ log[k].events # "none"}) >= Many

NoUnits == [gap |-> 0, gain |-> 0]

PanelsOf(role, m) ==
  LET strategies == Entries("pm")
      none == strategies = {}
      plan == log[Greatest(strategies)].plan
  IN CASE role = "pm" ->
            [role |-> role, seq |-> Len(log),
             streak |-> IF none THEN 0 ELSE BandStreak(strategies),
             eligible |-> HighEligible, unprompted |-> Unprompted(strategies),
             hint |-> ~none /\ HintHigh(plan),
             diverged |-> ~none /\ Alignment(plan.side, m.change) = "diverged",
             distances |-> IF none THEN {} ELSE Distances(plan, m.high),
             satisfied |-> ~none /\ AnySatisfied(plan, m.high), steady |-> TRUE]
       [] role = "rt" ->
            [role |-> role, seq |-> Len(log), holds |-> Holds,
             warned |-> ~none /\ Holds >= 2 /\ Gap(plan, m) > 0, room |-> ~none /\ Gap(plan, m) > 0,
             units |-> IF none THEN NoUnits
                       ELSE [gap |-> GapToCeiling(plan, m),
                             gain |-> CeilingAtEnvelope(plan, m) - CeilingNow(plan, m)],
             moved |-> ~none /\ Favorable(plan, m) > 0]
       [] role = "mea" ->
            [role |-> role, seq |-> Len(log), quiet |-> QuietNews, fatigued |-> Fatigued]

-----------------------------------------------------------------------------
Init ==
  /\ now = 1
  /\ log = <<>>
  /\ ladder = "normal"
  /\ lease = [l \in Leases |-> None]

\* A pack is built for a role, whatever the market shows.
Pull(l, role, m) ==
  /\ lease[l] = None
  /\ Len(log) < MaxLog
  /\ lease' = [lease EXCEPT ![l] = PanelsOf(role, m)]
  /\ UNCHANGED <<now, log, ladder>>

Submit(l, entry) ==
  /\ Len(log) < MaxLog
  /\ log' = Append(log, entry)
  /\ lease' = [lease EXCEPT ![l] = None]
  /\ UNCHANGED <<now, ladder>>

\* submit_strategy, of what passes both checks; the others are refused and may
\* be sent again under the same lease.
SubmitStrategy(l, p, trigger) ==
  /\ lease[l].role = "pm"
  /\ ~BandTierError(p)
  /\ Unmonitored(p) = 0
  /\ Submit(l, [role |-> "pm", at |-> now, plan |-> p, trigger |-> trigger])

\* A batch that opens, adds, reduces or flips is an entry; the others hold.
SubmitExecution(l, entry) ==
  lease[l].role = "rt" /\ Submit(l, [role |-> "rt", at |-> now, entry |-> entry])

SubmitNews(l, events) ==
  lease[l].role = "mea" /\ Submit(l, [role |-> "mea", at |-> now, events |-> events])

\* The risk brake climbs the ladder, or a day or a revision resets it.
LadderMoves ==
  /\ ladder' = IF ladder = "normal" THEN "observe" ELSE "normal"
  /\ lease' = [l \in Leases |-> IF lease[l].role = "pm" THEN [lease[l] EXCEPT !.steady = FALSE] ELSE lease[l]]
  /\ UNCHANGED <<now, log>>

Tick ==
  /\ now < MaxNow
  /\ now' = now + 1
  /\ UNCHANGED <<log, ladder, lease>>

Next ==
  \/ \E l \in Leases :
       \/ \E role \in {"pm", "rt", "mea"}, m \in Markets : Pull(l, role, m)
       \/ \E p \in Plans, trigger \in {"risk_brake", "other"} : SubmitStrategy(l, p, trigger)
       \/ \E entry \in BOOLEAN : SubmitExecution(l, entry)
       \/ \E events \in {"none", "flip_trigger"} : SubmitNews(l, events)
  \/ LadderMoves
  \/ Tick

Spec == Init /\ [][Next]_vars

-----------------------------------------------------------------------------
Submitted(l) == Len(log') > Len(log) /\ lease[l] # None /\ lease'[l] = None

\* The last n assets of the role before a submission, all of them in its panels.
Shown(l, n) ==
  LET assets == Entries(lease[l].role)
  IN IF Cardinality(assets) >= n /\ Greatest(assets) <= lease[l].seq THEN {log[k] : k \in Recent(assets, n)} ELSE {}

New == log'[Len(log')]

\* One more strategy with the same band and direction than many, and a third batch that
\* holds while there is room, come from a pack that warned of it; a strategy
\* above the standard tier comes from one that said the tier was open, unless the
\* ladder has moved since; one more of a day that nothing called for was
\* told so (_compute_band_revision_streak, _compute_consecutive_holds,
\* _compute_band_tier_eligibility, _build_pm_since_last_strategy_panel).
WarnedBefore ==
  [][\A l \in Leases : Submitted(l) =>
       /\ New.role = "pm" =>
            /\ Shown(l, Many) # {} /\ (\A s \in Shown(l, Many) : SamePlan(s.plan, New.plan))
                 => lease[l].streak >= Many
            /\ New.plan.hi > StandardTop => lease[l].eligible \/ ~lease[l].steady
            /\ /\ Shown(l, Many) # {}
               /\ \A s \in Shown(l, Many) : Today(s) /\ s.trigger = "other"
               /\ \A k \in DOMAIN log : log[k].at \div 2 = now \div 2 => log[k].role = "pm" /\ log[k].trigger = "other"
               => lease[l].unprompted
       /\ New.role = "rt" =>
            (Shown(l, 2) # {} /\ (\A b \in Shown(l, 2) : ~b.entry) /\ lease[l].room => lease[l].warned)
     ]_vars

\* The two panels of RT speak of one envelope: if the ceiling would have gained more
\* than the position there is room below it, and if there is room it would not have
\* gained less, both figures rounded down; and a subscription whose distance is below
\* zero is satisfied, one above it is not
\* (_compute_exposure_envelope, _compute_theoretical_profit_ceiling,
\* _compute_price_recheck_subscriptions).
PanelsAgree ==
  \A l \in Leases :
    /\ lease[l].role = "rt" /\ lease[l].moved =>
         /\ lease[l].units.gain > 0 => lease[l].units.gap > 0
         /\ lease[l].units.gap > 0 => lease[l].units.gain >= 0
         /\ lease[l].warned => lease[l].units.gap > 0
    /\ lease[l].role = "pm" =>
         /\ (\E d \in lease[l].distances : d < 0) => lease[l].satisfied
         /\ lease[l].satisfied => \E d \in lease[l].distances : d <= 0
=============================================================================
