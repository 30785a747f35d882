-------------------------- MODULE AcceptancePolicy --------------------------
(***************************************************************************)
(* Which forecasts of a horizon are acted upon                             *)
(* (quant_intelligence/support/probabilities.py, as the trainer and the    *)
(* provider call it).  A training ranks the rows it validated by a score   *)
(* of weighted components, takes the best up to a coverage, no more of a   *)
(* regime than its cap, and keeps the lowest score taken of each regime as *)
(* the policy; a forecast is accepted by comparing its score with it.      *)
(* Scores are integers, rounded to multiples of Grain where the code       *)
(* rounds to six digits.                                                   *)
(***************************************************************************)
EXTENDS Integers, FiniteSets, FiniteSetsExt

CONSTANTS
  Size,      \* bound: rows a training validated
  Levels,    \* the values of a component
  Regimes,   \* labels of the regimes
  Unit,      \* the weights of a policy add up to this, but for rounding
  Caps,      \* the caps configured: functions from the regimes
  Grain,     \* what a score is rounded to
  Coverages  \* the parts of Size a policy may aim at

VARIABLES
  rows,      \* the rows validated: their components and regime
  config,    \* the caps and the weights configured, and the part aimed at
  weights,   \* the weights of the score, or <<>>
  policy,    \* the policy kept with the artifact, or NoPolicy
  forecast   \* the forecast served last

vars == <<rows, config, weights, policy, forecast>>

Row == [first : Levels, second : Levels, regime : Regimes]
Parts == {<<0, 1>>, <<1, 0>>, <<1, 1>>, <<1, 2>>}
Best == Unit * Max(Levels)
NoPolicy == [mode |-> "none"]
NoRow == [side |-> "none"]

\* Weights that add up to nothing are made equal.
Normalized(w) ==
  LET total == w[1] + w[2]
  IN  IF total = 0 THEN <<Unit \div 2, Unit \div 2>> ELSE <<(Unit * w[1]) \div total, (Unit * w[2]) \div total>>

\* Of a single component, without weights, the score is that component.
Score(r, w) == LET n == Normalized(w) IN n[1] * r.first + n[2] * r.second

Rounded(score) == ((score + Grain \div 2) \div Grain) * Grain

TypeOK ==
  /\ rows \in [1 .. Size -> Row] /\ config.caps \in Caps /\ config.coverage \in Coverages
  /\ policy.mode \in {"none", "score_rank", "threshold_filters"} /\ forecast.side \in {"none", "flat", "proposed"}

Init ==
  /\ rows \in [1 .. Size -> Row]
  /\ config \in [caps : Caps, override : {<<>>, <<1, 1>>}, ranked : BOOLEAN, coverage : Coverages]
  /\ weights = <<>> /\ policy = NoPolicy /\ forecast = NoRow

\* The weights configured for the coin, else those a search finds best for what
\* it selects, whatever the labels make of them.
Weigh(w) ==
  /\ config.ranked /\ weights = <<>> /\ policy = NoPolicy
  /\ w = IF config.override # <<>> THEN config.override ELSE w
  /\ weights' = Normalized(w)
  /\ UNCHANGED <<rows, config, policy, forecast>>

\* The rows from the best to the worst, those of one score as they stand.
Before(w, i, j) ==
  \/ Score(rows[i], w) > Score(rows[j], w)
  \/ Score(rows[i], w) = Score(rows[j], w) /\ i < j

\* A row is taken while the part aimed at and its regime's cap leave room.
Takes(taken, i) ==
  /\ Cardinality(taken) < config.coverage
  /\ Cardinality({j \in taken : rows[j].regime = rows[i].regime}) < config.caps[rows[i].regime]

Selected(w) ==
  CHOOSE some \in SUBSET DOMAIN rows :
    \A i \in DOMAIN rows : i \in some <=> Takes({j \in some : Before(w, j, i)}, i)

ScoresOf(w, some) == {Score(rows[i], w) : i \in some}
TakenRegimes(w) == {rows[i].regime : i \in Selected(w)}
LowestOf(w, g) == Min(ScoresOf(w, {i \in Selected(w) : rows[i].regime = g}))

Lowest(w) == IF Selected(w) = {} THEN Best ELSE Rounded(Min(ScoresOf(w, Selected(w))))

BuildRanked ==
  /\ weights # <<>> /\ policy = NoPolicy
  /\ policy' = [mode |-> "score_rank", weights |-> weights, min |-> Lowest(weights),
                regimes |-> [g \in TakenRegimes(weights) |-> Rounded(LowestOf(weights, g))]]
  /\ UNCHANGED <<rows, config, weights, forecast>>

\* Without components to score by: thresholds of the two components among those
\* that keep enough rows, or a threshold of the first alone.
Passes(r, first, second) == r.first >= first /\ r.second >= second
Enough(first, second) == Cardinality({i \in DOMAIN rows : Passes(rows[i], first, second)}) * 5 >= config.coverage * 4
BuildFilters(first, second) ==
  /\ ~config.ranked /\ policy = NoPolicy
  /\ \/ Enough(first, second)
     \/ second = 0 /\ \A f, s \in Levels : ~Enough(f, s)
  /\ policy' = [mode |-> "threshold_filters", first |-> first, second |-> second]
  /\ UNCHANGED <<rows, config, weights, forecast>>

\* Mutant of Threshold: one threshold for all regimes.
ThresholdGlobal(p, g) == p.min

\* A regime no row was taken of is measured by the lowest of all.
Threshold(p, g) == IF g \in DOMAIN p.regimes THEN p.regimes[g] ELSE p.min

Accepted(p, r) ==
  IF p.mode = "score_rank" THEN Score(r, p.weights) >= Threshold(p, r.regime) ELSE Passes(r, p.first, p.second)

\* What stands in the diagnostics of a forecast that is not accepted.
Reasons(p, r) ==
  IF p.mode = "score_rank"
  THEN {x \in {"acceptance_score"} : Threshold(p, r.regime) > Score(r, p.weights)}
  ELSE {x \in {"top_probability"} : p.first > r.first} \cup {x \in {"top_two_margin"} : p.second > r.second}

\* A forecast is made of the newest row; one that is not accepted is flat.
Serve(r) ==
  /\ policy # NoPolicy
  /\ forecast' = [side |-> IF Accepted(policy, r) THEN "proposed" ELSE "flat", row |-> r,
                  reasons |-> IF Accepted(policy, r) THEN {} ELSE Reasons(policy, r)]
  /\ UNCHANGED <<rows, config, weights, policy>>

Next ==
  \/ \E w \in Parts : Weigh(w)
  \/ BuildRanked
  \/ \E first, second \in Levels : BuildFilters(first, second)
  \/ \E r \in Row : Serve(r)

Spec == Init /\ [][Next]_vars

-----------------------------------------------------------------------------
(***************************************************************************)
(* Properties.                                                             *)
(***************************************************************************)

\* The rows the training counted on are those the provider acts upon: of the
\* rows it validated, a selected one is refused only if its score is above its
\* regime's lowest by less than that one is rounded up by, and one that was not
\* selected is accepted only if it ties with its regime's lowest or nothing of its
\* regime was selected.  A forecast that is refused says why.
PolicyKeepsSelection ==
  /\ policy.mode = "score_rank" =>
       \A i \in DOMAIN rows :
         LET chosen == Selected(weights)
             own == {j \in chosen : rows[j].regime = rows[i].regime}
             score == Score(rows[i], weights)
         IN  IF i \in chosen THEN Accepted(policy, rows[i]) \/ score - Min(ScoresOf(weights, own)) < Grain \div 2
             ELSE Accepted(policy, rows[i]) => own = {} \/ score \in Rounded(Min(ScoresOf(weights, own))) .. Min(ScoresOf(weights, own))
  /\ forecast.side = "flat" => forecast.reasons # {}

\* The caps hold for what is acted upon.  They do not: rows of the lowest score
\* are all accepted, and so is a regime nothing was selected of.
CapsHold ==
  policy.mode = "score_rank" =>
    \A g \in Regimes : Cardinality({i \in DOMAIN rows : rows[i].regime = g /\ Accepted(policy, rows[i])}) <= config.caps[g]

=============================================================================
