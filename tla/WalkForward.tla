---------------------------- MODULE WalkForward ----------------------------
(***************************************************************************)
(* What a training of a horizon learns from and what it is judged by       *)
(* (quant_intelligence: train_panel_horizon, build_supervised_dataset,     *)
(* combine_supervised_datasets and walk_forward_predictions).  A row is a  *)
(* candle of a coin with the label its close some candles later gives it.  *)
(* The rows of all coins, ordered by time, are cut into windows; each      *)
(* window is predicted by models fitted to the rows that lie an embargo    *)
(* before it.  The coins that have a specialist are walked again alone,    *)
(* over the same windows.  Times are counted in bars.                      *)
(***************************************************************************)
EXTENDS Integers, Sequences, FiniteSets, FiniteSetsExt

CONSTANTS
  Coins,        \* the coins of the panel
  Specialists,  \* those with a specialist at this horizon
  MaxBar,       \* bound: bars of the history
  Horizon,      \* the candles ahead a label looks
  Embargo,      \* walk_forward_embargo_bars
  MinTrain,     \* min_train_samples
  Floor, Slack, \* at least Floor rows are needed, else all but Slack
  FoldBlocks,   \* the least times in a window
  Splits,       \* walk_forward_splits
  MaxHoles,     \* bound: candles a coin lacks
  MaxDropped    \* bound: rows without features or of no weight

VARIABLES
  candles,  \* per coin, the bars it has a candle of
  dropped,  \* per coin, the candles that make no row
  walk,     \* who is walked: "panel" or a coin, with the windows to come
  folds,    \* the windows done: who was trained on what and judged by what
  pc        \* "walk", "policy" when the coins' policies can be built, or "failed"

vars == <<candles, dropped, walk, folds, pc>>

Bars == 0 .. MaxBar
LargerOf(a, b) == IF a > b THEN a ELSE b
SmallerOf(a, b) == IF a < b THEN a ELSE b

\* The candle whose close labels a candle: so many candles later, if there are.
Later(c, b) == {d \in candles[c] : d > b}
LabelBar(c, b) == CHOOSE d \in Later(c, b) : Cardinality({e \in Later(c, b) : e <= d}) = Horizon
RowsOf(c) == {[coin |-> c, bar |-> b, label |-> LabelBar(c, b)] :
                b \in {b \in candles[c] \ dropped[c] : Cardinality(Later(c, b)) >= Horizon}}
Panel == UNION {RowsOf(c) : c \in Coins}
RowsFor(who) == IF who = "panel" THEN Panel ELSE RowsOf(who)

TimesOf(rows) == {r.bar : r \in rows}
\* The n-th time of the rows, from 0.
TimeAt(rows, n) == CHOOSE t \in TimesOf(rows) : Cardinality({u \in TimesOf(rows) : u < t}) = n
MinRows(rows) == SmallerOf(MinTrain, LargerOf(Floor, Cardinality(rows) - Slack))

\* The windows: after the times that hold the least rows to train, in equal parts.
FirstBlock(rows) ==
  1 + Min({n \in 0 .. Cardinality(TimesOf(rows)) - 1 :
             Cardinality({r \in rows : r.bar <= TimeAt(rows, n)}) >= MinRows(rows)})
Windows(rows) ==
  LET blocks == Cardinality(TimesOf(rows))
      first == FirstBlock(rows)
      size == LargerOf(FoldBlocks, LargerOf(blocks - first, 1) \div LargerOf(2, Splits))
      count == IF first >= blocks THEN 0 ELSE (blocks - first + size - 1) \div size
  IN  [k \in 1 .. count |-> [start |-> TimeAt(rows, first + (k - 1) * size),
                             end |-> TimeAt(rows, SmallerOf(blocks, first + k * size) - 1)]]

NoWalk == [who |-> "none", windows |-> <<>>, all |-> <<>>]
Begin(who, windows) == [who |-> who, windows |-> windows, all |-> windows]

TypeOK ==
  /\ candles \in [Coins -> SUBSET Bars] /\ dropped \in [Coins -> SUBSET Bars]
  /\ walk.who \in Coins \cup {"panel", "none"} /\ pc \in {"walk", "policy", "failed"}

Init ==
  /\ candles \in [Coins -> {Bars \ H : H \in {G \in SUBSET Bars : Cardinality(G) <= MaxHoles}}]
  /\ dropped \in [Coins -> {D \in SUBSET Bars : Cardinality(D) <= MaxDropped}]
  /\ walk = NoWalk /\ folds = {} /\ pc = "walk"

TooFew(rows) == Cardinality(rows) <= MinRows(rows)

\* A coin without enough candles or rows, or a panel without, ends the training.
NotEnough ==
  /\ pc = "walk" /\ walk.who = "none"
  /\ \/ \E c \in Coins : Cardinality(candles[c]) < MinTrain \/ Cardinality(RowsOf(c)) < MinTrain
     \/ TooFew(Panel)
  /\ pc' = "failed" /\ UNCHANGED <<candles, dropped, walk, folds>>

WalkPanel ==
  /\ pc = "walk" /\ walk.who = "none"
  /\ \A c \in Coins : Cardinality(candles[c]) >= MinTrain /\ Cardinality(RowsOf(c)) >= MinTrain
  /\ ~TooFew(Panel)
  /\ walk' = Begin("panel", Windows(Panel))
  /\ UNCHANGED <<candles, dropped, folds, pc>>

\* Mutant of Cutoff: the label's own bar is forgotten.
CutoffAtClose(start) == start - LargerOf(Embargo, Horizon) + 1

\* Rows before this time are trained on.
Cutoff(start) == start - LargerOf(Embargo, Horizon)

Train(rows, start) == {r \in rows : r.bar < Cutoff(start)}
Judged(rows, w) == {r \in rows : w.start <= r.bar /\ r.bar <= w.end}
Stops(rows, w) ==
  \/ Judged(rows, w) = {}
  \/ Cardinality(Train(rows, w.start)) < LargerOf(1, MinRows(rows) \div 2)
FoldsOf(who) == {f \in folds : f.who = who}
Result(start, train, judged) == [who |-> walk.who, start |-> start, train |-> train, judged |-> judged]

Fold ==
  LET rows == RowsFor(walk.who)
      w == Head(walk.windows)
  IN  /\ pc = "walk" /\ walk.who # "none" /\ walk.windows # <<>>
      /\ ~Stops(rows, w)
      /\ folds' = folds \cup {Result(w.start, Train(rows, w.start), Judged(rows, w))}
      /\ walk' = [walk EXCEPT !.windows = Tail(@)]
      /\ UNCHANGED <<candles, dropped, pc>>

\* A window with too little to train on or nothing to judge ends the walk.
Break ==
  /\ pc = "walk" /\ walk.who # "none" /\ walk.windows # <<>>
  /\ Stops(RowsFor(walk.who), Head(walk.windows))
  /\ walk' = [walk EXCEPT !.windows = <<>>]
  /\ UNCHANGED <<candles, dropped, folds, pc>>

\* Without a window done the last fifth of the times is judged; with nothing
\* before it to fit, the training ends.
Holdout ==
  LET rows == RowsFor(walk.who)
      blocks == Cardinality(TimesOf(rows))
      start == TimeAt(rows, LargerOf(1, SmallerOf(blocks - 1, (blocks * 8) \div 10)))
  IN  /\ pc = "walk" /\ walk.who # "none" /\ walk.windows = <<>> /\ FoldsOf(walk.who) = {}
      /\ IF blocks < 2 \/ Train(rows, start) = {} THEN pc' = "failed" /\ UNCHANGED folds
         ELSE /\ folds' = {f \in folds : f.who # walk.who} \cup
                          {Result(start, Train(rows, start), {r \in rows : r.bar >= start})}
              /\ UNCHANGED pc
      /\ UNCHANGED <<candles, dropped, walk>>

\* The next specialist walks the panel's windows, or windows of its own if the panel
\* had none; without rows enough it is skipped.
Done(who) == walk.who = who /\ walk.windows = <<>> /\ FoldsOf(who) # {}
Specialist(c) ==
  /\ pc = "walk" /\ Cardinality(Coins) > 1 /\ c \in Specialists /\ FoldsOf(c) = {}
  /\ \E who \in {"panel"} \cup Specialists : Done(who)
  /\ ~TooFew(RowsOf(c))
  /\ walk' = [walk EXCEPT !.who = c, !.windows = IF walk.all = <<>> THEN Windows(RowsOf(c)) ELSE walk.all]
  /\ UNCHANGED <<candles, dropped, folds, pc>>

\* Each coin is judged by the panel's predictions of its rows, blended where its
\* specialist predicted the same row; a coin without such rows ends the training.
Walked == \A c \in Specialists : FoldsOf(c) # {} \/ TooFew(RowsOf(c)) \/ Cardinality(Coins) = 1
Finish ==
  /\ pc = "walk" /\ Walked
  /\ \E who \in {"panel"} \cup Specialists : Done(who)
  /\ pc' = IF \A c \in Coins : \E f \in FoldsOf("panel") : \E r \in f.judged : r.coin = c THEN "policy" ELSE "failed"
  /\ UNCHANGED <<candles, dropped, walk, folds>>

Next ==
  \/ NotEnough \/ WalkPanel \/ Fold \/ Break \/ Holdout \/ Finish
  \/ \E c \in Coins : Specialist(c)

Spec == Init /\ [][Next]_vars

-----------------------------------------------------------------------------
(***************************************************************************)
(* Properties.                                                             *)
(***************************************************************************)

\* Bars a coin lacks between a row and its label.
Holes(r) == r.label - r.bar - Horizon

\* No label was trained on that came to be known after the window it is judged by
\* began, but for as many bars as candles are missing between the row and its
\* label beyond those the embargo exceeds the horizon by; no row is judged twice
\* by the same models, nor by models that were trained on it; and a specialist
\* judges a row by no label it knows and the panel does not.
OutOfSample ==
  /\ \A f \in folds :
       /\ \A r \in f.train : r.label + 1 <= f.start + LargerOf(0, Holes(r) - (LargerOf(Embargo, Horizon) - Horizon))
       /\ f.train \cap f.judged = {}
  /\ \A f, g \in folds : f.who = g.who /\ f # g => f.judged \cap g.judged = {}
  /\ \A f, g \in folds : f.who # "panel" /\ g.who = "panel" /\ f.start = g.start => f.train \subseteq g.train

\* No label was trained on that came to be known after its window began.  One was:
\* the embargo counts bars, a label candles.
LabelsAreOld == \A f \in folds : \A r \in f.train : r.label + 1 <= f.start

=============================================================================
