------------------------------ MODULE MCGateway ------------------------------
(***************************************************************************)
(* Instances of Gateway for TLC: each component at its own bounds, which   *)
(* the configuration gives.                                                *)
(***************************************************************************)
EXTENDS Gateway, TLC

\* A level that is and one that is not past, and a strategy that turns.
Views ==
  {[mark |-> 0, side |-> "long"], [mark |-> 1, side |-> "long"], [mark |-> 1, side |-> "short"]}

Sub(op, value) == [op |-> op, value |-> value]
Number(op, value, commas) == [op |-> op, value |-> value, commas |-> commas]

\* Strategies of either tier and every direction; their texts name one level, two
\* that are close together, and one with a comma.
Plans ==
  {[lo |-> 0, hi |-> 14, tier |-> "standard", argued |-> FALSE, side |-> "long", discretion |-> 2,
    named |-> {Number(">", 110, FALSE)}, watched |-> {Sub(">", 110), Sub("<=", 90)}],
   [lo |-> 10, hi |-> 20, tier |-> "high", argued |-> TRUE, side |-> "short", discretion |-> 4,
    named |-> {Number(">", 79000, FALSE), Number(">", 79050, FALSE)}, watched |-> {Sub(">=", 110)}],
   [lo |-> 10, hi |-> 20, tier |-> "standard", argued |-> FALSE, side |-> "flat", discretion |-> 0,
    named |-> {Number("<", 1000, TRUE)}, watched |-> {}]}

\* A small position with room above it, and one beyond its band.
Markets ==
  {[equity |-> 100, leverage |-> 2, notional |-> 24, open |-> 100, high |-> 110, low |-> 90, change |-> 12],
   [equity |-> 200, leverage |-> 5, notional |-> 300, open |-> 100, high |-> 120, low |-> 100, change |-> -7]}

Sym == Permutations(Inputs)
=============================================================================
