----------------------------- MODULE MCMonitors ------------------------------
(***************************************************************************)
(* Instances of Monitors for TLC: each component at its own bounds, which  *)
(* the configuration gives.                                                *)
(***************************************************************************)
EXTENDS Monitors, TLC

\* The PM's heartbeat, with a calendar time and a silence, and a cron job with two
\* calendar times.
Cron == 1 :> {3} @@ 2 :> {2, 4}
Silence == 1 :> 3 @@ 2 :> 0

\* The ids of strategies are random: here a later strategy has a smaller one.
Ids == [r \in 1 .. price_MaxRevision |-> price_MaxRevision - r]

\* Rows that live longer than their readers look back.
TTL == "bridge" :> 2 @@ "portfolio" :> 3
Window == "bridge" :> 1 @@ "portfolio" :> 2

Sym == Permutations(Keys)
=============================================================================
