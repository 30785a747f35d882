----------------------------- MODULE MCPMRecheck -----------------------------
(***************************************************************************)
(* Instances of PMRecheck for TLC.  Deadlock is not checked: when the      *)
(* clock has run out and everything due was sent, nothing is left to do.   *)
(***************************************************************************)
EXTENDS PMRecheck

\* No recheck, one, two in order, and two in the wrong order.
SchedulesDef == {<<>>, <<1>>, <<1, 2>>, <<2, 1>>}
=============================================================================
