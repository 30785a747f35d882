----------------------------- MODULE MCRTTrigger -----------------------------
(***************************************************************************)
(* Instances of RTTrigger for TLC.  Deadlock is not checked: the model     *)
(* stops when its clock has run out.                                       *)
(***************************************************************************)
EXTENDS RTTrigger

\* The heartbeat is shorter while a position is held.
BeatDef == [held \in BOOLEAN |-> IF held THEN 3 ELSE 5]
=============================================================================
