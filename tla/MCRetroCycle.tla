---------------------------- MODULE MCRetroCycle ----------------------------
(* The order of the learning roles for RetroCycle. *)
EXTENDS RetroCycle

CONSTANTS pm, chief

RolesInOrder == <<pm, chief>>
=============================================================================
