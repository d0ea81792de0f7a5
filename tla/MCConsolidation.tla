---------------------------- MODULE MCConsolidation ----------------------------
(* Model values for checking Consolidation. *)
EXTENDS Consolidation

Everybody == {"queue", "turn", "control"}
===============================================================================
