-------------------------- MODULE MCToolCheckpoint --------------------------
(* Model values for checking ToolCheckpoint. *)
EXTENDS ToolCheckpoint

CONSTANTS a, b

TwoCalls == {a, b}
=============================================================================
