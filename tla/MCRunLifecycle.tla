--------------------------- MODULE MCRunLifecycle ---------------------------
(* Model values for checking RunLifecycle. *)
EXTENDS RunLifecycle

CONSTANTS c1, w1, w2

OneConversation == {c1}
TwoWorkers == {w1, w2}
=============================================================================
