---------------------------- MODULE MCScheduler ----------------------------
(* Model values for checking Scheduler. *)
EXTENDS Scheduler

CONSTANTS w1, w2

TwoWorkers == {w1, w2}

\* A message sent twice and a prompt queued for ever.
TwoJobs == {"message", "prompt"}
TwiceAndForEver == [j \in TwoJobs |-> IF j = "message" THEN 2 ELSE Every]
Prompts == {"prompt"}
=============================================================================
