---------------------------- MODULE MCSubagents ----------------------------
(* Model values for checking Subagents. *)
EXTENDS Subagents

CONSTANTS w1, w2, j1, j2, run

TwoWorkers == {w1, w2}
TwoJobs == {j1, j2}
OneJob == {j1}
OneRun == {run}
=============================================================================
