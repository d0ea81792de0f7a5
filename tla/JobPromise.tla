----------------------------- MODULE JobPromise -----------------------------
(***************************************************************************)
(* What the spawn tools promise a user about child agents, with leases,    *)
(* processes and time out of sight: a job is accepted once, may be given   *)
(* out and taken back any number of times, and is settled once; one that   *)
(* was asked to stop while it was worked on is given out again at most to  *)
(* be cancelled; a message is written in the step that settles the job or  *)
(* never; a failure is never silent.  Subagents implements it.             *)
(***************************************************************************)
EXTENDS Naturals

CONSTANT Jobs

VARIABLES
    phase,    \* job -> where it stands
    told      \* job -> messages about it in the conversation

promiseVars == <<phase, told>>

PromiseInit ==
    /\ phase = [j \in Jobs |-> "absent"]
    /\ told = [j \in Jobs |-> 0]

Move(j, from, to) ==
    /\ phase[j] = from
    /\ phase' = [phase EXCEPT ![j] = to]

Accept(j) == Move(j, "absent", "queued") /\ UNCHANGED told

\* One job is given out, and any that were worked on may go back to the queue.
GiveOut(j, back) ==
    /\ phase[j] \in {"queued", "working", "stopping"}
    /\ \A i \in back : phase[i] = "working"
    /\ phase' = [i \in Jobs |->
                    IF i = j THEN IF phase[j] = "stopping" THEN "stopping" ELSE "working"
                    ELSE IF i \in back THEN "queued" ELSE phase[i]]
    /\ UNCHANGED told

AskToStop(j) == Move(j, "working", "stopping") /\ UNCHANGED told

Withdraw(j) == Move(j, "queued", "cancelled") /\ UNCHANGED told

Outcome(j) == Move(j, "working", "completed") \/ Move(j, "stopping", "cancelled")

\* The result goes to the turn that waits for it, or into the conversation.  A
\* job that was asked to stop may also be cancelled while nobody works on it.
Return(j) == Outcome(j) /\ UNCHANGED told

Tell(j) ==
    /\ Outcome(j) \/ Move(j, "working", "failed")
    /\ told' = [told EXCEPT ![j] = @ + 1]

Forget ==
    /\ phase' = [j \in Jobs |-> "deleted"]
    /\ told' = [j \in Jobs |-> 0]

PromiseNext ==
    \/ \E j \in Jobs : Accept(j) \/ AskToStop(j) \/ Withdraw(j) \/ Return(j) \/ Tell(j)
    \/ \E j \in Jobs, back \in SUBSET Jobs : GiveOut(j, back)
    \/ Forget

PromiseSpec == PromiseInit /\ [][PromiseNext]_promiseVars
=============================================================================
