----------------------------- MODULE RunPromise -----------------------------
(***************************************************************************)
(* What the Run API promises its clients, with workers, leases, attempts,  *)
(* processes and time out of sight: a request is admitted once, served     *)
(* one at a time per conversation, may go back to waiting, and settles     *)
(* once; after a cancellation of a served request only "cancelled" can     *)
(* follow; the transcript gains an answer exactly when a request settles   *)
(* as answered.  RunLifecycle implements it.                               *)
(***************************************************************************)
EXTENDS Naturals, Sequences

CONSTANTS Conversations, MaxRuns, None

Requests == 1 .. MaxRuns

VARIABLES
    phase,        \* request -> where it stands
    place,        \* request -> its conversation
    transcript    \* conversation -> questions and answers in order

promiseVars == <<phase, place, transcript>>

Serving == {"serving", "stopping"}
Settled == {"completed", "failed", "cancelled"}

PromiseInit ==
    /\ phase = [r \in Requests |-> "absent"]
    /\ place = [r \in Requests |-> None]
    /\ transcript = [c \in Conversations |-> <<>>]

Say(r, who) ==
    transcript' = [transcript EXCEPT ![place'[r]] = Append(@, [role |-> who, run |-> r])]

Move(r, from, to) ==
    /\ phase[r] \in from
    /\ phase' = [phase EXCEPT ![r] = to]

Admit(r) ==
    /\ Move(r, {"absent"}, "queued")
    /\ \E c \in Conversations : place' = [place EXCEPT ![r] = c]
    /\ Say(r, "user")

Serve(r) ==
    /\ \A q \in Requests : place[q] = place[r] => phase[q] \notin Serving
    /\ Move(r, {"queued"}, "serving")
    /\ UNCHANGED <<place, transcript>>

Cancel(r) ==
    /\ \/ Move(r, {"queued"}, "cancelled")
       \/ Move(r, {"serving"}, "stopping")
    /\ UNCHANGED <<place, transcript>>

Answer(r) ==
    /\ Move(r, {"serving"}, "completed")
    /\ UNCHANGED place
    /\ Say(r, "assistant")

Fail(r) ==
    /\ Move(r, {"serving"}, "failed")
    /\ UNCHANGED <<place, transcript>>

Stop(r) ==
    /\ Move(r, {"stopping"}, "cancelled")
    /\ UNCHANGED <<place, transcript>>

\* Lost work: any set of served requests goes back to waiting, those that
\* were asked to stop are over.
Recover(lost) ==
    /\ lost # {}
    /\ \A r \in lost : phase[r] \in Serving
    /\ phase' = [r \in Requests |->
                    IF r \notin lost THEN phase[r]
                    ELSE IF phase[r] = "stopping" THEN "cancelled" ELSE "queued"]
    /\ UNCHANGED <<place, transcript>>

Forget(c) ==
    /\ phase' = [r \in Requests |-> IF place[r] = c THEN "deleted" ELSE phase[r]]
    /\ transcript' = [transcript EXCEPT ![c] = <<>>]
    /\ UNCHANGED place

PromiseNext ==
    \/ \E r \in Requests : Admit(r) \/ Serve(r) \/ Cancel(r) \/ Answer(r) \/ Fail(r) \/ Stop(r)
    \/ \E lost \in SUBSET Requests : Recover(lost)
    \/ \E c \in Conversations : Forget(c)

PromiseSpec == PromiseInit /\ [][PromiseNext]_promiseVars
=============================================================================
