----------------------------- MODULE Subagents -----------------------------
(***************************************************************************)
(* Durable child agents of one user (cloud_subagent_jobs in                *)
(* src/cloud/store.py, src/cloud/subagents.py).  A turn spawns a job in    *)
(* the background, for the loop of any worker process, or inline, and then *)
(* claims and executes the job itself.  Loop and turns of a process share  *)
(* one lease_owner string.  Only the loop renews its lease and only its    *)
(* results are written into the conversation.                              *)
(*                                                                         *)
(* Every transaction locks the job row and is one action; the creation is  *)
(* split between its unlocked count and its insert.                        *)
(***************************************************************************)
EXTENDS Naturals, FiniteSets

CONSTANTS
    Jobs,       \* ids of jobs that may be created, sub_<hex>
    RunIds,     \* ids of Runs, UUIDs: no job id is one
    Workers,    \* worker processes, by lease_owner string
    Capacity,   \* active jobs a user may have, 3 in the code
    MaxFaults,  \* bound: crashes and stalled loops
    None        \* SQL NULL for owners, no job in hand

ASSUME SubagentConstants ==
    /\ Jobs \cap RunIds = {}
    /\ Capacity \in Nat
    /\ MaxFaults \in Nat
    /\ None \notin Workers \cup Jobs

\* A process runs one loop, and one turn that may spawn.
Executors == Workers \X {"loop", "turn"}
Process(e) == e[1]
IsLoop(e) == e[2] = "loop"

VARIABLES
    status,           \* job -> status; "absent" and "counted" before the row, "deleted" after it
    owner,            \* job -> lease_owner
    lease,            \* job -> "none", "live" or "lapsed"
    cancelRequested,  \* job -> cancel_requested_at is not NULL
    results,          \* job -> result messages in the conversation
    pc,               \* executor -> where it is
    job,              \* executor -> the job in its hands
    faults            \* faults so far

jobVars == <<status, owner, lease, cancelRequested>>
executorVars == <<pc, job>>
vars == <<jobVars, results, executorVars, faults>>

Settled == {"completed", "failed", "cancelled"}
Statuses == {"absent", "counted", "queued", "running", "deleted"} \cup Settled
Places == {"idle", "counted", "created", "executing", "refused", "finishing", "down"}
\* The child runs; in the second its last tool call was refused.
WorkingOn == {"executing", "refused"}

Init ==
    /\ status = [j \in Jobs |-> "absent"]
    /\ owner = [j \in Jobs |-> None]
    /\ lease = [j \in Jobs |-> "none"]
    /\ cancelRequested = [j \in Jobs |-> FALSE]
    /\ results = [j \in Jobs |-> 0]
    /\ pc = [e \in Executors |-> "idle"]
    /\ job = [e \in Executors |-> None]
    /\ faults = 0
-----------------------------------------------------------------------------
(* Helpers *)

Active == {j \in Jobs : status[j] \in {"queued", "running"}}

\* "subagent worker does not own this job" is the negation of this.
OwnsAny(e) == status[job[e]] # "deleted"    \* mutated: lease_owner not compared
Owns(e) == owner[job[e]] = Process(e)

OutcomeKept(e, o) == o    \* mutated: cancel_requested_at ignored
Reported(e, o) == IF cancelRequested[job[e]] THEN "cancelled" ELSE o

\* Rows a claim takes back.
LiveOnly == {j \in Jobs : status[j] = "running" /\ lease[j] = "live"}    \* mutated: > for <
Stale == {j \in Jobs : status[j] = "running" /\ lease[j] = "lapsed"}

\* UUID(request.chat_id) in the checkpoint's pre hook.
Checkpointed(chat) == chat \in RunIds

Goto(e, place) == pc' = [pc EXCEPT ![e] = place]

Take(e, j, place) ==
    /\ Goto(e, place)
    /\ job' = [job EXCEPT ![e] = j]

Leave(e) ==
    /\ Goto(e, "idle")
    /\ job' = [job EXCEPT ![e] = None]

\* The process ends, with its loop and its turn.
ProcessDies(w) ==
    /\ pc' = [e \in Executors |-> IF Process(e) = w THEN "down" ELSE pc[e]]
    /\ job' = [e \in Executors |-> IF Process(e) = w THEN None ELSE job[e]]

Fault == faults < MaxFaults /\ faults' = faults + 1
-----------------------------------------------------------------------------
(* Spawning and cancelling *)

\* create_subagent_job up to its count, which locks nothing.
CountActive(e) ==
    /\ ~IsLoop(e) /\ pc[e] = "idle"
    /\ Cardinality(Active) < Capacity
    /\ \E j \in Jobs :
          /\ status[j] = "absent"
          /\ status' = [status EXCEPT ![j] = "counted"]
          /\ Take(e, j, "counted")
    /\ UNCHANGED <<owner, lease, cancelRequested, results, faults>>

\* The insert commits; spawn is done if the mode is background.
Create(e) ==
    /\ pc[e] = "counted"
    /\ status[job[e]] = "counted"
    /\ status' = [status EXCEPT ![job[e]] = "queued"]
    /\ Leave(e) \/ Take(e, job[e], "created")
    /\ UNCHANGED <<owner, lease, cancelRequested, results, faults>>

\* claim_subagent_job by the spawning turn.
ClaimInline(e) ==
    LET j == job[e] IN
    /\ pc[e] = "created"
    /\ status[j] = "queued"
    /\ status' = [status EXCEPT ![j] = "running"]
    /\ owner' = [owner EXCEPT ![j] = Process(e)]
    /\ lease' = [lease EXCEPT ![j] = "live"]
    /\ Goto(e, "executing")
    /\ UNCHANGED <<cancelRequested, results, job, faults>>

\* The insert or the claim finds the conversation deleted, the job cancelled
\* or claimed by a loop: the tool call is an error, a claimed job goes on.
SpawnFails(e) ==
    /\ \/ pc[e] = "counted" /\ status[job[e]] # "counted"
       \/ pc[e] = "created" /\ status[job[e]] # "queued"
    /\ Leave(e)
    /\ UNCHANGED <<jobVars, results, faults>>

\* cancel_subagent_job.
CancelQueued(j) ==
    /\ status[j] = "queued"
    /\ status' = [status EXCEPT ![j] = "cancelled"]
    /\ UNCHANGED <<owner, lease, cancelRequested, results, executorVars, faults>>

CancelRunning(j) ==
    /\ status[j] = "running"
    /\ cancelRequested' = [cancelRequested EXCEPT ![j] = TRUE]
    /\ UNCHANGED <<status, owner, lease, results, executorVars, faults>>

\* The conversation is deleted and the jobs go with it, whatever they do.
DeleteConversation ==
    /\ \A j \in Jobs : status[j] # "deleted"
    /\ status' = [j \in Jobs |-> "deleted"]
    /\ owner' = [j \in Jobs |-> None]
    /\ lease' = [j \in Jobs |-> "none"]
    /\ results' = [j \in Jobs |-> 0]
    /\ UNCHANGED <<cancelRequested, executorVars, faults>>
-----------------------------------------------------------------------------
(* Executing *)

\* claim_next_subagent_job: lapsed leases go back to the queue, and one queued
\* job is taken from it in the same transaction.
ClaimNext(e) ==
    LET queued == {j \in Jobs : status[j] = "queued"} \cup Stale IN
    /\ IsLoop(e) /\ pc[e] = "idle"
    /\ \E j \in queued :
          /\ status' = [i \in Jobs |->
                IF i = j THEN "running" ELSE IF i \in Stale THEN "queued" ELSE status[i]]
          /\ owner' = [i \in Jobs |->
                IF i = j THEN Process(e) ELSE IF i \in Stale THEN None ELSE owner[i]]
          /\ lease' = [i \in Jobs |->
                IF i = j THEN "live" ELSE IF i \in Stale THEN "none" ELSE lease[i]]
          /\ Take(e, j, "executing")
    /\ UNCHANGED <<cancelRequested, results, faults>>

\* The child calls a tool; its message carries the job id as chat id.  A call
\* that is refused is an error the child goes on with.
UseTool(e) ==
    /\ pc[e] = "executing"
    /\ IF Checkpointed(job[e]) THEN UNCHANGED pc ELSE Goto(e, "refused")
    /\ UNCHANGED <<jobVars, results, job, faults>>

\* The loop's heartbeat; a recorded cancellation stops the execution.
Heartbeat(e) ==
    /\ IsLoop(e) /\ pc[e] \in WorkingOn
    /\ Owns(e)
    /\ lease' = [lease EXCEPT ![job[e]] = "live"]
    /\ IF cancelRequested[job[e]] THEN Goto(e, "finishing") ELSE UNCHANGED pc
    /\ UNCHANGED <<status, owner, cancelRequested, results, job, faults>>

\* The execution ends, well or with an exception; the loop keeps every
\* exception, also the one of a heartbeat for a job it lost.
EndExecution(e) ==
    /\ pc[e] \in WorkingOn
    /\ Goto(e, "finishing")
    /\ UNCHANGED <<jobVars, results, job, faults>>

\* An inline execution raises, or the spawn tool times out: nobody finishes
\* the job, its row stays running.
AbandonInline(e) ==
    /\ ~IsLoop(e) /\ pc[e] \in WorkingOn
    /\ Leave(e)
    /\ UNCHANGED <<jobVars, results, faults>>

\* finish_subagent_job: status and, from the loop, the message commit together.
\* Only the loop reports failures.
Finish(e) ==
    LET j == job[e] IN
    /\ pc[e] = "finishing"
    /\ Owns(e)
    /\ \E o \in {"completed"} \cup (IF IsLoop(e) THEN {"failed"} ELSE {}) :
          status' = [status EXCEPT ![j] = Reported(e, o)]
    /\ owner' = [owner EXCEPT ![j] = None]
    /\ lease' = [lease EXCEPT ![j] = "none"]
    /\ results' = [results EXCEPT ![j] = IF IsLoop(e) THEN @ + 1 ELSE @]
    /\ Leave(e)
    /\ UNCHANGED <<cancelRequested, faults>>

\* The job is another's or settled: an error of the tool for a turn, the end
\* of the process for a loop.
LoseJob(e) ==
    /\ pc[e] = "finishing"
    /\ ~Owns(e)
    /\ IF IsLoop(e) THEN ProcessDies(Process(e)) ELSE Leave(e)
    /\ UNCHANGED <<jobVars, results, faults>>
-----------------------------------------------------------------------------
(* Environment *)

\* A loop that renews the lease of j is up.
Renewed(j) ==
    \E e \in Executors : IsLoop(e) /\ job[e] = j /\ pc[e] # "down" /\ owner[j] = Process(e)

\* lease_expires_at passes: a fault while a loop renews the lease, a matter of
\* time (180 seconds) for an inline execution.
LeaseLapses(j) ==
    /\ status[j] = "running"
    /\ lease[j] = "live"
    /\ IF Renewed(j) THEN Fault ELSE UNCHANGED faults
    /\ lease' = [lease EXCEPT ![j] = "lapsed"]
    /\ UNCHANGED <<status, owner, cancelRequested, results, executorVars>>

Crash(w) ==
    /\ pc[<<w, "loop">>] # "down"
    /\ Fault
    /\ ProcessDies(w)
    /\ UNCHANGED <<jobVars, results>>

Restart(w) ==
    /\ pc[<<w, "loop">>] = "down"
    /\ pc' = [e \in Executors |-> IF Process(e) = w THEN "idle" ELSE pc[e]]
    /\ UNCHANGED <<jobVars, results, job, faults>>
-----------------------------------------------------------------------------
Working(e) == ClaimInline(e) \/ EndExecution(e) \/ AbandonInline(e) \/ Finish(e) \/ LoseJob(e)

Next ==
    \/ DeleteConversation
    \/ \E j \in Jobs : CancelQueued(j) \/ CancelRunning(j) \/ LeaseLapses(j)
    \/ \E e \in Executors :
          CountActive(e) \/ Create(e) \/ SpawnFails(e) \/ ClaimNext(e) \/ UseTool(e)
          \/ Heartbeat(e) \/ Working(e)
    \/ \E w \in Workers : Crash(w) \/ Restart(w)

Spec == Init /\ [][Next]_vars

\* Loops poll, executions end (max_iterations, timeouts), time passes for
\* leases nobody renews, and processes are started again.
FairSpec ==
    /\ Spec
    /\ \A j \in Jobs : WF_vars(LeaseLapses(j) /\ ~Renewed(j))
    /\ \A e \in Executors : WF_vars(ClaimNext(e)) /\ WF_vars(Working(e))
    /\ \A w \in Workers : WF_vars(Restart(w))
-----------------------------------------------------------------------------
(* Properties *)

\* Rows and executors have the shape the table and the code give them.
TypeOK ==
    /\ status \in [Jobs -> Statuses]
    /\ owner \in [Jobs -> Workers \cup {None}]
    /\ lease \in [Jobs -> {"none", "live", "lapsed"}]
    /\ cancelRequested \in [Jobs -> BOOLEAN]
    /\ results \in [Jobs -> Nat]
    /\ pc \in [Executors -> Places]
    /\ job \in [Executors -> Jobs \cup {None}]
    /\ faults \in Nat

\* However many executors believe they hold a job, its result is written into
\* the conversation once at most, and only when the job is over
\* (finish_subagent_job).
OneResultPerJob ==
    \A j \in Jobs : results[j] <= 1 /\ (results[j] = 1 => status[j] \in Settled)

\* A job that is over stays as it is, whoever else was executing it
\* (finish_subagent_job, claim_next_subagent_job).
SettledIsFinal ==
    [][\A j \in Jobs : status[j] \in Settled => status'[j] \in {status[j], "deleted"}]_vars

\* A cancellation that was accepted while the job ran decides its outcome, also
\* when the job is taken back and executed again (cancel_subagent_job).
CancelPrevails ==
    \A j \in Jobs : cancelRequested[j] => status[j] \notin {"completed", "failed"}

\* Every job is settled in the end, also one whose inline execution was cut off
\* (claim_next_subagent_job).
EveryJobSettles == \A j \in Jobs : status[j] \in {"queued", "running"} ~> j \notin Active
-----------------------------------------------------------------------------
(* Refinement *)

Promise == INSTANCE JobPromise WITH
    phase <- [j \in Jobs |-> IF status[j] = "counted" THEN "absent"
                             ELSE IF status[j] \in {"queued", "running"} /\ cancelRequested[j]
                             THEN "stopping"
                             ELSE IF status[j] = "running" THEN "working" ELSE status[j]],
    told <- results

\* The rows, seen without leases and processes, keep the promise of JobPromise:
\* whoever takes a job back, abandons it or reports it too late, it is settled
\* once, as it was asked to, and spoken of once (all of the job's transactions
\* in store.py).
JobsKeepTheirPromise == Promise!PromiseSpec
=============================================================================
