---------------------------- MODULE RunLifecycle ----------------------------
(***************************************************************************)
(* Durable Runs and the passive worker loop: the rows of conversations,    *)
(* messages, runs and run_events as src/cloud/store.py changes them, and   *)
(* the processes of src/cloud/worker.py that claim a Run, heartbeat its    *)
(* lease and settle it, while a reaper takes expired leases back, clients  *)
(* cancel Runs or delete the conversation, and processes crash.            *)
(*                                                                         *)
(* One action is one database transaction.  Every such transaction locks   *)
(* the run row first (FOR UPDATE), so it is atomic; the two exceptions are *)
(* split where the code reads before it locks: a claim (the row it chose,  *)
(* then the commit the unique index may refuse) and the deletion of a      *)
(* conversation (the check for a running Run, then the cascade).           *)
(*                                                                         *)
(* Time is abstracted to whether a lease has lapsed; user ids, contents    *)
(* and telemetry (worker_instances) are left out.  The outbox rows that    *)
(* complete_run adds are the message itself here and the subject of        *)
(* ChannelGateway.                                                         *)
(***************************************************************************)
EXTENDS Naturals, Sequences, FiniteSets

CONSTANTS
    Conversations,  \* conversation rows
    Workers,        \* worker processes, by lease_owner string
    MaxRuns,        \* bound: messages ever admitted
    MaxFaults,      \* bound: process crashes and missed heartbeats
    MaxCancels,     \* bound: cancel requests recorded per Run
    None            \* SQL NULL

ASSUME RunConstants ==
    /\ MaxRuns \in Nat
    /\ MaxFaults \in Nat
    /\ MaxCancels \in Nat
    /\ None \notin Workers \cup Conversations \cup (1 .. MaxRuns)

Runs == 1 .. MaxRuns    \* Runs in created_at order

VARIABLES
    conversation,     \* conversation row: "open", "deleting" (locked) or "deleted"
    messages,         \* conversation -> its message rows in seq order
    conv,             \* run -> conversation_id
    status,           \* run -> status; "absent" before and "deleted" after the row
    owner,            \* run -> lease_owner
    lease,            \* run -> "none", "live" or "lapsed" (lease_expires_at < now)
    attempt,          \* run -> attempt
    cancelRequested,  \* run -> cancel_requested_at is not NULL
    events,           \* run -> its run_events in seq order
    pc,               \* worker -> where run_once is
    job,              \* worker -> the Run it works on
    turn,             \* worker -> attempt number of the Run it was handed
    faults            \* crashes and missed heartbeats so far

runVars == <<conv, status, owner, lease, attempt, cancelRequested, events>>
workerVars == <<pc, job, turn>>
vars == <<conversation, messages, runVars, workerVars, faults>>

Terminal == {"completed", "failed", "cancelled"}
Statuses == {"absent", "queued", "running", "deleted"} \cup Terminal
EventTypes == {"run.queued", "run.started", "run.requeued", "run.cancel_requested",
               "run.completed", "run.failed", "run.cancelled"}
Places == {"idle", "claiming", "claimed", "executing", "cancelling", "failing", "down"}
Holding == {"claimed", "executing", "cancelling", "failing"}
MessageRows == [role : {"user", "assistant"}, run : Runs]

Init ==
    /\ conversation = [c \in Conversations |-> "open"]
    /\ messages = [c \in Conversations |-> <<>>]
    /\ conv = [r \in Runs |-> None]
    /\ status = [r \in Runs |-> "absent"]
    /\ owner = [r \in Runs |-> None]
    /\ lease = [r \in Runs |-> "none"]
    /\ attempt = [r \in Runs |-> 0]
    /\ cancelRequested = [r \in Runs |-> FALSE]
    /\ events = [r \in Runs |-> <<>>]
    /\ pc = [w \in Workers |-> "idle"]
    /\ job = [w \in Workers |-> None]
    /\ turn = [w \in Workers |-> 0]
    /\ faults = 0
-----------------------------------------------------------------------------
(* Helpers *)

Present(r) == status[r] \notin {"absent", "deleted"}

\* "worker does not own a running run" is the negation of this.
OwnedUnchecked(w, r) == TRUE                    \* mutated: no check
OwnedByAnyone(w, r) == status[r] = "running"    \* mutated: lease_owner ignored
Owned(w, r) == status[r] = "running" /\ owner[r] = w

\* The claim transaction of some worker holds the row lock of r.
Locked(r) == \E w \in Workers : pc[w] = "claiming" /\ job[w] = r

\* The snapshot of a claim sees another running Run of r's conversation.
Busy(r) == \E q \in Runs : conv[q] = conv[r] /\ status[q] = "running"

\* The partial unique index on running Runs lets r's update through.
IndexMissing(r) == TRUE    \* mutated: the index does not exist
IndexAdmits(r) == ~Busy(r)

\* What SELECT ... FOR UPDATE SKIP LOCKED may return.
Claimable(r) == status[r] = "queued" /\ ~Busy(r) /\ ~Locked(r)

AppendEvent(r, type) == events' = [events EXCEPT ![r] = Append(@, type)]

\* Rows the reaper finds, and what becomes of one of them.
ExpiredInverted == {r \in Runs : status[r] = "running" /\ lease[r] = "live"}    \* mutated: > for <
Expired == {r \in Runs : status[r] = "running" /\ lease[r] = "lapsed"}
Recovered(r) == IF cancelRequested[r] THEN "cancelled" ELSE "queued"

\* A Run leaves "running" for s: the lease columns are cleared with it.
Release(r, s, type) ==
    /\ status' = [status EXCEPT ![r] = s]
    /\ owner' = [owner EXCEPT ![r] = None]
    /\ lease' = [lease EXCEPT ![r] = "none"]
    /\ AppendEvent(r, type)

Goto(w, place) == pc' = [pc EXCEPT ![w] = place]

\* run_once is over for w, which polls again ("idle") or has died ("down").
Leave(w, place) ==
    /\ Goto(w, place)
    /\ job' = [job EXCEPT ![w] = None]
    /\ turn' = [turn EXCEPT ![w] = 0]
-----------------------------------------------------------------------------
(* Clients: the API *)

\* append_user_message_and_run for a fresh request: message, Run and event in
\* one transaction, under the conversation lock that hands out seq.
Submit(c) ==
    /\ conversation[c] = "open"
    /\ \E r \in Runs :
          /\ status[r] = "absent"
          /\ \A q \in Runs : q < r => status[q] # "absent"
          /\ messages' = [messages EXCEPT ![c] = Append(@, [role |-> "user", run |-> r])]
          /\ conv' = [conv EXCEPT ![r] = c]
          /\ status' = [status EXCEPT ![r] = "queued"]
          /\ AppendEvent(r, "run.queued")
    /\ UNCHANGED <<conversation, owner, lease, attempt, cancelRequested, workerVars, faults>>

\* request_cancel of a Run nobody has started.
CancelQueued(r) ==
    /\ status[r] = "queued"
    /\ ~Locked(r)
    /\ status' = [status EXCEPT ![r] = "cancelled"]
    /\ AppendEvent(r, "run.cancelled")
    /\ UNCHANGED <<conversation, messages, conv, owner, lease, attempt, cancelRequested,
                   workerVars, faults>>

\* request_cancel of a running Run: only recorded, the owner must obey it.
CancelRunning(r) ==
    /\ status[r] = "running"
    /\ Cardinality({i \in DOMAIN events[r] : events[r][i] = "run.cancel_requested"}) < MaxCancels
    /\ cancelRequested' = [cancelRequested EXCEPT ![r] = TRUE]
    /\ AppendEvent(r, "run.cancel_requested")
    /\ UNCHANGED <<conversation, messages, conv, status, owner, lease, attempt,
                   workerVars, faults>>

\* delete_conversation up to its check: the conversation row is locked, the
\* count of running Runs is read without locking any run row.
CheckDelete(c) ==
    /\ conversation[c] = "open"
    /\ \A r \in Runs : conv[r] = c => status[r] # "running"
    /\ conversation' = [conversation EXCEPT ![c] = "deleting"]
    /\ UNCHANGED <<messages, runVars, workerVars, faults>>

\* The cascade: it waits for row locks held by claims and then removes every
\* row of the conversation, whatever its status is by now.
Delete(c) ==
    LET gone == {r \in Runs : conv[r] = c} IN
    /\ conversation[c] = "deleting"
    /\ \A r \in gone : ~Locked(r)
    /\ conversation' = [conversation EXCEPT ![c] = "deleted"]
    /\ messages' = [messages EXCEPT ![c] = <<>>]
    /\ status' = [r \in Runs |-> IF r \in gone THEN "deleted" ELSE status[r]]
    /\ owner' = [r \in Runs |-> IF r \in gone THEN None ELSE owner[r]]
    /\ lease' = [r \in Runs |-> IF r \in gone THEN "none" ELSE lease[r]]
    /\ events' = [r \in Runs |-> IF r \in gone THEN <<>> ELSE events[r]]
    /\ UNCHANGED <<conv, attempt, cancelRequested, workerVars, faults>>
-----------------------------------------------------------------------------
(* Workers *)

\* claim_next_run up to the row lock: the oldest queued Run that is not locked
\* and whose conversation the snapshot shows idle.
ClaimSelect(w) ==
    /\ pc[w] = "idle"
    /\ \E r \in Runs :
          /\ Claimable(r)
          /\ \A q \in Runs : q < r => ~Claimable(q)
          /\ job' = [job EXCEPT ![w] = r]
    /\ Goto(w, "claiming")
    /\ UNCHANGED <<conversation, messages, runVars, turn, faults>>

\* The claim commits: the partial unique index sees no running Run of the
\* conversation.
ClaimCommit(w) ==
    LET r == job[w] IN
    /\ pc[w] = "claiming"
    /\ IndexAdmits(r)
    /\ status' = [status EXCEPT ![r] = "running"]
    /\ owner' = [owner EXCEPT ![r] = w]
    /\ lease' = [lease EXCEPT ![r] = "live"]
    /\ attempt' = [attempt EXCEPT ![r] = @ + 1]
    /\ turn' = [turn EXCEPT ![w] = attempt[r] + 1]
    /\ AppendEvent(r, "run.started")
    /\ Goto(w, "claimed")
    /\ UNCHANGED <<conversation, messages, conv, cancelRequested, job, faults>>

\* The unique index refuses (IntegrityError): the loser polls again.
ClaimLose(w) ==
    /\ pc[w] = "claiming"
    /\ ~IndexAdmits(job[w])
    /\ Leave(w, "idle")
    /\ UNCHANGED <<conversation, messages, runVars, faults>>

\* load_run_input, then the execution task is created.
LoadInput(w) ==
    /\ pc[w] = "claimed"
    /\ Goto(w, IF Present(job[w]) THEN "executing" ELSE "failing")
    /\ UNCHANGED <<conversation, messages, runVars, job, turn, faults>>

\* heartbeat_run renews the lease of an owned running Run, expired or not, and
\* reports a recorded cancellation.
Heartbeat(w) ==
    /\ pc[w] = "executing"
    /\ Owned(w, job[w])
    /\ lease' = [lease EXCEPT ![job[w]] = "live"]
    /\ Goto(w, IF cancelRequested[job[w]] THEN "cancelling" ELSE "executing")
    /\ UNCHANGED <<conversation, messages, conv, status, owner, attempt, cancelRequested,
                   events, job, turn, faults>>

\* heartbeat_run, complete_run or cancel_owned_run finds the Run taken back,
\* settled or deleted and raises.
LoseOwnership(w) ==
    /\ pc[w] \in {"executing", "cancelling"}
    /\ ~Owned(w, job[w])
    /\ Goto(w, "failing")
    /\ UNCHANGED <<conversation, messages, runVars, job, turn, faults>>

\* The execution raises: a tool, the model or a database call failed.
ExecutionRaises(w) ==
    /\ pc[w] = "executing"
    /\ Goto(w, "failing")
    /\ UNCHANGED <<conversation, messages, runVars, job, turn, faults>>

\* complete_run under the conversation lock: answer, status and event commit
\* together.
Complete(w) ==
    LET r == job[w] IN
    /\ pc[w] = "executing"
    /\ Owned(w, r)
    /\ ~cancelRequested[r]
    /\ conversation[conv[r]] = "open"
    /\ messages' = [messages EXCEPT ![conv[r]] = Append(@, [role |-> "assistant", run |-> r])]
    /\ Release(r, "completed", "run.completed")
    /\ Leave(w, "idle")
    /\ UNCHANGED <<conversation, conv, attempt, cancelRequested, faults>>

\* complete_run finds a recorded cancellation; cancel_owned_run after the
\* execution was cancelled.
SettleCancelled(w) ==
    LET r == job[w] IN
    /\ \/ pc[w] = "executing" /\ cancelRequested[r]
       \/ pc[w] = "cancelling"
    /\ Owned(w, r)
    /\ Release(r, "cancelled", "run.cancelled")
    /\ Leave(w, "idle")
    /\ UNCHANGED <<conversation, messages, conv, attempt, cancelRequested, faults>>

\* fail_run by the owner.
FailOwned(w) ==
    LET r == job[w] IN
    /\ pc[w] = "failing"
    /\ Owned(w, r)
    /\ LET to == IF cancelRequested[r] THEN "cancelled" ELSE "failed" IN
       Release(r, to, IF to = "cancelled" THEN "run.cancelled" ELSE "run.failed")
    /\ Leave(w, "idle")
    /\ UNCHANGED <<conversation, messages, conv, attempt, cancelRequested, faults>>

\* fail_run by a worker that lost the Run: StoreStateError is suppressed, but
\* the StoreNotFoundError of a deleted Run ends the process.
FailStale(w) ==
    /\ pc[w] = "failing"
    /\ ~Owned(w, job[w])
    /\ Leave(w, IF Present(job[w]) THEN "idle" ELSE "down")
    /\ UNCHANGED <<conversation, messages, runVars, faults>>

\* requeue_expired_runs, run by an idle worker over every lapsed lease.
Reap(w) ==
    LET type(r) == IF Recovered(r) = "cancelled" THEN "run.cancelled" ELSE "run.requeued" IN
    /\ pc[w] = "idle"
    /\ Expired # {}
    /\ status' = [r \in Runs |-> IF r \in Expired THEN Recovered(r) ELSE status[r]]
    /\ owner' = [r \in Runs |-> IF r \in Expired THEN None ELSE owner[r]]
    /\ lease' = [r \in Runs |-> IF r \in Expired THEN "none" ELSE lease[r]]
    /\ events' = [r \in Runs |-> IF r \in Expired THEN Append(events[r], type(r)) ELSE events[r]]
    /\ UNCHANGED <<conversation, messages, conv, attempt, cancelRequested, workerVars, faults>>
-----------------------------------------------------------------------------
(* Environment *)

\* The process that works on r is up and still r's owner.
Attended(r) == \E w \in Workers : job[w] = r /\ owner[r] = w /\ pc[w] \in Holding

\* lease_expires_at passes.  Under a live owner that is a fault: it missed
\* its heartbeats (a stalled event loop, an unreachable database).
LeaseLapses(r) ==
    /\ status[r] = "running"
    /\ lease[r] = "live"
    /\ IF Attended(r)
       THEN faults < MaxFaults /\ faults' = faults + 1
       ELSE UNCHANGED faults
    /\ lease' = [lease EXCEPT ![r] = "lapsed"]
    /\ UNCHANGED <<conversation, messages, conv, status, owner, attempt, cancelRequested,
                   events, workerVars>>

\* A process dies anywhere in run_once; an open claim transaction rolls back.
Crash(w) ==
    /\ pc[w] # "down"
    /\ faults < MaxFaults
    /\ faults' = faults + 1
    /\ Leave(w, "down")
    /\ UNCHANGED <<conversation, messages, runVars>>

\* The service manager starts the process again under the same worker id.
Restart(w) ==
    /\ pc[w] = "down"
    /\ Goto(w, "idle")
    /\ UNCHANGED <<conversation, messages, runVars, job, turn, faults>>
-----------------------------------------------------------------------------
Client ==
    \/ \E c \in Conversations : Submit(c) \/ CheckDelete(c) \/ Delete(c)
    \/ \E r \in Runs : CancelQueued(r) \/ CancelRunning(r)

Settling(w) ==
    \/ Complete(w) \/ SettleCancelled(w) \/ LoseOwnership(w)
    \/ FailOwned(w) \/ FailStale(w)

Worker(w) ==
    \/ ClaimSelect(w) \/ ClaimCommit(w) \/ ClaimLose(w) \/ LoadInput(w)
    \/ Heartbeat(w) \/ ExecutionRaises(w) \/ Settling(w) \/ Reap(w)

Environment ==
    \/ \E r \in Runs : LeaseLapses(r)
    \/ \E w \in Workers : Crash(w) \/ Restart(w)

Next == Client \/ (\E w \in Workers : Worker(w)) \/ Environment

Spec == Init /\ [][Next]_vars

\* What the deployment guarantees: a deletion that started commits, a process
\* that is down is started again, time passes for an abandoned lease, a free
\* worker polls and reaps, and an execution ends (its tools and model calls
\* have timeouts).
Fairness ==
    /\ \A c \in Conversations : WF_vars(Delete(c))
    /\ \A r \in Runs : WF_vars(LeaseLapses(r) /\ ~Attended(r))
    /\ \A w \in Workers :
          /\ WF_vars(ClaimSelect(w))
          /\ WF_vars(ClaimCommit(w) \/ ClaimLose(w))
          /\ WF_vars(LoadInput(w))
          /\ WF_vars(Settling(w))
          /\ WF_vars(Reap(w))
          /\ WF_vars(Restart(w))

FairSpec == Spec /\ Fairness
-----------------------------------------------------------------------------
(* Properties *)

\* Rows and process states have the shape the tables and run_once give them.
TypeOK ==
    /\ conversation \in [Conversations -> {"open", "deleting", "deleted"}]
    /\ messages \in [Conversations -> Seq(MessageRows)]
    /\ conv \in [Runs -> Conversations \cup {None}]
    /\ status \in [Runs -> Statuses]
    /\ owner \in [Runs -> Workers \cup {None}]
    /\ lease \in [Runs -> {"none", "live", "lapsed"}]
    /\ attempt \in [Runs -> Nat]
    /\ cancelRequested \in [Runs -> BOOLEAN]
    /\ events \in [Runs -> Seq(EventTypes)]
    /\ pc \in [Workers -> Places]
    /\ job \in [Workers -> Runs \cup {None}]
    /\ turn \in [Workers -> Nat]
    /\ faults \in Nat

\* However claims, recoveries and cancellations interleave, a conversation
\* never has two running Runs (claim_next_run, uq_runs_one_running_per_conversation).
OneRunningPerConversation ==
    \A q, r \in Runs :
        conv[q] = conv[r] /\ status[q] = "running" /\ status[r] = "running" => q = r

\* lease_owner names a process but is used as a fencing token: whoever passes
\* the ownership check works on the Run's current attempt, never on one that
\* was taken back and claimed again (heartbeat_run, complete_run, fail_run).
OwnershipFencesAttempts ==
    \A w \in Workers :
        pc[w] \in Holding /\ Owned(w, job[w]) => turn[w] = attempt[job[w]]

CountOf(s, x) == Cardinality({i \in DOMAIN s : s[i] = x})

\* The durable event stream of a Run tells its story: it opens with run.queued,
\* its last event agrees with the status, a terminal event closes it and occurs
\* once, and run.started occurs once per attempt (_append_run_event callers).
EventsTellTheStory ==
    \A r \in {q \in Runs : Present(q)} :
        LET log == events[r]
            last == log[Len(log)]
        IN
        /\ log[1] = "run.queued"
        /\ status[r] = "queued" <=> last \in {"run.queued", "run.requeued"}
        /\ status[r] = "running" <=> last \in {"run.started", "run.cancel_requested"}
        /\ status[r] = "completed" <=> last = "run.completed"
        /\ status[r] = "failed" <=> last = "run.failed"
        /\ \A i \in 1 .. Len(log) - 1 :
              log[i] \notin {"run.completed", "run.failed", "run.cancelled"}
        /\ CountOf(log, "run.started") = attempt[r]

\* A settled Run stays as it is, with its transcript and its event stream,
\* until the conversation is deleted (every transaction on runs).
SettledIsFinal ==
    [][\A r \in Runs : status[r] \in Terminal =>
          \/ status'[r] = status[r] /\ events'[r] = events[r]
          \/ status'[r] = "deleted"]_vars

\* A cancellation recorded on a running Run wins against every completion,
\* failure and recovery that comes later (request_cancel against the others).
CancelPrevails ==
    [][\A r \in Runs : cancelRequested[r] /\ status[r] = "running" =>
          status'[r] \in {"running", "cancelled", "deleted"}]_vars

\* Every admitted Run settles, or goes with its conversation, once faults stop
\* (run_forever, requeue_expired_runs).
EveryRunSettles ==
    \A r \in Runs : status[r] = "queued" ~> status[r] \in Terminal \cup {"deleted"}
-----------------------------------------------------------------------------
(* Refinement *)

Promise == INSTANCE RunPromise WITH
    phase <- [r \in Runs |-> IF status[r] # "running" THEN status[r]
                             ELSE IF cancelRequested[r] THEN "stopping" ELSE "serving"],
    place <- conv,
    transcript <- messages

\* The rows, seen without leases and processes, keep the promise of RunPromise
\* (the whole of store.py's Run API).
KeepsPromise == Promise!PromiseSpec
=============================================================================
