----------------------------- MODULE Scheduler -----------------------------
(***************************************************************************)
(* The durable schedules of one conversation (scheduled_jobs in            *)
(* src/cloud/store.py) and the workers of src/cloud/scheduler.py that fire *)
(* them.  A claim mints a fire token; the delivery writes a message (tier  *)
(* instant) or a queued Run (tier soft) under a key made of the token; the *)
(* finish settles the job or arms its next fire.  Delivery and finish are  *)
(* two transactions: leases lapse and processes die between them.          *)
(*                                                                         *)
(* Every transaction takes the job row FOR UPDATE and is one action, but   *)
(* for the creation, which counts the active jobs before it inserts.  Time *)
(* is how far run_at is from now: "early", "due" or more than the grace    *)
(* period "late".  heartbeat_scheduled_job has no caller and is left out.  *)
(***************************************************************************)
EXTENDS Integers, Sequences, FiniteSets

CONSTANTS
    Jobs,       \* schedules that may be created
    Repeat,     \* Repeat[j]: remaining_runs at creation
    Soft,       \* jobs of tier soft, the others are instant
    Workers,    \* worker processes, by lease_owner string
    Capacity,   \* active schedules a user may have, 10 in the code
    MaxTokens,  \* bound: fire tokens minted per job
    MaxFaults,  \* bound: crashes, failed transactions and stalled workers
    None        \* SQL NULL for owners, no job in hand

Every == -1     \* remaining_runs of a job that repeats for ever
NoToken == 0    \* SQL NULL for fire tokens

ASSUME SchedulerConstants ==
    /\ Repeat \in [Jobs -> (Nat \ {0}) \cup {Every}]
    /\ Soft \subseteq Jobs
    /\ Capacity \in Nat
    /\ MaxTokens \in Nat
    /\ MaxFaults \in Nat
    /\ None \notin Workers \cup Jobs

VARIABLES
    status,     \* job -> status; "absent" and "counted" before the row, "deleted" after it
    when,       \* job -> run_at seen from now: "early", "due", "late"
    remaining,  \* job -> remaining_runs
    owner,      \* job -> lease_owner
    lease,      \* job -> "none", "live" or "lapsed"
    token,      \* job -> fire_token
    minted,     \* job -> tokens handed out
    fires,      \* job -> tokens whose message or Run was written, in order
    busy,       \* the conversation has a queued or running passive Run
    pc,         \* worker -> where run_once is
    job,        \* worker -> the job it claimed
    held,       \* worker -> fire_token of the claimed row
    seen,       \* worker -> remaining_runs of the claimed row
    faults      \* faults so far

jobVars == <<status, when, remaining, owner, lease, token, minted>>
workerVars == <<pc, job, held, seen>>
vars == <<jobVars, fires, busy, workerVars, faults>>

Settled == {"completed", "cancelled", "failed", "missed"}
Statuses == {"absent", "counted", "pending", "running", "deleted"} \cup Settled
Places == {"idle", "claimed", "delivered", "postponing", "failing", "down"}

Init ==
    /\ status = [j \in Jobs |-> "absent"]
    /\ when = [j \in Jobs |-> "early"]
    /\ remaining = Repeat
    /\ owner = [j \in Jobs |-> None]
    /\ lease = [j \in Jobs |-> "none"]
    /\ token = [j \in Jobs |-> NoToken]
    /\ minted = [j \in Jobs |-> 0]
    /\ fires = [j \in Jobs |-> <<>>]
    /\ busy = FALSE
    /\ pc = [w \in Workers |-> "idle"]
    /\ job = [w \in Workers |-> None]
    /\ held = [w \in Workers |-> NoToken]
    /\ seen = [w \in Workers |-> 0]
    /\ faults = 0
-----------------------------------------------------------------------------
(* Helpers *)

Active == {j \in Jobs : status[j] \in {"pending", "running"}}

\* "scheduler worker does not own this fire" is the negation of this.
Owns(w) == owner[job[w]] = w /\ token[job[w]] = held[w]

\* The key schedule:<job>:<token> is taken.
NeverFired(j, t) == FALSE    \* mutated: no lookup of the delivery key
Fired(j, t) == \E i \in DOMAIN fires[j] : fires[j][i] = t

\* _next_run and the status run_once derives from it.
Remaining(n) == IF n > 0 THEN n - 1 ELSE n
NextStatus(n) == IF n = Every \/ n > 1 THEN "pending" ELSE "completed"

\* Rows a claim takes back, and the token they keep.
LiveOnly == {j \in Jobs : status[j] = "running" /\ lease[j] = "live"}    \* mutated: > for <
Expired == {j \in Jobs : status[j] = "running" /\ lease[j] = "lapsed"}
TokenCleared(j) == NoToken    \* mutated: a recovered job gets a fresh token
RecoveredToken(j) == token[j]

\* A job the scheduler slept through: repeating ones skip ahead, the others
\* are over.  A token says the fire was attempted: it is replayed instead.
Misfired(j) == when[j] = "late" /\ RecoveredToken(j) = NoToken
Repeats(j) == remaining[j] = Every \/ remaining[j] > 1
Skipped(j) == remaining[j]

Goto(w, place) == pc' = [pc EXCEPT ![w] = place]

Leave(w, place) ==
    /\ Goto(w, place)
    /\ job' = [job EXCEPT ![w] = None]
    /\ held' = [held EXCEPT ![w] = NoToken]
    /\ seen' = [seen EXCEPT ![w] = 0]

Fault == faults < MaxFaults /\ faults' = faults + 1
-----------------------------------------------------------------------------
(* Users *)

\* create_scheduled_job up to its count, which locks nothing.
CountActive(j) ==
    /\ status[j] = "absent"
    /\ Cardinality(Active) < Capacity
    /\ status' = [status EXCEPT ![j] = "counted"]
    /\ UNCHANGED <<when, remaining, owner, lease, token, minted, fires, busy, workerVars, faults>>

\* The insert commits.
Create(j) ==
    /\ status[j] = "counted"
    /\ status' = [status EXCEPT ![j] = "pending"]
    /\ UNCHANGED <<when, remaining, owner, lease, token, minted, fires, busy, workerVars, faults>>

\* cancel_scheduled_job.
Cancel(j) ==
    /\ status[j] = "pending"
    /\ status' = [status EXCEPT ![j] = "cancelled"]
    /\ UNCHANGED <<when, remaining, owner, lease, token, minted, fires, busy, workerVars, faults>>

\* The conversation is deleted and the jobs go with it, whatever they do.
DeleteConversation ==
    /\ \A j \in Jobs : status[j] # "deleted"
    /\ status' = [j \in Jobs |-> "deleted"]
    /\ owner' = [j \in Jobs |-> None]
    /\ lease' = [j \in Jobs |-> "none"]
    /\ token' = [j \in Jobs |-> NoToken]
    /\ fires' = [j \in Jobs |-> <<>>]
    /\ UNCHANGED <<when, remaining, minted, busy, workerVars, faults>>

\* A passive Run of the conversation is admitted or settled.
PassiveRuns ==
    /\ busy' = ~busy
    /\ UNCHANGED <<jobVars, fires, workerVars, faults>>
-----------------------------------------------------------------------------
(* Workers *)

\* claim_next_scheduled_job: lapsed leases go back to pending, misfires on the
\* way to the first claimable row are skipped or missed, that row is leased.
\* Rows are visited by run_at, so late ones before due ones.
Claim(w) ==
    LET pending == {j \in Jobs : status[j] = "pending"} \cup Expired
        misfires == {j \in pending : Misfired(j)}
        claimable == {j \in pending \ misfires : when[j] # "early"}
        first == {j \in claimable : when[j] = "late" \/ \A i \in claimable : when[i] = "due"}
        Visit(misses, taken) ==
            /\ status' = [j \in Jobs |->
                  IF j \in taken THEN "running"
                  ELSE IF j \in misses /\ ~Repeats(j) THEN "missed"
                  ELSE IF j \in Expired THEN "pending" ELSE status[j]]
            /\ when' = [j \in Jobs |-> IF j \in misses /\ Repeats(j) THEN "early" ELSE when[j]]
            /\ remaining' = [j \in Jobs |->
                  IF j \in misses /\ Repeats(j) THEN Skipped(j) ELSE remaining[j]]
            /\ owner' = [j \in Jobs |->
                  IF j \in taken THEN w ELSE IF j \in Expired THEN None ELSE owner[j]]
            /\ lease' = [j \in Jobs |->
                  IF j \in taken THEN "live" ELSE IF j \in Expired THEN "none" ELSE lease[j]]
            /\ token' = [j \in Jobs |->
                  IF j \in taken /\ RecoveredToken(j) = NoToken THEN minted[j] + 1
                  ELSE IF j \in pending THEN RecoveredToken(j) ELSE token[j]]
            /\ minted' = [j \in Jobs |->
                  IF j \in taken /\ RecoveredToken(j) = NoToken THEN minted[j] + 1 ELSE minted[j]]
    IN
    /\ pc[w] = "idle"
    /\ \/ /\ claimable = {}
          /\ misfires # {} \/ Expired # {}
          /\ Visit(misfires, {})
          /\ UNCHANGED workerVars
       \/ \E j \in first :
          /\ RecoveredToken(j) = NoToken => minted[j] < MaxTokens
          /\ \E before \in SUBSET misfires :
                /\ when[j] = "due" => before = misfires
                /\ Visit(before, {j})
          /\ Goto(w, "claimed")
          /\ job' = [job EXCEPT ![w] = j]
          /\ held' = [held EXCEPT ![w] = token'[j]]
          /\ seen' = [seen EXCEPT ![w] = remaining[j]]
    /\ UNCHANGED <<fires, busy, faults>>

\* deliver_scheduled_job, up to where run_once goes on when it returns.  A
\* soft fire queues a passive Run.
Deliver(w, after) ==
    LET j == job[w] IN
    /\ pc[w] = "claimed"
    /\ status[j] = "running" /\ Owns(w)
    /\ \/ Fired(j, held[w]) /\ UNCHANGED <<fires, busy>>
       \/ /\ ~Fired(j, held[w])
          /\ j \in Soft \/ ~busy
          /\ fires' = [fires EXCEPT ![j] = Append(@, held[w])]
          /\ busy' = (busy \/ j \in Soft)
    /\ Goto(w, after)
    /\ UNCHANGED <<jobVars, job, held, seen>>

Delivered(w) == Deliver(w, "delivered") /\ UNCHANGED faults

\* The delivery commits and the answer is lost: for run_once it failed.
DeliverUnheard(w) == Deliver(w, "failing") /\ Fault

\* A passive Run has priority over an instant fire.
FindBusy(w) ==
    /\ pc[w] = "claimed"
    /\ status[job[w]] = "running" /\ Owns(w)
    /\ ~Fired(job[w], held[w]) /\ job[w] \notin Soft /\ busy
    /\ Goto(w, "postponing")
    /\ UNCHANGED <<jobVars, fires, busy, job, held, seen, faults>>

\* deliver_scheduled_job or finish_scheduled_job finds that the fire is another
\* worker's now, or nobody's: StoreStateError.
LoseFire(w) ==
    /\ \/ pc[w] = "claimed" /\ ~(status[job[w]] = "running" /\ Owns(w))
       \/ pc[w] = "delivered" /\ ~Owns(w)
    /\ Goto(w, "failing")
    /\ UNCHANGED <<jobVars, fires, busy, job, held, seen, faults>>

\* The transaction fails and rolls back.
TransactionFails(w) ==
    /\ pc[w] \in {"claimed", "delivered"}
    /\ Fault
    /\ Goto(w, "failing")
    /\ UNCHANGED <<jobVars, fires, busy, job, held, seen>>

\* finish_scheduled_job: the owner's row is settled or armed again.
Settle(w, to, left, at) ==
    LET j == job[w] IN
    /\ Owns(w)
    /\ status' = [status EXCEPT ![j] = to]
    /\ remaining' = [remaining EXCEPT ![j] = left]
    /\ when' = [when EXCEPT ![j] = at]
    /\ owner' = [owner EXCEPT ![j] = None]
    /\ lease' = [lease EXCEPT ![j] = "none"]
    /\ token' = [token EXCEPT ![j] = IF to = "pending" THEN NoToken ELSE @]
    /\ UNCHANGED <<minted, fires, busy>>

Finish(w) ==
    LET to == NextStatus(seen[w]) IN
    /\ pc[w] = "delivered"
    /\ Settle(w, to, Remaining(seen[w]), IF to = "pending" THEN "early" ELSE when[job[w]])
    /\ Leave(w, "idle")
    /\ UNCHANGED faults

\* The finish commits and the answer is lost.
FinishUnheard(w) ==
    LET to == NextStatus(seen[w]) IN
    /\ pc[w] = "delivered"
    /\ Settle(w, to, Remaining(seen[w]), IF to = "pending" THEN "early" ELSE when[job[w]])
    /\ Goto(w, "failing")
    /\ UNCHANGED <<job, held, seen>>
    /\ Fault

\* Five seconds later the conversation may be idle.
Postpone(w) ==
    /\ pc[w] = "postponing"
    /\ Settle(w, "pending", seen[w], "early")
    /\ Leave(w, "idle")
    /\ UNCHANGED faults

Fail(w) ==
    /\ pc[w] = "failing"
    /\ Settle(w, "failed", seen[w], when[job[w]])
    /\ Leave(w, "idle")
    /\ UNCHANGED faults

\* In the handlers of run_once nothing catches a StoreStateError: the task
\* group of the process is torn down.
DieOfLostFire(w) ==
    /\ pc[w] \in {"postponing", "failing"}
    /\ ~Owns(w)
    /\ Leave(w, "down")
    /\ UNCHANGED <<jobVars, fires, busy, faults>>
-----------------------------------------------------------------------------
(* Environment *)

\* Time passes for an armed job.
Tick(j) ==
    /\ status[j] = "pending"
    /\ when[j] # "late"
    /\ when' = [when EXCEPT ![j] = IF @ = "early" THEN "due" ELSE "late"]
    /\ UNCHANGED <<status, remaining, owner, lease, token, minted, fires, busy, workerVars, faults>>

\* The process that fires j is up and still its owner.
Attended(j) == \E w \in Workers : job[w] = j /\ owner[j] = w /\ pc[w] # "down"

\* lease_expires_at passes; a fault while its owner is up.
LeaseLapses(j) ==
    /\ status[j] = "running"
    /\ lease[j] = "live"
    /\ IF Attended(j) THEN Fault ELSE UNCHANGED faults
    /\ lease' = [lease EXCEPT ![j] = "lapsed"]
    /\ UNCHANGED <<status, when, remaining, owner, token, minted, fires, busy, workerVars>>

Crash(w) ==
    /\ pc[w] # "down"
    /\ Fault
    /\ Leave(w, "down")
    /\ UNCHANGED <<jobVars, fires, busy>>

Restart(w) ==
    /\ pc[w] = "down"
    /\ Goto(w, "idle")
    /\ UNCHANGED <<jobVars, fires, busy, job, held, seen, faults>>
-----------------------------------------------------------------------------
User ==
    \/ \E j \in Jobs : CountActive(j) \/ Create(j) \/ Cancel(j)
    \/ DeleteConversation \/ PassiveRuns

Firing(w) ==
    \/ Delivered(w) \/ FindBusy(w) \/ LoseFire(w) \/ Finish(w) \/ Postpone(w)
    \/ Fail(w) \/ DieOfLostFire(w)

Environment ==
    \/ \E j \in Jobs : Tick(j) \/ LeaseLapses(j)
    \/ \E w \in Workers : DeliverUnheard(w) \/ FinishUnheard(w) \/ TransactionFails(w)
                          \/ Crash(w) \/ Restart(w)

Next == User \/ (\E w \in Workers : Claim(w) \/ Firing(w)) \/ Environment

Spec == Init /\ [][Next]_vars

\* Workers poll, run_once goes on, abandoned leases run out and the service
\* manager restarts processes.
FairSpec ==
    /\ Spec
    /\ \A j \in Jobs : WF_vars(LeaseLapses(j) /\ ~Attended(j))
    /\ \A w \in Workers : WF_vars(Claim(w)) /\ WF_vars(Firing(w)) /\ WF_vars(Restart(w))
-----------------------------------------------------------------------------
(* Properties *)

\* Rows and processes have the shape the table and run_once give them.
TypeOK ==
    /\ status \in [Jobs -> Statuses]
    /\ when \in [Jobs -> {"early", "due", "late"}]
    /\ remaining \in [Jobs -> Nat \cup {Every}]
    /\ owner \in [Jobs -> Workers \cup {None}]
    /\ lease \in [Jobs -> {"none", "live", "lapsed"}]
    /\ token \in [Jobs -> Nat]
    /\ minted \in [Jobs -> Nat]
    /\ fires \in [Jobs -> Seq(Nat)]
    /\ busy \in BOOLEAN
    /\ pc \in [Workers -> Places]
    /\ job \in [Workers -> Jobs \cup {None}]
    /\ held \in [Workers -> Nat]
    /\ seen \in [Workers -> Nat \cup {Every}]
    /\ faults \in Nat

\* However often a fire is claimed again, its message or Run is written once
\* (deliver_scheduled_job).
OneDeliveryPerFire ==
    \A j \in Jobs : \A h, i \in DOMAIN fires[j] : fires[j][h] = fires[j][i] => h = i

\* The counter and the deliveries tell the same story: what was delivered is
\* what remaining_runs gave up, and the current fire if it was delivered
\* already.  So a counted job never fires too often, a completed one fired
\* every time, and a missed one did not fire (finish_scheduled_job).
FiresAreAccounted ==
    \A j \in Jobs : Repeat[j] # Every /\ status[j] # "deleted" =>
        Len(fires[j]) = Repeat[j] - remaining[j]
            + (IF Fired(j, token[j]) /\ status[j] # "completed" THEN 1 ELSE 0)

\* A claimed fire does not stay claimed: its owner settles it or another
\* worker takes it over (claim_next_scheduled_job).
ClaimsEnd == \A j \in Jobs : status[j] = "running" ~> status[j] # "running"
=============================================================================
