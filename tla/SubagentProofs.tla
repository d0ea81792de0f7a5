--------------------------- MODULE SubagentProofs ---------------------------
(***************************************************************************)
(* What a job of Subagents ends as is settled once, for any number of      *)
(* jobs, processes and faults: only the executor named in the row reports, *)
(* and only a running row names one.                                       *)
(***************************************************************************)
EXTENDS Subagents, TLAPS

\* An executor that is up to something has a job in its hands.
InHand == \A e \in Executors : pc[e] \notin {"idle", "down"} => job[e] \in Jobs

\* Only the row of a running job has an owner.
OnlyRunningOwned == \A j \in Jobs : owner[j] # None => status[j] = "running"

IInv ==
    /\ TypeOK
    /\ InHand
    /\ OnlyRunningOwned
    /\ OneResultPerJob
    /\ CancelPrevails

\* What a step may do to jobs that are over.
SettledStay == \A j \in Jobs : status[j] \in Settled => status'[j] \in {status[j], "deleted"}

LEMMA ProcessOf == ASSUME NEW e \in Executors PROVE Process(e) \in Workers /\ Process(e) # None
  BY SubagentConstants DEF Executors, Process

LEMMA Starts == Init => IInv
  BY SubagentConstants DEF Init, IInv, TypeOK, InHand, OnlyRunningOwned, OneResultPerJob,
     CancelPrevails, Statuses, Places, Settled

\* The rows stay, and executors let go of jobs or keep them.
LEMMA LetGo ==
    ASSUME IInv, UNCHANGED <<jobVars, results>>, faults' \in Nat,
           pc' \in [Executors -> Places], job' \in [Executors -> Jobs \cup {None}],
           \A e \in Executors : pc'[e] \notin {"idle", "down"} =>
               job'[e] = job[e] /\ pc[e] \notin {"idle", "down"}
    PROVE  IInv' /\ SettledStay
<1>1. TypeOK' /\ InHand'
  BY DEF IInv, TypeOK, InHand, jobVars
<1>2. OnlyRunningOwned' /\ OneResultPerJob' /\ CancelPrevails' /\ SettledStay
  BY DEF IInv, TypeOK, OnlyRunningOwned, OneResultPerJob, CancelPrevails, SettledStay, jobVars
<1> QED
  BY <1>1, <1>2 DEF IInv

\* One job that is not over goes on, or to another status that is not reported.
LEMMA MovesOn ==
    ASSUME IInv, NEW j \in Jobs, status[j] \notin Settled,
           NEW s \in Statuses \ {"completed", "failed"}, status' = [status EXCEPT ![j] = s],
           owner[j] # None => s = "running",
           UNCHANGED <<owner, lease, cancelRequested, results, faults>>,
           pc' \in [Executors -> Places], job' \in [Executors -> Jobs \cup {None}], InHand'
    PROVE  IInv' /\ SettledStay
<1>1. TypeOK'
  BY DEF IInv, TypeOK
<1>2. OnlyRunningOwned' /\ OneResultPerJob' /\ CancelPrevails' /\ SettledStay
  BY DEF IInv, TypeOK, OnlyRunningOwned, OneResultPerJob, CancelPrevails, SettledStay
<1> QED
  BY <1>1, <1>2 DEF IInv

LEMMA CountActiveStep ==
    ASSUME IInv, NEW e \in Executors, CountActive(e) PROVE IInv' /\ SettledStay
<1>1. PICK j \in Jobs :
          /\ status[j] = "absent"
          /\ status' = [status EXCEPT ![j] = "counted"]
          /\ Take(e, j, "counted")
  BY DEF CountActive
<1>2. owner[j] = None
  BY <1>1 DEF IInv, OnlyRunningOwned
<1>3. /\ pc' \in [Executors -> Places]
      /\ job' \in [Executors -> Jobs \cup {None}]
      /\ InHand'
  BY <1>1 DEF IInv, TypeOK, InHand, Take, Goto, Places
<1> QED
  BY <1>1, <1>2, <1>3, MovesOn DEF CountActive, Statuses, Settled

LEMMA CreateStep ==
    ASSUME IInv, NEW e \in Executors, Create(e) PROVE IInv' /\ SettledStay
<1>1. job[e] \in Jobs /\ status[job[e]] = "counted" /\ owner[job[e]] = None
  BY DEF Create, IInv, InHand, OnlyRunningOwned
<1>2. /\ pc' \in [Executors -> Places]
      /\ job' \in [Executors -> Jobs \cup {None}]
      /\ InHand'
  BY <1>1 DEF Create, IInv, TypeOK, InHand, Take, Leave, Goto, Places
<1> QED
  BY <1>1, <1>2, MovesOn DEF Create, Statuses, Settled

LEMMA ClaimInlineStep ==
    ASSUME IInv, NEW e \in Executors, ClaimInline(e) PROVE IInv' /\ SettledStay
<1>1. job[e] \in Jobs /\ status[job[e]] = "queued" /\ Process(e) \in Workers
  BY ProcessOf DEF ClaimInline, IInv, InHand
<1>2. TypeOK' /\ InHand'
  BY <1>1 DEF ClaimInline, IInv, TypeOK, InHand, Goto, Places, Statuses
<1>3. OnlyRunningOwned' /\ OneResultPerJob' /\ CancelPrevails' /\ SettledStay
  BY <1>1 DEF ClaimInline, IInv, TypeOK, OnlyRunningOwned, OneResultPerJob, CancelPrevails,
     SettledStay, Settled
<1> QED
  BY <1>2, <1>3 DEF IInv

LEMMA ClaimNextStep ==
    ASSUME IInv, NEW e \in Executors, ClaimNext(e) PROVE IInv' /\ SettledStay
<1>1. PICK j \in Jobs :
          /\ status[j] = "queued" \/ j \in Stale
          /\ status' = [i \in Jobs |->
                IF i = j THEN "running" ELSE IF i \in Stale THEN "queued" ELSE status[i]]
          /\ owner' = [i \in Jobs |->
                IF i = j THEN Process(e) ELSE IF i \in Stale THEN None ELSE owner[i]]
          /\ lease' = [i \in Jobs |->
                IF i = j THEN "live" ELSE IF i \in Stale THEN "none" ELSE lease[i]]
          /\ Take(e, j, "executing")
  BY DEF ClaimNext, Stale
<1>2. \A i \in Stale : i \in Jobs /\ status[i] = "running"
  BY DEF Stale
<1>3. TypeOK' /\ InHand'
  <2>1. status' \in [Jobs -> Statuses] /\ owner' \in [Jobs -> Workers \cup {None}]
    BY <1>1, ProcessOf DEF IInv, TypeOK, Statuses
  <2>2. lease' \in [Jobs -> {"none", "live", "lapsed"}]
    BY <1>1 DEF IInv, TypeOK
  <2>3. pc' \in [Executors -> Places] /\ job' \in [Executors -> Jobs \cup {None}] /\ InHand'
    BY <1>1 DEF IInv, TypeOK, InHand, Take, Goto, Places
  <2> QED
    BY <2>1, <2>2, <2>3 DEF IInv, TypeOK, ClaimNext
<1>4. OnlyRunningOwned' /\ SettledStay
  BY <1>1, <1>2 DEF IInv, TypeOK, OnlyRunningOwned, SettledStay, Settled
<1>5. OneResultPerJob' /\ CancelPrevails'
  BY <1>1, <1>2 DEF ClaimNext, IInv, TypeOK, OneResultPerJob, CancelPrevails, Settled
<1> QED
  BY <1>3, <1>4, <1>5 DEF IInv

LEMMA HeartbeatStep ==
    ASSUME IInv, NEW e \in Executors, Heartbeat(e) PROVE IInv' /\ SettledStay
<1>1. job[e] \in Jobs /\ pc[e] \notin {"idle", "down"}
  BY DEF Heartbeat, WorkingOn, IInv, InHand
<1>2. TypeOK' /\ InHand'
  BY <1>1 DEF Heartbeat, IInv, TypeOK, InHand, Goto, Places
<1>3. OnlyRunningOwned' /\ OneResultPerJob' /\ CancelPrevails' /\ SettledStay
  BY DEF Heartbeat, IInv, TypeOK, OnlyRunningOwned, OneResultPerJob, CancelPrevails, SettledStay
<1> QED
  BY <1>2, <1>3 DEF IInv

\* A report is made by the owner, so of a running job that has no result yet.
LEMMA FinishStep ==
    ASSUME IInv, NEW e \in Executors, Finish(e) PROVE IInv' /\ SettledStay
<1> DEFINE j == job[e]
<1>1. j \in Jobs /\ status[j] = "running"
  BY ProcessOf DEF Finish, Owns, IInv, InHand, OnlyRunningOwned
<1>2. results[j] = 0
  BY <1>1 DEF IInv, TypeOK, OneResultPerJob, Settled
<1>3. PICK o \in {"completed", "failed"} : status' = [status EXCEPT ![j] = Reported(e, o)]
  BY DEF Finish
<1>4. Reported(e, o) \in Settled
  BY <1>3 DEF Reported, Settled
<1>5. TypeOK' /\ InHand'
  <2>1. status' \in [Jobs -> Statuses]
    BY <1>1, <1>3, <1>4 DEF IInv, TypeOK, Statuses
  <2>2. results' \in [Jobs -> Nat]
    BY <1>1 DEF Finish, IInv, TypeOK
  <2>3. pc' \in [Executors -> Places] /\ job' \in [Executors -> Jobs \cup {None}] /\ InHand'
    BY DEF Finish, IInv, TypeOK, InHand, Leave, Goto, Places
  <2> QED
    BY <1>1, <2>1, <2>2, <2>3 DEF Finish, IInv, TypeOK
<1>6. OnlyRunningOwned' /\ SettledStay
  BY <1>1, <1>3 DEF Finish, IInv, TypeOK, OnlyRunningOwned, SettledStay, Settled
<1>7. OneResultPerJob'
  BY <1>1, <1>2, <1>3, <1>4 DEF Finish, IInv, TypeOK, OneResultPerJob
<1>8. CancelPrevails'
  BY <1>1, <1>3 DEF Finish, IInv, TypeOK, CancelPrevails, Reported
<1> QED
  BY <1>5, <1>6, <1>7, <1>8 DEF IInv

\* An executor ends its work, or its process ends, and no row changes.
LEMMA LettingGo ==
    ASSUME IInv, NEW e \in Executors,
           SpawnFails(e) \/ UseTool(e) \/ EndExecution(e) \/ AbandonInline(e) \/ LoseJob(e)
    PROVE  IInv' /\ SettledStay
<1>1. UNCHANGED <<jobVars, results, faults>> /\ faults' \in Nat
  BY DEF IInv, TypeOK, SpawnFails, UseTool, EndExecution, AbandonInline, LoseJob
<1>2. CASE SpawnFails(e) \/ AbandonInline(e) \/ (LoseJob(e) /\ ~IsLoop(e))
  <2>1. Leave(e)
    BY <1>2 DEF SpawnFails, AbandonInline, LoseJob
  <2> QED
    BY <1>1, <2>1, LetGo DEF IInv, TypeOK, Leave, Goto, Places
<1>3. CASE LoseJob(e) /\ IsLoop(e)
  <2>1. ProcessDies(Process(e))
    BY <1>3 DEF LoseJob
  <2>2. pc' \in [Executors -> Places] /\ job' \in [Executors -> Jobs \cup {None}]
    BY <2>1 DEF IInv, TypeOK, ProcessDies, Places
  <2>3. \A d \in Executors : pc'[d] \notin {"idle", "down"} =>
            job'[d] = job[d] /\ pc[d] \notin {"idle", "down"}
    BY <2>1 DEF ProcessDies
  <2> QED
    BY <1>1, <2>2, <2>3, LetGo
<1>4. CASE UseTool(e) \/ EndExecution(e)
  <2>1. pc[e] \notin {"idle", "down"} /\ job' = job
    BY <1>4 DEF UseTool, EndExecution, WorkingOn
  <2>2. pc' = pc \/ \E p \in {"refused", "finishing"} : pc' = [pc EXCEPT ![e] = p]
    BY <1>4 DEF UseTool, EndExecution, Goto
  <2> QED
    BY <1>1, <2>1, <2>2, LetGo DEF IInv, TypeOK, Places
<1> QED
  BY <1>2, <1>3, <1>4

LEMMA CancelStep ==
    ASSUME IInv, NEW j \in Jobs, CancelQueued(j) \/ CancelRunning(j) PROVE IInv' /\ SettledStay
<1>1. CASE CancelQueued(j)
  <2>1. owner[j] = None
    BY <1>1 DEF CancelQueued, IInv, OnlyRunningOwned
  <2>2. /\ pc' \in [Executors -> Places]
        /\ job' \in [Executors -> Jobs \cup {None}]
        /\ InHand'
    BY <1>1 DEF CancelQueued, executorVars, IInv, TypeOK, InHand
  <2> QED
    BY <1>1, <2>1, <2>2, MovesOn DEF CancelQueued, Statuses, Settled
<1>2. CASE CancelRunning(j)
  <2>1. TypeOK' /\ InHand'
    BY <1>2 DEF CancelRunning, executorVars, IInv, TypeOK, InHand
  <2>2. OnlyRunningOwned' /\ OneResultPerJob' /\ CancelPrevails' /\ SettledStay
    BY <1>2 DEF CancelRunning, IInv, TypeOK, OnlyRunningOwned, OneResultPerJob, CancelPrevails,
       SettledStay
  <2> QED
    BY <2>1, <2>2 DEF IInv
<1> QED
  BY <1>1, <1>2

LEMMA DeleteStep == ASSUME IInv, DeleteConversation PROVE IInv' /\ SettledStay
<1>1. TypeOK' /\ InHand'
  BY DEF DeleteConversation, executorVars, IInv, TypeOK, InHand, Statuses
<1>2. OnlyRunningOwned' /\ OneResultPerJob' /\ CancelPrevails' /\ SettledStay
  BY DEF DeleteConversation, IInv, TypeOK, OnlyRunningOwned, OneResultPerJob, CancelPrevails,
     SettledStay
<1> QED
  BY <1>1, <1>2 DEF IInv

LEMMA LeaseLapsesStep ==
    ASSUME IInv, NEW j \in Jobs, LeaseLapses(j) PROVE IInv' /\ SettledStay
<1>1. TypeOK' /\ InHand'
  BY DEF LeaseLapses, Fault, executorVars, IInv, TypeOK, InHand
<1>2. OnlyRunningOwned' /\ OneResultPerJob' /\ CancelPrevails' /\ SettledStay
  BY DEF LeaseLapses, IInv, TypeOK, OnlyRunningOwned, OneResultPerJob, CancelPrevails,
     SettledStay
<1> QED
  BY <1>1, <1>2 DEF IInv

LEMMA ProcessStep ==
    ASSUME IInv, NEW w \in Workers, Crash(w) \/ Restart(w) PROVE IInv' /\ SettledStay
<1>1. UNCHANGED <<jobVars, results>> /\ faults' \in Nat
  BY DEF IInv, TypeOK, Crash, Restart, Fault
<1>2. pc' \in [Executors -> Places] /\ job' \in [Executors -> Jobs \cup {None}]
  BY DEF IInv, TypeOK, Crash, Restart, ProcessDies, Places
<1>3. \A e \in Executors : pc'[e] \notin {"idle", "down"} =>
          job'[e] = job[e] /\ pc[e] \notin {"idle", "down"}
  BY DEF IInv, TypeOK, Crash, Restart, ProcessDies
<1> QED
  BY <1>1, <1>2, <1>3, LetGo

LEMMA Steps == IInv /\ Next => IInv' /\ SettledStay
  BY CountActiveStep, CreateStep, ClaimInlineStep, ClaimNextStep, HeartbeatStep, FinishStep,
     LettingGo, CancelStep, DeleteStep, LeaseLapsesStep, ProcessStep DEF Next, Working

LEMMA Stutters == IInv /\ UNCHANGED vars => IInv' /\ SettledStay
<1> SUFFICES ASSUME IInv, UNCHANGED vars PROVE IInv' /\ SettledStay
  OBVIOUS
<1>1. TypeOK' /\ InHand' /\ OnlyRunningOwned'
  BY DEF IInv, vars, jobVars, executorVars, TypeOK, InHand, OnlyRunningOwned
<1>2. OneResultPerJob' /\ CancelPrevails' /\ SettledStay
  BY DEF IInv, vars, jobVars, OneResultPerJob, CancelPrevails, SettledStay
<1> QED
  BY <1>1, <1>2 DEF IInv

LEMMA Inductive == Spec => []IInv
  BY Starts, Steps, Stutters, PTL DEF Spec

\* Rows and executors keep their shape (store.py, subagents.py).
THEOREM Typing == Spec => []TypeOK
  BY Inductive, PTL DEF IInv

\* A job has one result at most, however many executors believe they hold it
\* (finish_subagent_job).
THEOREM OneResult == Spec => []OneResultPerJob
  BY Inductive, PTL DEF IInv

\* A cancellation of a running job decides its outcome, also when the job is
\* taken back and executed again (cancel_subagent_job, finish_subagent_job).
THEOREM Cancellation == Spec => []CancelPrevails
  BY Inductive, PTL DEF IInv

\* A job that is over stays as it is (claim_next_subagent_job,
\* finish_subagent_job).
THEOREM Finality == Spec => SettledIsFinal
<1>1. IInv /\ [Next]_vars => [SettledStay]_vars
  BY Steps
<1> QED
  BY <1>1, Inductive, PTL DEF Spec, SettledIsFinal, SettledStay
-----------------------------------------------------------------------------
(* Refinement of JobPromise *)

\* Nobody can ask a job to stop before it is there.
NotAskedYet == \A j \in Jobs : status[j] \in {"absent", "counted"} => ~cancelRequested[j]

LEMMA NeverAskedEarly == Spec => []NotAskedYet
<1>1. Init => NotAskedYet
  BY DEF Init, NotAskedYet
<1>2. IInv /\ NotAskedYet /\ [Next]_vars => NotAskedYet'
  <2> SUFFICES ASSUME IInv, NotAskedYet, [Next]_vars PROVE NotAskedYet'
    OBVIOUS
  <2> USE DEF IInv, TypeOK, InHand, NotAskedYet
  <2>1. CASE UNCHANGED vars
    BY <2>1 DEF vars, jobVars
  <2>2. CASE DeleteConversation
    BY <2>2 DEF DeleteConversation
  <2>3. ASSUME NEW j \in Jobs, CancelQueued(j) \/ CancelRunning(j) \/ LeaseLapses(j)
        PROVE  NotAskedYet'
    BY <2>3 DEF CancelQueued, CancelRunning, LeaseLapses
  <2>4. ASSUME NEW e \in Executors,
               CountActive(e) \/ Create(e) \/ ClaimNext(e) \/ ClaimInline(e) \/ Heartbeat(e)
        PROVE  NotAskedYet'
    BY <2>4 DEF CountActive, Create, ClaimNext, ClaimInline, Heartbeat
  <2>5. ASSUME NEW e \in Executors, Finish(e) PROVE NotAskedYet'
    BY <2>5 DEF Finish, Reported
  <2>6. ASSUME NEW e \in Executors,
               SpawnFails(e) \/ UseTool(e) \/ EndExecution(e) \/ AbandonInline(e) \/ LoseJob(e)
        PROVE  NotAskedYet'
    BY <2>6 DEF SpawnFails, UseTool, EndExecution, AbandonInline, LoseJob, jobVars
  <2>7. ASSUME NEW w \in Workers, Crash(w) \/ Restart(w) PROVE NotAskedYet'
    BY <2>7 DEF Crash, Restart, jobVars
  <2> QED
    BY <2>1, <2>2, <2>3, <2>4, <2>5, <2>6, <2>7 DEF Next, Working
<1> QED
  BY <1>1, <1>2, Inductive, PTL DEF Spec

Phase(j) ==
    IF status[j] = "counted" THEN "absent"
    ELSE IF status[j] \in {"queued", "running"} /\ cancelRequested[j] THEN "stopping"
    ELSE IF status[j] = "running" THEN "working" ELSE status[j]

Phases == [j \in Jobs |-> Phase(j)]

\* Steps that change nothing the promise sees.
LEMMA Hidden ==
    ASSUME UNCHANGED <<status, cancelRequested, results>> PROVE UNCHANGED <<Phases, results>>
  BY DEF Phases, Phase

LEMMA PromiseStep ==
    IInv /\ NotAskedYet /\ [Next]_vars => [Promise!PromiseNext]_(Promise!promiseVars)
<1> SUFFICES ASSUME IInv, NotAskedYet, [Next]_vars
             PROVE  Promise!PromiseNext \/ UNCHANGED <<Phases, results>>
  BY DEF Promise!promiseVars, Phases, Phase
<1> USE DEF IInv, TypeOK
<1>1. CASE UNCHANGED vars
  BY <1>1, Hidden DEF vars, jobVars
<1>2. CASE DeleteConversation
  <2>1. Promise!Forget
    BY <1>2 DEF DeleteConversation, Promise!Forget
  <2> QED
    BY <2>1 DEF Promise!PromiseNext
<1>3. ASSUME NEW j \in Jobs, LeaseLapses(j) PROVE UNCHANGED <<Phases, results>>
  BY <1>3, Hidden DEF LeaseLapses
<1>4. ASSUME NEW j \in Jobs, CancelQueued(j) PROVE Promise!PromiseNext
  <2>1. CASE cancelRequested[j]
    <3>1. Promise!Return(j)
      BY <1>4, <2>1 DEF CancelQueued, Promise!Return, Promise!Outcome, Promise!Move
    <3> QED
      BY <3>1 DEF Promise!PromiseNext
  <2>2. CASE ~cancelRequested[j]
    <3>1. Promise!Withdraw(j)
      BY <1>4, <2>2 DEF CancelQueued, Promise!Withdraw, Promise!Move
    <3> QED
      BY <3>1 DEF Promise!PromiseNext
  <2> QED
    BY <2>1, <2>2
<1>5. ASSUME NEW j \in Jobs, CancelRunning(j)
      PROVE  Promise!PromiseNext \/ UNCHANGED <<Phases, results>>
  <2>1. CASE cancelRequested[j]
    BY <1>5, <2>1, Hidden DEF CancelRunning
  <2>2. CASE ~cancelRequested[j]
    <3>1. Promise!AskToStop(j)
      BY <1>5, <2>2 DEF CancelRunning, Promise!AskToStop, Promise!Move
    <3> QED
      BY <3>1 DEF Promise!PromiseNext
  <2> QED
    BY <2>1, <2>2
<1>6. ASSUME NEW e \in Executors, CountActive(e) PROVE UNCHANGED <<Phases, results>>
  <2>1. PICK j \in Jobs : status[j] = "absent" /\ status' = [status EXCEPT ![j] = "counted"]
    BY <1>6 DEF CountActive
  <2>2. \A i \in Jobs : Phase(i)' = Phase(i)
    BY <1>6, <2>1 DEF CountActive, Phase
  <2> QED
    BY <1>6, <2>2 DEF CountActive, Phases
<1>7. ASSUME NEW e \in Executors, Create(e) PROVE Promise!PromiseNext
  <2>1. PICK j \in Jobs : j = job[e] /\ status[j] = "counted" /\ ~cancelRequested[j]
    BY <1>7 DEF Create, InHand, NotAskedYet
  <2>2. Promise!Accept(j)
    BY <1>7, <2>1 DEF Create, Promise!Accept, Promise!Move
  <2> QED
    BY <2>1, <2>2 DEF Promise!PromiseNext
<1>8. ASSUME NEW e \in Executors, ClaimInline(e) PROVE Promise!PromiseNext
  <2>1. PICK j \in Jobs : j = job[e] /\ status[j] = "queued"
    BY <1>8 DEF ClaimInline, InHand
  <2>2. Promise!GiveOut(j, {})
    BY <1>8, <2>1 DEF ClaimInline, Promise!GiveOut
  <2> QED
    BY <2>1, <2>2 DEF Promise!PromiseNext
<1>9. ASSUME NEW e \in Executors, ClaimNext(e) PROVE Promise!PromiseNext
  <2>1. PICK j \in Jobs :
            /\ status[j] = "queued" \/ j \in Stale
            /\ status' = [i \in Jobs |->
                  IF i = j THEN "running" ELSE IF i \in Stale THEN "queued" ELSE status[i]]
    BY <1>9 DEF ClaimNext, Stale
  <2>2. PICK back \in SUBSET Jobs : back = {i \in Stale : ~cancelRequested[i]}
    BY DEF Stale
  <2>3. Promise!GiveOut(j, back)
    BY <1>9, <2>1, <2>2 DEF ClaimNext, Stale, Promise!GiveOut
  <2> QED
    BY <2>3 DEF Promise!PromiseNext
<1>10. ASSUME NEW e \in Executors, Heartbeat(e) PROVE UNCHANGED <<Phases, results>>
  BY <1>10, Hidden DEF Heartbeat
<1>11. ASSUME NEW e \in Executors, Finish(e) PROVE Promise!PromiseNext
  <2>1. PICK j \in Jobs : j = job[e] /\ status[j] = "running"
    BY <1>11, ProcessOf DEF Finish, Owns, InHand, OnlyRunningOwned
  <2>2. PICK o \in {"completed"} \cup (IF IsLoop(e) THEN {"failed"} ELSE {}) :
            status' = [status EXCEPT ![j] = Reported(e, o)]
    BY <1>11, <2>1 DEF Finish
  <2>3. Reported(e, o) = IF cancelRequested[j] THEN "cancelled" ELSE o
    BY <2>1 DEF Reported
  <2>4. CASE IsLoop(e)
    <3>1. Promise!Tell(j)
      BY <1>11, <2>1, <2>2, <2>3, <2>4
         DEF Finish, Promise!Tell, Promise!Outcome, Promise!Move
    <3> QED
      BY <2>1, <3>1 DEF Promise!PromiseNext
  <2>5. CASE ~IsLoop(e)
    <3>1. Promise!Return(j)
      BY <1>11, <2>1, <2>2, <2>3, <2>5
         DEF Finish, Promise!Return, Promise!Outcome, Promise!Move
    <3> QED
      BY <2>1, <3>1 DEF Promise!PromiseNext
  <2> QED
    BY <2>4, <2>5
<1>12. ASSUME NEW e \in Executors,
              SpawnFails(e) \/ UseTool(e) \/ EndExecution(e) \/ AbandonInline(e) \/ LoseJob(e)
       PROVE  UNCHANGED <<Phases, results>>
  BY <1>12, Hidden DEF SpawnFails, UseTool, EndExecution, AbandonInline, LoseJob, jobVars
<1>13. ASSUME NEW w \in Workers, Crash(w) \/ Restart(w) PROVE UNCHANGED <<Phases, results>>
  BY <1>13, Hidden DEF Crash, Restart, jobVars
<1> QED
  BY <1>1, <1>2, <1>3, <1>4, <1>5, <1>6, <1>7, <1>8, <1>9, <1>10, <1>11, <1>12, <1>13
     DEF Next, Working

\* Leases, processes that share a lease_owner, lost executions and crashes are
\* invisible to the user: jobs behave as JobPromise says, for any number of jobs
\* and processes (every transaction on cloud_subagent_jobs).
THEOREM Refinement == Spec => JobsKeepTheirPromise
<1>1. Init => Promise!PromiseInit
  BY DEF Init, Promise!PromiseInit
<1> QED
  BY <1>1, PromiseStep, Inductive, NeverAskedEarly, PTL
     DEF Spec, JobsKeepTheirPromise, Promise!PromiseSpec
=============================================================================
