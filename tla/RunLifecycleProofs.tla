------------------------- MODULE RunLifecycleProofs -------------------------
(***************************************************************************)
(* Safety of RunLifecycle for any number of Runs, workers, conversations,  *)
(* faults and cancel requests.                                             *)
(***************************************************************************)
EXTENDS RunLifecycle, FiniteSetTheorems, TLAPS

\* Inside run_once a worker has a Run in hand.
JobHeld == \A w \in Workers : pc[w] \notin {"idle", "down"} => job[w] \in Runs

\* A row lock of a claim keeps its Run queued, and no two claims hold one row.
LocksQueued ==
    \A w \in Workers : pc[w] = "claiming" =>
        /\ status[job[w]] = "queued"
        /\ \A v \in Workers : pc[v] = "claiming" /\ job[v] = job[w] => v = w

\* A cancellation is recorded on running Runs only, and only ends one way.
CancelsRun ==
    \A r \in Runs : cancelRequested[r] => status[r] \in {"running", "cancelled", "deleted"}

\* A Run has a conversation from its admission on.
RowsPlaced == \A r \in Runs : status[r] = "absent" <=> conv[r] = None

IInv ==
    /\ TypeOK
    /\ JobHeld
    /\ LocksQueued
    /\ CancelsRun
    /\ RowsPlaced
    /\ OneRunningPerConversation
    /\ OwnershipFencesAttempts

LEMMA Invariance == IInv /\ Next => IInv'
<1>1. ASSUME IInv, NEW c \in Conversations, Submit(c) PROVE IInv'
  <2>1. TypeOK'
    BY RunConstants, <1>1
       DEF IInv, Submit, AppendEvent, workerVars, TypeOK, JobHeld, RowsPlaced, Statuses,
           Terminal, EventTypes, MessageRows, Places
  <2>2. JobHeld'
    BY RunConstants, <1>1 DEF IInv, Submit, AppendEvent, workerVars, TypeOK, JobHeld, Places
  <2>3. LocksQueued'
    BY RunConstants, <1>1
       DEF IInv, Submit, AppendEvent, workerVars, TypeOK, LocksQueued, JobHeld
  <2>4. CancelsRun'
    BY RunConstants, <1>1
       DEF IInv, Submit, AppendEvent, workerVars, TypeOK, CancelsRun, LocksQueued, JobHeld
  <2>5. RowsPlaced'
    BY RunConstants, <1>1 DEF IInv, Submit, AppendEvent, workerVars, TypeOK, RowsPlaced, JobHeld
  <2>6. OneRunningPerConversation'
    BY RunConstants, <1>1
       DEF IInv, Submit, AppendEvent, workerVars, TypeOK, OneRunningPerConversation,
           JobHeld
  <2>7. OwnershipFencesAttempts'
    BY RunConstants, <1>1
       DEF IInv, Submit, AppendEvent, workerVars, TypeOK, OwnershipFencesAttempts, Owned,
           Holding, JobHeld, Places
  <2> QED
    BY <2>1, <2>2, <2>3, <2>4, <2>5, <2>6, <2>7 DEF IInv
<1>2. ASSUME IInv, NEW c \in Conversations, CheckDelete(c) PROVE IInv'
  <2>1. TypeOK'
    BY RunConstants, <1>2
       DEF IInv, CheckDelete, runVars, workerVars, TypeOK, JobHeld, RowsPlaced, Statuses,
           Terminal, EventTypes, MessageRows, Places
  <2>2. JobHeld'
    BY RunConstants, <1>2 DEF IInv, CheckDelete, runVars, workerVars, TypeOK, JobHeld, Places
  <2>3. LocksQueued'
    BY RunConstants, <1>2
       DEF IInv, CheckDelete, runVars, workerVars, TypeOK, LocksQueued, JobHeld
  <2>4. CancelsRun'
    BY RunConstants, <1>2
       DEF IInv, CheckDelete, runVars, workerVars, TypeOK, CancelsRun, LocksQueued,
           JobHeld
  <2>5. RowsPlaced'
    BY RunConstants, <1>2
       DEF IInv, CheckDelete, runVars, workerVars, TypeOK, RowsPlaced, JobHeld
  <2>6. OneRunningPerConversation'
    BY RunConstants, <1>2
       DEF IInv, CheckDelete, runVars, workerVars, TypeOK, OneRunningPerConversation,
           JobHeld
  <2>7. OwnershipFencesAttempts'
    BY RunConstants, <1>2
       DEF IInv, CheckDelete, runVars, workerVars, TypeOK, OwnershipFencesAttempts, Owned,
           Holding, JobHeld, Places
  <2> QED
    BY <2>1, <2>2, <2>3, <2>4, <2>5, <2>6, <2>7 DEF IInv
<1>3. ASSUME IInv, NEW c \in Conversations, Delete(c) PROVE IInv'
  <2>1. TypeOK'
    BY <1>3 DEF IInv, Delete, workerVars, Locked, TypeOK, JobHeld, Statuses, Terminal, Places
  <2>2. JobHeld'
    BY RunConstants, <1>3 DEF IInv, Delete, workerVars, Locked, TypeOK, JobHeld, Places
  <2>3. LocksQueued'
    BY RunConstants, <1>3 DEF IInv, Delete, workerVars, Locked, TypeOK, LocksQueued, JobHeld
  <2>4. CancelsRun'
    BY RunConstants, <1>3
       DEF IInv, Delete, workerVars, Locked, TypeOK, CancelsRun, LocksQueued, JobHeld
  <2>5. RowsPlaced'
    BY RunConstants, <1>3 DEF IInv, Delete, workerVars, Locked, TypeOK, RowsPlaced, JobHeld
  <2>6. OneRunningPerConversation'
    BY RunConstants, <1>3
       DEF IInv, Delete, workerVars, Locked, TypeOK, OneRunningPerConversation, JobHeld
  <2>7. OwnershipFencesAttempts'
    BY RunConstants, <1>3
       DEF IInv, Delete, workerVars, Locked, TypeOK, OwnershipFencesAttempts, Owned,
           Holding, JobHeld, Places
  <2> QED
    BY <2>1, <2>2, <2>3, <2>4, <2>5, <2>6, <2>7 DEF IInv
<1>4. ASSUME IInv, NEW r \in Runs, CancelQueued(r) PROVE IInv'
  <2>1. TypeOK'
    BY RunConstants, <1>4
       DEF IInv, CancelQueued, AppendEvent, workerVars, Locked, TypeOK, JobHeld,
           RowsPlaced, Statuses, Terminal, EventTypes, MessageRows, Places
  <2>2. JobHeld'
    BY RunConstants, <1>4
       DEF IInv, CancelQueued, AppendEvent, workerVars, Locked, TypeOK, JobHeld, Places
  <2>3. LocksQueued'
    BY RunConstants, <1>4
       DEF IInv, CancelQueued, AppendEvent, workerVars, Locked, TypeOK, LocksQueued,
           JobHeld
  <2>4. CancelsRun'
    BY RunConstants, <1>4
       DEF IInv, CancelQueued, AppendEvent, workerVars, Locked, TypeOK, CancelsRun,
           LocksQueued, JobHeld
  <2>5. RowsPlaced'
    BY RunConstants, <1>4
       DEF IInv, CancelQueued, AppendEvent, workerVars, Locked, TypeOK, RowsPlaced,
           JobHeld
  <2>6. OneRunningPerConversation'
    BY RunConstants, <1>4
       DEF IInv, CancelQueued, AppendEvent, workerVars, Locked, TypeOK,
           OneRunningPerConversation, JobHeld
  <2>7. OwnershipFencesAttempts'
    BY RunConstants, <1>4
       DEF IInv, CancelQueued, AppendEvent, workerVars, Locked, TypeOK,
           OwnershipFencesAttempts, Owned, Holding, JobHeld, Places
  <2> QED
    BY <2>1, <2>2, <2>3, <2>4, <2>5, <2>6, <2>7 DEF IInv
<1>5. ASSUME IInv, NEW r \in Runs, CancelRunning(r) PROVE IInv'
  <2>1. TypeOK'
    BY RunConstants, <1>5
       DEF IInv, CancelRunning, AppendEvent, workerVars, TypeOK, JobHeld, RowsPlaced,
           Statuses, Terminal, EventTypes, MessageRows, Places
  <2>2. JobHeld'
    BY RunConstants, <1>5
       DEF IInv, CancelRunning, AppendEvent, workerVars, TypeOK, JobHeld, Places
  <2>3. LocksQueued'
    BY RunConstants, <1>5
       DEF IInv, CancelRunning, AppendEvent, workerVars, TypeOK, LocksQueued, JobHeld
  <2>4. CancelsRun'
    BY RunConstants, <1>5
       DEF IInv, CancelRunning, AppendEvent, workerVars, TypeOK, CancelsRun, LocksQueued,
           JobHeld
  <2>5. RowsPlaced'
    BY RunConstants, <1>5
       DEF IInv, CancelRunning, AppendEvent, workerVars, TypeOK, RowsPlaced, JobHeld
  <2>6. OneRunningPerConversation'
    BY RunConstants, <1>5
       DEF IInv, CancelRunning, AppendEvent, workerVars, TypeOK,
           OneRunningPerConversation, JobHeld
  <2>7. OwnershipFencesAttempts'
    BY RunConstants, <1>5
       DEF IInv, CancelRunning, AppendEvent, workerVars, TypeOK, OwnershipFencesAttempts,
           Owned, Holding, JobHeld, Places
  <2> QED
    BY <2>1, <2>2, <2>3, <2>4, <2>5, <2>6, <2>7 DEF IInv
<1>6. ASSUME IInv, NEW r \in Runs, LeaseLapses(r) PROVE IInv'
  <2>1. TypeOK'
    BY RunConstants, <1>6
       DEF IInv, LeaseLapses, workerVars, TypeOK, JobHeld, RowsPlaced, Statuses, Terminal,
           EventTypes, MessageRows, Places
  <2>2. JobHeld'
    BY RunConstants, <1>6 DEF IInv, LeaseLapses, workerVars, TypeOK, JobHeld, Places
  <2>3. LocksQueued'
    BY RunConstants, <1>6 DEF IInv, LeaseLapses, workerVars, TypeOK, LocksQueued, JobHeld
  <2>4. CancelsRun'
    BY RunConstants, <1>6
       DEF IInv, LeaseLapses, workerVars, TypeOK, CancelsRun, LocksQueued, JobHeld
  <2>5. RowsPlaced'
    BY RunConstants, <1>6 DEF IInv, LeaseLapses, workerVars, TypeOK, RowsPlaced, JobHeld
  <2>6. OneRunningPerConversation'
    BY RunConstants, <1>6
       DEF IInv, LeaseLapses, workerVars, TypeOK, OneRunningPerConversation, JobHeld
  <2>7. OwnershipFencesAttempts'
    BY RunConstants, <1>6
       DEF IInv, LeaseLapses, workerVars, TypeOK, OwnershipFencesAttempts, Owned, Holding,
           JobHeld, Places
  <2> QED
    BY <2>1, <2>2, <2>3, <2>4, <2>5, <2>6, <2>7 DEF IInv
<1>7. ASSUME IInv, NEW w \in Workers, ClaimSelect(w) PROVE IInv'
  <2>1. TypeOK'
    BY <1>7
       DEF IInv, ClaimSelect, Goto, runVars, Claimable, Locked, TypeOK, JobHeld, Statuses,
           Terminal, Places
  <2>2. JobHeld'
    BY RunConstants, <1>7
       DEF IInv, ClaimSelect, Goto, runVars, Claimable, Locked, TypeOK, JobHeld, Places
  <2>3. LocksQueued'
    BY RunConstants, <1>7
       DEF IInv, ClaimSelect, Goto, runVars, Claimable, Locked, TypeOK, LocksQueued,
           JobHeld
  <2>4. CancelsRun'
    BY RunConstants, <1>7
       DEF IInv, ClaimSelect, Goto, runVars, Claimable, Locked, TypeOK, CancelsRun,
           LocksQueued, JobHeld
  <2>5. RowsPlaced'
    BY RunConstants, <1>7
       DEF IInv, ClaimSelect, Goto, runVars, Claimable, Locked, TypeOK, RowsPlaced,
           JobHeld
  <2>6. OneRunningPerConversation'
    BY RunConstants, <1>7
       DEF IInv, ClaimSelect, Goto, runVars, Claimable, Locked, TypeOK,
           OneRunningPerConversation, JobHeld
  <2>7. OwnershipFencesAttempts'
    BY RunConstants, <1>7
       DEF IInv, ClaimSelect, Goto, runVars, Claimable, Locked, TypeOK,
           OwnershipFencesAttempts, Owned, Holding, JobHeld, Places
  <2> QED
    BY <2>1, <2>2, <2>3, <2>4, <2>5, <2>6, <2>7 DEF IInv
<1>8. ASSUME IInv, NEW w \in Workers, ClaimCommit(w) PROVE IInv'
  <2>1. TypeOK'
    <3>1. job[w] \in Runs
      BY <1>8 DEF IInv, JobHeld, ClaimCommit
    <3>2. status' \in [Runs -> Statuses] /\ pc' \in [Workers -> Places]
      BY <1>8, <3>1 DEF IInv, TypeOK, ClaimCommit, Goto, Statuses, Places
    <3>3. attempt' \in [Runs -> Nat] /\ turn' \in [Workers -> Nat]
      BY <1>8, <3>1 DEF IInv, TypeOK, ClaimCommit
    <3>4. events' \in [Runs -> Seq(EventTypes)]
      BY <1>8, <3>1 DEF IInv, TypeOK, ClaimCommit, AppendEvent, EventTypes
    <3> QED
      BY <1>8, <3>1, <3>2, <3>3, <3>4 DEF IInv, TypeOK, ClaimCommit
  <2>2. JobHeld'
    BY RunConstants, <1>8
       DEF IInv, ClaimCommit, Goto, AppendEvent, IndexAdmits, Busy, TypeOK, JobHeld,
           Places
  <2>3. LocksQueued'
    BY RunConstants, <1>8
       DEF IInv, ClaimCommit, Goto, AppendEvent, IndexAdmits, Busy, TypeOK, LocksQueued,
           JobHeld
  <2>4. CancelsRun'
    BY RunConstants, <1>8
       DEF IInv, ClaimCommit, Goto, AppendEvent, IndexAdmits, Busy, TypeOK, CancelsRun,
           LocksQueued, JobHeld
  <2>5. RowsPlaced'
    BY RunConstants, <1>8
       DEF IInv, ClaimCommit, Goto, AppendEvent, IndexAdmits, Busy, TypeOK, RowsPlaced,
           JobHeld, LocksQueued
  <2>6. OneRunningPerConversation'
    BY RunConstants, <1>8
       DEF IInv, ClaimCommit, Goto, AppendEvent, IndexAdmits, Busy, TypeOK,
           OneRunningPerConversation, JobHeld
  <2>7. OwnershipFencesAttempts'
    BY RunConstants, <1>8
       DEF IInv, ClaimCommit, Goto, AppendEvent, IndexAdmits, Busy, TypeOK,
           OwnershipFencesAttempts, Owned, Holding, JobHeld, Places
  <2> QED
    BY <2>1, <2>2, <2>3, <2>4, <2>5, <2>6, <2>7 DEF IInv
<1>9. ASSUME IInv, NEW w \in Workers, ClaimLose(w) PROVE IInv'
  <2>1. TypeOK'
    BY RunConstants, <1>9
       DEF IInv, ClaimLose, Leave, Goto, runVars, TypeOK, JobHeld, RowsPlaced, Statuses,
           Terminal, EventTypes, MessageRows, Places
  <2>2. JobHeld'
    BY RunConstants, <1>9 DEF IInv, ClaimLose, Leave, Goto, runVars, TypeOK, JobHeld, Places
  <2>3. LocksQueued'
    BY RunConstants, <1>9
       DEF IInv, ClaimLose, Leave, Goto, runVars, TypeOK, LocksQueued, JobHeld
  <2>4. CancelsRun'
    BY RunConstants, <1>9
       DEF IInv, ClaimLose, Leave, Goto, runVars, TypeOK, CancelsRun, LocksQueued, JobHeld
  <2>5. RowsPlaced'
    BY RunConstants, <1>9 DEF IInv, ClaimLose, Leave, Goto, runVars, TypeOK, RowsPlaced, JobHeld
  <2>6. OneRunningPerConversation'
    BY RunConstants, <1>9
       DEF IInv, ClaimLose, Leave, Goto, runVars, TypeOK, OneRunningPerConversation,
           JobHeld
  <2>7. OwnershipFencesAttempts'
    BY RunConstants, <1>9
       DEF IInv, ClaimLose, Leave, Goto, runVars, TypeOK, OwnershipFencesAttempts, Owned,
           Holding, JobHeld, Places
  <2> QED
    BY <2>1, <2>2, <2>3, <2>4, <2>5, <2>6, <2>7 DEF IInv
<1>10. ASSUME IInv, NEW w \in Workers, LoadInput(w) PROVE IInv'
  <2>1. TypeOK'
    BY RunConstants, <1>10
       DEF IInv, LoadInput, Goto, runVars, TypeOK, JobHeld, RowsPlaced, Statuses,
           Terminal, EventTypes, MessageRows, Places
  <2>2. JobHeld'
    BY RunConstants, <1>10 DEF IInv, LoadInput, Goto, runVars, TypeOK, JobHeld, Places
  <2>3. LocksQueued'
    BY RunConstants, <1>10 DEF IInv, LoadInput, Goto, runVars, TypeOK, LocksQueued, JobHeld
  <2>4. CancelsRun'
    BY RunConstants, <1>10
       DEF IInv, LoadInput, Goto, runVars, TypeOK, CancelsRun, LocksQueued, JobHeld
  <2>5. RowsPlaced'
    BY RunConstants, <1>10 DEF IInv, LoadInput, Goto, runVars, TypeOK, RowsPlaced, JobHeld
  <2>6. OneRunningPerConversation'
    BY RunConstants, <1>10
       DEF IInv, LoadInput, Goto, runVars, TypeOK, OneRunningPerConversation, JobHeld
  <2>7. OwnershipFencesAttempts'
    BY RunConstants, <1>10
       DEF IInv, LoadInput, Goto, runVars, TypeOK, OwnershipFencesAttempts, Owned,
           Holding, JobHeld, Places
  <2> QED
    BY <2>1, <2>2, <2>3, <2>4, <2>5, <2>6, <2>7 DEF IInv
<1>11. ASSUME IInv, NEW w \in Workers, Heartbeat(w) PROVE IInv'
  <2>1. TypeOK'
    BY RunConstants, <1>11
       DEF IInv, Heartbeat, Goto, Owned, TypeOK, JobHeld, RowsPlaced, Statuses, Terminal,
           EventTypes, MessageRows, Places
  <2>2. JobHeld'
    BY RunConstants, <1>11 DEF IInv, Heartbeat, Goto, Owned, TypeOK, JobHeld, Places
  <2>3. LocksQueued'
    BY RunConstants, <1>11 DEF IInv, Heartbeat, Goto, Owned, TypeOK, LocksQueued, JobHeld
  <2>4. CancelsRun'
    BY RunConstants, <1>11
       DEF IInv, Heartbeat, Goto, Owned, TypeOK, CancelsRun, LocksQueued, JobHeld
  <2>5. RowsPlaced'
    BY RunConstants, <1>11 DEF IInv, Heartbeat, Goto, Owned, TypeOK, RowsPlaced, JobHeld
  <2>6. OneRunningPerConversation'
    BY RunConstants, <1>11
       DEF IInv, Heartbeat, Goto, Owned, TypeOK, OneRunningPerConversation, JobHeld
  <2>7. OwnershipFencesAttempts'
    BY RunConstants, <1>11
       DEF IInv, Heartbeat, Goto, Owned, TypeOK, OwnershipFencesAttempts, Holding,
           JobHeld, Places
  <2> QED
    BY <2>1, <2>2, <2>3, <2>4, <2>5, <2>6, <2>7 DEF IInv
<1>12. ASSUME IInv, NEW w \in Workers, ExecutionRaises(w) PROVE IInv'
  <2>1. TypeOK'
    BY RunConstants, <1>12
       DEF IInv, ExecutionRaises, Goto, runVars, TypeOK, JobHeld, RowsPlaced, Statuses,
           Terminal, EventTypes, MessageRows, Places
  <2>2. JobHeld'
    BY RunConstants, <1>12 DEF IInv, ExecutionRaises, Goto, runVars, TypeOK, JobHeld, Places
  <2>3. LocksQueued'
    BY RunConstants, <1>12
       DEF IInv, ExecutionRaises, Goto, runVars, TypeOK, LocksQueued, JobHeld
  <2>4. CancelsRun'
    BY RunConstants, <1>12
       DEF IInv, ExecutionRaises, Goto, runVars, TypeOK, CancelsRun, LocksQueued, JobHeld
  <2>5. RowsPlaced'
    BY RunConstants, <1>12 DEF IInv, ExecutionRaises, Goto, runVars, TypeOK, RowsPlaced, JobHeld
  <2>6. OneRunningPerConversation'
    BY RunConstants, <1>12
       DEF IInv, ExecutionRaises, Goto, runVars, TypeOK, OneRunningPerConversation,
           JobHeld
  <2>7. OwnershipFencesAttempts'
    BY RunConstants, <1>12
       DEF IInv, ExecutionRaises, Goto, runVars, TypeOK, OwnershipFencesAttempts, Owned,
           Holding, JobHeld, Places
  <2> QED
    BY <2>1, <2>2, <2>3, <2>4, <2>5, <2>6, <2>7 DEF IInv
<1>13. ASSUME IInv, NEW w \in Workers, LoseOwnership(w) PROVE IInv'
  <2>1. TypeOK'
    BY RunConstants, <1>13
       DEF IInv, LoseOwnership, Goto, runVars, TypeOK, JobHeld, RowsPlaced, Statuses,
           Terminal, EventTypes, MessageRows, Places
  <2>2. JobHeld'
    BY RunConstants, <1>13 DEF IInv, LoseOwnership, Goto, runVars, TypeOK, JobHeld, Places
  <2>3. LocksQueued'
    BY RunConstants, <1>13 DEF IInv, LoseOwnership, Goto, runVars, TypeOK, LocksQueued, JobHeld
  <2>4. CancelsRun'
    BY RunConstants, <1>13
       DEF IInv, LoseOwnership, Goto, runVars, TypeOK, CancelsRun, LocksQueued, JobHeld
  <2>5. RowsPlaced'
    BY RunConstants, <1>13 DEF IInv, LoseOwnership, Goto, runVars, TypeOK, RowsPlaced, JobHeld
  <2>6. OneRunningPerConversation'
    BY RunConstants, <1>13
       DEF IInv, LoseOwnership, Goto, runVars, TypeOK, OneRunningPerConversation, JobHeld
  <2>7. OwnershipFencesAttempts'
    BY RunConstants, <1>13
       DEF IInv, LoseOwnership, Goto, runVars, TypeOK, OwnershipFencesAttempts, Owned,
           Holding, JobHeld, Places
  <2> QED
    BY <2>1, <2>2, <2>3, <2>4, <2>5, <2>6, <2>7 DEF IInv
<1>14. ASSUME IInv, NEW w \in Workers, Complete(w) PROVE IInv'
  <2>1. TypeOK'
    <3>1. job[w] \in Runs
      BY <1>14 DEF IInv, JobHeld, Complete
    <3>2. messages' \in [Conversations -> Seq(MessageRows)]
      <4>1. [role |-> "assistant", run |-> job[w]] \in MessageRows
        BY <3>1 DEF MessageRows
      <4>2. messages \in [Conversations -> Seq(MessageRows)]
        BY <1>14 DEF IInv, TypeOK
      <4>3. conv[job[w]] \in Conversations
        BY <1>14, <3>1 DEF IInv, TypeOK, RowsPlaced, Complete, Owned
      <4>4. Append(messages[conv[job[w]]], [role |-> "assistant", run |-> job[w]])
              \in Seq(MessageRows)
        BY <4>1, <4>2, <4>3
      <4>5. messages' = [messages EXCEPT ![conv[job[w]]] =
               Append(messages[conv[job[w]]], [role |-> "assistant", run |-> job[w]])]
        BY <1>14 DEF Complete
      <4> QED
        BY <4>2, <4>4, <4>5
    <3>3. Release(job[w], "completed", "run.completed")
      BY <1>14 DEF Complete
    <3> QED
      BY <1>14, <3>1, <3>2, <3>3 DEF IInv, Complete, Release, AppendEvent, Leave, Goto,
         TypeOK, Statuses, Terminal, EventTypes, Places
  <2>2. JobHeld'
    BY RunConstants, <1>14
       DEF IInv, Complete, Release, AppendEvent, Leave, Goto, Owned, TypeOK, JobHeld,
           Places
  <2>3. LocksQueued'
    BY RunConstants, <1>14
       DEF IInv, Complete, Release, AppendEvent, Leave, Goto, Owned, TypeOK, LocksQueued,
           JobHeld
  <2>4. CancelsRun'
    BY RunConstants, <1>14
       DEF IInv, Complete, Release, AppendEvent, Leave, Goto, Owned, TypeOK, CancelsRun,
           LocksQueued, JobHeld
  <2>5. RowsPlaced'
    BY RunConstants, <1>14
       DEF IInv, Complete, Release, AppendEvent, Leave, Goto, Owned, TypeOK, RowsPlaced,
           JobHeld
  <2>6. OneRunningPerConversation'
    BY RunConstants, <1>14
       DEF IInv, Complete, Release, AppendEvent, Leave, Goto, Owned, TypeOK,
           OneRunningPerConversation, JobHeld
  <2>7. OwnershipFencesAttempts'
    BY RunConstants, <1>14
       DEF IInv, Complete, Release, AppendEvent, Leave, Goto, Owned, TypeOK,
           OwnershipFencesAttempts, Holding, JobHeld, Places
  <2> QED
    BY <2>1, <2>2, <2>3, <2>4, <2>5, <2>6, <2>7 DEF IInv
<1>15. ASSUME IInv, NEW w \in Workers, SettleCancelled(w) PROVE IInv'
  <2>1. TypeOK'
    BY RunConstants, <1>15
       DEF IInv, SettleCancelled, Release, AppendEvent, Leave, Goto, Owned, TypeOK,
           JobHeld, RowsPlaced, Statuses, Terminal, EventTypes, MessageRows, Places
  <2>2. JobHeld'
    BY RunConstants, <1>15
       DEF IInv, SettleCancelled, Release, AppendEvent, Leave, Goto, Owned, TypeOK,
           JobHeld, Places
  <2>3. LocksQueued'
    BY RunConstants, <1>15
       DEF IInv, SettleCancelled, Release, AppendEvent, Leave, Goto, Owned, TypeOK,
           LocksQueued, JobHeld
  <2>4. CancelsRun'
    BY RunConstants, <1>15
       DEF IInv, SettleCancelled, Release, AppendEvent, Leave, Goto, Owned, TypeOK,
           CancelsRun, LocksQueued, JobHeld
  <2>5. RowsPlaced'
    BY RunConstants, <1>15
       DEF IInv, SettleCancelled, Release, AppendEvent, Leave, Goto, Owned, TypeOK,
           RowsPlaced, JobHeld
  <2>6. OneRunningPerConversation'
    BY RunConstants, <1>15
       DEF IInv, SettleCancelled, Release, AppendEvent, Leave, Goto, Owned, TypeOK,
           OneRunningPerConversation, JobHeld
  <2>7. OwnershipFencesAttempts'
    BY RunConstants, <1>15
       DEF IInv, SettleCancelled, Release, AppendEvent, Leave, Goto, Owned, TypeOK,
           OwnershipFencesAttempts, Holding, JobHeld, Places
  <2> QED
    BY <2>1, <2>2, <2>3, <2>4, <2>5, <2>6, <2>7 DEF IInv
<1>16. ASSUME IInv, NEW w \in Workers, FailOwned(w) PROVE IInv'
  <2>1. TypeOK'
    <3>1. job[w] \in Runs
      BY <1>16 DEF IInv, JobHeld, FailOwned
    <3>2. \E s \in Terminal, type \in EventTypes : Release(job[w], s, type)
      BY <1>16 DEF FailOwned, Terminal, EventTypes
    <3> QED
      BY <1>16, <3>1, <3>2
         DEF IInv, FailOwned, Release, AppendEvent, Leave, Goto, TypeOK, Statuses, Places
  <2>2. JobHeld'
    BY RunConstants, <1>16
       DEF IInv, FailOwned, Release, AppendEvent, Leave, Goto, Owned, TypeOK, JobHeld,
           Places
  <2>3. LocksQueued'
    BY RunConstants, <1>16
       DEF IInv, FailOwned, Release, AppendEvent, Leave, Goto, Owned, TypeOK, LocksQueued,
           JobHeld
  <2>4. CancelsRun'
    BY RunConstants, <1>16
       DEF IInv, FailOwned, Release, AppendEvent, Leave, Goto, Owned, TypeOK, CancelsRun,
           LocksQueued, JobHeld
  <2>5. RowsPlaced'
    BY RunConstants, <1>16
       DEF IInv, FailOwned, Release, AppendEvent, Leave, Goto, Owned, TypeOK, RowsPlaced,
           JobHeld
  <2>6. OneRunningPerConversation'
    BY RunConstants, <1>16
       DEF IInv, FailOwned, Release, AppendEvent, Leave, Goto, Owned, TypeOK,
           OneRunningPerConversation, JobHeld
  <2>7. OwnershipFencesAttempts'
    BY RunConstants, <1>16
       DEF IInv, FailOwned, Release, AppendEvent, Leave, Goto, Owned, TypeOK,
           OwnershipFencesAttempts, Holding, JobHeld, Places
  <2> QED
    BY <2>1, <2>2, <2>3, <2>4, <2>5, <2>6, <2>7 DEF IInv
<1>17. ASSUME IInv, NEW w \in Workers, FailStale(w) PROVE IInv'
  <2>1. TypeOK'
    BY RunConstants, <1>17
       DEF IInv, FailStale, Leave, Goto, runVars, TypeOK, JobHeld, RowsPlaced, Statuses,
           Terminal, EventTypes, MessageRows, Places
  <2>2. JobHeld'
    BY RunConstants, <1>17 DEF IInv, FailStale, Leave, Goto, runVars, TypeOK, JobHeld, Places
  <2>3. LocksQueued'
    BY RunConstants, <1>17
       DEF IInv, FailStale, Leave, Goto, runVars, TypeOK, LocksQueued, JobHeld
  <2>4. CancelsRun'
    BY RunConstants, <1>17
       DEF IInv, FailStale, Leave, Goto, runVars, TypeOK, CancelsRun, LocksQueued, JobHeld
  <2>5. RowsPlaced'
    BY RunConstants, <1>17
       DEF IInv, FailStale, Leave, Goto, runVars, TypeOK, RowsPlaced, JobHeld
  <2>6. OneRunningPerConversation'
    BY RunConstants, <1>17
       DEF IInv, FailStale, Leave, Goto, runVars, TypeOK, OneRunningPerConversation,
           JobHeld
  <2>7. OwnershipFencesAttempts'
    BY RunConstants, <1>17
       DEF IInv, FailStale, Leave, Goto, runVars, TypeOK, OwnershipFencesAttempts, Owned,
           Holding, JobHeld, Places
  <2> QED
    BY <2>1, <2>2, <2>3, <2>4, <2>5, <2>6, <2>7 DEF IInv
<1>18. ASSUME IInv, NEW w \in Workers, Reap(w) PROVE IInv'
  <2>1. TypeOK'
    BY <1>18
       DEF IInv, Reap, Expired, Recovered, workerVars, TypeOK, JobHeld, Statuses,
           Terminal, EventTypes, Places
  <2>2. JobHeld'
    BY RunConstants, <1>18
       DEF IInv, Reap, Expired, Recovered, workerVars, TypeOK, JobHeld, Places
  <2>3. LocksQueued'
    BY RunConstants, <1>18
       DEF IInv, Reap, Expired, Recovered, workerVars, TypeOK, LocksQueued, JobHeld
  <2>4. CancelsRun'
    BY RunConstants, <1>18
       DEF IInv, Reap, Expired, Recovered, workerVars, TypeOK, CancelsRun, LocksQueued,
           JobHeld
  <2>5. RowsPlaced'
    BY RunConstants, <1>18
       DEF IInv, Reap, Expired, Recovered, workerVars, TypeOK, RowsPlaced, JobHeld
  <2>6. OneRunningPerConversation'
    BY RunConstants, <1>18
       DEF IInv, Reap, Expired, Recovered, workerVars, TypeOK, OneRunningPerConversation,
           JobHeld
  <2>7. OwnershipFencesAttempts'
    BY RunConstants, <1>18
       DEF IInv, Reap, Expired, Recovered, workerVars, TypeOK, OwnershipFencesAttempts,
           Owned, Holding, JobHeld, Places
  <2> QED
    BY <2>1, <2>2, <2>3, <2>4, <2>5, <2>6, <2>7 DEF IInv
<1>19. ASSUME IInv, NEW w \in Workers, Crash(w) PROVE IInv'
  <2>1. TypeOK'
    BY <1>19 DEF IInv, Crash, Leave, Goto, runVars, TypeOK, JobHeld, Statuses, Terminal, Places
  <2>2. JobHeld'
    BY RunConstants, <1>19 DEF IInv, Crash, Leave, Goto, runVars, TypeOK, JobHeld, Places
  <2>3. LocksQueued'
    BY RunConstants, <1>19 DEF IInv, Crash, Leave, Goto, runVars, TypeOK, LocksQueued, JobHeld
  <2>4. CancelsRun'
    BY RunConstants, <1>19
       DEF IInv, Crash, Leave, Goto, runVars, TypeOK, CancelsRun, LocksQueued, JobHeld
  <2>5. RowsPlaced'
    BY RunConstants, <1>19 DEF IInv, Crash, Leave, Goto, runVars, TypeOK, RowsPlaced, JobHeld
  <2>6. OneRunningPerConversation'
    BY RunConstants, <1>19
       DEF IInv, Crash, Leave, Goto, runVars, TypeOK, OneRunningPerConversation, JobHeld
  <2>7. OwnershipFencesAttempts'
    BY RunConstants, <1>19
       DEF IInv, Crash, Leave, Goto, runVars, TypeOK, OwnershipFencesAttempts, Owned,
           Holding, JobHeld, Places
  <2> QED
    BY <2>1, <2>2, <2>3, <2>4, <2>5, <2>6, <2>7 DEF IInv
<1>20. ASSUME IInv, NEW w \in Workers, Restart(w) PROVE IInv'
  <2>1. TypeOK'
    BY RunConstants, <1>20
       DEF IInv, Restart, Goto, runVars, TypeOK, JobHeld, RowsPlaced, Statuses, Terminal,
           EventTypes, MessageRows, Places
  <2>2. JobHeld'
    BY RunConstants, <1>20 DEF IInv, Restart, Goto, runVars, TypeOK, JobHeld, Places
  <2>3. LocksQueued'
    BY RunConstants, <1>20 DEF IInv, Restart, Goto, runVars, TypeOK, LocksQueued, JobHeld
  <2>4. CancelsRun'
    BY RunConstants, <1>20
       DEF IInv, Restart, Goto, runVars, TypeOK, CancelsRun, LocksQueued, JobHeld
  <2>5. RowsPlaced'
    BY RunConstants, <1>20 DEF IInv, Restart, Goto, runVars, TypeOK, RowsPlaced, JobHeld
  <2>6. OneRunningPerConversation'
    BY RunConstants, <1>20
       DEF IInv, Restart, Goto, runVars, TypeOK, OneRunningPerConversation, JobHeld
  <2>7. OwnershipFencesAttempts'
    BY RunConstants, <1>20
       DEF IInv, Restart, Goto, runVars, TypeOK, OwnershipFencesAttempts, Owned, Holding,
           JobHeld, Places
  <2> QED
    BY <2>1, <2>2, <2>3, <2>4, <2>5, <2>6, <2>7 DEF IInv
<1> QED
  BY <1>1, <1>2, <1>3, <1>4, <1>5, <1>6, <1>7, <1>8, <1>9, <1>10, <1>11, <1>12, <1>13,
     <1>14, <1>15, <1>16, <1>17, <1>18, <1>19, <1>20
     DEF Next, Client, Worker, Settling, Environment

LEMMA Inductive == Spec => []IInv
<1>1. Init => IInv
  BY RunConstants DEF Init, IInv, TypeOK, JobHeld, LocksQueued, CancelsRun, RowsPlaced,
     OneRunningPerConversation, OwnershipFencesAttempts, Statuses, Places, Holding
<1>2. IInv /\ UNCHANGED vars => IInv'
  BY DEF IInv, vars, runVars, workerVars, TypeOK, JobHeld, LocksQueued, CancelsRun,
     RowsPlaced, OneRunningPerConversation, OwnershipFencesAttempts, Owned
<1> QED
  BY <1>1, <1>2, Invariance, PTL DEF Spec

\* Every row and every process keeps its type in every step of run_once, of
\* the reaper and of the API.
THEOREM Typing == Spec => []TypeOK
  BY Inductive, PTL DEF IInv

\* Any number of workers may claim, crash and recover: a conversation has at
\* most one running Run (claim_next_run and the partial unique index).
THEOREM Serialization == Spec => []OneRunningPerConversation
  BY Inductive, PTL DEF IInv

\* Comparing lease_owner is enough: who passes the check works on the current
\* attempt (heartbeat_run, complete_run, cancel_owned_run, fail_run).
THEOREM Fencing == Spec => []OwnershipFencesAttempts
  BY Inductive, PTL DEF IInv
-----------------------------------------------------------------------------
(* What no step may do *)

LEMMA SettledStep ==
    IInv /\ [Next]_vars =>
        \A r \in Runs : status[r] \in Terminal =>
            \/ status'[r] = status[r] /\ events'[r] = events[r]
            \/ status'[r] = "deleted"
<1> SUFFICES ASSUME IInv, [Next]_vars, NEW r \in Runs, status[r] \in Terminal
             PROVE  \/ status'[r] = status[r] /\ events'[r] = events[r]
                    \/ status'[r] = "deleted"
  OBVIOUS
<1> USE DEF IInv, TypeOK, Terminal
<1>1. CASE UNCHANGED vars
  BY <1>1 DEF vars, runVars
<1>2. ASSUME NEW c \in Conversations, Submit(c) \/ CheckDelete(c) \/ Delete(c)
      PROVE  \/ status'[r] = status[r] /\ events'[r] = events[r]
             \/ status'[r] = "deleted"
  BY <1>2 DEF Submit, CheckDelete, Delete, AppendEvent, runVars
<1>3. ASSUME NEW q \in Runs, CancelQueued(q) \/ CancelRunning(q) \/ LeaseLapses(q)
      PROVE  status'[r] = status[r] /\ events'[r] = events[r]
  BY <1>3 DEF CancelQueued, CancelRunning, LeaseLapses, AppendEvent
<1>4. ASSUME NEW w \in Workers, ClaimSelect(w) \/ ClaimLose(w) \/ LoadInput(w) \/ Heartbeat(w)
                 \/ ExecutionRaises(w) \/ LoseOwnership(w) \/ FailStale(w) \/ Crash(w) \/ Restart(w)
      PROVE  status'[r] = status[r] /\ events'[r] = events[r]
  BY <1>4 DEF ClaimSelect, ClaimLose, LoadInput, Heartbeat, ExecutionRaises, LoseOwnership,
     FailStale, Crash, Restart, runVars
<1>5. ASSUME NEW w \in Workers, ClaimCommit(w)
      PROVE  status'[r] = status[r] /\ events'[r] = events[r]
  BY <1>5 DEF ClaimCommit, LocksQueued, AppendEvent
<1>6. ASSUME NEW w \in Workers, Complete(w) \/ SettleCancelled(w) \/ FailOwned(w)
      PROVE  status'[r] = status[r] /\ events'[r] = events[r]
  BY <1>6 DEF Complete, SettleCancelled, FailOwned, Owned, Release, AppendEvent
<1>7. ASSUME NEW w \in Workers, Reap(w)
      PROVE  status'[r] = status[r] /\ events'[r] = events[r]
  BY <1>7 DEF Reap, Expired
<1> QED
  BY <1>1, <1>2, <1>3, <1>4, <1>5, <1>6, <1>7 DEF Next, Client, Worker, Settling, Environment

\* A settled Run, its answer and its event stream never change again, unless
\* the conversation is deleted (every transaction of store.py on runs).
THEOREM Finality == Spec => SettledIsFinal
  BY Inductive, SettledStep, PTL DEF Spec, SettledIsFinal

LEMMA CancelStep ==
    IInv /\ [Next]_vars =>
        \A r \in Runs : cancelRequested[r] /\ status[r] = "running" =>
            status'[r] \in {"running", "cancelled", "deleted"}
<1> SUFFICES ASSUME IInv, [Next]_vars, NEW r \in Runs,
                    cancelRequested[r], status[r] = "running"
             PROVE  status'[r] \in {"running", "cancelled", "deleted"}
  OBVIOUS
<1> USE DEF IInv, TypeOK
<1>1. CASE UNCHANGED vars
  BY <1>1 DEF vars, runVars
<1>2. ASSUME NEW c \in Conversations, Submit(c) \/ CheckDelete(c) \/ Delete(c)
      PROVE  status'[r] \in {"running", "deleted"}
  BY <1>2 DEF Submit, CheckDelete, Delete, runVars
<1>3. ASSUME NEW q \in Runs, CancelQueued(q) \/ CancelRunning(q) \/ LeaseLapses(q)
      PROVE  status'[r] \in {"running", "cancelled"}
  BY <1>3 DEF CancelQueued, CancelRunning, LeaseLapses
<1>4. ASSUME NEW w \in Workers, ClaimSelect(w) \/ ClaimLose(w) \/ LoadInput(w) \/ Heartbeat(w)
                 \/ ExecutionRaises(w) \/ LoseOwnership(w) \/ FailStale(w) \/ Crash(w) \/ Restart(w)
      PROVE  status'[r] = "running"
  BY <1>4 DEF ClaimSelect, ClaimLose, LoadInput, Heartbeat, ExecutionRaises, LoseOwnership,
     FailStale, Crash, Restart, runVars
<1>5. ASSUME NEW w \in Workers, ClaimCommit(w)
      PROVE  status'[r] = "running"
  BY <1>5 DEF ClaimCommit, LocksQueued
<1>6. ASSUME NEW w \in Workers, Complete(w)
      PROVE  status'[r] = "running"
  BY <1>6 DEF Complete, Owned, Release
<1>7. ASSUME NEW w \in Workers, SettleCancelled(w) \/ FailOwned(w)
      PROVE  status'[r] \in {"running", "cancelled"}
  BY <1>7 DEF SettleCancelled, FailOwned, Owned, Release
<1>8. ASSUME NEW w \in Workers, Reap(w)
      PROVE  status'[r] \in {"running", "cancelled"}
  BY <1>8 DEF Reap, Expired, Recovered
<1> QED
  BY <1>1, <1>2, <1>3, <1>4, <1>5, <1>6, <1>7, <1>8
     DEF Next, Client, Worker, Settling, Environment

\* A cancellation recorded while the Run was running cannot be overtaken by
\* its completion, its failure or its recovery (request_cancel).
THEOREM CancellationWins == Spec => CancelPrevails
  BY Inductive, CancelStep, PTL DEF Spec, CancelPrevails
-----------------------------------------------------------------------------
(* The event stream *)

\* A Run has events from its admission on, and no attempt before it.
Recorded ==
    \A r \in Runs :
        /\ status[r] = "absent" => attempt[r] = 0 /\ events[r] = <<>>
        /\ Present(r) => events[r] # <<>>

Story == Recorded /\ EventsTellTheStory

LEMMA CountAppend ==
    ASSUME NEW s \in Seq(EventTypes), NEW x \in EventTypes, NEW y
    PROVE  /\ CountOf(s, y) \in Nat
           /\ CountOf(Append(s, x), y) = IF x = y THEN CountOf(s, y) + 1 ELSE CountOf(s, y)
<1> DEFINE I == {i \in DOMAIN s : s[i] = y}
           J == {i \in DOMAIN Append(s, x) : Append(s, x)[i] = y}
<1>1. DOMAIN s = 1 .. Len(s) /\ Len(s) \in Nat /\ DOMAIN Append(s, x) = 1 .. Len(s) + 1
      /\ (\A i \in 1 .. Len(s) : Append(s, x)[i] = s[i]) /\ Append(s, x)[Len(s) + 1] = x
  OBVIOUS
<1>2. IsFiniteSet(I)
  <2>1. IsFiniteSet(1 .. Len(s)) /\ I \in SUBSET (1 .. Len(s))
    BY <1>1, FS_Interval
  <2> QED
    BY <2>1, FS_Subset
<1>3. Cardinality(I) \in Nat
  BY <1>2, FS_CardinalityType
<1>4. J = IF x = y THEN I \cup {Len(s) + 1} ELSE I
  BY <1>1, SMT
<1>5. Len(s) + 1 \notin I
  BY <1>1
<1> QED
  BY <1>2, <1>3, <1>4, <1>5, FS_AddElement DEF CountOf

\* One record of the story: the event types a transaction may append to a Run
\* in a status, and the status it leaves.
Chapter(from, type, to) ==
    \/ from = "queued" /\ type = "run.started" /\ to = "running"
    \/ from = "queued" /\ type = "run.cancelled" /\ to = "cancelled"
    \/ from = "running" /\ type = "run.cancel_requested" /\ to = "running"
    \/ from = "running" /\ type = "run.requeued" /\ to = "queued"
    \/ from = "running" /\ type = "run.completed" /\ to = "completed"
    \/ from = "running" /\ type = "run.failed" /\ to = "failed"
    \/ from = "running" /\ type = "run.cancelled" /\ to = "cancelled"

Writes(r) ==
    \E type \in EventTypes :
        /\ Chapter(status[r], type, status'[r])
        /\ events'[r] = Append(events[r], type)
        /\ attempt'[r] = IF type = "run.started" THEN attempt[r] + 1 ELSE attempt[r]

Admits(r) ==
    /\ status[r] = "absent"
    /\ status'[r] = "queued"
    /\ events'[r] = Append(events[r], "run.queued")
    /\ attempt'[r] = attempt[r]

Quiet(r) ==
    /\ status'[r] = status[r]
    /\ events'[r] = events[r]
    /\ attempt'[r] = attempt[r]

LEMMA StoryMoves ==
    ASSUME IInv, [Next]_vars, NEW r \in Runs
    PROVE  Quiet(r) \/ Writes(r) \/ Admits(r) \/ status'[r] = "deleted"
<1> USE DEF IInv, TypeOK
<1>1. CASE UNCHANGED vars
  BY <1>1 DEF vars, runVars, Quiet
<1>2. ASSUME NEW c \in Conversations, Submit(c) PROVE Quiet(r) \/ Admits(r)
  BY <1>2 DEF Submit, AppendEvent, Quiet, Admits
<1>3. ASSUME NEW c \in Conversations, CheckDelete(c) \/ Delete(c)
      PROVE  Quiet(r) \/ status'[r] = "deleted"
  BY <1>3 DEF CheckDelete, Delete, runVars, Quiet
<1>4. ASSUME NEW q \in Runs, CancelQueued(q) \/ CancelRunning(q) \/ LeaseLapses(q)
      PROVE  Quiet(r) \/ Writes(r)
  BY <1>4 DEF CancelQueued, CancelRunning, LeaseLapses, AppendEvent, Quiet, Writes, Chapter,
     EventTypes
<1>5. ASSUME NEW w \in Workers, ClaimSelect(w) \/ ClaimLose(w) \/ LoadInput(w) \/ Heartbeat(w)
                 \/ ExecutionRaises(w) \/ LoseOwnership(w) \/ FailStale(w) \/ Crash(w) \/ Restart(w)
      PROVE  Quiet(r)
  BY <1>5 DEF ClaimSelect, ClaimLose, LoadInput, Heartbeat, ExecutionRaises, LoseOwnership,
     FailStale, Crash, Restart, runVars, Quiet
<1>6. ASSUME NEW w \in Workers, ClaimCommit(w) PROVE Quiet(r) \/ Writes(r)
  BY <1>6 DEF ClaimCommit, JobHeld, LocksQueued, AppendEvent, Quiet, Writes, Chapter, EventTypes
<1>7. ASSUME NEW w \in Workers, Complete(w) \/ SettleCancelled(w) PROVE Quiet(r) \/ Writes(r)
  BY <1>7 DEF Complete, SettleCancelled, JobHeld, Owned, Release, AppendEvent, Quiet, Writes,
     Chapter, EventTypes
<1>8. ASSUME NEW w \in Workers, FailOwned(w) PROVE Quiet(r) \/ Writes(r)
  BY <1>8 DEF FailOwned, JobHeld, Owned, Release, AppendEvent, Quiet, Writes, Chapter, EventTypes
<1>9. ASSUME NEW w \in Workers, Reap(w) PROVE Quiet(r) \/ Writes(r)
  BY <1>9 DEF Reap, Expired, Recovered, Quiet, Writes, Chapter, EventTypes
<1> QED
  BY <1>1, <1>2, <1>3, <1>4, <1>5, <1>6, <1>7, <1>8, <1>9
     DEF Next, Client, Worker, Settling, Environment

\* What EventsTellTheStory says of one Run, given its row.
Tells(st, log, n) ==
    LET last == log[Len(log)] IN
    /\ log[1] = "run.queued"
    /\ st = "queued" <=> last \in {"run.queued", "run.requeued"}
    /\ st = "running" <=> last \in {"run.started", "run.cancel_requested"}
    /\ st = "completed" <=> last = "run.completed"
    /\ st = "failed" <=> last = "run.failed"
    /\ \A i \in 1 .. Len(log) - 1 : log[i] \notin {"run.completed", "run.failed", "run.cancelled"}
    /\ CountOf(log, "run.started") = n

LEMMA StoryContinues ==
    ASSUME NEW log \in Seq(EventTypes), log # <<>>, NEW n \in Nat, NEW from, NEW to,
           NEW type \in EventTypes, Tells(from, log, n), Chapter(from, type, to)
    PROVE  Tells(to, Append(log, type), IF type = "run.started" THEN n + 1 ELSE n)
<1> DEFINE new == Append(log, type)
<1>1. /\ Len(log) \in Nat \ {0} /\ Len(new) = Len(log) + 1
      /\ new[1] = log[1]
      /\ new[Len(new)] = type
      /\ \A i \in 1 .. Len(log) : new[i] = log[i]
  BY SMT
<1>2. CountOf(new, "run.started") = IF type = "run.started" THEN n + 1 ELSE n
  BY CountAppend DEF Tells
<1>3. log[Len(log)] \notin {"run.completed", "run.failed", "run.cancelled"}
  BY DEF Tells, Chapter
<1>4. \A i \in 1 .. Len(new) - 1 : new[i] \notin {"run.completed", "run.failed", "run.cancelled"}
  <2> SUFFICES ASSUME NEW i \in 1 .. Len(log)
               PROVE  log[i] \notin {"run.completed", "run.failed", "run.cancelled"}
    BY <1>1
  <2>1. CASE i = Len(log)
    BY <2>1, <1>3
  <2>2. CASE i # Len(log)
    <3>1. i \in 1 .. Len(log) - 1
      BY <2>2, <1>1
    <3> QED
      BY <3>1 DEF Tells
  <2> QED
    BY <2>1, <2>2
<1> HIDE DEF new
<1>5. /\ to = "queued" <=> type \in {"run.queued", "run.requeued"}
      /\ to = "running" <=> type \in {"run.started", "run.cancel_requested"}
      /\ to = "completed" <=> type = "run.completed"
      /\ to = "failed" <=> type = "run.failed"
  BY DEF Chapter
<1>6. new[1] = "run.queued"
  BY <1>1 DEF Tells
<1>7. Tells(to, new, IF type = "run.started" THEN n + 1 ELSE n)
  BY <1>1, <1>2, <1>4, <1>5, <1>6 DEF Tells
<1> QED
  BY <1>7 DEF new

LEMMA StoryOpens == Tells("queued", Append(<<>>, "run.queued"), 0)
<1> DEFINE new == Append(<<>>, "run.queued")
<1>1. Len(new) = 1 /\ new[1] = "run.queued"
  OBVIOUS
<1>2. CountOf(new, "run.started") = 0
  <2>1. {i \in DOMAIN new : new[i] = "run.started"} = {}
    OBVIOUS
  <2> QED
    BY <2>1, FS_EmptySet DEF CountOf
<1> HIDE DEF new
<1>3. Tells("queued", new, 0)
  BY <1>1, <1>2 DEF Tells
<1> QED
  BY <1>3 DEF new

LEMMA StoryIs == EventsTellTheStory <=>
                     \A r \in Runs : Present(r) => Tells(status[r], events[r], attempt[r])
  BY DEF EventsTellTheStory, Tells

LEMMA StoryIsNext == EventsTellTheStory' <=>
                     \A r \in Runs : Present(r)' => Tells(status'[r], events'[r], attempt'[r])
  BY DEF EventsTellTheStory, Tells

LEMMA StoryStep == IInv /\ Story /\ [Next]_vars => Story'
<1> SUFFICES ASSUME IInv, Story, [Next]_vars,  NEW r \in Runs
             PROVE  /\ status'[r] = "absent" => attempt'[r] = 0 /\ events'[r] = <<>>
                    /\ Present(r)' => events'[r] # <<>>
                    /\ Present(r)' => Tells(status'[r], events'[r], attempt'[r])
  BY StoryIsNext DEF Story, Recorded
<1>1. /\ status[r] = "absent" => attempt[r] = 0 /\ events[r] = <<>>
      /\ Present(r) => events[r] # <<>> /\ Tells(status[r], events[r], attempt[r])
      /\ events[r] \in Seq(EventTypes) /\ attempt[r] \in Nat
  BY StoryIs DEF Story, Recorded, IInv, TypeOK
<1>2. CASE Quiet(r)
  BY <1>1, <1>2 DEF Quiet, Present
<1>3. CASE status'[r] = "deleted"
  BY <1>3 DEF Present
<1>4. CASE Admits(r)
  <2>1. events[r] = <<>> /\ attempt[r] = 0
    BY <1>1, <1>4 DEF Admits
  <2>2. events'[r] = Append(<<>>, "run.queued") /\ attempt'[r] = 0 /\ status'[r] = "queued"
    BY <2>1, <1>4 DEF Admits
  <2>3. Append(<<>>, "run.queued") # <<>>
    OBVIOUS
  <2> QED
    BY <2>2, <2>3, StoryOpens
<1>5. CASE Writes(r)
  <2>1. PICK type \in EventTypes :
            /\ Chapter(status[r], type, status'[r])
            /\ events'[r] = Append(events[r], type)
            /\ attempt'[r] = IF type = "run.started" THEN attempt[r] + 1 ELSE attempt[r]
    BY <1>5 DEF Writes
  <2>2. Present(r) /\ status'[r] # "absent"
    BY <2>1 DEF Present, Chapter
  <2>3. Tells(status'[r], events'[r], attempt'[r])
    BY <1>1, <2>1, <2>2, StoryContinues
  <2>4. events'[r] # <<>>
    BY <1>1, <2>1
  <2> QED
    BY <2>2, <2>3, <2>4
<1> QED
  BY <1>2, <1>3, <1>4, <1>5, StoryMoves

\* However workers, the reaper and clients interleave, the event stream of a
\* Run agrees with its row: what the client replays after a reconnect is what
\* happened (_append_run_event in every transaction of store.py on runs).
THEOREM Chronicle == Spec => []EventsTellTheStory
<1>1. Init => Story
  BY DEF Init, Story, Recorded, EventsTellTheStory, Present
<1> QED
  BY <1>1, StoryStep, Inductive, PTL DEF Spec, Story
-----------------------------------------------------------------------------
(* Refinement of RunPromise *)

\* A worker cancels an execution only because the cancellation is recorded.
Asked == \A w \in Workers : pc[w] = "cancelling" => cancelRequested[job[w]]

LEMMA AlwaysAsked == Spec => []Asked
<1>1. Init => Asked
  BY DEF Init, Asked
<1>2. IInv /\ Asked /\ [Next]_vars => Asked'
  <2> SUFFICES ASSUME IInv, Asked, [Next]_vars PROVE Asked'
    OBVIOUS
  <2> USE DEF IInv, TypeOK, Asked, JobHeld
  <2>1. CASE UNCHANGED vars
    BY <2>1 DEF vars, runVars, workerVars
  <2>2. ASSUME NEW c \in Conversations, Submit(c) \/ CheckDelete(c) \/ Delete(c) PROVE Asked'
    BY <2>2 DEF Submit, CheckDelete, Delete, runVars, workerVars
  <2>3. ASSUME NEW r \in Runs, CancelQueued(r) \/ CancelRunning(r) \/ LeaseLapses(r) PROVE Asked'
    <3>1. CASE CancelRunning(r)
      BY <3>1 DEF CancelRunning, workerVars
    <3>2. CASE CancelQueued(r) \/ LeaseLapses(r)
      BY <3>2 DEF CancelQueued, LeaseLapses, workerVars
    <3> QED
      BY <2>3, <3>1, <3>2
  <2>4. ASSUME NEW w \in Workers, ClaimSelect(w) \/ ClaimCommit(w) \/ LoadInput(w) \/ Heartbeat(w)
                   \/ ExecutionRaises(w) \/ LoseOwnership(w) \/ Reap(w) \/ Restart(w)
        PROVE  Asked'
    BY <2>4 DEF ClaimSelect, ClaimCommit, LoadInput, Heartbeat, ExecutionRaises, LoseOwnership,
       Reap, Restart, Goto, runVars, workerVars
  <2>5. ASSUME NEW w \in Workers, ClaimLose(w) \/ Complete(w) \/ SettleCancelled(w)
                   \/ FailOwned(w) \/ FailStale(w) \/ Crash(w)
        PROVE  Asked'
    BY <2>5 DEF ClaimLose, Complete, SettleCancelled, FailOwned, FailStale, Crash, Leave, Goto,
       runVars
  <2> QED
    BY <2>1, <2>2, <2>3, <2>4, <2>5 DEF Next, Client, Worker, Settling, Environment
<1> QED
  BY <1>1, <1>2, Inductive, PTL DEF Spec

Phase == [r \in Runs |-> IF status[r] # "running" THEN status[r]
                         ELSE IF cancelRequested[r] THEN "stopping" ELSE "serving"]

LEMMA PhaseType == Promise!Requests = Runs
  BY DEF Promise!Requests, Runs

LEMMA PromiseMoves ==
    ASSUME NEW r \in Runs,
           Promise!Serve(r) \/ Promise!Cancel(r) \/ Promise!Answer(r) \/ Promise!Fail(r) \/ Promise!Stop(r)
    PROVE  Promise!PromiseNext
  BY PhaseType DEF Promise!PromiseNext

LEMMA PromiseRecovers ==
    ASSUME NEW lost \in SUBSET Runs, Promise!Recover(lost) PROVE Promise!PromiseNext
  BY PhaseType DEF Promise!PromiseNext

LEMMA PromiseStep ==
    IInv /\ Asked /\ [Next]_vars => [Promise!PromiseNext]_(Promise!promiseVars)
<1> SUFFICES ASSUME IInv, Asked, [Next]_vars
             PROVE  Promise!PromiseNext \/ UNCHANGED Promise!promiseVars
  OBVIOUS
<1> USE PhaseType DEF IInv, TypeOK
<1>1. CASE UNCHANGED vars
  BY <1>1 DEF vars, runVars, Promise!promiseVars
<1>2. ASSUME NEW c \in Conversations, Submit(c) PROVE Promise!PromiseNext
  <2>1. PICK r \in Runs :
           /\ status[r] = "absent"
           /\ messages' = [messages EXCEPT ![c] = Append(@, [role |-> "user", run |-> r])]
           /\ conv' = [conv EXCEPT ![r] = c]
           /\ status' = [status EXCEPT ![r] = "queued"]
    BY <1>2 DEF Submit
  <2>2. ~cancelRequested[r]
    BY <2>1 DEF CancelsRun
  <2>3. Promise!Admit(r)
    BY <1>2, <2>1, <2>2 DEF Submit, Promise!Admit, Promise!Move, Promise!Say
  <2> QED
    BY <2>3 DEF Promise!PromiseNext
<1>3. ASSUME NEW c \in Conversations, CheckDelete(c) PROVE UNCHANGED Promise!promiseVars
  BY <1>3 DEF CheckDelete, runVars, Promise!promiseVars
<1>4. ASSUME NEW c \in Conversations, Delete(c) PROVE Promise!PromiseNext
  BY <1>4 DEF Delete, Promise!Forget, Promise!PromiseNext
<1>5. ASSUME NEW r \in Runs, CancelQueued(r) PROVE Promise!PromiseNext
  BY <1>5 DEF CancelQueued, Promise!Cancel, Promise!Move, Promise!PromiseNext
<1>6. ASSUME NEW r \in Runs, CancelRunning(r)
      PROVE  Promise!PromiseNext \/ UNCHANGED Promise!promiseVars
  <2>1. CASE cancelRequested[r]
    BY <1>6, <2>1 DEF CancelRunning, Promise!promiseVars
  <2>2. CASE ~cancelRequested[r]
    <3>1. Promise!Cancel(r)
      BY <1>6, <2>2 DEF CancelRunning, Promise!Cancel, Promise!Move
    <3> QED
      BY <3>1, PromiseMoves
  <2> QED
    BY <2>1, <2>2
<1>7. ASSUME NEW r \in Runs, LeaseLapses(r) PROVE UNCHANGED Promise!promiseVars
  BY <1>7 DEF LeaseLapses, Promise!promiseVars
<1>8. ASSUME NEW w \in Workers, ClaimSelect(w) \/ ClaimLose(w) \/ LoadInput(w) \/ Heartbeat(w)
                 \/ ExecutionRaises(w) \/ LoseOwnership(w) \/ FailStale(w) \/ Crash(w) \/ Restart(w)
      PROVE  UNCHANGED Promise!promiseVars
  BY <1>8 DEF ClaimSelect, ClaimLose, LoadInput, Heartbeat, ExecutionRaises, LoseOwnership,
     FailStale, Crash, Restart, runVars, Promise!promiseVars
<1>9. ASSUME NEW w \in Workers, ClaimCommit(w) PROVE Promise!PromiseNext
  <2>1. PICK r \in Runs : r = job[w]
    BY <1>9 DEF ClaimCommit, JobHeld
  <2>2. status[r] = "queued" /\ ~cancelRequested[r]
    BY <1>9, <2>1 DEF ClaimCommit, LocksQueued, CancelsRun
  <2>3. \A q \in Runs : conv[q] = conv[r] => Phase[q] \notin Promise!Serving
    BY <1>9, <2>1 DEF ClaimCommit, IndexAdmits, Busy, Phase, Promise!Serving,
       Statuses, Terminal
  <2>4. Phase' = [Phase EXCEPT ![r] = "serving"] /\ UNCHANGED <<conv, messages>>
    BY <1>9, <2>1, <2>2 DEF ClaimCommit, Phase
  <2>5. Phase[r] = "queued"
    BY <2>2 DEF Phase
  <2>6. Promise!Serve(r)
    BY <2>3, <2>4, <2>5 DEF Phase, Promise!Serve, Promise!Move
  <2> QED
    BY <2>6, PromiseMoves
<1>10. ASSUME NEW w \in Workers, Complete(w) PROVE Promise!PromiseNext
  <2>1. PICK r \in Runs : r = job[w]
    BY <1>10 DEF Complete, JobHeld
  <2>2. Promise!Answer(r)
    BY <1>10, <2>1 DEF Complete, Owned, Release, Promise!Answer, Promise!Move, Promise!Say
  <2> QED
    BY <2>2, PromiseMoves
<1>11. ASSUME NEW w \in Workers, SettleCancelled(w) PROVE Promise!PromiseNext
  <2>1. PICK r \in Runs : r = job[w] /\ cancelRequested[r]
    BY <1>11 DEF SettleCancelled, JobHeld, Asked
  <2>2. Promise!Stop(r)
    BY <1>11, <2>1 DEF SettleCancelled, Owned, Release, Promise!Stop, Promise!Move
  <2> QED
    BY <2>2, PromiseMoves
<1>12. ASSUME NEW w \in Workers, FailOwned(w) PROVE Promise!PromiseNext
  <2>1. PICK r \in Runs : r = job[w]
    BY <1>12 DEF FailOwned, JobHeld
  <2>2. CASE cancelRequested[r]
    <3>1. Promise!Stop(r)
      BY <1>12, <2>1, <2>2 DEF FailOwned, Owned, Release, Promise!Stop, Promise!Move
    <3> QED
      BY <3>1, PromiseMoves
  <2>3. CASE ~cancelRequested[r]
    <3>1. Promise!Fail(r)
      BY <1>12, <2>1, <2>3 DEF FailOwned, Owned, Release, Promise!Fail, Promise!Move
    <3> QED
      BY <3>1, PromiseMoves
  <2> QED
    BY <2>2, <2>3
<1>13. ASSUME NEW w \in Workers, Reap(w) PROVE Promise!PromiseNext
  <2>1. PICK lost \in SUBSET Runs : lost = Expired
    BY DEF Expired
  <2>2. Promise!Recover(lost)
    BY <1>13, <2>1 DEF Reap, Expired, Recovered, CancelsRun, Promise!Recover, Promise!Serving
  <2> QED
    BY <2>2, PromiseRecovers
<1> QED
  BY <1>1, <1>2, <1>3, <1>4, <1>5, <1>6, <1>7, <1>8, <1>9, <1>10, <1>11, <1>12, <1>13
     DEF Next, Client, Worker, Settling, Environment

\* Leases, attempts, crashes and the reaper are invisible to a client: the Run
\* API behaves as RunPromise says (KeepsPromise), for any number of processes.
THEOREM Refinement == Spec => KeepsPromise
<1>1. Init => Promise!PromiseInit
  BY PhaseType DEF Init, Promise!PromiseInit
<1> QED
  BY <1>1, PromiseStep, Inductive, AlwaysAsked, PTL DEF Spec, KeepsPromise, Promise!PromiseSpec
=============================================================================
