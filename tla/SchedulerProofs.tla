-------------------------- MODULE SchedulerProofs --------------------------
(***************************************************************************)
(* A schedule delivers each fire once and counts what it delivered, for    *)
(* any number of schedules, workers, tokens and faults.  The row names the *)
(* fire that is open by its token; a worker that still holds that token    *)
(* knows the row's counter and whether the fire was delivered.             *)
(***************************************************************************)
EXTENDS Scheduler, TLAPS

\* Not settled, so there is a fire to come.
Open == {"absent", "counted", "pending", "running"}

Holding == {"claimed", "delivered", "postponing", "failing"}

\* Only a running row is leased; a token is one that was handed out, as are
\* those that were delivered.
RowSound(j) ==
    /\ owner[j] # None => status[j] = "running"
    /\ token[j] <= minted[j]
    /\ \A i \in DOMAIN fires[j] : fires[j][i] > 0 /\ fires[j][i] <= minted[j]

\* A counted schedule that is open has fires left.
Counted(j) ==
    Repeat[j] # Every =>
        remaining[j] \in Nat /\ (status[j] \in Open => remaining[j] > 0)

FiredOnce(j) == \A h, i \in DOMAIN fires[j] : fires[j][h] = fires[j][i] => h = i

\* The two summands of FiresAreAccounted, apart.
OpenFire(j) == IF Fired(j, token[j]) /\ status[j] # "completed" THEN 1 ELSE 0

Accounted(j) ==
    Repeat[j] # Every /\ status[j] # "deleted" =>
        Len(fires[j]) = Repeat[j] - remaining[j] + OpenFire(j)

JobOK(j) == RowSound(j) /\ Counted(j) /\ FiredOnce(j) /\ Accounted(j)

\* A worker in run_once has a job and a token in its hands; while they are the
\* row's, what it knows of the row is true.
WorkerOK(w) ==
    /\ pc[w] \in Holding => job[w] \in Jobs /\ held[w] > 0
    /\ pc[w] \in Holding /\ Owns(w) =>
         /\ seen[w] = remaining[job[w]]
         /\ pc[w] = "delivered" => Fired(job[w], held[w])
         /\ pc[w] = "postponing" => ~Fired(job[w], held[w])

IInv ==
    /\ TypeOK
    /\ \A j \in Jobs : JobOK(j)
    /\ \A w \in Workers : WorkerOK(w)

-----------------------------------------------------------------------------
\* What appending to the delivered tokens does.
LEMMA AppendFacts ==
    ASSUME NEW s \in Seq(Nat), NEW n \in Nat
    PROVE  /\ Append(s, n) \in Seq(Nat)
           /\ Len(Append(s, n)) = Len(s) + 1
           /\ DOMAIN Append(s, n) = DOMAIN s \cup {Len(s) + 1}
           /\ \A i \in DOMAIN s : i # Len(s) + 1 /\ Append(s, n)[i] = s[i]
           /\ Append(s, n)[Len(s) + 1] = n
  OBVIOUS

LEMMA Starts == Init => IInv
<1> SUFFICES ASSUME Init PROVE IInv
  OBVIOUS
<1>1. TypeOK
  <2>1. remaining \in [Jobs -> Nat \cup {Every}]
    BY SchedulerConstants DEF Init
  <2>2. fires \in [Jobs -> Seq(Nat)]
    BY DEF Init
  <2> QED
    BY <2>1, <2>2, SchedulerConstants DEF Init, TypeOK, Statuses, Places, Settled, NoToken
<1>2. ASSUME NEW j \in Jobs PROVE JobOK(j)
  <2>1. fires[j] = <<>> /\ Len(fires[j]) = 0 /\ DOMAIN fires[j] = {}
    BY DEF Init
  <2>2. ~Fired(j, token[j])
    BY <2>1 DEF Fired
  <2> QED
    BY <2>1, <2>2, SchedulerConstants DEF Init, JobOK, RowSound, Counted, FiredOnce,
       Accounted, OpenFire, Open, NoToken, Every
<1>3. ASSUME NEW w \in Workers PROVE WorkerOK(w)
  BY DEF Init, WorkerOK, Holding
<1> QED
  BY <1>1, <1>2, <1>3 DEF IInv

\* The rows and deliveries of j stay, but for its status and its lease, which
\* is given up if the status changes.
LEMMA RowStays ==
    ASSUME IInv, NEW j \in Jobs,
           <<remaining[j], token[j], minted[j], fires[j]>>' = <<remaining[j], token[j], minted[j], fires[j]>>,
           \/ /\ status'[j] = status[j]
              /\ owner'[j] \in {owner[j], None}
           \/ /\ status'[j] \notin {"deleted", "completed"} /\ status[j] \notin {"deleted", "completed"}
              /\ owner'[j] = None
              /\ status'[j] \in Open => status[j] \in Open
    PROVE  JobOK(j)'
<1>1. Fired(j, token[j])' <=> Fired(j, token[j])
  BY DEF Fired
<1> QED
  BY <1>1 DEF IInv, JobOK, RowSound, Counted, FiredOnce, Accounted, OpenFire, Open

\* The worker and the rows it could own stay, or it owns its row no longer.
LEMMA WorkerStays ==
    ASSUME IInv, NEW w \in Workers,
           <<pc[w], job[w], held[w], seen[w]>>' = <<pc[w], job[w], held[w], seen[w]>>,
           pc[w] \in Holding /\ Owns(w)' =>
               /\ Owns(w)
               /\ remaining'[job[w]] = remaining[job[w]]
               /\ fires'[job[w]] = fires[job[w]]
    PROVE  WorkerOK(w)'
<1>1. CASE pc[w] \in Holding /\ Owns(w)'
  BY <1>1 DEF IInv, WorkerOK, Fired
<1>2. CASE ~(pc[w] \in Holding /\ Owns(w)')
  BY <1>2 DEF IInv, WorkerOK
<1> QED
  BY <1>1, <1>2

LEMMA UserStep == ASSUME IInv, User PROVE IInv'
<1>1. ASSUME NEW j \in Jobs, CountActive(j) \/ Create(j) \/ Cancel(j) PROVE IInv'
  <2>1. TypeOK'
    BY <1>1 DEF CountActive, Create, Cancel, IInv, TypeOK, Statuses, Settled, workerVars
  <2>2. ASSUME NEW i \in Jobs PROVE JobOK(i)'
    <3>1. owner[j] = None
      BY <1>1 DEF CountActive, Create, Cancel, IInv, JobOK, RowSound
    <3> QED
      BY <1>1, <3>1, RowStays DEF CountActive, Create, Cancel, IInv, TypeOK, Open
  <2>3. ASSUME NEW w \in Workers PROVE WorkerOK(w)'
    <3>1. UNCHANGED <<owner, token, remaining, fires, pc, job, held, seen>>
      BY <1>1 DEF CountActive, Create, Cancel, workerVars
    <3> QED
      BY <3>1, WorkerStays DEF Owns
  <2> QED
    BY <2>1, <2>2, <2>3 DEF IInv
<1>2. ASSUME DeleteConversation PROVE IInv'
  <2>1. TypeOK'
    BY <1>2 DEF DeleteConversation, IInv, TypeOK, Statuses, workerVars, NoToken
  <2>2. ASSUME NEW j \in Jobs PROVE JobOK(j)'
    <3>1. fires'[j] = <<>> /\ DOMAIN fires'[j] = {}
      BY <1>2 DEF DeleteConversation
    <3>2. status'[j] = "deleted" /\ owner'[j] = None /\ token'[j] = 0
          /\ minted'[j] \in Nat /\ remaining' = remaining
      BY <1>2 DEF DeleteConversation, IInv, TypeOK, NoToken
    <3> QED
      BY <3>1, <3>2 DEF IInv, JobOK, RowSound, Counted, FiredOnce, Accounted, Open
  <2>3. ASSUME NEW w \in Workers PROVE WorkerOK(w)'
    BY <1>2, WorkerStays, SchedulerConstants DEF DeleteConversation, Owns, IInv, WorkerOK,
       workerVars
  <2> QED
    BY <2>1, <2>2, <2>3 DEF IInv
<1>3. ASSUME PassiveRuns PROVE IInv'
  <2>1. TypeOK'
    BY <1>3 DEF PassiveRuns, IInv, TypeOK, jobVars, workerVars
  <2>2. ASSUME NEW j \in Jobs PROVE JobOK(j)'
    BY <1>3, RowStays DEF PassiveRuns, jobVars
  <2>3. ASSUME NEW w \in Workers PROVE WorkerOK(w)'
    BY <1>3, WorkerStays DEF PassiveRuns, Owns, jobVars, workerVars
  <2> QED
    BY <2>1, <2>2, <2>3 DEF IInv
<1> QED
  BY <1>1, <1>2, <1>3 DEF User
-----------------------------------------------------------------------------
\* What a claim does to the workers, without the order in which it visits the
\* rows: it takes none, or one.
TakesUp(w, taken) ==
    \/ taken = {} /\ UNCHANGED workerVars
    \/ \E j \in Jobs :
          /\ taken = {j}
          /\ pc' = [pc EXCEPT ![w] = "claimed"]
          /\ job' = [job EXCEPT ![w] = j]
          /\ held' = [held EXCEPT ![w] = token'[j]]
          /\ seen' = [seen EXCEPT ![w] = remaining[j]]

\* And to the rows.
ClaimEffect(w, misses, taken) ==
    /\ \A j \in misses : token[j] = NoToken /\ (status[j] = "pending" \/ j \in Expired)
    /\ \A j \in taken : j \notin misses /\ (status[j] = "pending" \/ j \in Expired)
    /\ status' = [j \in Jobs |->
          IF j \in taken THEN "running"
          ELSE IF j \in misses /\ ~Repeats(j) THEN "missed"
          ELSE IF j \in Expired THEN "pending" ELSE status[j]]
    /\ when' = [j \in Jobs |-> IF j \in misses /\ Repeats(j) THEN "early" ELSE when[j]]
    /\ remaining' = [j \in Jobs |-> remaining[j]]
    /\ owner' = [j \in Jobs |->
          IF j \in taken THEN w ELSE IF j \in Expired THEN None ELSE owner[j]]
    /\ lease' = [j \in Jobs |->
          IF j \in taken THEN "live" ELSE IF j \in Expired THEN "none" ELSE lease[j]]
    /\ token' = [j \in Jobs |->
          IF j \in taken /\ token[j] = NoToken THEN minted[j] + 1 ELSE token[j]]
    /\ minted' = [j \in Jobs |->
          IF j \in taken /\ token[j] = NoToken THEN minted[j] + 1 ELSE minted[j]]
    /\ UNCHANGED <<fires, busy, faults>>
    /\ pc[w] = "idle"

LEMMA ClaimFacts ==
    ASSUME NEW w \in Workers, Claim(w)
    PROVE  \E misses, taken \in SUBSET Jobs : ClaimEffect(w, misses, taken) /\ TakesUp(w, taken)
<1> DEFINE pending == {j \in Jobs : status[j] = "pending"} \cup Expired
           misfires == {j \in pending : Misfired(j)}
           claimable == {j \in pending \ misfires : when[j] # "early"}
           first == {j \in claimable : when[j] = "late" \/ \A i \in claimable : when[i] = "due"}
           Visit(misses, taken) ==
            /\ status' = [j \in Jobs |->
                  IF j \in taken THEN "running"
                  ELSE IF j \in misses /\ ~Repeats(j) THEN "missed"
                  ELSE IF j \in Expired THEN "pending" ELSE status[j]]
            /\ when' = [j \in Jobs |-> IF j \in misses /\ Repeats(j) THEN "early" ELSE when[j]]
            /\ remaining' = [j \in Jobs |->
                  IF j \in misses /\ Repeats(j) THEN Skipped(j) ELSE remaining[j]]
            /\ owner' = [j \in Jobs |->
                  IF j \in taken THEN w ELSE IF j \in Expired THEN None ELSE owner[j]]
            /\ lease' = [j \in Jobs |->
                  IF j \in taken THEN "live" ELSE IF j \in Expired THEN "none" ELSE lease[j]]
            /\ token' = [j \in Jobs |->
                  IF j \in taken /\ RecoveredToken(j) = NoToken THEN minted[j] + 1
                  ELSE IF j \in pending THEN RecoveredToken(j) ELSE token[j]]
            /\ minted' = [j \in Jobs |->
                  IF j \in taken /\ RecoveredToken(j) = NoToken THEN minted[j] + 1 ELSE minted[j]]
<1>1. pc[w] = "idle" /\ UNCHANGED <<fires, busy, faults>>
  BY DEF Claim
<1>2. ASSUME NEW misses \in SUBSET misfires, NEW taken \in SUBSET claimable, Visit(misses, taken)
      PROVE  ClaimEffect(w, misses, taken)
  <2>1. /\ \A j \in misses : token[j] = NoToken /\ (status[j] = "pending" \/ j \in Expired)
        /\ \A j \in taken : j \notin misses /\ (status[j] = "pending" \/ j \in Expired)
    BY DEF Misfired, RecoveredToken
  <2>2. remaining' = [j \in Jobs |-> remaining[j]]
    BY <1>2 DEF Skipped
  <2>3. token' = [j \in Jobs |->
           IF j \in taken /\ token[j] = NoToken THEN minted[j] + 1 ELSE token[j]]
    BY <1>2 DEF RecoveredToken
  <2>4. minted' = [j \in Jobs |->
           IF j \in taken /\ token[j] = NoToken THEN minted[j] + 1 ELSE minted[j]]
    BY <1>2 DEF RecoveredToken
  <2> QED
    BY <1>1, <1>2, <2>1, <2>2, <2>3, <2>4 DEF ClaimEffect
<1>3. claimable \subseteq Jobs /\ misfires \subseteq Jobs /\ first \subseteq claimable
  BY DEF Expired
<1>4. \/ /\ claimable = {}
         /\ misfires # {} \/ Expired # {}
         /\ Visit(misfires, {})
         /\ UNCHANGED workerVars
      \/ \E j \in first :
         /\ RecoveredToken(j) = NoToken => minted[j] < MaxTokens
         /\ \E before \in SUBSET misfires :
               /\ when[j] = "due" => before = misfires
               /\ Visit(before, {j})
         /\ Goto(w, "claimed")
         /\ job' = [job EXCEPT ![w] = j]
         /\ held' = [held EXCEPT ![w] = token'[j]]
         /\ seen' = [seen EXCEPT ![w] = remaining[j]]
  BY Zenon DEF Claim
<1> HIDE DEF Visit, claimable, misfires, first
<1>5. CASE Visit(misfires, {}) /\ UNCHANGED workerVars
  BY <1>2, <1>3, <1>5 DEF TakesUp
<1>6. ASSUME NEW j \in first, NEW before \in SUBSET misfires, Visit(before, {j}),
             Goto(w, "claimed"), job' = [job EXCEPT ![w] = j],
             held' = [held EXCEPT ![w] = token'[j]], seen' = [seen EXCEPT ![w] = remaining[j]]
      PROVE  \E misses, taken \in SUBSET Jobs : ClaimEffect(w, misses, taken) /\ TakesUp(w, taken)
  <2>1. ClaimEffect(w, before, {j}) /\ {j} \in SUBSET Jobs /\ before \in SUBSET Jobs
    BY <1>2, <1>3, <1>6
  <2>2. TakesUp(w, {j})
    BY <1>3, <1>6 DEF TakesUp, Goto
  <2> QED
    BY <2>1, <2>2
<1> QED
  BY <1>4, <1>5, <1>6

LEMMA ClaimStep == ASSUME IInv, NEW w \in Workers, Claim(w) PROVE IInv'
<1>1. PICK misses, taken \in SUBSET Jobs : ClaimEffect(w, misses, taken) /\ TakesUp(w, taken)
  BY ClaimFacts
<1>2. \A j \in Expired : j \in Jobs /\ status[j] = "running"
  BY DEF Expired
<1>3. TypeOK'
  <2>1. /\ status' \in [Jobs -> Statuses]
        /\ when' \in [Jobs -> {"early", "due", "late"}]
        /\ remaining' \in [Jobs -> Nat \cup {Every}]
    BY <1>1 DEF ClaimEffect, IInv, TypeOK, Statuses, Settled
  <2>2. owner' \in [Jobs -> Workers \cup {None}] /\ lease' \in [Jobs -> {"none", "live", "lapsed"}]
    BY <1>1 DEF ClaimEffect, IInv, TypeOK
  <2>3. token' \in [Jobs -> Nat] /\ minted' \in [Jobs -> Nat]
    BY <1>1 DEF ClaimEffect, IInv, TypeOK
  <2>4. /\ pc' \in [Workers -> Places] /\ job' \in [Workers -> Jobs \cup {None}]
        /\ held' \in [Workers -> Nat] /\ seen' \in [Workers -> Nat \cup {Every}]
    <3>1. CASE UNCHANGED workerVars
      BY <3>1 DEF IInv, TypeOK, workerVars
    <3>2. CASE ~ UNCHANGED workerVars
      <4>1. PICK j \in Jobs :
              /\ pc' = [pc EXCEPT ![w] = "claimed"]
              /\ job' = [job EXCEPT ![w] = j]
              /\ held' = [held EXCEPT ![w] = token'[j]]
              /\ seen' = [seen EXCEPT ![w] = remaining[j]]
        BY <1>1, <3>2 DEF TakesUp
      <4>2. token'[j] \in Nat /\ remaining[j] \in Nat \cup {Every}
        BY <2>3 DEF IInv, TypeOK
      <4> QED
        BY <4>1, <4>2 DEF IInv, TypeOK, Places
    <3> QED
      BY <3>1, <3>2
  <2> QED
    BY <1>1, <2>1, <2>2, <2>3, <2>4 DEF ClaimEffect, IInv, TypeOK
<1>4. ASSUME NEW j \in Jobs PROVE JobOK(j)'
  <2>1. remaining'[j] = remaining[j] /\ fires'[j] = fires[j]
    BY <1>1 DEF ClaimEffect
  <2>2. CASE j \in taken
    <3>1. /\ status[j] \in {"pending", "running"} /\ status'[j] = "running"
          /\ token[j] = NoToken => token'[j] = minted[j] + 1 /\ minted'[j] = minted[j] + 1
          /\ token[j] # NoToken => token'[j] = token[j] /\ minted'[j] = minted[j]
          /\ token[j] \in Nat /\ minted[j] \in Nat
      BY <1>1, <1>2, <2>2 DEF ClaimEffect, IInv, TypeOK
    <3>2. Fired(j, token[j])' <=> Fired(j, token[j])
      BY <2>1, <3>1 DEF Fired, IInv, JobOK, RowSound, NoToken
    <3>3. RowSound(j)'
      <4>1. \A i \in DOMAIN fires[j] : fires[j][i] \in Nat
        BY DEF IInv, TypeOK
      <4> QED
        BY <2>1, <3>1, <4>1 DEF IInv, JobOK, RowSound, NoToken
    <3>4. FiredOnce(j)' /\ Counted(j)'
      BY <2>1, <3>1 DEF IInv, JobOK, FiredOnce, Counted, Open
    <3>5. Accounted(j)'
      BY <2>1, <3>1, <3>2 DEF IInv, JobOK, Accounted, OpenFire
    <3> QED
      BY <3>3, <3>4, <3>5 DEF JobOK
  <2>3. CASE j \notin taken
    <3>1. token'[j] = token[j] /\ minted'[j] = minted[j]
      BY <1>1, <2>3 DEF ClaimEffect
    <3>2. CASE j \in misses \/ j \in Expired
      <4>1. status[j] \in {"pending", "running"} /\ status'[j] \in {"missed", "pending"}
        BY <1>1, <1>2, <2>3, <3>2 DEF ClaimEffect
      <4>2. owner'[j] = None
        BY <1>1, <2>3, <3>2 DEF ClaimEffect, IInv, JobOK, RowSound
      <4> QED
        BY <2>1, <3>1, <4>1, <4>2, RowStays DEF Open
    <3>3. CASE j \notin misses /\ j \notin Expired
      <4>1. status'[j] = status[j] /\ owner'[j] = owner[j]
        BY <1>1, <2>3, <3>3 DEF ClaimEffect
      <4> QED
        BY <2>1, <3>1, <4>1, RowStays
    <3> QED
      BY <3>2, <3>3
  <2> QED
    BY <2>2, <2>3
<1>5. ASSUME NEW v \in Workers PROVE WorkerOK(v)'
  <2>1. CASE v # w \/ taken = {}
    <3>1. <<pc[v], job[v], held[v], seen[v]>>' = <<pc[v], job[v], held[v], seen[v]>>
      BY <1>1, <2>1 DEF TakesUp, IInv, TypeOK, workerVars
    <3>2. ASSUME pc[v] \in Holding, Owns(v)'
          PROVE  /\ Owns(v)
                 /\ remaining'[job[v]] = remaining[job[v]]
                 /\ fires'[job[v]] = fires[job[v]]
      <4>1. v # w
        BY <1>1, <3>2 DEF ClaimEffect, Holding
      <4>2. job[v] \in Jobs
        BY <3>2 DEF IInv, WorkerOK
      <4>3. owner'[job[v]] = v /\ token'[job[v]] = held[v]
        BY <3>1, <3>2 DEF Owns
      <4> QED
        BY <1>1, <4>1, <4>2, <4>3, SchedulerConstants DEF ClaimEffect, Owns
    <3> QED
      BY <3>1, <3>2, WorkerStays
  <2>2. CASE v = w /\ taken # {}
    <3>1. PICK j \in Jobs :
            /\ taken = {j} /\ pc'[w] = "claimed" /\ job'[w] = j
            /\ held'[w] = token'[j] /\ seen'[w] = remaining[j]
      BY <1>1, <2>2 DEF TakesUp, IInv, TypeOK
    <3>2. token'[j] > 0 /\ remaining'[j] = remaining[j]
      BY <1>1, <3>1 DEF ClaimEffect, IInv, TypeOK, NoToken
    <3> QED
      BY <2>2, <3>1, <3>2 DEF WorkerOK
  <2> QED
    BY <2>1, <2>2
<1> QED
  BY <1>3, <1>4, <1>5 DEF IInv

LEMMA DeliverStep ==
    ASSUME IInv, NEW w \in Workers, NEW after \in {"delivered", "failing"}, Deliver(w, after),
           faults' \in Nat
    PROVE  IInv'
<1>1. PICK j \in Jobs :
      /\ j = job[w] /\ held[w] \in Nat /\ held[w] > 0
      /\ status[j] = "running" /\ owner[j] = w /\ token[j] = held[w]
      /\ fires \in [Jobs -> Seq(Nat)]
  BY DEF Deliver, Owns, IInv, WorkerOK, Holding, TypeOK
<1>2. /\ UNCHANGED <<status, when, remaining, owner, lease, token, minted, job, held, seen>>
      /\ pc' = [pc EXCEPT ![w] = after]
      /\ \/ Fired(j, held[w]) /\ UNCHANGED <<fires, busy>>
         \/ /\ ~Fired(j, held[w])
            /\ fires' = [fires EXCEPT ![j] = Append(fires[j], held[w])]
            /\ busy' = (busy \/ j \in Soft)
  BY <1>1 DEF Deliver, jobVars, Goto
<1>3. /\ Append(fires[j], held[w]) \in Seq(Nat)
      /\ Len(Append(fires[j], held[w])) = Len(fires[j]) + 1
      /\ DOMAIN Append(fires[j], held[w]) = DOMAIN fires[j] \cup {Len(fires[j]) + 1}
      /\ \A i \in DOMAIN fires[j] : i # Len(fires[j]) + 1 /\ Append(fires[j], held[w])[i] = fires[j][i]
      /\ Append(fires[j], held[w])[Len(fires[j]) + 1] = held[w]
  BY <1>1, AppendFacts
<1>4. TypeOK'
  <2>1. fires' \in [Jobs -> Seq(Nat)]
    BY <1>1, <1>2, <1>3
  <2>2. busy' \in BOOLEAN
    BY <1>2 DEF IInv, TypeOK
  <2> QED
    BY <1>2, <2>1, <2>2 DEF IInv, TypeOK, Places
<1>5. Fired(j, held[w])'
  BY <1>1, <1>2, <1>3 DEF Fired
<1>6. ASSUME NEW i \in Jobs PROVE JobOK(i)'
  <2>1. CASE fires'[i] = fires[i]
    BY <1>2, <2>1, RowStays
  <2>2. CASE fires'[i] # fires[i]
    <3>1. i = j /\ ~Fired(j, held[w]) /\ fires'[j] = Append(fires[j], held[w])
      BY <1>1, <1>2, <2>2
    <3>2. RowSound(j)'
      BY <1>1, <1>2, <1>3, <3>1 DEF IInv, JobOK, RowSound
    <3>3. Counted(j)'
      BY <1>1, <1>2 DEF IInv, JobOK, Counted
    <3>4. FiredOnce(j)'
      BY <1>1, <1>2, <1>3, <3>1 DEF IInv, JobOK, FiredOnce, Fired
    <3>5. Len(fires'[j]) = Len(fires[j]) + 1 /\ OpenFire(j) = 0 /\ OpenFire(j)' = 1
      BY <1>1, <1>2, <1>3, <1>5, <3>1 DEF OpenFire
    <3>6. Accounted(j)'
      <4> SUFFICES ASSUME Repeat[j] # Every
                   PROVE  Len(fires'[j]) = Repeat[j] - remaining'[j] + OpenFire(j)'
        BY DEF Accounted
      <4>1. Repeat[j] \in Nat /\ remaining[j] \in Nat /\ Len(fires[j]) \in Nat
        BY <1>1, SchedulerConstants DEF IInv, JobOK, Counted
      <4>2. Len(fires[j]) = Repeat[j] - remaining[j] + OpenFire(j)
        BY <1>1 DEF IInv, JobOK, Accounted
      <4>3. remaining'[j] = remaining[j]
        BY <1>2
      <4> QED
        BY <3>5, <4>1, <4>2, <4>3
    <3> QED
      BY <3>1, <3>2, <3>3, <3>4, <3>6 DEF JobOK
  <2> QED
    BY <2>1, <2>2
<1>7. ASSUME NEW v \in Workers PROVE WorkerOK(v)'
  <2>1. CASE v = w
    <3>1. pc'[w] = after
      BY <1>2 DEF IInv, TypeOK
    <3> QED
      BY <1>1, <1>2, <1>5, <2>1, <3>1 DEF Deliver, IInv, WorkerOK, Owns, Holding
  <2>2. CASE v # w
    <3>1. pc'[v] = pc[v]
      BY <1>2, <2>2 DEF IInv, TypeOK
    <3>2. ASSUME pc[v] \in Holding, Owns(v)' PROVE Owns(v) /\ fires'[job[v]] = fires[job[v]]
      <4>1. job[v] \in Jobs /\ owner[job[v]] = v
        BY <1>2, <3>2 DEF IInv, WorkerOK, Owns
      <4>2. job[v] # j
        BY <1>1, <2>2, <4>1
      <4> QED
        BY <1>1, <1>2, <3>2, <4>1, <4>2 DEF Owns
    <3> QED
      BY <1>2, <3>1, <3>2, WorkerStays
  <2> QED
    BY <2>1, <2>2
<1> QED
  BY <1>4, <1>6, <1>7 DEF IInv

\* The owner settles its fire: what it writes has to agree with the deliveries.
LEMMA SettleStep ==
    ASSUME IInv, NEW w \in Workers, pc[w] \in Holding,
           NEW to \in {"pending", "completed", "failed"}, NEW left \in Nat \cup {Every},
           NEW at \in {"early", "due", "late"}, Settle(w, to, left, at),
           Repeat[job[w]] # Every =>
               /\ left \in Nat
               /\ to = "pending" => left > 0
               /\ Len(fires[job[w]]) = Repeat[job[w]] - left
                     + (IF Fired(job[w], token[job[w]]) /\ to = "failed" THEN 1 ELSE 0),
           \/ Leave(w, "idle")
           \/ Goto(w, "failing") /\ UNCHANGED <<job, held, seen>>,
           faults' \in Nat
    PROVE  IInv'
<1>1. PICK j \in Jobs :
      /\ j = job[w] /\ owner[j] = w /\ token[j] = held[w] /\ status[j] = "running" /\ w # None
  BY SchedulerConstants DEF Settle, Owns, IInv, WorkerOK, JobOK, RowSound
<1>2. /\ status' = [status EXCEPT ![j] = to]
      /\ remaining' = [remaining EXCEPT ![j] = left]
      /\ when' = [when EXCEPT ![j] = at]
      /\ owner' = [owner EXCEPT ![j] = None]
      /\ lease' = [lease EXCEPT ![j] = "none"]
      /\ token' = [token EXCEPT ![j] = IF to = "pending" THEN NoToken ELSE token[j]]
      /\ UNCHANGED <<minted, fires, busy>>
  BY <1>1 DEF Settle
<1>3. /\ pc' \in [Workers -> Places] /\ job' \in [Workers -> Jobs \cup {None}]
      /\ held' \in [Workers -> Nat] /\ seen' \in [Workers -> Nat \cup {Every}]
  <2>1. CASE Leave(w, "idle")
    BY <2>1 DEF Leave, Goto, IInv, TypeOK, Places, NoToken
  <2>2. CASE Goto(w, "failing") /\ UNCHANGED <<job, held, seen>>
    BY <2>2 DEF Goto, IInv, TypeOK, Places
  <2> QED
    BY <2>1, <2>2
<1>4. TypeOK'
  BY <1>1, <1>2, <1>3 DEF IInv, TypeOK, Statuses, Settled, NoToken
<1>5. ASSUME NEW i \in Jobs PROVE JobOK(i)'
  <2>1. CASE i # j
    <3>1. /\ status'[i] = status[i] /\ remaining'[i] = remaining[i] /\ owner'[i] = owner[i]
          /\ token'[i] = token[i] /\ minted'[i] = minted[i] /\ fires'[i] = fires[i]
      BY <1>1, <1>2, <2>1 DEF IInv, TypeOK
    <3> QED
      BY <3>1, RowStays
  <2>2. CASE i = j
    <3>1. /\ status'[j] = to /\ remaining'[j] = left /\ owner'[j] = None
          /\ token'[j] = IF to = "pending" THEN 0 ELSE token[j]
          /\ minted'[j] = minted[j] /\ fires'[j] = fires[j]
          /\ minted[j] \in Nat
      BY <1>1, <1>2 DEF IInv, TypeOK, NoToken
    <3>2. RowSound(j)' /\ Counted(j)' /\ FiredOnce(j)'
      BY <1>1, <3>1 DEF IInv, JobOK, RowSound, Counted, FiredOnce, Open
    <3>3. OpenFire(j)' = IF Fired(j, token[j]) /\ to = "failed" THEN 1 ELSE 0
      <4>1. CASE to = "pending"
        <5>1. ~Fired(j, token[j])'
          BY <1>1, <3>1, <4>1 DEF Fired, IInv, JobOK, RowSound
        <5> QED
          BY <4>1, <5>1 DEF OpenFire
      <4>2. CASE to # "pending"
        BY <3>1, <4>2 DEF OpenFire, Fired
      <4> QED
        BY <4>1, <4>2
    <3>4. Accounted(j)'
      BY <1>1, <3>1, <3>3 DEF Accounted
    <3> QED
      BY <2>2, <3>2, <3>4 DEF JobOK
  <2> QED
    BY <2>1, <2>2
<1>6. ASSUME NEW v \in Workers PROVE WorkerOK(v)'
  <2>1. CASE v = w
    <3>1. \/ pc'[w] = "idle"
          \/ pc'[w] = "failing" /\ job'[w] = j /\ held'[w] = held[w]
      BY <1>1 DEF Leave, Goto, IInv, TypeOK
    <3>2. owner'[j] # w
      BY <1>1, <1>2 DEF IInv, TypeOK
    <3> QED
      BY <2>1, <3>1, <3>2 DEF IInv, WorkerOK, Owns, Holding
  <2>2. CASE v # w
    <3>1. <<pc[v], job[v], held[v], seen[v]>>' = <<pc[v], job[v], held[v], seen[v]>>
      BY <2>2 DEF Leave, Goto, IInv, TypeOK
    <3>2. ASSUME pc[v] \in Holding, Owns(v)'
          PROVE  Owns(v) /\ remaining'[job[v]] = remaining[job[v]] /\ fires'[job[v]] = fires[job[v]]
      <4>1. job[v] \in Jobs /\ owner'[job[v]] = v /\ token'[job[v]] = held[v] /\ v # None
        BY <3>1, <3>2, SchedulerConstants DEF IInv, WorkerOK, Owns
      <4>2. job[v] # j
        BY <1>1, <1>2, <4>1 DEF IInv, TypeOK
      <4> QED
        BY <1>1, <1>2, <4>1, <4>2 DEF Owns, IInv, TypeOK
    <3> QED
      BY <3>1, <3>2, WorkerStays
  <2> QED
    BY <2>1, <2>2
<1> QED
  BY <1>4, <1>5, <1>6 DEF IInv

\* Only the place of a worker changes, or it lets go of everything.
LEMMA WorkerMoves ==
    ASSUME IInv, NEW w \in Workers, UNCHANGED <<jobVars, fires, busy>>, faults' \in Nat,
           \/ \E place \in {"idle", "down"} : Leave(w, place)
           \/ \E place \in Places \ {"claimed", "delivered"} :
                /\ Goto(w, place) /\ UNCHANGED <<job, held, seen>>
                /\ place \in Holding => pc[w] \in Holding
                /\ place = "postponing" => ~Fired(job[w], held[w])
    PROVE  IInv'
<1>1. TypeOK'
  <2>1. ASSUME NEW place \in {"idle", "down"}, Leave(w, place) PROVE TypeOK'
    BY <2>1 DEF Leave, Goto, IInv, TypeOK, Places, NoToken, jobVars
  <2>2. ASSUME NEW place \in Places, Goto(w, place), UNCHANGED <<job, held, seen>> PROVE TypeOK'
    BY <2>2 DEF Goto, IInv, TypeOK, jobVars
  <2> QED
    BY <2>1, <2>2
<1>2. ASSUME NEW j \in Jobs PROVE JobOK(j)'
  BY RowStays DEF jobVars
<1>3. ASSUME NEW v \in Workers PROVE WorkerOK(v)'
  <2>1. UNCHANGED <<owner, token, remaining, fires>>
    BY DEF jobVars
  <2>2. CASE v # w
    <3>1. <<pc[v], job[v], held[v], seen[v]>>' = <<pc[v], job[v], held[v], seen[v]>>
      BY <2>2 DEF Leave, Goto, IInv, TypeOK
    <3> QED
      BY <2>1, <3>1, WorkerStays DEF Owns
  <2>3. CASE v = w
    <3>1. CASE pc'[w] \in {"idle", "down"}
      BY <2>3, <3>1 DEF WorkerOK, Holding
    <3>2. CASE pc'[w] \notin {"idle", "down"}
      <4>1. /\ UNCHANGED <<job, held, seen>>
            /\ pc'[w] \in Holding => pc[w] \in Holding
            /\ pc'[w] # "delivered"
            /\ pc'[w] = "postponing" => ~Fired(job[w], held[w])
        BY <3>2 DEF Leave, Goto, IInv, TypeOK
      <4> QED
        BY <2>1, <2>3, <4>1 DEF IInv, WorkerOK, Owns, Fired
    <3> QED
      BY <3>1, <3>2
  <2> QED
    BY <2>2, <2>3
<1> QED
  BY <1>1, <1>2, <1>3 DEF IInv

\* The finish counts the fire it settles, whose delivery it has seen.
LEMMA FinishAgrees ==
    ASSUME IInv, NEW w \in Workers, pc[w] = "delivered", Owns(w)
    PROVE  /\ NextStatus(seen[w]) \in {"pending", "completed"}
           /\ Remaining(seen[w]) \in Nat \cup {Every}
           /\ when[job[w]] \in {"early", "due", "late"}
           /\ (IF NextStatus(seen[w]) = "pending" THEN "early" ELSE when[job[w]]) \in {"early", "due", "late"}
           /\ Repeat[job[w]] # Every =>
                /\ Remaining(seen[w]) \in Nat
                /\ NextStatus(seen[w]) = "pending" => Remaining(seen[w]) > 0
                /\ Len(fires[job[w]]) = Repeat[job[w]] - Remaining(seen[w]) + 0
                /\ NextStatus(seen[w]) # "failed"
<1>1. /\ job[w] \in Jobs /\ seen[w] = remaining[job[w]] /\ Fired(job[w], held[w])
      /\ token[job[w]] = held[w] /\ owner[job[w]] = w /\ w # None
      /\ seen[w] \in Nat \cup {Every} /\ when[job[w]] \in {"early", "due", "late"}
  BY SchedulerConstants DEF IInv, WorkerOK, Owns, Holding, TypeOK
<1>2. status[job[w]] = "running"
  BY <1>1 DEF IInv, JobOK, RowSound
<1>3. Remaining(seen[w]) \in Nat \cup {Every} /\ NextStatus(seen[w]) \in {"pending", "completed"}
  BY <1>1 DEF Remaining, NextStatus, Every
<1>4. ASSUME Repeat[job[w]] # Every
      PROVE  /\ Remaining(seen[w]) \in Nat
             /\ NextStatus(seen[w]) = "pending" => Remaining(seen[w]) > 0
             /\ Len(fires[job[w]]) = Repeat[job[w]] - Remaining(seen[w])
  <2>1. seen[w] \in Nat /\ seen[w] > 0 /\ Repeat[job[w]] \in Nat
    BY <1>1, <1>2, <1>4, SchedulerConstants DEF IInv, JobOK, Counted, Open
  <2>2. OpenFire(job[w]) = 1
    BY <1>1, <1>2 DEF OpenFire
  <2>3. Len(fires[job[w]]) = Repeat[job[w]] - seen[w] + 1
    BY <1>1, <1>2, <1>4, <2>2 DEF IInv, JobOK, Accounted
  <2>4. Remaining(seen[w]) = seen[w] - 1 /\ (NextStatus(seen[w]) = "pending" => seen[w] > 1)
    BY <2>1 DEF Remaining, NextStatus, Every
  <2> QED
    BY <2>1, <2>3, <2>4
<1>5. Repeat[job[w]] # Every => Repeat[job[w]] \in Nat
  BY <1>1, SchedulerConstants
<1> QED
  BY <1>1, <1>3, <1>4, <1>5

LEMMA FiringStep == ASSUME IInv, NEW w \in Workers, Firing(w) PROVE IInv'
<1>0. pc[w] \in Holding =>
        /\ job[w] \in Jobs /\ seen[w] \in Nat \cup {Every}
        /\ when[job[w]] \in {"early", "due", "late"}
        /\ faults \in Nat
        /\ Len(fires[job[w]]) \in Nat
        /\ Owns(w) => /\ seen[w] = remaining[job[w]]
                      /\ owner[job[w]] # None /\ status[job[w]] = "running"
                      /\ JobOK(job[w])
  BY SchedulerConstants DEF IInv, WorkerOK, TypeOK, Owns, JobOK, RowSound
<1>1. CASE Delivered(w)
  BY <1>1, DeliverStep DEF Delivered, IInv, TypeOK
<1>2. CASE FindBusy(w)
  BY <1>2, WorkerMoves DEF FindBusy, Places, Holding, IInv, TypeOK
<1>3. CASE LoseFire(w)
  BY <1>3, WorkerMoves DEF LoseFire, Places, Holding, IInv, TypeOK
<1>4. CASE Finish(w)
  BY <1>4, FinishAgrees, SettleStep, <1>0 DEF Finish, Holding, Settle
<1>5. CASE Postpone(w)
  <2>1. pc[w] \in Holding /\ Owns(w) /\ ~Fired(job[w], held[w]) /\ token[job[w]] = held[w]
    BY <1>5 DEF Postpone, Settle, Holding, IInv, WorkerOK, Owns
  <2>2. Repeat[job[w]] # Every =>
          /\ seen[w] \in Nat /\ seen[w] > 0
          /\ Len(fires[job[w]]) = Repeat[job[w]] - seen[w] + 0
    BY <1>0, <2>1 DEF JobOK, Counted, Accounted, OpenFire, Open
  <2> QED
    BY <1>0, <1>5, <2>1, <2>2, SettleStep DEF Postpone
<1>6. CASE Fail(w)
  <2>1. pc[w] \in Holding /\ Owns(w)
    BY <1>6 DEF Fail, Settle, Holding
  <2>2. Repeat[job[w]] # Every =>
          /\ seen[w] \in Nat
          /\ Len(fires[job[w]]) = Repeat[job[w]] - seen[w]
                + (IF Fired(job[w], token[job[w]]) THEN 1 ELSE 0)
    BY <1>0, <2>1 DEF JobOK, Counted, Accounted, OpenFire
  <2> QED
    BY <1>0, <1>6, <2>1, <2>2, SettleStep DEF Fail
<1>7. CASE DieOfLostFire(w)
  BY <1>7, WorkerMoves DEF DieOfLostFire, IInv, TypeOK
<1> QED
  BY <1>1, <1>2, <1>3, <1>4, <1>5, <1>6, <1>7 DEF Firing

LEMMA EnvironmentStep == ASSUME IInv, Environment PROVE IInv'
<1>1. ASSUME NEW j \in Jobs, Tick(j) \/ LeaseLapses(j) PROVE IInv'
  <2>1. TypeOK'
    <3>1. CASE Tick(j)
      BY <3>1 DEF Tick, IInv, TypeOK, workerVars
    <3>2. CASE LeaseLapses(j)
      <4>1. faults' \in Nat
        BY <3>2 DEF LeaseLapses, Fault, IInv, TypeOK
      <4> QED
        BY <3>2, <4>1 DEF LeaseLapses, IInv, TypeOK, workerVars
    <3> QED
      BY <1>1, <3>1, <3>2
  <2>2. UNCHANGED <<status, remaining, owner, token, minted, fires, pc, job, held, seen>>
    BY <1>1 DEF Tick, LeaseLapses, workerVars
  <2>3. ASSUME NEW i \in Jobs PROVE JobOK(i)'
    BY <2>2, RowStays
  <2>4. ASSUME NEW w \in Workers PROVE WorkerOK(w)'
    BY <2>2, WorkerStays DEF Owns
  <2> QED
    BY <2>1, <2>3, <2>4 DEF IInv
<1>2. ASSUME NEW w \in Workers, DeliverUnheard(w) PROVE IInv'
  BY <1>2, DeliverStep DEF DeliverUnheard, Fault, IInv, TypeOK
<1>3. ASSUME NEW w \in Workers, FinishUnheard(w) PROVE IInv'
  <2>1. pc[w] = "delivered" /\ Owns(w) /\ faults' \in Nat
    BY <1>3 DEF FinishUnheard, Settle, Fault, IInv, TypeOK
  <2> QED
    BY <1>3, <2>1, FinishAgrees, SettleStep DEF FinishUnheard, Holding
<1>4. ASSUME NEW w \in Workers, TransactionFails(w) PROVE IInv'
  BY <1>4, WorkerMoves DEF TransactionFails, Fault, Places, Holding, IInv, TypeOK
<1>5. ASSUME NEW w \in Workers, Crash(w) PROVE IInv'
  BY <1>5, WorkerMoves DEF Crash, Fault, IInv, TypeOK
<1>6. ASSUME NEW w \in Workers, Restart(w) PROVE IInv'
  BY <1>6, WorkerMoves DEF Restart, Places, Holding, IInv, TypeOK
<1> QED
  BY <1>1, <1>2, <1>3, <1>4, <1>5, <1>6 DEF Environment

LEMMA StutterStep == ASSUME IInv, UNCHANGED vars PROVE IInv'
<1>1. TypeOK'
  BY DEF vars, jobVars, workerVars, IInv, TypeOK
<1>2. ASSUME NEW j \in Jobs PROVE JobOK(j)'
  BY RowStays DEF vars, jobVars
<1>3. ASSUME NEW w \in Workers PROVE WorkerOK(w)'
  BY WorkerStays DEF vars, jobVars, workerVars, Owns
<1> QED
  BY <1>1, <1>2, <1>3 DEF IInv

LEMMA Inductive == Spec => []IInv
<1>1. IInv /\ [Next]_vars => IInv'
  <2> SUFFICES ASSUME IInv, [Next]_vars PROVE IInv'
    OBVIOUS
  <2> QED
    BY UserStep, ClaimStep, FiringStep, EnvironmentStep, StutterStep DEF Next
<1> QED
  BY Starts, <1>1, PTL DEF Spec

\* The rows and the processes have the shape the table and run_once give them.
THEOREM Typing == Spec => []TypeOK
<1>1. IInv => TypeOK
  BY DEF IInv
<1> QED
  BY Inductive, <1>1, PTL

\* For any number of workers and claims, a fire writes its message or Run once
\* (deliver_scheduled_job).
THEOREM OneDelivery == Spec => []OneDeliveryPerFire
<1>1. IInv => OneDeliveryPerFire
  BY DEF IInv, JobOK, FiredOnce, OneDeliveryPerFire
<1> QED
  BY Inductive, <1>1, PTL

\* What was delivered is what remaining_runs gave up, and the open fire if it
\* was delivered (finish_scheduled_job).
THEOREM Accounts == Spec => []FiresAreAccounted
<1>1. IInv => FiresAreAccounted
  BY DEF IInv, JobOK, Accounted, OpenFire, FiresAreAccounted
<1> QED
  BY Inductive, <1>1, PTL
=============================================================================
