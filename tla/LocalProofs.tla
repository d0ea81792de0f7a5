---- MODULE LocalProofs ----
(***************************************************************************)
(* The safety of the local program, for every value of the constants: its  *)
(* restarts (ControlPlane), its memory (Consolidation) and its turns       *)
(* (LocalTurns).                                                           *)
(***************************************************************************)
EXTENDS ControlPlane, Consolidation, LocalTurns, FiniteSetTheorems,
        WellFoundedInduction, TLAPS

(***************************************************************************)
(* Restarts.  What makes a restart safe is that its request freezes        *)
(* admission while its caller is the only turn: from then on only the      *)
(* caller can be in flight, and a commit means that it has settled as      *)
(* completed and its last frame was written.                               *)
(***************************************************************************)

Phases == {"none", "starting", "serving", "stopping", "hanging_up", "closing", "exited"}

TypeOK ==
    /\ status \in [Turns -> {"none", "queued", "in_progress"} \union Terminal]
    /\ readiness \in Nat
    /\ supervisor \in [pc : {"spawn", "wait", "ended"}, stop : BOOLEAN, saw : BOOLEAN, code : Nat]
    /\ boot \in Nat
    /\ pipe \subseteq Turns
    /\ process \in [phase : Phases, code : Nat]
    /\ signalled \in BOOLEAN
    /\ task \in [Turns -> {"none", "queued", "executing"}]
    /\ thread \in [Turns -> Threads \union {None}]
    /\ cancelled \subseteq Turns /\ interrupts \subseteq Turns
    /\ admission \in [accepting : BOOLEAN, owner : Turns \union {None}, closed : BOOLEAN]
    /\ restart \in [state : {"idle", "armed", "waiting", "committed", "cancelled"},
                    turn : Turns \union {None}, completed : BOOLEAN, delivered : BOOLEAN]
    /\ link \in [Connections -> {"closed", "open", "closing"}]
    /\ via \in [Turns -> Connections \union {None}]
    /\ forward \in [Turns -> {"none", "streaming", "sending", "sent", "broken", "cancelled", "ended"}]
    /\ received \subseteq Turns
    /\ faults \in Nat

\* A process that does not serve yet, or no more, has nothing in memory.
IdleIsEmpty ==
    process.phase \in {"none", "starting", "exited"} =>
        /\ \A t \in Turns : task[t] = "none" /\ forward[t] = "none"
        /\ \A c \in Connections : link[c] = "closed"
        /\ admission = OpenAdmission /\ restart = NoRestart

\* From its arming on, a restart's caller is the only turn there may be.
FrozenIsAlone ==
    restart.turn # None =>
        /\ ~admission.accepting
        /\ \A t \in Turns : task[t] # "none" => t = restart.turn

\* What the marks of an open request stand for.
MarksAreTrue ==
    /\ restart.completed =>
          restart.turn # None /\ status[restart.turn] = "completed"
    /\ restart.state = "committed" => restart.completed /\ pipe = {restart.turn}
    /\ \A t \in Turns : forward[t] = "sent" => t \in received

Delivered == \E t \in received : pipe = {t} /\ status[t] = "completed"

\* A commit frame is on the pipe only after the delivery it reports.
PipeIsTrue ==
    /\ pipe # {} => Delivered
    /\ pipe # {} => restart.state = "committed" \/ process.phase \in {"none", "exited"}

\* The supervisor starts a process only when there is none.
SpawnIsOrdered ==
    supervisor.pc = "spawn" =>
        /\ process.phase \in {"none", "exited"}
        /\ boot > 0 => pipe # {}

IInv ==
    /\ TypeOK /\ OwnersAreCurrent
    /\ IdleIsEmpty /\ FrozenIsAlone /\ MarksAreTrue /\ PipeIsTrue /\ SpawnIsOrdered

Restarts == [state : {"idle", "armed", "waiting", "committed", "cancelled"},
             turn : Turns \union {None}, completed : BOOLEAN, delivered : BOOLEAN]

Admissions == [accepting : BOOLEAN, owner : Turns \union {None}, closed : BOOLEAN]

\* A request that is cancelled gives admission back.
LEMMA Cancelling ==
    ASSUME TypeOK, CancelRestart
    PROVE  /\ restart' \in Restarts /\ admission' \in Admissions
           /\ restart'.turn = None /\ restart'.state = "cancelled" /\ ~restart'.completed
           /\ admission'.owner = None
           /\ admission'.accepting \/ admission'.closed
  BY DEF TypeOK, CancelRestart, NoRestart, Restarts, Admissions

\* What the end of a turn may do to the request.
LEMMA Marking ==
    ASSUME TypeOK, NEW t \in Turns, NEW s, MarkTerminal(t, s)
    PROVE  /\ restart' \in Restarts /\ admission' \in Admissions
           /\ \/ UNCHANGED <<restart, admission>>
              \/ /\ s = "completed" /\ restart.state # "committed"
                 /\ restart.turn = t /\ restart'.turn = t
                 /\ restart'.completed /\ restart'.state = "waiting"
                 /\ UNCHANGED admission
              \/ CancelRestart /\ restart.state # "committed"
<1>1. CASE ~Pending(t)
  BY <1>1 DEF MarkTerminal, TypeOK, Restarts, Admissions
<1>2. CASE Pending(t) /\ s # "completed"
  BY <1>2, Cancelling DEF MarkTerminal, Pending
<1>3. CASE Pending(t) /\ s = "completed"
  <2>1. /\ restart' = [restart EXCEPT !.completed = TRUE, !.state = "waiting"]
        /\ UNCHANGED admission
    BY <1>3 DEF MarkTerminal
  <2>2. restart.state # "committed" /\ restart.turn = t
    BY <1>3 DEF Pending
  <2>3. restart \in Restarts /\ admission \in Admissions
    BY DEF TypeOK, Restarts, Admissions
  <2>4. /\ restart' \in Restarts /\ restart'.turn = t
        /\ restart'.completed /\ restart'.state = "waiting"
    BY <2>1, <2>2, <2>3 DEF Restarts
  <2> QED
    BY <1>3, <2>1, <2>2, <2>3, <2>4
<1> QED
  BY <1>1, <1>2, <1>3

LEMMA SettleStep ==
    ASSUME IInv, NEW t \in Turns, NEW from, NEW to \in Terminal,
           task[t] # "none", from \notin Terminal, Settle(t, from, to), faults' \in Nat
    PROVE  IInv'
<1> USE DEF IInv
<1>1. /\ restart' \in Restarts /\ admission' \in Admissions
      /\ \/ UNCHANGED <<restart, admission>>
         \/ /\ to = "completed" /\ restart.state # "committed"
            /\ restart.turn = t /\ restart'.turn = t
            /\ restart'.completed /\ restart'.state = "waiting"
            /\ UNCHANGED admission
         \/ CancelRestart /\ restart.state # "committed"
  BY Marking DEF Settle
<1>2. CancelRestart => /\ restart'.turn = None /\ restart'.state = "cancelled" /\ ~restart'.completed
                       /\ admission'.owner = None
                       /\ admission'.accepting \/ admission'.closed
  BY Cancelling
<1>3. TypeOK'
  <2>1. status' \in [Turns -> {"none", "queued", "in_progress"} \union Terminal]
    BY DEF Settle, TypeOK
  <2>2. /\ task' \in [Turns -> {"none", "queued", "executing"}]
        /\ cancelled' \subseteq Turns /\ interrupts' \subseteq Turns
    BY DEF Settle, Leave, TypeOK
  <2> QED
    BY <1>1, <2>1, <2>2 DEF Settle, watch, gateway, transport, TypeOK, Restarts, Admissions
<1>4. OwnersAreCurrent'
  <2>1. \A u \in InFlight' : u \in InFlight /\ u # t /\ task'[u] = task[u] /\ status'[u] = status[u]
    BY DEF Settle, Leave, TypeOK, InFlight
  <2>2. /\ admission'.owner = restart'.turn
        /\ ~admission'.accepting => admission'.owner # None \/ admission'.closed
    BY <1>1, <1>2 DEF OwnersAreCurrent
  <2> QED
    BY <2>1, <2>2 DEF OwnersAreCurrent, Settle
<1>5. IdleIsEmpty'
  BY DEF Settle, gateway, IdleIsEmpty
<1>6. FrozenIsAlone'
  BY <1>1, <1>2 DEF Settle, Leave, TypeOK, FrozenIsAlone
<1>7. MarksAreTrue'
  <2>1. /\ status[t] # "completed" /\ status' = [status EXCEPT ![t] = to]
        /\ UNCHANGED <<pipe, forward, received>>
    BY DEF Settle, transport, Terminal
  <2>2. restart.completed => restart.turn \in Turns \ {t}
    BY <2>1, ControlConstants DEF MarksAreTrue, TypeOK
  <2>3. restart'.completed => restart'.turn # None /\ status'[restart'.turn] = "completed"
    BY <1>1, <1>2, <2>1, <2>2, ControlConstants DEF TypeOK, MarksAreTrue
  <2>4. restart'.state = "committed" => restart'.completed /\ pipe' = {restart'.turn}
    BY <1>1, <1>2, <2>1 DEF MarksAreTrue
  <2> QED
    BY <2>1, <2>3, <2>4 DEF MarksAreTrue
<1>8. PipeIsTrue' /\ SpawnIsOrdered'
  BY <1>1 DEF Settle, watch, gateway, transport, TypeOK, PipeIsTrue, SpawnIsOrdered,
      Delivered, MarksAreTrue
<1> QED
  BY <1>3, <1>4, <1>5, <1>6, <1>7, <1>8

LEMMA StartStep ==
    ASSUME IInv, NEW t \in Turns, NEW h \in Threads, NEW c \in Connections, StartTurn(t, h, c)
    PROVE IInv'
<1> USE DEF IInv
<1>1. TypeOK'
  BY ControlConstants DEF StartTurn, Lives, watch, gateway, turns, transport, TypeOK,
      Terminal, Phases, OpenAdmission, NoRestart
<1>2. OwnersAreCurrent'
  BY ControlConstants DEF StartTurn, Lives, watch, gateway, turns, transport, TypeOK,
      OwnersAreCurrent, InFlight, ThreadBusy, FrozenIsAlone, IdleIsEmpty, OpenAdmission,
      NoRestart
<1>3. IdleIsEmpty'
  BY DEF StartTurn, Lives, watch, gateway, turns, transport, TypeOK, IdleIsEmpty,
      OwnersAreCurrent, InFlight, Lives, OpenAdmission, NoRestart
<1>4. FrozenIsAlone' /\ MarksAreTrue'
  BY ControlConstants DEF StartTurn, Lives, watch, gateway, turns, transport, TypeOK,
      FrozenIsAlone, MarksAreTrue, IdleIsEmpty, OwnersAreCurrent, InFlight, OpenAdmission,
      NoRestart, Terminal
<1>5. PipeIsTrue' /\ SpawnIsOrdered'
  BY ControlConstants DEF StartTurn, Lives, watch, gateway, turns, transport, TypeOK,
      PipeIsTrue, SpawnIsOrdered, MarksAreTrue, IdleIsEmpty, Lives, Delivered, OpenAdmission,
      NoRestart, Terminal
<1> QED
  BY <1>1, <1>2, <1>3, <1>4, <1>5

LEMMA BeginStep == ASSUME IInv, NEW t \in Turns, Begin(t) PROVE IInv'
<1> USE DEF IInv
<1>1. TypeOK'
  BY ControlConstants DEF Begin, watch, gateway, turns, transport, TypeOK, Terminal, Phases,
      OpenAdmission, NoRestart
<1>2. OwnersAreCurrent'
  BY ControlConstants DEF Begin, watch, gateway, turns, transport, TypeOK, OwnersAreCurrent,
      InFlight, ThreadBusy, FrozenIsAlone, IdleIsEmpty, OpenAdmission, NoRestart
<1>3. IdleIsEmpty'
  BY DEF Begin, watch, gateway, turns, transport, TypeOK, IdleIsEmpty, OwnersAreCurrent,
      InFlight, Lives, OpenAdmission, NoRestart
<1>4. FrozenIsAlone' /\ MarksAreTrue'
  BY ControlConstants DEF Begin, watch, gateway, turns, transport, TypeOK, FrozenIsAlone,
      MarksAreTrue, IdleIsEmpty, OwnersAreCurrent, InFlight, OpenAdmission, NoRestart,
      Terminal
<1>5. PipeIsTrue' /\ SpawnIsOrdered'
  BY ControlConstants DEF Begin, watch, gateway, turns, transport, TypeOK, PipeIsTrue,
      SpawnIsOrdered, MarksAreTrue, IdleIsEmpty, Lives, Delivered, OpenAdmission, NoRestart,
      Terminal
<1> QED
  BY <1>1, <1>2, <1>3, <1>4, <1>5

LEMMA ArmStep == ASSUME IInv, NEW t \in Turns, Arm(t) PROVE IInv'
<1> USE DEF IInv
<1>1. TypeOK'
  BY ControlConstants DEF Arm, watch, gateway, turns, transport, TypeOK, Terminal, Phases,
      OpenAdmission, NoRestart
<1>2. OwnersAreCurrent'
  BY ControlConstants DEF Arm, watch, gateway, turns, transport, TypeOK, OwnersAreCurrent,
      InFlight, ThreadBusy, FrozenIsAlone, IdleIsEmpty, OpenAdmission, NoRestart
<1>3. IdleIsEmpty'
  BY DEF Arm, watch, gateway, turns, transport, TypeOK, IdleIsEmpty, OwnersAreCurrent,
      InFlight, Lives, OpenAdmission, NoRestart
<1>4. FrozenIsAlone' /\ MarksAreTrue'
  BY ControlConstants DEF Arm, watch, gateway, turns, transport, TypeOK, FrozenIsAlone,
      MarksAreTrue, IdleIsEmpty, OwnersAreCurrent, InFlight, OpenAdmission, NoRestart,
      Terminal
<1>5. PipeIsTrue' /\ SpawnIsOrdered'
  BY ControlConstants DEF Arm, watch, gateway, turns, transport, TypeOK, PipeIsTrue,
      SpawnIsOrdered, MarksAreTrue, IdleIsEmpty, Lives, Delivered, OpenAdmission, NoRestart,
      Terminal
<1> QED
  BY <1>1, <1>2, <1>3, <1>4, <1>5

LEMMA CompleteStep == ASSUME IInv, NEW t \in Turns, Complete(t) PROVE IInv'
  BY SettleStep DEF Complete, IInv, TypeOK, Terminal

LEMMA FailStep == ASSUME IInv, NEW t \in Turns, Fail(t) PROVE IInv'
  BY SettleStep DEF Fail, Fault, IInv, TypeOK, Terminal

LEMMA CancelledStep == ASSUME IInv, NEW t \in Turns, EndCancelled(t) PROVE IInv'
  BY SettleStep DEF EndCancelled, IInv, TypeOK, Terminal

LEMMA LoseTerminalStep == ASSUME IInv, NEW t \in Turns, LoseTerminal(t) PROVE IInv'
<1> USE DEF IInv
<1>1. TypeOK'
  BY ControlConstants DEF LoseTerminal, Fault, Leave, watch, gateway, turns, transport,
      TypeOK, Terminal, Phases, OpenAdmission, NoRestart
<1>2. OwnersAreCurrent'
  BY ControlConstants DEF LoseTerminal, Fault, Leave, watch, gateway, turns, transport,
      TypeOK, OwnersAreCurrent, InFlight, ThreadBusy, FrozenIsAlone, IdleIsEmpty,
      OpenAdmission, NoRestart
<1>3. IdleIsEmpty'
  BY DEF LoseTerminal, Fault, Leave, watch, gateway, turns, transport, TypeOK, IdleIsEmpty,
      OwnersAreCurrent, InFlight, Lives, OpenAdmission, NoRestart
<1>4. FrozenIsAlone' /\ MarksAreTrue'
  BY ControlConstants DEF LoseTerminal, Fault, Leave, watch, gateway, turns, transport,
      TypeOK, FrozenIsAlone, MarksAreTrue, IdleIsEmpty, OwnersAreCurrent, InFlight,
      OpenAdmission, NoRestart, Terminal
<1>5. PipeIsTrue' /\ SpawnIsOrdered'
  BY ControlConstants DEF LoseTerminal, Fault, Leave, watch, gateway, turns, transport,
      TypeOK, PipeIsTrue, SpawnIsOrdered, MarksAreTrue, IdleIsEmpty, Lives, Delivered,
      OpenAdmission, NoRestart, Terminal
<1> QED
  BY <1>1, <1>2, <1>3, <1>4, <1>5

LEMMA InterruptStep == ASSUME IInv, NEW t \in Turns, InterruptTurn(t) PROVE IInv'
<1> USE DEF IInv
<1>1. TypeOK'
  BY ControlConstants DEF InterruptTurn, Lives, watch, gateway, turns, transport, TypeOK,
      Terminal, Phases, OpenAdmission, NoRestart
<1>2. OwnersAreCurrent'
  BY ControlConstants DEF InterruptTurn, Lives, watch, gateway, turns, transport, TypeOK,
      OwnersAreCurrent, InFlight, ThreadBusy, FrozenIsAlone, IdleIsEmpty, OpenAdmission,
      NoRestart
<1>3. IdleIsEmpty'
  BY DEF InterruptTurn, Lives, watch, gateway, turns, transport, TypeOK, IdleIsEmpty,
      OwnersAreCurrent, InFlight, Lives, OpenAdmission, NoRestart
<1>4. FrozenIsAlone' /\ MarksAreTrue'
  BY ControlConstants DEF InterruptTurn, Lives, watch, gateway, turns, transport, TypeOK,
      FrozenIsAlone, MarksAreTrue, IdleIsEmpty, OwnersAreCurrent, InFlight, OpenAdmission,
      NoRestart, Terminal
<1>5. PipeIsTrue' /\ SpawnIsOrdered'
  BY ControlConstants DEF InterruptTurn, Lives, watch, gateway, turns, transport, TypeOK,
      PipeIsTrue, SpawnIsOrdered, MarksAreTrue, IdleIsEmpty, Lives, Delivered, OpenAdmission,
      NoRestart, Terminal
<1> QED
  BY <1>1, <1>2, <1>3, <1>4, <1>5

LEMMA SendStep == ASSUME IInv, NEW t \in Turns, SendTerminal(t) PROVE IInv'
<1> USE DEF IInv
<1>1. TypeOK'
  BY ControlConstants DEF SendTerminal, watch, gateway, turns, transport, TypeOK, Terminal,
      Phases, OpenAdmission, NoRestart
<1>2. OwnersAreCurrent'
  BY ControlConstants DEF SendTerminal, watch, gateway, turns, transport, TypeOK,
      OwnersAreCurrent, InFlight, ThreadBusy, FrozenIsAlone, IdleIsEmpty, OpenAdmission,
      NoRestart
<1>3. IdleIsEmpty'
  BY DEF SendTerminal, watch, gateway, turns, transport, TypeOK, IdleIsEmpty,
      OwnersAreCurrent, InFlight, Lives, OpenAdmission, NoRestart
<1>4. FrozenIsAlone' /\ MarksAreTrue'
  BY ControlConstants DEF SendTerminal, watch, gateway, turns, transport, TypeOK,
      FrozenIsAlone, MarksAreTrue, IdleIsEmpty, OwnersAreCurrent, InFlight, OpenAdmission,
      NoRestart, Terminal
<1>5. PipeIsTrue' /\ SpawnIsOrdered'
  BY ControlConstants DEF SendTerminal, watch, gateway, turns, transport, TypeOK, PipeIsTrue,
      SpawnIsOrdered, MarksAreTrue, IdleIsEmpty, Lives, Delivered, OpenAdmission, NoRestart,
      Terminal
<1> QED
  BY <1>1, <1>2, <1>3, <1>4, <1>5

LEMMA WriteStep == ASSUME IInv, NEW t \in Turns, WriteFrame(t) PROVE IInv'
<1> USE DEF IInv
<1>1. TypeOK'
  BY ControlConstants DEF WriteFrame, watch, gateway, turns, transport, TypeOK, Terminal,
      Phases, OpenAdmission, NoRestart
<1>2. OwnersAreCurrent'
  BY ControlConstants DEF WriteFrame, watch, gateway, turns, transport, TypeOK,
      OwnersAreCurrent, InFlight, ThreadBusy, FrozenIsAlone, IdleIsEmpty, OpenAdmission,
      NoRestart
<1>3. IdleIsEmpty'
  BY DEF WriteFrame, watch, gateway, turns, transport, TypeOK, IdleIsEmpty, OwnersAreCurrent,
      InFlight, Lives, OpenAdmission, NoRestart
<1>4. FrozenIsAlone' /\ MarksAreTrue'
  BY ControlConstants DEF WriteFrame, watch, gateway, turns, transport, TypeOK, FrozenIsAlone,
      MarksAreTrue, IdleIsEmpty, OwnersAreCurrent, InFlight, OpenAdmission, NoRestart,
      Terminal
<1>5. PipeIsTrue' /\ SpawnIsOrdered'
  BY ControlConstants DEF WriteFrame, watch, gateway, turns, transport, TypeOK, PipeIsTrue,
      SpawnIsOrdered, MarksAreTrue, IdleIsEmpty, Lives, Delivered, OpenAdmission, NoRestart,
      Terminal
<1> QED
  BY <1>1, <1>2, <1>3, <1>4, <1>5

LEMMA LoseStreamStep == ASSUME IInv, NEW t \in Turns, LoseStream(t) PROVE IInv'
<1> USE DEF IInv
<1>1. TypeOK'
  BY ControlConstants DEF LoseStream, Fault, watch, gateway, turns, transport, TypeOK,
      Terminal, Phases, OpenAdmission, NoRestart
<1>2. OwnersAreCurrent'
  BY ControlConstants DEF LoseStream, Fault, watch, gateway, turns, transport, TypeOK,
      OwnersAreCurrent, InFlight, ThreadBusy, FrozenIsAlone, IdleIsEmpty, OpenAdmission,
      NoRestart
<1>3. IdleIsEmpty'
  BY DEF LoseStream, Fault, watch, gateway, turns, transport, TypeOK, IdleIsEmpty,
      OwnersAreCurrent, InFlight, Lives, OpenAdmission, NoRestart
<1>4. FrozenIsAlone' /\ MarksAreTrue'
  BY ControlConstants DEF LoseStream, Fault, watch, gateway, turns, transport, TypeOK,
      FrozenIsAlone, MarksAreTrue, IdleIsEmpty, OwnersAreCurrent, InFlight, OpenAdmission,
      NoRestart, Terminal
<1>5. PipeIsTrue' /\ SpawnIsOrdered'
  BY ControlConstants DEF LoseStream, Fault, watch, gateway, turns, transport, TypeOK,
      PipeIsTrue, SpawnIsOrdered, MarksAreTrue, IdleIsEmpty, Lives, Delivered, OpenAdmission,
      NoRestart, Terminal
<1> QED
  BY <1>1, <1>2, <1>3, <1>4, <1>5

\* A cancelled request, whatever goes with it, when nothing else of the
\* invariant changes than the forwarder's phase.
LEMMA GivenUp ==
    ASSUME IInv, CancelRestart, restart.turn # None, restart.state # "committed",
           UNCHANGED <<watch, pipe, gateway, turns, link, via, received>>,
           \/ UNCHANGED forward
           \/ \E t \in Turns : forward[t] # "none" /\ forward' = [forward EXCEPT ![t] = "ended"],
           faults' \in Nat
    PROVE  IInv'
<1> USE DEF IInv
<1>1. /\ restart' \in Restarts /\ admission' \in Admissions
      /\ restart'.turn = None /\ restart'.state = "cancelled" /\ ~restart'.completed
      /\ admission'.owner = None
      /\ admission'.accepting \/ admission'.closed
  BY Cancelling
<1>2. TypeOK'
  BY <1>1 DEF watch, gateway, turns, TypeOK, Restarts, Admissions
<1>3. OwnersAreCurrent'
  BY <1>1 DEF turns, OwnersAreCurrent, InFlight
<1>4. IdleIsEmpty'
  BY DEF gateway, IdleIsEmpty, NoRestart
<1>5. FrozenIsAlone' /\ MarksAreTrue'
  BY <1>1 DEF turns, TypeOK, FrozenIsAlone, MarksAreTrue
<1>6. PipeIsTrue' /\ SpawnIsOrdered'
  BY <1>1 DEF watch, gateway, turns, PipeIsTrue, SpawnIsOrdered, Delivered
<1> QED
  BY <1>2, <1>3, <1>4, <1>5, <1>6

LEMMA DeliveredStep == ASSUME IInv, NEW t \in Turns, NotifyDelivered(t) PROVE IInv'
<1> USE DEF IInv
<1>1. /\ forward[t] = "sent" /\ t \in received
      /\ forward' = [forward EXCEPT ![t] = "ended"]
      /\ process.phase \notin {"none", "starting", "exited"}
  BY DEF NotifyDelivered, MarksAreTrue, IdleIsEmpty
<1>2. CASE UNCHANGED <<restart, admission, pipe, faults>>
  <2>1. TypeOK' /\ OwnersAreCurrent'
    BY <1>1, <1>2 DEF NotifyDelivered, watch, gateway, turns, TypeOK, OwnersAreCurrent, InFlight
  <2>2. IdleIsEmpty' /\ FrozenIsAlone' /\ MarksAreTrue' /\ PipeIsTrue' /\ SpawnIsOrdered'
    BY <1>1, <1>2 DEF NotifyDelivered, watch, gateway, turns, TypeOK, IdleIsEmpty, FrozenIsAlone,
        MarksAreTrue, PipeIsTrue, SpawnIsOrdered, Delivered
  <2> QED
    BY <2>1, <2>2
<1>3. CASE Pending(t) /\ ~restart.completed
  <2>1. restart' = [restart EXCEPT !.delivered = TRUE] /\ UNCHANGED <<admission, pipe, faults>>
    BY <1>3 DEF NotifyDelivered, MarkDelivered
  <2>2. TypeOK' /\ OwnersAreCurrent'
    <3>1. restart' \in Restarts /\ restart'.turn = restart.turn
      BY <2>1 DEF TypeOK, Restarts
    <3>2. TypeOK'
      BY <1>1, <2>1, <3>1 DEF NotifyDelivered, watch, gateway, turns, TypeOK, Restarts
    <3>3. OwnersAreCurrent'
      BY <2>1, <3>1 DEF NotifyDelivered, turns, OwnersAreCurrent, InFlight
    <3> QED
      BY <3>2, <3>3
  <2>3. IdleIsEmpty' /\ FrozenIsAlone' /\ MarksAreTrue' /\ PipeIsTrue' /\ SpawnIsOrdered'
    BY <1>1, <2>1 DEF NotifyDelivered, watch, gateway, turns, TypeOK, IdleIsEmpty, FrozenIsAlone,
        MarksAreTrue, PipeIsTrue, SpawnIsOrdered, Delivered
  <2> QED
    BY <2>2, <2>3
<1>4. CASE /\ Pending(t) /\ restart.completed
           /\ pipe' = pipe \union {t}
           /\ restart' = [restart EXCEPT !.state = "committed", !.delivered = TRUE]
           /\ UNCHANGED <<admission, faults>>
  <2>1. pipe = {} /\ restart.turn = t /\ status[t] = "completed"
    BY <1>1, <1>4 DEF Pending, PipeIsTrue, MarksAreTrue
  <2>2. TypeOK' /\ OwnersAreCurrent'
    <3>1. restart' \in Restarts /\ restart'.turn = restart.turn
      BY <1>4 DEF TypeOK, Restarts
    <3>2. TypeOK'
      BY <1>1, <1>4, <3>1 DEF NotifyDelivered, watch, gateway, turns, TypeOK, Restarts
    <3>3. OwnersAreCurrent'
      BY <1>4, <3>1 DEF NotifyDelivered, turns, OwnersAreCurrent, InFlight
    <3> QED
      BY <3>2, <3>3
  <2>3. IdleIsEmpty' /\ FrozenIsAlone' /\ MarksAreTrue'
    BY <1>1, <1>4, <2>1 DEF NotifyDelivered, gateway, turns, TypeOK, IdleIsEmpty,
        FrozenIsAlone, MarksAreTrue
  <2>4. PipeIsTrue' /\ SpawnIsOrdered'
    <3>1. pipe' = {t} /\ status'[t] = "completed" /\ t \in received' /\ restart'.state = "committed"
      BY <1>1, <1>4, <2>1 DEF NotifyDelivered, turns, TypeOK
    <3>2. PipeIsTrue'
      BY <3>1 DEF PipeIsTrue, Delivered
    <3>3. SpawnIsOrdered'
      BY <3>1, <1>1 DEF NotifyDelivered, watch, gateway, SpawnIsOrdered
    <3> QED
      BY <3>2, <3>3
  <2> QED
    BY <2>2, <2>3, <2>4
<1>5. CASE Pending(t) /\ Fault /\ CancelRestart /\ UNCHANGED pipe
  <2>1. restart.turn # None /\ restart.state # "committed"
    BY <1>5, ControlConstants DEF Pending
  <2>2. faults' \in Nat
    BY <1>5 DEF Fault, TypeOK
  <2>3. UNCHANGED <<watch, pipe, gateway, turns, link, via, received>>
    BY <1>5 DEF NotifyDelivered
  <2>4. \E u \in Turns : forward[u] # "none" /\ forward' = [forward EXCEPT ![u] = "ended"]
    BY <1>1
  <2> QED
    BY <1>5, <2>1, <2>2, <2>3, <2>4, GivenUp
<1> QED
  BY <1>2, <1>3, <1>4, <1>5 DEF NotifyDelivered, MarkDelivered

LEMMA UndeliveredStep == ASSUME IInv, NEW t \in Turns, NotifyDeliveryFailed(t) PROVE IInv'
<1> USE DEF IInv
<1>1. CASE Pending(t)
  <2>1. CancelRestart /\ restart.turn # None /\ restart.state # "committed"
    BY <1>1, ControlConstants DEF NotifyDeliveryFailed, MarkDeliveryFailed, Pending
  <2>2. faults' \in Nat
    BY DEF NotifyDeliveryFailed, TypeOK
  <2>3. UNCHANGED <<watch, pipe, gateway, turns, link, via, received>>
    BY DEF NotifyDeliveryFailed
  <2>4. \E u \in Turns : forward[u] # "none" /\ forward' = [forward EXCEPT ![u] = "ended"]
    BY DEF NotifyDeliveryFailed
  <2> QED
    BY <2>1, <2>2, <2>3, <2>4, GivenUp
<1>2. CASE ~Pending(t)
  <2>1. /\ forward[t] # "none" /\ forward' = [forward EXCEPT ![t] = "ended"]
        /\ UNCHANGED <<restart, admission>>
    BY <1>2 DEF NotifyDeliveryFailed, MarkDeliveryFailed
  <2>2. TypeOK' /\ OwnersAreCurrent'
    BY <2>1 DEF NotifyDeliveryFailed, watch, gateway, turns, TypeOK, OwnersAreCurrent, InFlight
  <2>3. IdleIsEmpty' /\ FrozenIsAlone' /\ MarksAreTrue' /\ PipeIsTrue' /\ SpawnIsOrdered'
    BY <2>1 DEF NotifyDeliveryFailed, watch, gateway, turns, TypeOK, IdleIsEmpty, FrozenIsAlone,
        MarksAreTrue, PipeIsTrue, SpawnIsOrdered, Delivered
  <2> QED
    BY <2>2, <2>3
<1> QED
  BY <1>1, <1>2

LEMMA LinkStep ==
    ASSUME IInv, NEW c \in Connections, Connect(c) \/ Disconnect(c) \/ CloseLink(c)
    PROVE IInv'
<1> USE DEF IInv
<1>1. TypeOK'
  BY ControlConstants DEF Connect, Disconnect, CloseLink, HangUp, watch, gateway, turns,
      transport, TypeOK, Terminal, Phases, OpenAdmission, NoRestart
<1>2. OwnersAreCurrent'
  BY ControlConstants DEF Connect, Disconnect, CloseLink, HangUp, watch, gateway, turns,
      transport, TypeOK, OwnersAreCurrent, InFlight, ThreadBusy, FrozenIsAlone, IdleIsEmpty,
      OpenAdmission, NoRestart
<1>3. IdleIsEmpty'
  BY DEF Connect, Disconnect, CloseLink, HangUp, watch, gateway, turns, transport, TypeOK,
      IdleIsEmpty, OwnersAreCurrent, InFlight, Lives, OpenAdmission, NoRestart
<1>4. FrozenIsAlone' /\ MarksAreTrue'
  BY ControlConstants DEF Connect, Disconnect, CloseLink, HangUp, watch, gateway, turns,
      transport, TypeOK, FrozenIsAlone, MarksAreTrue, IdleIsEmpty, OwnersAreCurrent, InFlight,
      OpenAdmission, NoRestart, Terminal
<1>5. PipeIsTrue' /\ SpawnIsOrdered'
  BY ControlConstants DEF Connect, Disconnect, CloseLink, HangUp, watch, gateway, turns,
      transport, TypeOK, PipeIsTrue, SpawnIsOrdered, MarksAreTrue, IdleIsEmpty, Lives,
      Delivered, OpenAdmission, NoRestart, Terminal
<1> QED
  BY <1>1, <1>2, <1>3, <1>4, <1>5

LEMMA WatchdogStep == ASSUME IInv, Watchdog PROVE IInv'
  BY GivenUp DEF Watchdog, IInv, TypeOK, transport

LEMMA ServeStep == ASSUME IInv, Ready \/ StopServing PROVE IInv'
<1> USE DEF IInv
<1>1. TypeOK'
  BY ControlConstants DEF Ready, StopServing, watch, gateway, turns, transport, TypeOK,
      Terminal, Phases, OpenAdmission, NoRestart
<1>2. OwnersAreCurrent'
  BY ControlConstants DEF Ready, StopServing, watch, gateway, turns, transport, TypeOK,
      OwnersAreCurrent, InFlight, ThreadBusy, FrozenIsAlone, IdleIsEmpty, OpenAdmission,
      NoRestart
<1>3. IdleIsEmpty'
  BY DEF Ready, StopServing, watch, gateway, turns, transport, TypeOK, IdleIsEmpty,
      OwnersAreCurrent, InFlight, Lives, OpenAdmission, NoRestart
<1>4. FrozenIsAlone' /\ MarksAreTrue'
  BY ControlConstants DEF Ready, StopServing, watch, gateway, turns, transport, TypeOK,
      FrozenIsAlone, MarksAreTrue, IdleIsEmpty, OwnersAreCurrent, InFlight, OpenAdmission,
      NoRestart, Terminal
<1>5. PipeIsTrue' /\ SpawnIsOrdered'
  BY ControlConstants DEF Ready, StopServing, watch, gateway, turns, transport, TypeOK,
      PipeIsTrue, SpawnIsOrdered, MarksAreTrue, IdleIsEmpty, Lives, Delivered, OpenAdmission,
      NoRestart, Terminal
<1> QED
  BY <1>1, <1>2, <1>3, <1>4, <1>5

LEMMA StopServerStep == ASSUME IInv, StopServer PROVE IInv'
<1> USE DEF IInv
<1>1. TypeOK'
  BY ControlConstants DEF StopServer, HangUp, watch, gateway, turns, transport, TypeOK,
      Terminal, Phases, OpenAdmission, NoRestart
<1>2. OwnersAreCurrent'
  BY ControlConstants DEF StopServer, HangUp, watch, gateway, turns, transport, TypeOK,
      OwnersAreCurrent, InFlight, ThreadBusy, FrozenIsAlone, IdleIsEmpty, OpenAdmission,
      NoRestart
<1>3. IdleIsEmpty'
  BY DEF StopServer, HangUp, watch, gateway, turns, transport, TypeOK, IdleIsEmpty,
      OwnersAreCurrent, InFlight, Lives, OpenAdmission, NoRestart
<1>4. FrozenIsAlone' /\ MarksAreTrue'
  BY ControlConstants DEF StopServer, HangUp, watch, gateway, turns, transport, TypeOK,
      FrozenIsAlone, MarksAreTrue, IdleIsEmpty, OwnersAreCurrent, InFlight, OpenAdmission,
      NoRestart, Terminal
<1>5. PipeIsTrue' /\ SpawnIsOrdered'
  BY ControlConstants DEF StopServer, HangUp, watch, gateway, turns, transport, TypeOK,
      PipeIsTrue, SpawnIsOrdered, MarksAreTrue, IdleIsEmpty, Lives, Delivered, OpenAdmission,
      NoRestart, Terminal
<1> QED
  BY <1>1, <1>2, <1>3, <1>4, <1>5

LEMMA ShutdownStep == ASSUME IInv, Shutdown PROVE IInv'
<1> USE DEF IInv
<1>1. /\ process' \in [phase : Phases, code : Nat] /\ process'.phase = "closing"
      /\ process.phase = "hanging_up"
  BY DEF Shutdown, TypeOK, Phases
<1>2. /\ admission' \in Admissions /\ admission'.closed
      /\ admission'.accepting = admission.accepting /\ admission'.owner = admission.owner
  BY DEF Shutdown, TypeOK, Admissions
<1>3. TypeOK'
  BY <1>1, <1>2 DEF Shutdown, TypeOK, Admissions, InFlight, watch, transport
<1>4. OwnersAreCurrent' /\ IdleIsEmpty' /\ FrozenIsAlone' /\ MarksAreTrue'
  BY <1>1, <1>2 DEF Shutdown, OwnersAreCurrent, InFlight, IdleIsEmpty, FrozenIsAlone,
      MarksAreTrue, transport
<1>5. PipeIsTrue' /\ SpawnIsOrdered'
  BY <1>1 DEF Shutdown, watch, transport, PipeIsTrue, SpawnIsOrdered, Delivered
<1> QED
  BY <1>3, <1>4, <1>5

\* A process that ends leaves nothing in memory; its frame stays on the pipe.
LEMMA ForgetStep ==
    ASSUME IInv, Forget, UNCHANGED <<readiness, boot, pipe, status>>,
           process' \in [phase : {"exited"}, code : Nat],
           \/ UNCHANGED supervisor
           \/ /\ supervisor' \in [pc : {"ended"}, stop : BOOLEAN, saw : BOOLEAN, code : Nat],
           faults' \in Nat
    PROVE  IInv'
<1> USE DEF IInv
<1>1. TypeOK'
  BY ControlConstants DEF Forget, TypeOK, Phases, OpenAdmission, NoRestart
<1>2. OwnersAreCurrent'
  BY DEF Forget, OwnersAreCurrent, InFlight, OpenAdmission, NoRestart
<1>3. IdleIsEmpty' /\ FrozenIsAlone' /\ MarksAreTrue'
  BY DEF Forget, IdleIsEmpty, FrozenIsAlone, MarksAreTrue, OpenAdmission, NoRestart
<1>4. PipeIsTrue' /\ SpawnIsOrdered'
  BY DEF Forget, PipeIsTrue, SpawnIsOrdered, Delivered
<1> QED
  BY <1>1, <1>2, <1>3, <1>4

LEMMA EndStep == ASSUME IInv, Exit \/ Crash \/ SignalKills \/ ReadinessTimeout PROVE IInv'
<1>1. CASE Exit
  BY <1>1, ForgetStep DEF Exit, watch, IInv, TypeOK
<1>2. CASE Crash
  BY <1>2, ForgetStep DEF Crash, Fault, watch, IInv, TypeOK
<1>3. CASE SignalKills
  BY <1>3, ForgetStep DEF SignalKills, watch, IInv, TypeOK
<1>4. CASE ReadinessTimeout
  <2>1. supervisor' \in [pc : {"ended"}, stop : BOOLEAN, saw : BOOLEAN, code : Nat]
    BY <1>4 DEF ReadinessTimeout, IInv, TypeOK
  <2> QED
    BY <1>4, <2>1, ForgetStep DEF ReadinessTimeout, Fault, IInv, TypeOK
<1> QED
  BY <1>1, <1>2, <1>3, <1>4

LEMMA SpawnStep == ASSUME IInv, Spawn PROVE IInv'
<1> USE DEF IInv
<1>1. /\ process.phase \in {"none", "exited"} /\ process' = [phase |-> "starting", code |-> 0]
      /\ boot' = boot + 1 /\ pipe' = {}
      /\ supervisor' = [supervisor EXCEPT !.pc = "wait", !.saw = FALSE]
      /\ UNCHANGED <<readiness, signalled, turns, admission, restart, transport, faults>>
  BY DEF Spawn, SpawnIsOrdered
<1>2. IdleIsEmpty' /\ restart = NoRestart /\ UNCHANGED restart
  BY <1>1 DEF IdleIsEmpty, turns, transport
<1>3. TypeOK'
  <2>1. /\ supervisor' \in [pc : {"spawn", "wait", "ended"}, stop : BOOLEAN, saw : BOOLEAN, code : Nat]
        /\ process' \in [phase : Phases, code : Nat]
    BY <1>1 DEF TypeOK, Phases
  <2> QED
    BY <1>1, <2>1 DEF TypeOK, turns, transport
<1>4. OwnersAreCurrent' /\ FrozenIsAlone'
  BY <1>1 DEF OwnersAreCurrent, FrozenIsAlone, InFlight, turns, transport
<1>5. MarksAreTrue' /\ PipeIsTrue' /\ SpawnIsOrdered'
  BY <1>1, <1>2 DEF MarksAreTrue, PipeIsTrue, SpawnIsOrdered, TypeOK, turns, transport, NoRestart
<1> QED
  BY <1>2, <1>3, <1>4, <1>5

\* The supervisor moves on without the process.
LEMMA SupervisorStep ==
    ASSUME IInv, SpawnBlocked \/ StopRequested \/ SeeReady \/ Reap PROVE IInv'
<1> USE DEF IInv
<1>1. /\ supervisor' \in [pc : {"spawn", "wait", "ended"}, stop : BOOLEAN, saw : BOOLEAN, code : Nat]
      /\ signalled' \in BOOLEAN
      /\ UNCHANGED <<readiness, boot, pipe, process, turns, admission, restart, transport, faults>>
  <2>1. CASE SpawnBlocked
    BY <2>1 DEF SpawnBlocked, TypeOK, gateway
  <2>2. CASE StopRequested
    BY <2>2 DEF StopRequested, TypeOK
  <2>3. CASE SeeReady
    BY <2>3 DEF SeeReady, TypeOK, gateway
  <2>4. CASE Reap
    BY <2>4 DEF Reap, TypeOK, gateway
  <2> QED
    BY <2>1, <2>2, <2>3, <2>4
<1>2. TypeOK' /\ OwnersAreCurrent'
  BY <1>1 DEF TypeOK, OwnersAreCurrent, InFlight, turns, transport
<1>3. IdleIsEmpty' /\ FrozenIsAlone' /\ MarksAreTrue' /\ PipeIsTrue'
  BY <1>1 DEF IdleIsEmpty, FrozenIsAlone, MarksAreTrue, PipeIsTrue, Delivered, turns, transport
<1>4. SpawnIsOrdered'
  <2>1. CASE Reap
    <3>1. process.phase = "exited" /\ (supervisor'.pc = "spawn" => CommitValid)
      BY <2>1 DEF Reap, TypeOK
    <3>2. CommitValid => pipe # {}
      BY FS_EmptySet DEF CommitValid
    <3> QED
      BY <1>1, <3>1, <3>2 DEF SpawnIsOrdered
  <2>2. CASE SpawnBlocked \/ StopRequested \/ SeeReady
    BY <1>1, <2>2 DEF SpawnBlocked, StopRequested, SeeReady, SpawnIsOrdered, TypeOK
  <2> QED
    BY <2>1, <2>2
<1> QED
  BY <1>2, <1>3, <1>4

LEMMA InitHolds == Init => IInv
<1> SUFFICES ASSUME Init PROVE IInv
  OBVIOUS
<1>1. TypeOK
  <2>1. /\ supervisor \in [pc : {"spawn", "wait", "ended"}, stop : BOOLEAN, saw : BOOLEAN, code : Nat]
        /\ process \in [phase : Phases, code : Nat]
    BY DEF Init, Phases
  <2>2. admission \in Admissions /\ restart \in Restarts
    BY DEF Init, OpenAdmission, NoRestart, Admissions, Restarts
  <2> QED
    BY <2>1, <2>2 DEF Init, TypeOK, Admissions, Restarts
<1>2. OwnersAreCurrent
  BY DEF Init, OwnersAreCurrent, InFlight, OpenAdmission, NoRestart
<1>3. IdleIsEmpty /\ FrozenIsAlone /\ MarksAreTrue
  BY DEF Init, IdleIsEmpty, FrozenIsAlone, MarksAreTrue, OpenAdmission, NoRestart
<1>4. PipeIsTrue /\ SpawnIsOrdered
  BY DEF Init, PipeIsTrue, SpawnIsOrdered
<1> QED
  BY <1>1, <1>2, <1>3, <1>4 DEF IInv

LEMMA StutterStep == IInv /\ UNCHANGED vars => IInv'
  BY DEF vars, IInv, TypeOK, OwnersAreCurrent, InFlight, IdleIsEmpty, FrozenIsAlone, MarksAreTrue,
      PipeIsTrue, SpawnIsOrdered, Delivered

LEMMA NextStep == IInv /\ [Next]_vars => IInv'
<1> SUFFICES ASSUME IInv, [Next]_vars PROVE IInv'
  OBVIOUS
<1>1. CASE RuntimeNext
  <2>1. ASSUME NEW t \in Turns, NEW h \in Threads, NEW c \in Connections, StartTurn(t, h, c)
        PROVE  IInv'
    BY <2>1, StartStep
  <2>2. ASSUME NEW t \in Turns,
               \/ Begin(t) \/ Arm(t) \/ Complete(t) \/ Fail(t) \/ EndCancelled(t)
               \/ LoseTerminal(t) \/ InterruptTurn(t)
        PROVE  IInv'
    BY <2>2, BeginStep, ArmStep, CompleteStep, FailStep, CancelledStep, LoseTerminalStep,
        InterruptStep
  <2>3. ASSUME NEW t \in Turns,
               \/ SendTerminal(t) \/ WriteFrame(t) \/ LoseStream(t)
               \/ NotifyDelivered(t) \/ NotifyDeliveryFailed(t)
        PROVE  IInv'
    BY <2>3, SendStep, WriteStep, LoseStreamStep, DeliveredStep, UndeliveredStep
  <2>4. ASSUME NEW c \in Connections, Connect(c) \/ Disconnect(c) \/ CloseLink(c)
        PROVE  IInv'
    BY <2>4, LinkStep
  <2> QED
    BY <1>1, <2>1, <2>2, <2>3, <2>4, WatchdogStep DEF RuntimeNext
<1>2. CASE ProcessNext
  BY <1>2, ServeStep, StopServerStep, ShutdownStep, EndStep, SpawnStep, SupervisorStep DEF
      ProcessNext
<1>3. CASE UNCHANGED vars
  BY <1>3, StutterStep
<1> QED
  BY <1>1, <1>2, <1>3 DEF Next

LEMMA Invariance == Spec => []IInv
  BY InitHolds, NextStep, PTL DEF Spec

\* For any number of turns, threads and connections: the record of every task
\* says what its task does, no thread runs two turns, and whoever froze
\* admission is the caller of the restart that is open.
THEOREM Ownership == Spec => []OwnersAreCurrent
<1>1. IInv => OwnersAreCurrent
  BY DEF IInv
<1> QED
  BY <1>1, Invariance, PTL

\* For any number of turns, threads and connections: with the commit frame on
\* the pipe there is no turn in flight and none is admitted.
THEOREM Quiet == Spec => []CommittedIsQuiet
<1>1. IInv => CommittedIsQuiet
  <2> SUFFICES ASSUME IInv, restart.state = "committed"
               PROVE  InFlight = {} /\ ~admission.accepting /\ pipe = {restart.turn}
    BY DEF CommittedIsQuiet
  <2>1. /\ restart.completed /\ pipe = {restart.turn}
        /\ restart.turn # None /\ status[restart.turn] = "completed"
    BY DEF IInv, MarksAreTrue, TypeOK
  <2>2. ~admission.accepting /\ \A t \in InFlight : t = restart.turn
    BY <2>1 DEF IInv, FrozenIsAlone, InFlight
  <2>3. \A t \in InFlight : status[t] # "completed"
    BY DEF IInv, OwnersAreCurrent
  <2> QED
    BY <2>1, <2>2, <2>3 DEF InFlight
<1> QED
  BY <1>1, Invariance, PTL

\* For any number of turns, generations and faults: a generation after the
\* first is started only for a turn that was stored as completed and whose
\* last event was written to its client.
THEOREM RelaunchAfterDelivery == Spec => RelaunchOnlyAfterDelivery
<1>1. IInv /\ [Next]_vars =>
        [boot > 0 /\ boot' # boot => \E t \in received : pipe = {t} /\ status[t] = "completed"]_vars
  <2> SUFFICES ASSUME IInv, Next, boot > 0, boot' # boot
               PROVE  Delivered
    BY DEF Delivered
  <2>1. CASE RuntimeNext
    BY <2>1 DEF RuntimeNext, StartTurn, Begin, Arm, Complete, Fail, EndCancelled, Settle,
        LoseTerminal, InterruptTurn, SendTerminal, WriteFrame, LoseStream, NotifyDelivered,
        NotifyDeliveryFailed, Connect, Disconnect, CloseLink, Watchdog, watch
  <2>2. CASE ProcessNext
    <3>1. Spawn
      BY <2>2 DEF ProcessNext, Ready, StopServing, StopServer, Shutdown, Exit, Crash,
          SpawnBlocked,
          StopRequested, SignalKills, SeeReady, ReadinessTimeout, Reap, watch
    <3> QED
      BY <3>1 DEF Spawn, IInv, SpawnIsOrdered, PipeIsTrue
  <2> QED
    BY <2>1, <2>2 DEF Next
<1> QED
  BY <1>1, Invariance, PTL DEF Spec, RelaunchOnlyAfterDelivery

(***************************************************************************)
(* Memory.  A consolidation reads a window of the messages after the       *)
(* cursor, and what makes it safe is the session's maintenance lock: who   *)
(* is at a stage between the reading and the commit holds it (LockMatches),*)
(* so the cursor has not moved since (Advances), and what the window left  *)
(* out is covered (Kept): up to the cursor, in memory and in sessions.db,  *)
(* every message is archived, and up to the end of an open window it is    *)
(* archived or among the ids that were read.  This holds only while no save *)
(* of a stale copy has dropped a message of the session.  A job that is     *)
(* past its append has its source in PENDING.md, which only grows (Filed).  *)
(***************************************************************************)

Stages == {"idle", "lock", "next", "model", "append", "written", "filed", "draft", "emit",
           "save", "copied", "txn"}

\* The stages at which a job has read its window and not moved the cursor yet.
Reading == {"model", "append", "written", "filed", "draft"}

\* The stages at which the marker of its source is in PENDING.md.
Past == {"written", "filed"}

Jobs == [at : Stages, ids : Seq(Nat), upto : Nat, before : Nat, copy : Seq(Nat)]

\* Type correctness of the sessions, the queue and the jobs.
MemoryTyping ==
    /\ log \in [SessionKeys -> Seq(Nat)]
    /\ cursor \in [SessionKeys -> Nat]
    /\ stored \in [SessionKeys -> [log : Seq(Nat), cursor : Nat]]
    /\ fresh \in Nat
    /\ turn \in [SessionKeys -> {"idle", "waiting", "guarding", "running", "saving", "silent", "stopping"}]
    /\ queue \in [SessionKeys -> Nat]
    /\ entry \in [SessionKeys -> {"none", "live", "done"}]
    /\ held \in [SessionKeys -> Callers \union {Nobody}]
    /\ job \in [SessionKeys -> [Workers -> Jobs]]
    /\ pending \in Seq(Seq(Nat))
    /\ archived \in SUBSET Nat
    /\ dropped \in [SessionKeys -> SUBSET Nat]

\* Without a queue caller, nothing is queued.
QueueServed ==
    /\ "queue" \notin Callers => \A s \in SessionKeys : queue[s] = 0 /\ entry[s] = "none"

AllJobs == [SessionKeys -> [Workers -> Jobs]]

\* Of a dead task only a thread of its own is left, which writes or saves.
ThreadsOnly == \A s \in SessionKeys :
    job[s]["orphan"].at \in {"idle", "append", "written", "save", "copied", "txn"}

MemoryTyped == MemoryTyping /\ ThreadsOnly /\ QueueServed

\* The records that a step gives a job.
Asks(s) == [IdleJob EXCEPT !.at = "lock", !.before = cursor[s]]
Starts(stage) == [IdleJob EXCEPT !.at = stage]
Takes(upto, ids) == [IdleJob EXCEPT !.at = "model", !.upto = upto, !.ids = ids]
Reads(s, c, upto, ids) == [job[s][c] EXCEPT !.at = "model", !.upto = upto, !.ids = ids]
Moves(s, c, stage) == [job[s][c] EXCEPT !.at = stage]
Lates(s, c, stage) == [IdleJob EXCEPT !.at = stage, !.before = job[s][c].before]
Copies(s, c) == [job[s][c] EXCEPT !.at = "copied", !.copy = log[s]]

Becomes(s, c, j) ==
    /\ j \in Jobs
    /\ job' \in AllJobs
    /\ \A t \in SessionKeys, d \in Workers :
          job'[t][d] = IF t = s /\ d = c THEN j ELSE job[t][d]

LEMMA PutBecomes ==
    ASSUME job \in AllJobs, NEW s \in SessionKeys, NEW c \in Workers, NEW j \in Jobs,
           job' = [job EXCEPT ![s][c] = j]
    PROVE  Becomes(s, c, j)
  BY DEF AllJobs, Becomes

LEMMA FieldAt ==
    ASSUME NEW j \in Jobs, NEW stage \in Stages
    PROVE  /\ [j EXCEPT !.at = stage] \in Jobs
           /\ [j EXCEPT !.at = stage].at = stage
           /\ [j EXCEPT !.at = stage].ids = j.ids
           /\ [j EXCEPT !.at = stage].upto = j.upto
           /\ [j EXCEPT !.at = stage].before = j.before
           /\ [j EXCEPT !.at = stage].copy = j.copy
  BY DEF Jobs

LEMMA FieldsBefore ==
    ASSUME NEW j \in Jobs, NEW stage \in Stages, NEW n \in Nat
    PROVE  /\ [j EXCEPT !.at = stage, !.before = n] \in Jobs
           /\ [j EXCEPT !.at = stage, !.before = n].at = stage
  BY DEF Jobs

LEMMA IdleIsJob == IdleJob \in Jobs /\ IdleJob.at = "idle"
  BY DEF IdleJob, Jobs, Stages

LEMMA JobRecords ==
    ASSUME MemoryTyping, NEW s \in SessionKeys
    PROVE  /\ Asks(s) \in Jobs /\ Asks(s).at = "lock"
           /\ \A stage \in Stages : Starts(stage) \in Jobs /\ Starts(stage).at = stage
           /\ \A upto \in Nat, ids \in Seq(Nat) :
                 /\ Takes(upto, ids) \in Jobs /\ Takes(upto, ids).at = "model"
                 /\ Takes(upto, ids).upto = upto /\ Takes(upto, ids).ids = ids
           /\ \A c \in Workers :
                 /\ job[s][c] \in Jobs
                 /\ \A upto \in Nat, ids \in Seq(Nat) :
                       /\ Reads(s, c, upto, ids) \in Jobs /\ Reads(s, c, upto, ids).at = "model"
                       /\ Reads(s, c, upto, ids).upto = upto /\ Reads(s, c, upto, ids).ids = ids
                 /\ \A stage \in Stages :
                       /\ Moves(s, c, stage) \in Jobs /\ Moves(s, c, stage).at = stage
                       /\ Moves(s, c, stage).ids = job[s][c].ids
                       /\ Moves(s, c, stage).upto = job[s][c].upto
                       /\ Moves(s, c, stage).copy = job[s][c].copy
                       /\ Lates(s, c, stage) \in Jobs /\ Lates(s, c, stage).at = stage
                 /\ Copies(s, c) \in Jobs /\ Copies(s, c).at = "copied" /\ Copies(s, c).copy = log[s]
<1>1. cursor[s] \in Nat /\ log[s] \in Seq(Nat) /\ \A c \in Workers : job[s][c] \in Jobs
  BY DEF MemoryTyping
<1>2. "lock" \in Stages /\ "model" \in Stages /\ "copied" \in Stages /\ <<>> \in Seq(Nat) /\ 0 \in Nat
  BY DEF Stages
<1>3. Asks(s) \in Jobs /\ Asks(s).at = "lock"
  <2>1. ASSUME NEW j \in Jobs, NEW n \in Nat
        PROVE  /\ [j EXCEPT !.at = "lock", !.before = n] \in Jobs
               /\ [j EXCEPT !.at = "lock", !.before = n].at = "lock"
    BY DEF Jobs, Stages
  <2> QED
    BY <1>1, <2>1, IdleIsJob DEF Asks
<1>4. ASSUME NEW stage \in Stages PROVE Starts(stage) \in Jobs /\ Starts(stage).at = stage
  BY <1>2, IdleIsJob, FieldAt DEF Starts
<1>5. ASSUME NEW upto \in Nat, NEW ids \in Seq(Nat)
      PROVE  /\ Takes(upto, ids) \in Jobs /\ Takes(upto, ids).at = "model"
             /\ Takes(upto, ids).upto = upto /\ Takes(upto, ids).ids = ids
  <2>1. ASSUME NEW j \in Jobs
        PROVE  /\ [j EXCEPT !.at = "model", !.upto = upto, !.ids = ids] \in Jobs
               /\ [j EXCEPT !.at = "model", !.upto = upto, !.ids = ids].at = "model"
               /\ [j EXCEPT !.at = "model", !.upto = upto, !.ids = ids].upto = upto
               /\ [j EXCEPT !.at = "model", !.upto = upto, !.ids = ids].ids = ids
    BY DEF Jobs, Stages
  <2> QED
    BY <1>1, <2>1, IdleIsJob DEF Takes
<1>6. ASSUME NEW c \in Workers, NEW upto \in Nat, NEW ids \in Seq(Nat)
      PROVE  /\ Reads(s, c, upto, ids) \in Jobs /\ Reads(s, c, upto, ids).at = "model"
             /\ Reads(s, c, upto, ids).upto = upto /\ Reads(s, c, upto, ids).ids = ids
  <2>1. ASSUME NEW j \in Jobs
        PROVE  /\ [j EXCEPT !.at = "model", !.upto = upto, !.ids = ids] \in Jobs
               /\ [j EXCEPT !.at = "model", !.upto = upto, !.ids = ids].at = "model"
               /\ [j EXCEPT !.at = "model", !.upto = upto, !.ids = ids].upto = upto
               /\ [j EXCEPT !.at = "model", !.upto = upto, !.ids = ids].ids = ids
    BY DEF Jobs, Stages
  <2> QED
    BY <1>1, <2>1, IdleIsJob DEF Reads
<1>7. ASSUME NEW c \in Workers, NEW stage \in Stages
      PROVE  /\ Moves(s, c, stage) \in Jobs /\ Moves(s, c, stage).at = stage
             /\ Moves(s, c, stage).ids = job[s][c].ids
             /\ Moves(s, c, stage).upto = job[s][c].upto
             /\ Moves(s, c, stage).copy = job[s][c].copy
  BY <1>1, <1>2, FieldAt DEF Moves
<1>8. ASSUME NEW c \in Workers, NEW stage \in Stages
      PROVE  Lates(s, c, stage) \in Jobs /\ Lates(s, c, stage).at = stage
  <2>1. job[s][c].before \in Nat
    BY <1>1 DEF Jobs
  <2> QED
    BY <2>1, <1>2, IdleIsJob, FieldsBefore DEF Lates
<1>9. ASSUME NEW c \in Workers
      PROVE  Copies(s, c) \in Jobs /\ Copies(s, c).at = "copied" /\ Copies(s, c).copy = log[s]
  <2>1. ASSUME NEW j \in Jobs, NEW l \in Seq(Nat)
        PROVE  /\ [j EXCEPT !.at = "copied", !.copy = l] \in Jobs
               /\ [j EXCEPT !.at = "copied", !.copy = l].at = "copied"
               /\ [j EXCEPT !.at = "copied", !.copy = l].copy = l
    BY DEF Jobs, Stages
  <2> QED
    BY <1>1, <2>1 DEF Copies
<1> QED
  BY <1>1, <1>3, <1>4, <1>5, <1>6, <1>7, <1>8, <1>9

\* What the assignments of the actions do to the jobs.
LEMMA JobBecomes ==
    ASSUME MemoryTyping, NEW s \in SessionKeys, NEW c \in Workers
    PROVE  /\ job' = NoJob(s, c) => Becomes(s, c, IdleJob)
           /\ job' = [job EXCEPT ![s][c] = [IdleJob EXCEPT !.at = "lock", !.before = cursor[s]]]
                 => Becomes(s, c, Asks(s))
           /\ \A stage \in Stages :
                 /\ job' = Job(s, c, stage) => Becomes(s, c, Moves(s, c, stage))
                 /\ job' = Late(s, c, stage) => Becomes(s, c, Lates(s, c, stage))
                 /\ job' = [job EXCEPT ![s][c] = [IdleJob EXCEPT !.at = stage]]
                       => Becomes(s, c, Starts(stage))
           /\ \A upto \in Nat, ids \in Seq(Nat) :
                 /\ job' = [job EXCEPT ![s][c] =
                              [IdleJob EXCEPT !.at = "model", !.upto = upto, !.ids = ids]]
                       => Becomes(s, c, Takes(upto, ids))
                 /\ job' = [job EXCEPT ![s][c].at = "model", ![s][c].upto = upto, ![s][c].ids = ids]
                       => Becomes(s, c, Reads(s, c, upto, ids))
           /\ job' = [job EXCEPT ![s][c].at = "copied", ![s][c].copy = log[s]]
                 => Becomes(s, c, Copies(s, c))
<1>1. job \in AllJobs
  BY DEF MemoryTyping, AllJobs
<1> HIDE DEF IdleJob
<1>2. ASSUME NEW stage \in Stages
      PROVE  /\ Job(s, c, stage) = [job EXCEPT ![s][c] = Moves(s, c, stage)]
             /\ Late(s, c, stage) = [job EXCEPT ![s][c] = Lates(s, c, stage)]
             /\ [job EXCEPT ![s][c] = [IdleJob EXCEPT !.at = stage]]
                  = [job EXCEPT ![s][c] = Starts(stage)]
  BY <1>1 DEF Job, Late, Moves, Lates, Starts, AllJobs
<1>3. ASSUME NEW upto \in Nat, NEW ids \in Seq(Nat)
      PROVE  [job EXCEPT ![s][c].at = "model", ![s][c].upto = upto, ![s][c].ids = ids]
               = [job EXCEPT ![s][c] = Reads(s, c, upto, ids)]
  BY <1>1, Zenon DEF Reads, AllJobs
<1>4. [job EXCEPT ![s][c].at = "copied", ![s][c].copy = log[s]]
        = [job EXCEPT ![s][c] = Copies(s, c)]
  BY <1>1, Zenon DEF Copies, AllJobs
<1>5. job' = NoJob(s, c) => Becomes(s, c, IdleJob)
  BY <1>1, IdleIsJob, PutBecomes DEF NoJob
<1>6. job' = [job EXCEPT ![s][c] = [IdleJob EXCEPT !.at = "lock", !.before = cursor[s]]]
        => Becomes(s, c, Asks(s))
  BY <1>1, JobRecords, PutBecomes DEF Asks
<1>7. ASSUME NEW stage \in Stages
      PROVE  /\ job' = Job(s, c, stage) => Becomes(s, c, Moves(s, c, stage))
             /\ job' = Late(s, c, stage) => Becomes(s, c, Lates(s, c, stage))
             /\ job' = [job EXCEPT ![s][c] = [IdleJob EXCEPT !.at = stage]]
                   => Becomes(s, c, Starts(stage))
  <2>1. Moves(s, c, stage) \in Jobs /\ Lates(s, c, stage) \in Jobs /\ Starts(stage) \in Jobs
    BY JobRecords
  <2> QED
    BY <1>1, <1>2, <2>1, PutBecomes
<1>8. ASSUME NEW upto \in Nat, NEW ids \in Seq(Nat)
      PROVE  /\ job' = [job EXCEPT ![s][c] =
                          [IdleJob EXCEPT !.at = "model", !.upto = upto, !.ids = ids]]
                   => Becomes(s, c, Takes(upto, ids))
             /\ job' = [job EXCEPT ![s][c].at = "model", ![s][c].upto = upto, ![s][c].ids = ids]
                   => Becomes(s, c, Reads(s, c, upto, ids))
  <2>1. Takes(upto, ids) \in Jobs /\ Reads(s, c, upto, ids) \in Jobs
    BY JobRecords
  <2> QED
    BY <1>1, <1>3, <2>1, PutBecomes DEF Takes
<1>9. job' = [job EXCEPT ![s][c].at = "copied", ![s][c].copy = log[s]] => Becomes(s, c, Copies(s, c))
  <2>1. Copies(s, c) \in Jobs
    BY JobRecords
  <2> QED
    BY <1>1, <1>4, <2>1, PutBecomes
<1> HIDE DEF Becomes, Asks, Moves, Lates, Starts, Takes, Reads, Copies, NoJob, Job, Late
<1> QED
  BY <1>5, <1>6, <1>7, <1>8, <1>9

OrphanStages == {"idle", "append", "written", "save", "copied", "txn"}

\* A cancelled call leaves its job to the thread it had started.
Orphaned(s) ==
    /\ "turn" \in Callers
    /\ ThreadOf(job[s]["turn"]) \in Jobs
    /\ job[s]["turn"].at \in OrphanStages \ {"idle"}
    /\ job[s]["orphan"] = IdleJob
    /\ job' \in AllJobs
    /\ \A t \in SessionKeys, d \in Workers :
          job'[t][d] = IF t = s /\ d = "turn" THEN IdleJob
                       ELSE IF t = s /\ d = "orphan" THEN ThreadOf(job[s]["turn"]) ELSE job[t][d]

LEMMA PutAt ==
    ASSUME NEW f \in AllJobs, NEW s \in SessionKeys, NEW c \in Workers, NEW j \in Jobs
    PROVE  /\ [f EXCEPT ![s][c] = j] \in AllJobs
           /\ \A t \in SessionKeys, d \in Workers :
                [f EXCEPT ![s][c] = j][t][d] = IF t = s /\ d = c THEN j ELSE f[t][d]
  BY DEF AllJobs

LEMMA ThreadKeeps ==
    ASSUME NEW j \in Jobs
    PROVE  /\ ThreadOf(j) \in Jobs /\ ThreadOf(j).upto = 0
           /\ ThreadOf(j).at = j.at /\ ThreadOf(j).ids = j.ids /\ ThreadOf(j).copy = j.copy
  BY DEF Jobs, ThreadOf

LEMMA Abandons ==
    ASSUME MemoryTyped, NEW s \in SessionKeys, AbandonCall(s), "turn" \in Callers
    PROVE  Orphaned(s) \/ Becomes(s, "turn", IdleJob)
<1>1. CASE job' = NoJob(s, "turn") /\ ~ThreadAtWork(s)
  BY <1>1, JobBecomes DEF MemoryTyped, Workers
<1>2. CASE /\ ThreadAtWork(s) \/ ThreadAsked(s)
           /\ job[s]["orphan"] = IdleJob
           /\ job' = [job EXCEPT ![s]["orphan"] = ThreadOf(job[s]["turn"]), ![s]["turn"] = IdleJob]
  <2>1. job[s]["turn"].at \in OrphanStages \ {"idle"}
    BY <1>2 DEF ThreadAtWork, ThreadAsked, OrphanStages
  <2>2. job \in AllJobs /\ ThreadOf(job[s]["turn"]) \in Jobs /\ IdleJob \in Jobs
        /\ "turn" \in Workers /\ "orphan" \in Workers
    BY IdleIsJob, ThreadKeeps DEF MemoryTyped, MemoryTyping, AllJobs, Workers
  <2> DEFINE first == [job EXCEPT ![s]["orphan"] = ThreadOf(job[s]["turn"])]
  <2>5. job' = [first EXCEPT ![s]["turn"] = IdleJob]
    BY <1>2, <2>2 DEF AllJobs, first
  <2>6. /\ first \in AllJobs
        /\ \A t \in SessionKeys, d \in Workers :
              first[t][d] = IF t = s /\ d = "orphan" THEN ThreadOf(job[s]["turn"]) ELSE job[t][d]
    BY <2>2 DEF AllJobs
  <2> HIDE DEF first
  <2>3. job' \in AllJobs
    BY <2>2, <2>5, <2>6, PutAt
  <2>4. \A t \in SessionKeys, d \in Workers :
          job'[t][d] = IF t = s /\ d = "turn" THEN IdleJob
                       ELSE IF t = s /\ d = "orphan" THEN ThreadOf(job[s]["turn"]) ELSE job[t][d]
    <3>1. \A t \in SessionKeys, d \in Workers :
            job'[t][d] = IF t = s /\ d = "turn" THEN IdleJob ELSE first[t][d]
      BY <2>2, <2>5, <2>6, PutAt
    <3>2. "turn" # "orphan"
      OBVIOUS
    <3> SUFFICES ASSUME NEW t \in SessionKeys, NEW d \in Workers
                 PROVE  job'[t][d] = IF t = s /\ d = "turn" THEN IdleJob
                          ELSE IF t = s /\ d = "orphan" THEN ThreadOf(job[s]["turn"]) ELSE job[t][d]
      OBVIOUS
    <3>3. job'[t][d] = IF t = s /\ d = "turn" THEN IdleJob ELSE first[t][d]
      BY <3>1
    <3>4. first[t][d] = IF t = s /\ d = "orphan" THEN ThreadOf(job[s]["turn"]) ELSE job[t][d]
      BY <2>6
    <3> QED
      BY <3>2, <3>3, <3>4
  <2> QED
    BY <1>2, <2>1, <2>2, <2>3, <2>4 DEF Orphaned
<1> QED
  BY <1>1, <1>2 DEF AbandonCall

\* How a consolidation hands back.
Finishes(s, c) ==
    /\ Becomes(s, c, IdleJob)
    /\ held' = [held EXCEPT ![s] = Nobody]
    /\ \/ c = "queue" /\ entry' = [entry EXCEPT ![s] = "done"] /\ turn' = turn
       \/ c # "queue" /\ entry' = entry
          /\ turn' = IF c = "turn" THEN AfterGuard(s, cursor[s] > job[s][c].before) ELSE turn

HandsBack(s, c) ==
    \/ /\ c = "queue" /\ \E stage \in {"save", "next"} : Becomes(s, c, Starts(stage))
       /\ UNCHANGED <<turn, entry, held>>
    \/ /\ c # "queue" /\ Becomes(s, c, Starts("save"))
       /\ held' = [held EXCEPT ![s] = Nobody]
       /\ UNCHANGED <<turn, entry>>
    \/ Finishes(s, c)

LEMMA ReturnsHandBack ==
    ASSUME MemoryTyped, NEW s \in SessionKeys, NEW c \in Workers, NEW drafted \in BOOLEAN,
           NEW raised \in BOOLEAN, Returns(s, c, drafted, raised)
    PROVE  HandsBack(s, c)
<1>1. CASE c = "queue" /\ raised
  BY <1>1, JobBecomes DEF Returns, MemoryTyped, TaskEnds, Release, HandsBack, Finishes
<1>2. CASE c = "queue" /\ ~raised
  <2>1. /\ job' = [job EXCEPT ![s][c] = [IdleJob EXCEPT !.at = IF drafted THEN "save" ELSE "next"]]
        /\ UNCHANGED <<turn, entry, held>>
    BY <1>2 DEF Returns, Anew
  <2>2. (IF drafted THEN "save" ELSE "next") \in Stages
    BY DEF Stages
  <2>3. \E stage \in {"save", "next"} : Becomes(s, c, Starts(stage))
    <3>1. CASE drafted
      BY <2>1, <2>2, <3>1, JobBecomes DEF MemoryTyped
    <3>2. CASE ~drafted
      BY <2>1, <2>2, <3>2, JobBecomes DEF MemoryTyped
    <3> QED
      BY <3>1, <3>2
  <2> QED
    BY <1>2, <2>1, <2>3 DEF HandsBack
<1>3. CASE c # "queue" /\ ~raised /\ cursor[s] > job[s][c].before
  <2>1. "save" \in Stages
    BY DEF Stages
  <2>2. job' = Anew(s, c, "save") /\ Release(s) /\ UNCHANGED <<turn, entry>>
    <3>1. cursor[s] \in Nat /\ job[s][c] \in Jobs
      BY DEF MemoryTyped, MemoryTyping
    <3>2. job[s][c].before \in Nat
      BY <3>1 DEF Jobs
    <3> QED
      BY <1>3, <3>1, <3>2 DEF Returns
  <2>3. Becomes(s, c, Starts("save"))
    BY <2>1, <2>2, JobBecomes DEF MemoryTyped, Anew
  <2> QED
    BY <1>3, <2>2, <2>3 DEF Release, HandsBack
<1>4. CASE c # "queue" /\ (raised \/ ~(cursor[s] > job[s][c].before))
  <2>1. /\ job' = NoJob(s, c)
        /\ turn' = IF c = "turn" THEN AfterGuard(s, cursor[s] > job[s][c].before) ELSE turn
        /\ Release(s) /\ UNCHANGED entry
    BY <1>4 DEF Returns
  <2>2. Becomes(s, c, IdleJob)
    BY <2>1, JobBecomes DEF MemoryTyped
  <2> QED
    BY <1>4, <2>1, <2>2 DEF Release, HandsBack, Finishes
<1> QED
  BY <1>1, <1>2, <1>3, <1>4

LEMMA StageNames ==
    /\ "lock" \in Stages /\ "next" \in Stages /\ "model" \in Stages /\ "append" \in Stages
    /\ "written" \in Stages /\ "draft" \in Stages /\ "emit" \in Stages /\ "save" \in Stages
    /\ "copied" \in Stages /\ "txn" \in Stages /\ "filed" \in Stages
  BY DEF Stages

\* A window is part of the session, and ends after the cursor.
Windowed(s, upto, ids) ==
    /\ cursor[s] < upto /\ upto <= Len(log[s])
    /\ \A i \in cursor[s] + 1 .. upto : log[s][i] \in Range(ids)

LEMMA WindowsRead ==
    ASSUME MemoryTyping, NEW s \in SessionKeys, NEW force \in BOOLEAN, HasWindow(s, force)
    PROVE  /\ Until(s, force) \in Nat
           /\ Window(s, force) \in Seq(Nat)
           /\ Windowed(s, Until(s, force), Window(s, force))
<1>1. log[s] \in Seq(Nat) /\ cursor[s] \in Nat /\ Keep \in Nat /\ Len(log[s]) \in Nat
  BY ConsolidationConstants DEF MemoryTyping
<1>2. Until(s, force) \in Nat /\ cursor[s] < Until(s, force) /\ Until(s, force) <= Len(log[s])
  <2>1. PICK k \in Nat : Until(s, force) = Len(log[s]) - k
    BY <1>1 DEF Until
  <2>2. Until(s, force) > cursor[s]
    BY DEF HasWindow
  <2> QED
    BY <1>1, <2>1, <2>2
<1> HIDE DEF Until
<1>3. Window(s, force) \in Seq(Nat)
  BY <1>1, <1>2 DEF Window
<1>4. ASSUME NEW i \in cursor[s] + 1 .. Until(s, force)
      PROVE  log[s][i] \in Range(Window(s, force))
  <2> DEFINE a == cursor[s] + 1
             b == Until(s, force)
             k == i - cursor[s]
  <2>1. /\ a \in Nat /\ b \in Nat /\ a <= b /\ b <= Len(log[s]) /\ a >= 1 /\ k \in 1 .. b - a + 1
        /\ a + k - 1 = i /\ log[s] \in Seq(Nat)
    <3>1. /\ cursor[s] \in Nat /\ Until(s, force) \in Nat /\ cursor[s] < Until(s, force)
          /\ Until(s, force) <= Len(log[s]) /\ i \in cursor[s] + 1 .. Until(s, force)
      BY <1>1, <1>2
    <3>2. ASSUME NEW x \in Nat, NEW u \in Nat, x < u, NEW y \in x + 1 .. u
          PROVE  /\ x + 1 \in Nat /\ x + 1 <= u /\ x + 1 >= 1
                 /\ y - x \in 1 .. u - (x + 1) + 1
                 /\ x + 1 + (y - x) - 1 = y
      OBVIOUS
    <3> QED
      BY <1>1, <3>1, <3>2
  <2> HIDE DEF a, b, k
  <2>2. /\ Len(SubSeq(log[s], a, b)) = b - a + 1
        /\ SubSeq(log[s], a, b)[k] = log[s][a + k - 1]
        /\ DOMAIN SubSeq(log[s], a, b) = 1 .. b - a + 1
    BY <2>1
  <2>3. Window(s, force)[k] = log[s][i] /\ k \in DOMAIN Window(s, force)
    BY <2>1, <2>2 DEF Window, a, b
  <2> QED
    BY <2>3 DEF Range
<1> QED
  BY <1>1, <1>2, <1>3, <1>4 DEF Windowed

LEMMA BecomesTyped ==
    ASSUME MemoryTyped, NEW s \in SessionKeys, NEW c \in Workers, NEW j, Becomes(s, c, j),
           c = "orphan" => j.at \in OrphanStages
    PROVE  /\ job' \in [SessionKeys -> [Workers -> Jobs]]
           /\ ThreadsOnly'
  BY DEF Becomes, AllJobs, ThreadsOnly, MemoryTyped, Workers, OrphanStages

LEMMA OrphanedType ==
    ASSUME MemoryTyped, NEW s \in SessionKeys, Orphaned(s)
    PROVE  /\ job' \in [SessionKeys -> [Workers -> Jobs]]
           /\ ThreadsOnly'
<1>1. ThreadOf(job[s]["turn"]).at \in OrphanStages
  BY ThreadKeeps DEF Orphaned, MemoryTyped, MemoryTyping, Workers
<1> QED
  BY <1>1 DEF Orphaned, AllJobs, ThreadsOnly, MemoryTyped, Workers, OrphanStages

LEMMA TurnJobs ==
    ASSUME MemoryTyped, NEW s \in SessionKeys
    PROVE  /\ Guard(s) => \/ turn'[s] = "running" /\ job' = job
                          \/ turn'[s] = "guarding" /\ "turn" \in Callers /\ Becomes(s, "turn", Asks(s))
           /\ Compact(s) => "turn" \in Callers /\ Becomes(s, "turn", Asks(s))
           /\ ControlAsks(s) => "control" \in Callers /\ Becomes(s, "control", Asks(s))
           /\ CallTimesOut(s) \/ CancelTurn(s) =>
                 \/ job' = job /\ held' = held /\ ~InCall(s)
                 \/ /\ "turn" \in Callers
                    /\ held' = [held EXCEPT ![s] = IF @ = "turn" THEN Nobody ELSE @]
                    /\ Orphaned(s) \/ Becomes(s, "turn", IdleJob)
<1>1. turn \in [SessionKeys -> {"idle", "waiting", "guarding", "running", "saving", "silent", "stopping"}]
  BY DEF MemoryTyped, MemoryTyping
<1>2. Guard(s) => \/ turn'[s] = "running" /\ job' = job
                  \/ turn'[s] = "guarding" /\ "turn" \in Callers /\ Becomes(s, "turn", Asks(s))
  BY <1>1, JobBecomes DEF Guard, MemoryTyped, Workers
<1>3. Compact(s) => "turn" \in Callers /\ Becomes(s, "turn", Asks(s))
  BY JobBecomes DEF Compact, MemoryTyped, Workers
<1>4. ControlAsks(s) => "control" \in Callers /\ Becomes(s, "control", Asks(s))
  BY JobBecomes DEF ControlAsks, MemoryTyped, Workers
<1>5. ASSUME CallTimesOut(s) \/ CancelTurn(s)
      PROVE  \/ job' = job /\ held' = held /\ ~InCall(s)
             \/ /\ "turn" \in Callers
                /\ held' = [held EXCEPT ![s] = IF @ = "turn" THEN Nobody ELSE @]
                /\ Orphaned(s) \/ Becomes(s, "turn", IdleJob)
  <2>1. CASE InCall(s) /\ AbandonCall(s)
    <3>1. "turn" \in Callers /\ held' = [held EXCEPT ![s] = IF @ = "turn" THEN Nobody ELSE @]
      BY <2>1 DEF InCall, AbandonCall
    <3> QED
      BY <2>1, <3>1, Abandons
  <2>2. CASE ~InCall(s) /\ UNCHANGED <<job, held>>
    BY <2>2
  <2> QED
    BY <1>5, <2>1, <2>2 DEF CallTimesOut, CancelTurn
<1> QED
  BY <1>2, <1>3, <1>4, <1>5

LEMMA TaskJobs ==
    ASSUME MemoryTyped, NEW s \in SessionKeys
    PROVE  /\ TurnSaves(s) => \/ job' = job /\ entry' = entry /\ queue' = queue
                              \/ /\ "queue" \in Callers /\ queue' = [queue EXCEPT ![s] = @ + 1]
                                 /\ entry' = [entry EXCEPT ![s] = IF @ = "none" THEN "live" ELSE @]
                                 /\ IF entry[s] = "none" THEN Becomes(s, "queue", Moves(s, "queue", "lock"))
                                    ELSE job' = job
           /\ DoneCallback(s) => \/ job' = job /\ entry' = [entry EXCEPT ![s] = "none"] /\ ~Relaunch(s)
                                 \/ /\ "queue" \in Callers /\ entry' = [entry EXCEPT ![s] = "live"]
                                    /\ Becomes(s, "queue", Moves(s, "queue", "lock"))
           /\ "queue" \in Callers /\ TakeEvent(s) =>
                 \/ job' = job /\ UNCHANGED <<entry, held>>
                 \/ /\ \E upto \in Nat, ids \in Seq(Nat) :
                          Windowed(s, upto, ids) /\ Becomes(s, "queue", Takes(upto, ids))
                    /\ UNCHANGED <<entry, held>>
                 \/ Finishes(s, "queue")
           /\ "queue" \in Callers /\ QueueEmpty(s) => Becomes(s, "queue", IdleJob)
<1>1. TurnSaves(s) => \/ job' = job /\ entry' = entry /\ queue' = queue
                      \/ /\ "queue" \in Callers /\ queue' = [queue EXCEPT ![s] = @ + 1]
                         /\ entry' = [entry EXCEPT ![s] = IF @ = "none" THEN "live" ELSE @]
                         /\ IF entry[s] = "none" THEN Becomes(s, "queue", Moves(s, "queue", "lock"))
                            ELSE job' = job
  BY JobBecomes, StageNames DEF TurnSaves, MemoryTyped, Workers
<1>2. DoneCallback(s) => \/ job' = job /\ entry' = [entry EXCEPT ![s] = "none"] /\ ~Relaunch(s)
                         \/ /\ "queue" \in Callers /\ entry' = [entry EXCEPT ![s] = "live"]
                            /\ Becomes(s, "queue", Moves(s, "queue", "lock"))
  BY JobBecomes, StageNames DEF DoneCallback, MemoryTyped, Workers, QueueServed
<1>3. "queue" \in Callers /\ TakeEvent(s) =>
         \/ job' = job /\ UNCHANGED <<entry, held>>
         \/ /\ \E upto \in Nat, ids \in Seq(Nat) :
                  Windowed(s, upto, ids) /\ Becomes(s, "queue", Takes(upto, ids))
            /\ UNCHANGED <<entry, held>>
         \/ Finishes(s, "queue")
  <2>1. CASE HasWindow(s, FALSE)
    <3>1. Until(s, FALSE) \in Nat /\ Window(s, FALSE) \in Seq(Nat)
          /\ Windowed(s, Until(s, FALSE), Window(s, FALSE))
      BY <2>1, WindowsRead DEF MemoryTyped
    <3>2. "queue" \in Callers /\ TakeEvent(s)
            => /\ Becomes(s, "queue", Takes(Until(s, FALSE), Window(s, FALSE)))
               /\ UNCHANGED <<entry, held>>
      BY <2>1, <3>1, JobBecomes DEF TakeEvent, MemoryTyped, Workers
    <3> QED
      BY <3>1, <3>2
  <2>2. ASSUME "queue" \in Callers, TakeEvent(s), TaskEnds(s) PROVE Finishes(s, "queue")
    BY <2>2, JobBecomes DEF TakeEvent, TaskEnds, Release, Finishes, MemoryTyped, Workers
  <2> QED
    BY <2>1, <2>2 DEF TakeEvent
<1>4. "queue" \in Callers /\ QueueEmpty(s) => Becomes(s, "queue", IdleJob)
  BY JobBecomes DEF QueueEmpty, TaskEnds, MemoryTyped, Workers
<1> QED
  BY <1>1, <1>2, <1>3, <1>4

LEMMA CallJobs ==
    ASSUME MemoryTyped, NEW s \in SessionKeys, NEW c \in Workers
    PROVE  /\ Locked(s, c) =>
                 /\ c \in Callers
                 /\ \/ /\ c = "queue" /\ Becomes(s, c, Moves(s, c, "next"))
                       /\ held' = [held EXCEPT ![s] = c] /\ UNCHANGED <<turn, entry>>
                    \/ /\ c # "queue"
                       /\ \E upto \in Nat, ids \in Seq(Nat) :
                             Windowed(s, upto, ids) /\ Becomes(s, c, Reads(s, c, upto, ids))
                       /\ held' = [held EXCEPT ![s] = c] /\ UNCHANGED <<turn, entry>>
                    \/ c # "queue" /\ HandsBack(s, c)
           /\ ModelsAnswer(s, c) =>
                 /\ c \in Callers
                 /\ \/ /\ \E stage \in {"append", "draft"} : Becomes(s, c, Moves(s, c, stage))
                       /\ UNCHANGED <<turn, entry, held>>
                    \/ HandsBack(s, c)
           /\ AppendFacts(s, c) =>
                 \/ c = "orphan" /\ Becomes(s, c, IdleJob)
                 \/ c \in Callers /\ Becomes(s, c, Moves(s, c, "filed"))
                 \/ Becomes(s, c, Moves(s, c, "written"))
           /\ IndexFacts(s, c) =>
                 \/ c = "orphan" /\ Becomes(s, c, IdleJob)
                 \/ c \in Callers /\ Becomes(s, c, Moves(s, c, "filed"))
           /\ DraftFails(s, c) \/ WriteStops(s, c) =>
                 \/ /\ c = "orphan" /\ Becomes(s, c, IdleJob)
                    /\ UNCHANGED <<turn, entry, held>>
                 \/ c \in Callers /\ HandsBack(s, c)
           /\ CommitDraft(s, c) => c \in Callers /\ Becomes(s, c, Lates(s, c, "emit"))
           /\ Emit(s, c) => c \in Callers /\ HandsBack(s, c)
           /\ SaveCopies(s, c) => Becomes(s, c, Copies(s, c))
           /\ SaveAssigns(s, c) => Becomes(s, c, Lates(s, c, "txn"))
           /\ SaveCommits(s, c) =>
                 \/ c = "queue" /\ Becomes(s, c, Moves(s, c, "next")) /\ UNCHANGED <<entry, held, turn>>
                 \/ c = "queue" /\ Finishes(s, c)
                 \/ /\ c # "queue" /\ Becomes(s, c, IdleJob) /\ UNCHANGED <<entry, held>>
                    /\ \E ok \in BOOLEAN : turn' = IF c = "turn" THEN AfterGuard(s, ok) ELSE turn
<1>1. c \in Callers \/ c = "orphan"
  BY DEF Workers
<1>2. job[s][c].at \in {"lock", "model", "filed", "draft", "emit"} => c \in Callers
  BY <1>1 DEF MemoryTyped, ThreadsOnly
<1>3. MemoryTyping
  BY DEF MemoryTyped
<1>4. Locked(s, c) =>
         \/ /\ c = "queue" /\ Becomes(s, c, Moves(s, c, "next"))
            /\ held' = [held EXCEPT ![s] = c] /\ UNCHANGED <<turn, entry>>
         \/ /\ c # "queue"
            /\ \E upto \in Nat, ids \in Seq(Nat) :
                  Windowed(s, upto, ids) /\ Becomes(s, c, Reads(s, c, upto, ids))
            /\ held' = [held EXCEPT ![s] = c] /\ UNCHANGED <<turn, entry>>
         \/ c # "queue" /\ HandsBack(s, c)
  <2>1. CASE c = "queue"
    BY <1>3, <2>1, JobBecomes, StageNames DEF Locked
  <2>2. CASE c # "queue" /\ HasWindow(s, TRUE)
    <3>1. Until(s, TRUE) \in Nat /\ Window(s, TRUE) \in Seq(Nat)
          /\ Windowed(s, Until(s, TRUE), Window(s, TRUE))
      BY <1>3, <2>2, WindowsRead
    <3>2. Locked(s, c) => /\ Becomes(s, c, Reads(s, c, Until(s, TRUE), Window(s, TRUE)))
                          /\ held' = [held EXCEPT ![s] = c] /\ UNCHANGED <<turn, entry>>
      BY <1>3, <2>2, <3>1, JobBecomes DEF Locked
    <3> QED
      BY <2>2, <3>1, <3>2
  <2>3. CASE c # "queue" /\ ~HasWindow(s, TRUE)
    BY <2>3, ReturnsHandBack DEF Locked
  <2> QED
    BY <2>1, <2>2, <2>3
<1>5. ModelsAnswer(s, c) =>
         \/ /\ \E stage \in {"append", "draft"} : Becomes(s, c, Moves(s, c, stage))
            /\ UNCHANGED <<turn, entry, held>>
         \/ HandsBack(s, c)
  <2>1. ASSUME NEW stage \in {"append", "draft"}, job' = Job(s, c, stage)
        PROVE  Becomes(s, c, Moves(s, c, stage))
    BY <1>3, <2>1, JobBecomes, StageNames
  <2> QED
    BY <2>1, ReturnsHandBack DEF ModelsAnswer
<1>6. job' = Appended(s, c) => \/ c = "orphan" /\ Becomes(s, c, IdleJob)
                               \/ c \in Callers /\ Becomes(s, c, Moves(s, c, "filed"))
  BY <1>1, <1>3, JobBecomes, StageNames DEF Appended
<1>7. job' = Job(s, c, "written") => Becomes(s, c, Moves(s, c, "written"))
  BY <1>3, JobBecomes, StageNames
<1>8. job' = Late(s, c, "emit") => Becomes(s, c, Lates(s, c, "emit"))
  BY <1>3, JobBecomes, StageNames
<1>9. job' = Late(s, c, "txn") => Becomes(s, c, Lates(s, c, "txn"))
  BY <1>3, JobBecomes, StageNames
<1>10. Emit(s, c) => HandsBack(s, c)
  BY ReturnsHandBack DEF Emit
<1>11. SaveCopies(s, c) => Becomes(s, c, Copies(s, c))
  BY <1>3, JobBecomes DEF SaveCopies
<1>12. SaveCommits(s, c) =>
         \/ c = "queue" /\ Becomes(s, c, Moves(s, c, "next")) /\ UNCHANGED <<entry, held, turn>>
         \/ c = "queue" /\ Finishes(s, c)
         \/ /\ c # "queue" /\ Becomes(s, c, IdleJob) /\ UNCHANGED <<entry, held>>
            /\ \E ok \in BOOLEAN : turn' = IF c = "turn" THEN AfterGuard(s, ok) ELSE turn
  <2> SUFFICES ASSUME SaveCommits(s, c)
               PROVE  \/ c = "queue" /\ Becomes(s, c, Moves(s, c, "next")) /\ UNCHANGED <<entry, held, turn>>
                      \/ c = "queue" /\ Finishes(s, c)
                      \/ /\ c # "queue" /\ Becomes(s, c, IdleJob) /\ UNCHANGED <<entry, held>>
                         /\ \E ok \in BOOLEAN : turn' = IF c = "turn" THEN AfterGuard(s, ok) ELSE turn
    OBVIOUS
  <2>1. job' = Job(s, c, "next") => Becomes(s, c, Moves(s, c, "next"))
    BY <1>3, JobBecomes, StageNames
  <2>2. job' = NoJob(s, c) => Becomes(s, c, IdleJob)
    BY <1>3, JobBecomes
  <2>3. CASE c = "queue" /\ MaySave(s)
    BY <2>1, <2>3 DEF SaveCommits
  <2>4. CASE c = "queue" /\ ~MaySave(s)
    BY <2>2, <2>4 DEF SaveCommits, TaskEnds, Release, Finishes
  <2>5. CASE c # "queue" /\ MaySave(s)
    BY <2>2, <2>5 DEF SaveCommits
  <2>6. CASE c # "queue" /\ ~MaySave(s)
    BY <2>2, <2>6 DEF SaveCommits
  <2> QED
    BY <2>3, <2>4, <2>5, <2>6
<1>13. Locked(s, c) \/ ModelsAnswer(s, c) \/ CommitDraft(s, c) \/ Emit(s, c) => c \in Callers
  BY <1>2 DEF Locked, ModelsAnswer, CommitDraft, Emit
<1>14. /\ AppendFacts(s, c) => job' = Appended(s, c) \/ job' = Job(s, c, "written")
       /\ IndexFacts(s, c) => job' = Appended(s, c)
       /\ CommitDraft(s, c) => job' = Late(s, c, "emit")
       /\ SaveAssigns(s, c) => job' = Late(s, c, "txn")
  BY DEF AppendFacts, IndexFacts, CommitDraft, SaveAssigns
<1>15. DraftFails(s, c) \/ WriteStops(s, c) =>
          \/ /\ c = "orphan" /\ Becomes(s, c, IdleJob)
             /\ UNCHANGED <<turn, entry, held>>
          \/ c \in Callers /\ HandsBack(s, c)
  <2>1. DraftFails(s, c) \/ WriteStops(s, c) => Raises(s, c)
    BY DEF DraftFails, WriteStops
  <2>2. CASE c = "orphan"
    BY <1>3, <2>1, <2>2, JobBecomes DEF Raises
  <2>3. CASE c # "orphan"
    BY <1>1, <2>1, <2>3, ReturnsHandBack DEF Raises
  <2> QED
    BY <2>2, <2>3
<1> QED
  BY <1>4, <1>5, <1>6, <1>7, <1>8, <1>9, <1>10, <1>11, <1>12, <1>13, <1>14, <1>15

LEMMA JobFields ==
    ASSUME MemoryTyping, NEW s \in SessionKeys, NEW c \in Workers
    PROVE  /\ job[s][c].at \in Stages
           /\ job[s][c].ids \in Seq(Nat) /\ job[s][c].upto \in Nat /\ job[s][c].copy \in Seq(Nat)
           /\ Range(job[s][c].ids) \subseteq Nat
<1>1. job[s][c] \in Jobs
  BY DEF MemoryTyping
<1>2. job[s][c].at \in Stages /\ job[s][c].ids \in Seq(Nat) /\ job[s][c].upto \in Nat
      /\ job[s][c].copy \in Seq(Nat)
  BY <1>1 DEF Jobs
<1> QED
  BY <1>2 DEF Range

LEMMA HandBackTyped ==
    ASSUME MemoryTyped, NEW s \in SessionKeys, NEW c \in Callers, HandsBack(s, c)
    PROVE  /\ job' \in [SessionKeys -> [Workers -> Jobs]]
           /\ ThreadsOnly'
           /\ turn' \in [SessionKeys -> {"idle", "waiting", "guarding", "running", "saving",
                                         "silent", "stopping"}]
           /\ entry' \in [SessionKeys -> {"none", "live", "done"}]
           /\ "queue" \notin Callers => entry' = entry
           /\ held' \in [SessionKeys -> Callers \union {Nobody}]
<1>1. c \in Workers /\ c # "orphan"
  BY ConsolidationConstants DEF Workers
<1>2. /\ job' \in [SessionKeys -> [Workers -> Jobs]]
      /\ ThreadsOnly'
  BY <1>1, BecomesTyped DEF HandsBack, Finishes
<1> HIDE DEF Becomes
<1>3. /\ turn' \in [SessionKeys -> {"idle", "waiting", "guarding", "running", "saving",
                                    "silent", "stopping"}]
      /\ entry' \in [SessionKeys -> {"none", "live", "done"}]
      /\ "queue" \notin Callers => entry' = entry
      /\ held' \in [SessionKeys -> Callers \union {Nobody}]
  BY DEF HandsBack, Finishes, AfterGuard, MemoryTyped, MemoryTyping
<1> QED
  BY <1>2, <1>3

LEMMA UnmovedType ==
    ASSUME MemoryTyped, job' = job
    PROVE  /\ job' \in [SessionKeys -> [Workers -> Jobs]]
           /\ ThreadsOnly'
  BY DEF MemoryTyped, MemoryTyping, ThreadsOnly

LEMMA TypedTurn ==
    ASSUME MemoryTyped, NEW s \in SessionKeys,
           \/ TurnBegins(s) \/ Guard(s) \/ Compact(s) \/ CallTimesOut(s) \/ TurnSaves(s)
           \/ \E how \in {"saving", "silent"} : TurnAdds(s, how)
           \/ CancelTurn(s) \/ ControlAsks(s)
    PROVE  MemoryTyped'
<1> USE DEF MemoryTyped, MemoryTyping, QueueServed, messages, maintenance, files, notes
<1> HIDE DEF Becomes, Orphaned, ThreadsOnly
<1>1. "turn" \in Callers => "turn" \in Workers /\ "turn" # "orphan"
  BY DEF Workers
<1>2. Asks(s) \in Jobs /\ Asks(s).at = "lock"
  BY JobRecords
<1>3. \A c \in Workers \ {"orphan"} : \A j : Becomes(s, c, j) =>
         job' \in [SessionKeys -> [Workers -> Jobs]] /\ ThreadsOnly'
  BY BecomesTyped
<1>4. Orphaned(s) => job' \in [SessionKeys -> [Workers -> Jobs]] /\ ThreadsOnly'
  BY OrphanedType
<1>5. CASE TurnBegins(s)
  <2>1. job' \in [SessionKeys -> [Workers -> Jobs]] /\ ThreadsOnly'
    BY <1>5, UnmovedType DEF TurnBegins
  <2> QED
    BY <1>5, <2>1 DEF TurnBegins
<1>6. CASE Guard(s)
  <2>1. job' \in [SessionKeys -> [Workers -> Jobs]] /\ ThreadsOnly'
    BY <1>1, <1>3, <1>6, TurnJobs, UnmovedType
  <2>2. turn' \in [SessionKeys -> {"idle", "waiting", "guarding", "running", "saving",
                                   "silent", "stopping"}]
    BY <1>6 DEF Guard
  <2> QED
    BY <1>6, <2>1, <2>2 DEF Guard
<1>7. CASE Compact(s)
  <2>1. job' \in [SessionKeys -> [Workers -> Jobs]] /\ ThreadsOnly'
    BY <1>1, <1>3, <1>7, TurnJobs
  <2> QED
    BY <1>7, <2>1 DEF Compact
<1>8. CASE CallTimesOut(s) \/ CancelTurn(s)
  <2>1. job' \in [SessionKeys -> [Workers -> Jobs]] /\ ThreadsOnly'
    BY <1>1, <1>3, <1>4, <1>8, TurnJobs, UnmovedType
  <2>2. held' \in [SessionKeys -> Callers \union {Nobody}]
    <3>1. held' = held \/ held' = [held EXCEPT ![s] = IF @ = "turn" THEN Nobody ELSE @]
      BY <1>8, TurnJobs
    <3>2. held \in [SessionKeys -> Callers \union {Nobody}]
      OBVIOUS
    <3> QED
      BY <3>1, <3>2
  <2>3. CASE CallTimesOut(s)
    BY <2>1, <2>2, <2>3 DEF CallTimesOut
  <2>4. CASE CancelTurn(s)
    <3>1. log' \in [SessionKeys -> Seq(Nat)] /\ fresh' \in Nat
      <4>1. log \in [SessionKeys -> Seq(Nat)] /\ fresh \in Nat
        OBVIOUS
      <4>2. \/ log' = log /\ fresh' = fresh
            \/ log' = [log EXCEPT ![s] = @ \o <<fresh + 1, fresh + 2>>] /\ fresh' = fresh + 2
        BY <2>4 DEF CancelTurn
      <4>3. log[s] \o <<fresh + 1, fresh + 2>> \in Seq(Nat)
        BY <4>1
      <4>4. ASSUME NEW l \in Seq(Nat) PROVE [log EXCEPT ![s] = l] \in [SessionKeys -> Seq(Nat)]
        BY <4>1
      <4>5. log' \in [SessionKeys -> Seq(Nat)]
        BY <4>1, <4>2, <4>3, <4>4
      <4>6. fresh' \in Nat
        BY <4>1, <4>2
      <4> QED
        BY <4>5, <4>6
    <3> QED
      BY <2>1, <2>2, <2>4, <3>1 DEF CancelTurn
  <2> QED
    BY <1>8, <2>3, <2>4
<1>9. CASE TurnSaves(s)
  <2>1. job' \in [SessionKeys -> [Workers -> Jobs]] /\ ThreadsOnly'
    BY <1>3, <1>9, TaskJobs, UnmovedType DEF Workers
  <2>2. /\ queue' \in [SessionKeys -> Nat] /\ entry' \in [SessionKeys -> {"none", "live", "done"}]
        /\ "queue" \notin Callers => queue' = queue /\ entry' = entry
    <3>1. \/ queue' = queue /\ entry' = entry
          \/ /\ "queue" \in Callers /\ queue' = [queue EXCEPT ![s] = @ + 1]
             /\ entry' = [entry EXCEPT ![s] = IF @ = "none" THEN "live" ELSE @]
      BY <1>9, TaskJobs
    <3>2. queue \in [SessionKeys -> Nat] /\ entry \in [SessionKeys -> {"none", "live", "done"}]
      OBVIOUS
    <3>3. CASE queue' = queue /\ entry' = entry
      BY <3>2, <3>3
    <3>4. CASE /\ "queue" \in Callers /\ queue' = [queue EXCEPT ![s] = @ + 1]
               /\ entry' = [entry EXCEPT ![s] = IF @ = "none" THEN "live" ELSE @]
      <4>1. queue' \in [SessionKeys -> Nat]
        BY <3>2, <3>4
      <4>2. entry' \in [SessionKeys -> {"none", "live", "done"}]
        BY <3>2, <3>4
      <4> QED
        BY <3>4, <4>1, <4>2
    <3> QED
      BY <3>1, <3>3, <3>4
  <2>3. stored' \in [SessionKeys -> [log : Seq(Nat), cursor : Nat]]
    BY <1>9 DEF TurnSaves, Image
  <2> QED
    BY <1>9, <2>1, <2>2, <2>3 DEF TurnSaves
<1>10. ASSUME NEW how \in {"saving", "silent"}, TurnAdds(s, how) PROVE MemoryTyped'
  <2>1. log' \in [SessionKeys -> Seq(Nat)] /\ fresh' \in Nat
    BY <1>10 DEF TurnAdds
  <2>2. job' \in [SessionKeys -> [Workers -> Jobs]] /\ ThreadsOnly'
    BY <1>10, UnmovedType DEF TurnAdds
  <2> QED
    BY <1>10, <2>1, <2>2 DEF TurnAdds
<1>11. CASE ControlAsks(s)
  <2>1. job' \in [SessionKeys -> [Workers -> Jobs]] /\ ThreadsOnly'
    BY <1>3, <1>11, TurnJobs DEF Workers
  <2> QED
    BY <1>11, <2>1 DEF ControlAsks
<1> QED
  BY <1>5, <1>6, <1>7, <1>8, <1>9, <1>10, <1>11

LEMMA TypedTask ==
    ASSUME MemoryTyped, NEW s \in SessionKeys,
           DoneCallback(s) \/ ("queue" \in Callers /\ MaintenanceStep(s))
    PROVE  MemoryTyped'
<1> USE DEF MemoryTyped, MemoryTyping, QueueServed, messages, maintenance, files, notes
<1> HIDE DEF Becomes, Orphaned, ThreadsOnly
<1>1. \A c \in Workers \ {"orphan"} : \A j : Becomes(s, c, j) =>
         job' \in [SessionKeys -> [Workers -> Jobs]] /\ ThreadsOnly'
  BY BecomesTyped
<1>2. CASE DoneCallback(s)
  <2>1. job' \in [SessionKeys -> [Workers -> Jobs]] /\ ThreadsOnly'
    BY <1>1, <1>2, TaskJobs, UnmovedType DEF Workers
  <2>2. /\ entry' \in [SessionKeys -> {"none", "live", "done"}]
        /\ "queue" \notin Callers => \A t \in SessionKeys : entry'[t] = "none"
    BY <1>2, TaskJobs
  <2> QED
    BY <1>2, <2>1, <2>2 DEF DoneCallback
<1>3. CASE "queue" \in Callers /\ TakeEvent(s)
  <2>0. \/ job' = job /\ UNCHANGED <<entry, held>>
        \/ /\ \E j : Becomes(s, "queue", j)
           /\ \/ UNCHANGED <<entry, held>>
              \/ /\ entry' = [entry EXCEPT ![s] = "done"]
                 /\ held' = [held EXCEPT ![s] = Nobody]
    <3>1. CASE Finishes(s, "queue")
      BY <3>1 DEF Finishes
    <3> QED
      BY <1>3, <3>1, TaskJobs
  <2>1. job' \in [SessionKeys -> [Workers -> Jobs]] /\ ThreadsOnly'
    BY <1>1, <1>3, <2>0, UnmovedType DEF Workers
  <2>2. queue' \in [SessionKeys -> Nat]
    BY <1>3 DEF TakeEvent
  <2>3. /\ entry' \in [SessionKeys -> {"none", "live", "done"}]
        /\ held' \in [SessionKeys -> Callers \union {Nobody}]
    BY <2>0
  <2> QED
    BY <1>3, <2>1, <2>2, <2>3 DEF TakeEvent
<1>4. CASE "queue" \in Callers /\ QueueEmpty(s)
  <2>1. job' \in [SessionKeys -> [Workers -> Jobs]] /\ ThreadsOnly'
    BY <1>1, <1>4, TaskJobs DEF Workers
  <2> QED
    BY <1>4, <2>1 DEF QueueEmpty, TaskEnds, Release
<1> QED
  BY <1>2, <1>3, <1>4 DEF MaintenanceStep

LEMMA TypedCall ==
    ASSUME MemoryTyped, NEW s \in SessionKeys, NEW c \in Workers, JobStep(s, c)
    PROVE  MemoryTyped'
<1> USE DEF MemoryTyped, QueueServed
<1> DEFINE Rest == /\ log' \in [SessionKeys -> Seq(Nat)]
                   /\ cursor' \in [SessionKeys -> Nat]
                   /\ stored' \in [SessionKeys -> [log : Seq(Nat), cursor : Nat]]
                   /\ fresh' \in Nat
                   /\ queue' = queue
                   /\ pending' \in Seq(Seq(Nat))
                   /\ archived' \in SUBSET Nat
                   /\ dropped' \in [SessionKeys -> SUBSET Nat]
           Mine == /\ job' \in [SessionKeys -> [Workers -> Jobs]]
                   /\ ThreadsOnly'
           Shared == /\ turn' \in [SessionKeys -> {"idle", "waiting", "guarding", "running", "saving",
                                                   "silent", "stopping"}]
                     /\ entry' \in [SessionKeys -> {"none", "live", "done"}]
                     /\ "queue" \notin Callers => entry' = entry
                     /\ held' \in [SessionKeys -> Callers \union {Nobody}]
<1>1. \A j : Becomes(s, c, j) /\ (c \in Callers \/ j.at \in OrphanStages) => Mine
  <2>1. c \in Callers => c # "orphan"
    BY ConsolidationConstants
  <2> QED
    BY <2>1, BecomesTyped
<1>2. c \in Callers /\ HandsBack(s, c) => Mine /\ Shared
  BY HandBackTyped
<1>3. \A stage \in Stages : /\ Moves(s, c, stage).at = stage
                            /\ Lates(s, c, stage).at = stage
                            /\ Copies(s, c).at = "copied" /\ IdleJob.at = "idle"
  BY JobRecords, IdleIsJob
<1>4. {"written", "txn", "copied", "idle"} \subseteq OrphanStages
  BY DEF OrphanStages
<1>5. Rest
  <2> USE DEF MemoryTyping, messages, maintenance, files, notes
  <2>1. CASE \/ Locked(s, c) \/ ModelsAnswer(s, c) \/ IndexFacts(s, c) \/ DraftFails(s, c)
             \/ Emit(s, c) \/ SaveCopies(s, c)
    BY <2>1 DEF Locked, ModelsAnswer, IndexFacts, DraftFails, Emit, SaveCopies
  <2>2. CASE AppendFacts(s, c) \/ WriteStops(s, c)
    <3>1. job[s][c].ids \in Seq(Nat)
      BY JobFields
    <3>2. ASSUME NEW q \in Seq(Seq(Nat)), NEW e \in Seq(Nat) PROVE Append(q, e) \in Seq(Seq(Nat))
      OBVIOUS
    <3>3. pending' \in Seq(Seq(Nat))
      BY <2>2, <3>1, <3>2 DEF AppendFacts, WriteStops, Write
    <3> QED
      BY <2>2, <3>3 DEF AppendFacts, WriteStops
  <2>3. CASE CommitDraft(s, c)
    BY <2>3, JobFields DEF CommitDraft, CursorAfter
  <2>4. CASE SaveAssigns(s, c)
    <3>1. job[s][c].copy \in Seq(Nat) /\ Range(log[s]) \subseteq Nat
      BY JobFields DEF Range
    <3> QED
      BY <2>4, <3>1 DEF SaveAssigns
  <2>5. CASE SaveCommits(s, c)
    <3>1. Image(s) \in [log : Seq(Nat), cursor : Nat]
      BY DEF Image
    <3>2. stored' = stored \/ stored' = [stored EXCEPT ![s] = Image(s)]
      BY <2>5 DEF SaveCommits
    <3>3. stored' \in [SessionKeys -> [log : Seq(Nat), cursor : Nat]]
      BY <3>1, <3>2
    <3> QED
      BY <2>5, <3>3 DEF SaveCommits
  <2> QED
    BY <2>1, <2>2, <2>3, <2>4, <2>5 DEF JobStep
<1>6. Mine /\ Shared
  <2> HIDE DEF Becomes, HandsBack, Moves, Lates, Copies, Reads
  <2>0. /\ turn \in [SessionKeys -> {"idle", "waiting", "guarding", "running", "saving",
                                     "silent", "stopping"}]
        /\ entry \in [SessionKeys -> {"none", "live", "done"}]
        /\ held \in [SessionKeys -> Callers \union {Nobody}]
    BY DEF MemoryTyping
  <2>1. CASE Locked(s, c)
    BY <1>1, <1>2, <2>0, <2>1, CallJobs
  <2>2. CASE ModelsAnswer(s, c) \/ Emit(s, c)
    BY <1>1, <1>2, <2>0, <2>2, CallJobs
  <2>7. CASE DraftFails(s, c) \/ WriteStops(s, c)
    BY <1>1, <1>2, <1>3, <1>4, <2>0, <2>7, CallJobs, StageNames
  <2>3. CASE AppendFacts(s, c)
    <3>1. Mine
      BY <1>1, <1>3, <1>4, <2>3, CallJobs, StageNames
    <3> QED
      BY <2>0, <2>3, <3>1 DEF AppendFacts, maintenance
  <2>4. CASE IndexFacts(s, c) 
    <3>1. Mine
      BY <1>1, <1>3, <1>4, <2>4, CallJobs, StageNames
    <3> QED
      BY <2>0, <2>4, <3>1 DEF IndexFacts, maintenance
  <2>5. CASE CommitDraft(s, c) \/ SaveCopies(s, c) \/ SaveAssigns(s, c)
    <3>1. Mine
      BY <1>1, <1>3, <1>4, <2>5, CallJobs, StageNames
    <3> QED
      BY <2>0, <2>5, <3>1 DEF CommitDraft, SaveCopies, SaveAssigns, maintenance
  <2>6. CASE SaveCommits(s, c)
    <3>1. c = "queue" => c \in Callers
      BY DEF Workers
    <3>2. Mine
      <4>1. Becomes(s, c, IdleJob) \/ (c \in Callers /\ Becomes(s, c, Moves(s, c, "next")))
        BY <2>6, <3>1, CallJobs DEF Finishes
      <4>2. IdleJob.at \in OrphanStages
        BY <1>3, <1>4, StageNames
      <4> QED
        BY <1>1, <4>1, <4>2
    <3>3. Shared
      BY <2>0, <2>6, <3>1, CallJobs DEF Finishes, AfterGuard
    <3> QED
      BY <3>2, <3>3
  <2> QED
    BY <2>1, <2>2, <2>3, <2>4, <2>5, <2>6, <2>7 DEF JobStep
<1> QED
  BY <1>5, <1>6 DEF MemoryTyping

LEMMA TypedStep == MemoryTyped /\ [MemoryNext]_memoryVars => MemoryTyped'
<1> SUFFICES ASSUME MemoryTyped, [MemoryNext]_memoryVars PROVE MemoryTyped'
  OBVIOUS
<1>1. CASE UNCHANGED memoryVars
  BY <1>1 DEF memoryVars, MemoryTyped, MemoryTyping, ThreadsOnly, QueueServed
<1>2. CASE ProgramDies
  <2>1. IdleJob \in Jobs /\ IdleJob.at = "idle"
    BY IdleIsJob
  <2>2. "orphan" \in Workers
    BY DEF Workers
  <2> QED
    BY <1>2, <2>1, <2>2 DEF ProgramDies, MemoryTyped, MemoryTyping, ThreadsOnly, QueueServed, files, notes
<1>3. ASSUME NEW s \in SessionKeys, TurnStep(s) \/ CancelTurn(s) \/ ControlAsks(s) PROVE MemoryTyped'
  BY <1>3, TypedTurn DEF TurnStep
<1>4. ASSUME NEW s \in SessionKeys, DoneCallback(s) \/ ("queue" \in Callers /\ MaintenanceStep(s))
      PROVE  MemoryTyped'
  BY <1>4, TypedTask
<1>5. ASSUME NEW s \in SessionKeys, NEW c \in Workers, JobStep(s, c) PROVE MemoryTyped'
  BY <1>5, TypedCall
<1> QED
  BY <1>1, <1>2, <1>3, <1>4, <1>5 DEF MemoryNext

\* A caller at this stage of its consolidation has the maintenance lock.
HoldAt(c, stage) ==
    \/ c # "orphan" /\ stage \in {"model", "append", "written", "filed", "draft", "emit"}
    \/ c = "queue" /\ stage \in {"next", "save", "copied", "txn"}

\* The maintenance lock of s is with the caller whose stage needs it.
LockMatches(s) ==
    \A c \in Workers :
        /\ c \in Callers => (held[s] = c <=> HoldAt(c, job[s][c].at))
        /\ job[s][c].at = "idle" => job[s][c] = IdleJob
        /\ job[s][c].at = "next" => c = "queue"

\* What is queued has a task, and a turn that waits has a consolidation.
NobodyForgotten(s) ==
    /\ queue[s] > 0 => entry[s] # "none"
    /\ "queue" \in Callers => (entry[s] = "live" <=> job[s]["queue"].at # "idle")
    /\ turn[s] = "guarding" => "turn" \in Callers /\ job[s]["turn"].at # "idle"
    /\ "turn" \in Callers /\ turn[s] \notin {"guarding", "running"} => job[s]["turn"].at = "idle"

Ordered == \A s \in SessionKeys : LockMatches(s) /\ NobodyForgotten(s)

\* The lock follows the stage of the job that moves.
LEMMA LockFollows ==
    ASSUME MemoryTyped, Ordered, NEW s \in SessionKeys, NEW c \in Workers, NEW j, Becomes(s, c, j),
           j.at = "idle" => j = IdleJob,
           j.at = "next" => c = "queue",
           \/ ~HoldAt(c, j.at) /\ ~HoldAt(c, job[s][c].at) /\ held' = held
           \/ HoldAt(c, j.at) /\ HoldAt(c, job[s][c].at) /\ held' = held
           \/ ~HoldAt(c, j.at) /\ HoldAt(c, job[s][c].at) /\ held' = [held EXCEPT ![s] = Nobody]
           \/ ~HoldAt(c, j.at) /\ held[s] = Nobody /\ held' = [held EXCEPT ![s] = Nobody]
           \/ HoldAt(c, j.at) /\ c \in Callers /\ held[s] = Nobody /\ held' = [held EXCEPT ![s] = c]
    PROVE  \A t \in SessionKeys : LockMatches(t)'
<1> SUFFICES ASSUME NEW t \in SessionKeys, NEW d \in Workers
             PROVE  /\ d \in Callers => (held'[t] = d <=> HoldAt(d, job'[t][d].at))
                    /\ job'[t][d].at = "idle" => job'[t][d] = IdleJob
                    /\ job'[t][d].at = "next" => d = "queue"
  BY DEF LockMatches
<1>1. /\ held \in [SessionKeys -> Callers \union {Nobody}]
      /\ \A q \in SessionKeys, e \in Callers : held[q] = e <=> HoldAt(e, job[q][e].at)
  BY DEF MemoryTyped, MemoryTyping, Ordered, LockMatches, Workers
<1>2. Nobody \notin Callers /\ "orphan" \notin Callers
  BY ConsolidationConstants
<1>3. job'[t][d] = IF t = s /\ d = c THEN j ELSE job[t][d]
  BY DEF Becomes
<1>4. /\ job'[t][d].at = "idle" => job'[t][d] = IdleJob
      /\ job'[t][d].at = "next" => d = "queue"
  BY <1>3 DEF Ordered, LockMatches
<1>5. ASSUME d \in Callers PROVE held'[t] = d <=> HoldAt(d, job'[t][d].at)
  <2>1. CASE t # s
    BY <1>1, <1>3, <1>5, <2>1
  <2>2. CASE t = s /\ d # c
    <3>1. held[s] = d <=> HoldAt(d, job[s][d].at)
      BY <1>1, <1>5
    <3>2. c \in Callers => (held[s] = c <=> HoldAt(c, job[s][c].at))
      BY <1>1
    <3>3. ~(c \in Callers) => ~HoldAt(c, job[s][c].at) /\ ~HoldAt(c, j.at)
      BY DEF HoldAt, Workers
    <3>4. held'[s] = d <=> held[s] = d
      BY <1>1, <1>2, <1>5, <2>2, <3>2, <3>3
    <3> QED
      BY <1>3, <2>2, <3>1, <3>4
  <2>3. CASE t = s /\ d = c
    <3>1. held[s] = c <=> HoldAt(c, job[s][c].at)
      BY <1>1, <1>5, <2>3
    <3>2. held'[s] = c <=> HoldAt(c, j.at)
      BY <1>1, <1>2, <1>5, <2>3, <3>1
    <3> QED
      BY <1>3, <2>3, <3>2
  <2> QED
    BY <2>1, <2>2, <2>3
<1> QED
  BY <1>4, <1>5

\* The stage of c's job after j took its place.
StageThen(s, c, j, d) == IF d = c THEN j.at ELSE job[s][d].at

LEMMA WaitFollows ==
    ASSUME MemoryTyped, Ordered, NEW s \in SessionKeys, NEW c \in Workers, NEW j, Becomes(s, c, j),
           \A t \in SessionKeys \ {s} :
              turn'[t] = turn[t] /\ entry'[t] = entry[t] /\ queue'[t] = queue[t],
           queue'[s] > 0 => entry'[s] # "none",
           "queue" \in Callers => (entry'[s] = "live" <=> StageThen(s, c, j, "queue") # "idle"),
           turn'[s] = "guarding" => "turn" \in Callers /\ StageThen(s, c, j, "turn") # "idle",
           "turn" \in Callers /\ turn'[s] \notin {"guarding", "running"}
              => StageThen(s, c, j, "turn") = "idle"
    PROVE  \A t \in SessionKeys : NobodyForgotten(t)'
<1> SUFFICES ASSUME NEW t \in SessionKeys PROVE NobodyForgotten(t)'
  OBVIOUS
<1>1. \A d \in Workers : job'[t][d] = IF t = s /\ d = c THEN j ELSE job[t][d]
  BY DEF Becomes
<1>2. ("queue" \in Callers => "queue" \in Workers) /\ ("turn" \in Callers => "turn" \in Workers)
  BY DEF Workers
<1>3. CASE t # s
  BY <1>1, <1>2, <1>3 DEF Ordered, NobodyForgotten
<1>4. CASE t = s
  BY <1>1, <1>2, <1>4 DEF StageThen, NobodyForgotten
<1> QED
  BY <1>3, <1>4

\* Nothing but the turn of s moves, and it stays away from its guard.
LEMMA TurnFollows ==
    ASSUME MemoryTyped, Ordered, NEW s \in SessionKeys, job' = job, held' = held,
           entry' = entry, queue' = queue,
           \A t \in SessionKeys \ {s} : turn'[t] = turn[t],
           turn'[s] = "guarding" => turn[s] = "guarding",
           "turn" \in Callers /\ turn'[s] \notin {"guarding", "running"}
              => job[s]["turn"].at = "idle"
    PROVE  Ordered'
<1>1. ASSUME NEW t \in SessionKeys PROVE LockMatches(t)'
  BY DEF Ordered, LockMatches
<1>2. ASSUME NEW t \in SessionKeys PROVE NobodyForgotten(t)'
  BY DEF Ordered, NobodyForgotten
<1> QED
  BY <1>1, <1>2 DEF Ordered

LEMMA OrderedTurn ==
    ASSUME MemoryTyped, Ordered, NEW s \in SessionKeys,
           \/ TurnBegins(s) \/ Guard(s) \/ Compact(s) \/ ControlAsks(s)
           \/ \E how \in {"saving", "silent"} : TurnAdds(s, how)
    PROVE  Ordered'
<1>1. turn \in [SessionKeys -> {"idle", "waiting", "guarding", "running", "saving", "silent",
                                "stopping"}]
  BY DEF MemoryTyped, MemoryTyping
<1>2. NobodyForgotten(s) /\ LockMatches(s)
  BY DEF Ordered
<1>3. Asks(s).at = "lock" /\ IdleJob.at = "idle"
  BY JobRecords, IdleIsJob DEF MemoryTyped
<1>4. \A c : ~HoldAt(c, "lock") /\ ~HoldAt(c, "idle")
  BY DEF HoldAt
<1>5. CASE TurnBegins(s)
  BY <1>1, <1>2, <1>5, TurnFollows DEF TurnBegins, maintenance, NobodyForgotten
<1>6. CASE Guard(s) /\ turn'[s] = "running" /\ job' = job
  BY <1>1, <1>6, TurnFollows DEF Guard, maintenance
<1>7. CASE Guard(s) /\ turn'[s] = "guarding" /\ "turn" \in Callers /\ Becomes(s, "turn", Asks(s))
  <2>1. job[s]["turn"].at = "idle" /\ "turn" \in Workers
    BY <1>2, <1>7 DEF Guard, NobodyForgotten, Workers
  <2>2. /\ held' = held /\ entry' = entry /\ queue' = queue
        /\ \A t \in SessionKeys \ {s} : turn'[t] = turn[t]
    BY <1>1, <1>7 DEF Guard, maintenance
  <2>3. \A t \in SessionKeys : LockMatches(t)'
    BY <1>3, <1>4, <1>7, <2>1, <2>2, LockFollows
  <2>4. \A t \in SessionKeys : NobodyForgotten(t)'
    BY <1>2, <1>3, <1>7, <2>1, <2>2, WaitFollows DEF StageThen, NobodyForgotten
  <2> QED
    BY <2>3, <2>4 DEF Ordered
<1>8. CASE Compact(s)
  <2>1. "turn" \in Callers /\ Becomes(s, "turn", Asks(s)) /\ "turn" \in Workers
        /\ job[s]["turn"].at = "idle" /\ turn[s] = "running"
    BY <1>3, <1>8, TurnJobs DEF Compact, Workers
  <2>2. held' = held /\ entry' = entry /\ queue' = queue /\ turn' = turn
    BY <1>8 DEF Compact, maintenance
  <2>3. \A t \in SessionKeys : LockMatches(t)'
    BY <1>3, <1>4, <2>1, <2>2, LockFollows
  <2>4. \A t \in SessionKeys : NobodyForgotten(t)'
    BY <1>2, <1>3, <2>1, <2>2, WaitFollows DEF StageThen, NobodyForgotten
  <2> QED
    BY <2>3, <2>4 DEF Ordered
<1>9. CASE ControlAsks(s)
  <2>1. "control" \in Callers /\ Becomes(s, "control", Asks(s)) /\ "control" \in Workers
        /\ job[s]["control"].at = "idle"
    BY <1>3, <1>9, TurnJobs DEF ControlAsks, Workers
  <2>2. held' = held /\ entry' = entry /\ queue' = queue /\ turn' = turn
    BY <1>9 DEF ControlAsks, maintenance
  <2>3. \A t \in SessionKeys : LockMatches(t)'
    BY <1>3, <1>4, <2>1, <2>2, LockFollows
  <2>4. \A t \in SessionKeys : NobodyForgotten(t)'
    BY <1>2, <2>1, <2>2, WaitFollows DEF StageThen, NobodyForgotten
  <2> QED
    BY <2>3, <2>4 DEF Ordered
<1>10. ASSUME NEW how \in {"saving", "silent"}, TurnAdds(s, how) PROVE Ordered'
  <2>1. "turn" \in Callers => job[s]["turn"].at = "idle"
    BY <1>3, <1>10 DEF TurnAdds, InCall
  <2>2. /\ job' = job /\ held' = held /\ entry' = entry /\ queue' = queue
        /\ turn' = [turn EXCEPT ![s] = how]
    BY <1>10 DEF TurnAdds, maintenance
  <2> QED
    BY <1>1, <2>1, <2>2, TurnFollows
<1>11. Guard(s) => \/ turn'[s] = "running" /\ job' = job
                   \/ turn'[s] = "guarding" /\ "turn" \in Callers /\ Becomes(s, "turn", Asks(s))
  BY TurnJobs
<1> QED
  BY <1>5, <1>6, <1>7, <1>8, <1>9, <1>10, <1>11

\* A cancelled call gives its lock back and may leave a thread.
LEMMA OrderedAbandon ==
    ASSUME MemoryTyped, Ordered, NEW s \in SessionKeys, CallTimesOut(s) \/ CancelTurn(s)
    PROVE  Ordered'
<1>1. turn \in [SessionKeys -> {"idle", "waiting", "guarding", "running", "saving", "silent",
                                "stopping"}]
      /\ held \in [SessionKeys -> Callers \union {Nobody}]
  BY DEF MemoryTyped, MemoryTyping
<1>2. NobodyForgotten(s) /\ LockMatches(s)
  BY DEF Ordered
<1>3. /\ entry' = entry /\ queue' = queue
      /\ \A t \in SessionKeys \ {s} : turn'[t] = turn[t]
      /\ turn'[s] \in {"running", "idle", "stopping"}
      /\ turn'[s] \in {"idle", "stopping"} \/ InCall(s)
  <2>1. CASE CallTimesOut(s)
    BY <1>1, <2>1 DEF CallTimesOut, maintenance
  <2>2. CASE CancelTurn(s)
    BY <1>1, <2>2 DEF CancelTurn, maintenance
  <2> QED
    BY <2>1, <2>2
<1>4. CASE job' = job /\ held' = held /\ ~InCall(s)
  <2>1. "turn" \in Callers => job[s]["turn"].at = "idle"
    BY <1>4, IdleIsJob DEF InCall
  <2> QED
    BY <1>3, <1>4, <2>1, TurnFollows
<1>5. CASE /\ "turn" \in Callers
           /\ held' = [held EXCEPT ![s] = IF @ = "turn" THEN Nobody ELSE @]
           /\ Orphaned(s) \/ Becomes(s, "turn", IdleJob)
  <2>1. \A t \in SessionKeys, d \in Callers :
          /\ job'[t][d] = IF t = s /\ d = "turn" THEN IdleJob ELSE job[t][d]
          /\ t # s => job'[t]["orphan"] = job[t]["orphan"]
          /\ t = s => job'[t]["orphan"].at # "next"
          /\ job'[t]["orphan"].at = "idle" => job'[t]["orphan"] = IdleJob
    <3>1. "orphan" \notin Callers /\ "orphan" \in Workers /\ "turn" \in Workers /\ Callers \subseteq Workers
      BY <1>5, ConsolidationConstants DEF Workers
    <3>2. \A t \in SessionKeys : /\ job[t]["orphan"].at # "next"
                                 /\ job[t]["orphan"].at = "idle" => job[t]["orphan"] = IdleJob
      BY <3>1 DEF Ordered, LockMatches, MemoryTyped, ThreadsOnly
    <3>3. CASE Becomes(s, "turn", IdleJob)
      BY <3>1, <3>2, <3>3 DEF Becomes
    <3>4. CASE Orphaned(s)
      <4>1. ThreadOf(job[s]["turn"]).at \in OrphanStages \ {"idle"}
        BY <3>1, <3>4, ThreadKeeps DEF Orphaned, MemoryTyped, MemoryTyping
      <4>2. ThreadOf(job[s]["turn"]).at # "next" /\ ThreadOf(job[s]["turn"]).at # "idle"
        BY <4>1 DEF OrphanStages
      <4> QED
        BY <3>1, <3>2, <3>4, <4>2 DEF Orphaned
    <3> QED
      BY <1>5, <3>3, <3>4
  <2>2. "turn" \in Callers /\ Nobody \notin Callers /\ ~HoldAt("turn", "idle") /\ IdleJob.at = "idle"
    BY <1>5, ConsolidationConstants, IdleIsJob DEF HoldAt
  <2>3. ASSUME NEW t \in SessionKeys PROVE LockMatches(t)'
    <3> SUFFICES ASSUME NEW d \in Workers
                 PROVE  /\ d \in Callers => (held'[t] = d <=> HoldAt(d, job'[t][d].at))
                        /\ job'[t][d].at = "idle" => job'[t][d] = IdleJob
                        /\ job'[t][d].at = "next" => d = "queue"
      BY DEF LockMatches
    <3>1. LockMatches(t)
      BY DEF Ordered
    <3>2. CASE d \in Callers
      <4>1. /\ held[t] = d <=> HoldAt(d, job[t][d].at)
            /\ job[t][d].at = "idle" => job[t][d] = IdleJob
            /\ job[t][d].at = "next" => d = "queue"
        BY <3>1, <3>2 DEF LockMatches
      <4>2. job'[t][d] = IF t = s /\ d = "turn" THEN IdleJob ELSE job[t][d]
        BY <2>1, <3>2
      <4>3. held'[t] = IF t = s /\ held[s] = "turn" THEN Nobody ELSE held[t]
        BY <1>1, <1>5
      <4> QED
        BY <2>2, <3>2, <4>1, <4>2, <4>3
    <3>3. CASE d = "orphan" /\ d \notin Callers
      <4>1. job'[t][d].at # "next"
        BY <2>1, <2>2, <3>1, <3>3 DEF LockMatches, Workers
      <4> QED
        BY <2>1, <2>2, <3>3, <4>1
    <3> QED
      BY <3>2, <3>3 DEF Workers
  <2>4. ASSUME NEW t \in SessionKeys PROVE NobodyForgotten(t)'
    <3>1. NobodyForgotten(t)
      BY DEF Ordered
    <3>2. /\ "queue" \in Callers => job'[t]["queue"] = job[t]["queue"]
          /\ job'[t]["turn"] = IF t = s THEN IdleJob ELSE job[t]["turn"]
      BY <2>1, <2>2
    <3> QED
      BY <1>3, <2>2, <3>1, <3>2 DEF NobodyForgotten
  <2> QED
    BY <2>3, <2>4 DEF Ordered
<1> QED
  BY <1>4, <1>5, TurnJobs

\* A consolidation that hands back gives up the lock, or is the task and keeps it.
LEMMA OrderedHandBack ==
    ASSUME MemoryTyped, Ordered, NEW s \in SessionKeys, NEW c \in Callers,
           HandsBack(s, c),
           queue' = queue \/ (c = "queue" /\ queue' = [queue EXCEPT ![s] = @ - 1]),
           job[s][c].at # "idle",
           HoldAt(c, job[s][c].at) \/ (c # "queue" /\ held[s] = Nobody)
    PROVE  Ordered'
<1>1. c \in Workers
  BY DEF Workers
<1>2. /\ turn \in [SessionKeys -> {"idle", "waiting", "guarding", "running", "saving", "silent",
                                   "stopping"}]
      /\ entry \in [SessionKeys -> {"none", "live", "done"}]
  BY DEF MemoryTyped, MemoryTyping
<1>3. NobodyForgotten(s) /\ LockMatches(s)
  BY DEF Ordered
<1>4. c = "turn" => turn[s] \in {"guarding", "running"}
  BY <1>3 DEF NobodyForgotten
<1>5. c = "queue" => entry[s] = "live"
  BY <1>3 DEF NobodyForgotten
<1>9. /\ \A t \in SessionKeys \ {s} : queue'[t] = queue[t]
      /\ c # "queue" => queue'[s] = queue[s]
  BY DEF MemoryTyped, MemoryTyping
<1>6. ASSUME c = "queue", NEW stage \in {"save", "next"}, Becomes(s, c, Starts(stage)),
             UNCHANGED <<turn, entry, held>>
      PROVE  Ordered'
  <2>1. Starts(stage).at = stage
    BY JobRecords, StageNames DEF MemoryTyped
  <2>2. HoldAt(c, stage) /\ stage # "idle"
    BY <1>6 DEF HoldAt
  <2>4. \A t \in SessionKeys : LockMatches(t)'
    BY <1>1, <1>6, <2>1, <2>2, LockFollows
  <2>5. \A t \in SessionKeys : NobodyForgotten(t)'
    BY <1>1, <1>3, <1>5, <1>6, <1>9, <2>1, <2>2, WaitFollows DEF StageThen, NobodyForgotten
  <2> QED
    BY <2>4, <2>5 DEF Ordered
<1>7. CASE c # "queue" /\ Becomes(s, c, Starts("save"))
           /\ held' = [held EXCEPT ![s] = Nobody] /\ UNCHANGED <<turn, entry>>
  <2>1. Starts("save").at = "save"
    BY <1>1, JobRecords, StageNames DEF MemoryTyped
  <2>2. ~HoldAt(c, "save")
    BY <1>7 DEF HoldAt
  <2>4. \A t \in SessionKeys : LockMatches(t)'
    BY <1>1, <1>7, <2>1, <2>2, LockFollows
  <2>5. \A t \in SessionKeys : NobodyForgotten(t)'
    BY <1>1, <1>3, <1>4, <1>7, <1>9, <2>1, WaitFollows DEF StageThen, NobodyForgotten
  <2> QED
    BY <2>4, <2>5 DEF Ordered
<1>8. CASE Finishes(s, c)
  <2>1. IdleJob.at = "idle" /\ ~HoldAt(c, "idle")
    BY IdleIsJob DEF HoldAt
  <2>2. Becomes(s, c, IdleJob) /\ held' = [held EXCEPT ![s] = Nobody]
    BY <1>8 DEF Finishes
  <2>3. /\ \A t \in SessionKeys \ {s} : turn'[t] = turn[t] /\ entry'[t] = entry[t]
        /\ c = "queue" => entry'[s] = "done" /\ turn'[s] = turn[s]
        /\ c # "queue" => entry'[s] = entry[s]
        /\ c # "turn" => turn'[s] = turn[s]
        /\ c = "turn" => turn'[s] \in {"idle", "running"}
    <3>1. CASE c = "queue"
      BY <1>2, <1>8, <3>1 DEF Finishes
    <3>2. CASE c = "turn"
      BY <1>2, <1>4, <1>8, <3>2 DEF Finishes, AfterGuard
    <3>3. CASE c # "queue" /\ c # "turn"
      BY <1>2, <1>8, <3>3 DEF Finishes
    <3> QED
      BY <3>1, <3>2, <3>3
  <2>4. \A t \in SessionKeys : LockMatches(t)'
    BY <1>1, <2>1, <2>2, LockFollows
  <2>5. \A t \in SessionKeys : NobodyForgotten(t)'
    BY <1>1, <1>3, <1>9, <2>1, <2>2, <2>3, WaitFollows DEF StageThen, NobodyForgotten
  <2> QED
    BY <2>4, <2>5 DEF Ordered
<1> QED
  BY <1>6, <1>7, <1>8 DEF HandsBack

\* A job goes on to another stage, and neither its turn nor its task notices.
LEMMA OrderedStage ==
    ASSUME MemoryTyped, Ordered, NEW s \in SessionKeys, NEW c \in Workers, NEW j, Becomes(s, c, j),
           j.at = "idle" => j = IdleJob /\ c \notin Callers,
           j.at = "next" => c = "queue",
           job[s][c].at # "idle",
           \/ /\ HoldAt(c, j.at) <=> HoldAt(c, job[s][c].at)
              /\ held' = held
           \/ /\ HoldAt(c, j.at) /\ c \in Callers /\ held[s] = Nobody
              /\ held' = [held EXCEPT ![s] = c],
           UNCHANGED <<turn, entry, queue>>
    PROVE  Ordered'
<1>1. NobodyForgotten(s) /\ ("turn" \in Callers => "turn" # "orphan")
  BY DEF Ordered
<1>2. \A t \in SessionKeys : LockMatches(t)'
  BY LockFollows
<1>3. \A t \in SessionKeys : NobodyForgotten(t)'
  BY <1>1, WaitFollows DEF StageThen, NobodyForgotten
<1> QED
  BY <1>2, <1>3 DEF Ordered

LEMMA OrderedTask ==
    ASSUME MemoryTyped, Ordered, NEW s \in SessionKeys,
           \/ TurnSaves(s) \/ DoneCallback(s)
           \/ "queue" \in Callers /\ MaintenanceStep(s)
    PROVE  Ordered'
<1>1. /\ turn \in [SessionKeys -> {"idle", "waiting", "guarding", "running", "saving", "silent",
                                "stopping"}]
      /\ entry \in [SessionKeys -> {"none", "live", "done"}]
      /\ queue \in [SessionKeys -> Nat]
  BY DEF MemoryTyped, MemoryTyping
<1>2. NobodyForgotten(s) /\ LockMatches(s)
  BY DEF Ordered
<1>3. "queue" \in Callers => "queue" \in Workers
  BY DEF Workers
<1>4. /\ Moves(s, "queue", "lock").at = "lock" \/ "queue" \notin Callers
      /\ IdleJob.at = "idle"
      /\ ~HoldAt("queue", "lock") /\ ~HoldAt("queue", "idle") /\ HoldAt("queue", "next")
      /\ HoldAt("queue", "model")
  BY <1>3, JobRecords, IdleIsJob, StageNames DEF MemoryTyped, HoldAt
<1>5. ASSUME TurnSaves(s) PROVE Ordered'
  <2>1. /\ held' = held
        /\ turn' = [turn EXCEPT ![s] = "idle"]
        /\ "turn" \in Callers => job[s]["turn"].at = "idle"
    BY <1>2, <1>5 DEF TurnSaves, NobodyForgotten
  <2>2. CASE job' = job /\ entry' = entry /\ queue' = queue
    BY <1>1, <2>1, <2>2, TurnFollows
  <2>3. CASE /\ "queue" \in Callers /\ queue' = [queue EXCEPT ![s] = @ + 1]
             /\ entry' = [entry EXCEPT ![s] = IF @ = "none" THEN "live" ELSE @]
             /\ IF entry[s] = "none" THEN Becomes(s, "queue", Moves(s, "queue", "lock"))
                ELSE job' = job
    <3>1. /\ \A t \in SessionKeys \ {s} :
              turn'[t] = turn[t] /\ entry'[t] = entry[t] /\ queue'[t] = queue[t]
          /\ turn'[s] = "idle" /\ entry'[s] # "none"
          /\ entry[s] # "none" => entry' = entry
          /\ entry[s] = "none" => entry'[s] = "live"
      BY <1>1, <2>1, <2>3
    <3>2. CASE entry[s] = "none"
      <4>1. Becomes(s, "queue", Moves(s, "queue", "lock"))
            /\ Moves(s, "queue", "lock").at = "lock" /\ job[s]["queue"].at = "idle"
        BY <1>2, <1>4, <2>3, <3>2 DEF NobodyForgotten
      <4>2. \A t \in SessionKeys : LockMatches(t)'
        BY <1>3, <1>4, <2>1, <2>3, <4>1, LockFollows
      <4>3. \A t \in SessionKeys : NobodyForgotten(t)'
        BY <1>3, <2>1, <2>3, <3>1, <3>2, <4>1, WaitFollows DEF StageThen
      <4> QED
        BY <4>2, <4>3 DEF Ordered
    <3>3. CASE entry[s] # "none"
      <4>1. job' = job
        BY <2>3, <3>3
      <4>2. ASSUME NEW t \in SessionKeys PROVE LockMatches(t)'
        BY <2>1, <4>1 DEF Ordered, LockMatches
      <4>3. ASSUME NEW t \in SessionKeys PROVE NobodyForgotten(t)'
        BY <2>1, <3>1, <3>3, <4>1 DEF Ordered, NobodyForgotten
      <4> QED
        BY <4>2, <4>3 DEF Ordered
    <3> QED
      BY <3>2, <3>3
  <2> QED
    BY <1>5, <2>2, <2>3, TaskJobs
<1>6. ASSUME DoneCallback(s) PROVE Ordered'
  <2>1. held' = held /\ turn' = turn /\ queue' = queue /\ entry[s] = "done"
    BY <1>6 DEF DoneCallback
  <2>2. CASE job' = job /\ entry' = [entry EXCEPT ![s] = "none"] /\ ~Relaunch(s)
    <3>1. ASSUME NEW t \in SessionKeys PROVE LockMatches(t)'
      BY <2>1, <2>2 DEF Ordered, LockMatches
    <3>2. ASSUME NEW t \in SessionKeys PROVE NobodyForgotten(t)'
      BY <1>1, <2>1, <2>2 DEF Ordered, NobodyForgotten, Relaunch
    <3> QED
      BY <3>1, <3>2 DEF Ordered
  <2>3. CASE /\ "queue" \in Callers /\ entry' = [entry EXCEPT ![s] = "live"]
             /\ Becomes(s, "queue", Moves(s, "queue", "lock"))
    <3>1. job[s]["queue"].at = "idle" /\ Moves(s, "queue", "lock").at = "lock"
      BY <1>2, <1>4, <2>1, <2>3 DEF NobodyForgotten
    <3>2. /\ \A t \in SessionKeys \ {s} :
                turn'[t] = turn[t] /\ entry'[t] = entry[t] /\ queue'[t] = queue[t]
          /\ entry'[s] = "live"
      BY <1>1, <2>1, <2>3
    <3>3. \A t \in SessionKeys : LockMatches(t)'
      BY <1>3, <1>4, <2>1, <2>3, <3>1, LockFollows
    <3>4. \A t \in SessionKeys : NobodyForgotten(t)'
      BY <1>2, <1>3, <2>1, <2>3, <3>1, <3>2, WaitFollows DEF StageThen, NobodyForgotten
    <3> QED
      BY <3>3, <3>4 DEF Ordered
  <2> QED
    BY <1>6, <2>2, <2>3, TaskJobs
<1>7. ASSUME "queue" \in Callers, TakeEvent(s) PROVE Ordered'
  <2>1. /\ turn' = turn /\ job[s]["queue"].at = "next"
        /\ queue[s] > 0 /\ queue' = [queue EXCEPT ![s] = @ - 1]
    BY <1>7 DEF TakeEvent
  <2>2. /\ \A t \in SessionKeys \ {s} : turn'[t] = turn[t] /\ queue'[t] = queue[t]
        /\ entry[s] = "live"
    BY <1>1, <1>2, <1>7, <2>1 DEF NobodyForgotten
  <2>3. CASE job' = job /\ UNCHANGED <<entry, held>>
    <3>1. ASSUME NEW t \in SessionKeys PROVE LockMatches(t)'
      BY <2>1, <2>3 DEF Ordered, LockMatches
    <3>2. ASSUME NEW t \in SessionKeys PROVE NobodyForgotten(t)'
      BY <2>1, <2>2, <2>3 DEF Ordered, NobodyForgotten
    <3> QED
      BY <3>1, <3>2 DEF Ordered
  <2>4. ASSUME NEW upto \in Nat, NEW ids \in Seq(Nat), Becomes(s, "queue", Takes(upto, ids)),
               UNCHANGED <<entry, held>>
        PROVE  Ordered'
    <3>1. Takes(upto, ids).at = "model"
      BY DEF Takes, IdleJob
    <3>3. \A t \in SessionKeys : LockMatches(t)'
      BY <1>3, <1>4, <1>7, <2>1, <2>4, <3>1, LockFollows
    <3>4. \A t \in SessionKeys : NobodyForgotten(t)'
      BY <1>2, <1>3, <1>7, <2>1, <2>2, <2>4, <3>1, WaitFollows DEF StageThen, NobodyForgotten
    <3> QED
      BY <3>3, <3>4 DEF Ordered
  <2>5. CASE Finishes(s, "queue")
    BY <1>4, <1>7, <2>1, <2>5, OrderedHandBack DEF HandsBack
  <2> QED
    BY <1>7, <2>3, <2>4, <2>5, TaskJobs
<1>8. ASSUME "queue" \in Callers, QueueEmpty(s) PROVE Ordered'
  <2>1. /\ Becomes(s, "queue", IdleJob) /\ queue' = queue
        /\ HandsBack(s, "queue") /\ job[s]["queue"].at = "next"
    BY <1>8, TaskJobs DEF QueueEmpty, TaskEnds, Release, HandsBack, Finishes
  <2> QED
    BY <1>4, <1>8, <2>1, OrderedHandBack
<1> QED
  BY <1>5, <1>6, <1>7, <1>8 DEF MaintenanceStep

LEMMA OrderedCall ==
    ASSUME MemoryTyped, Ordered, NEW s \in SessionKeys, NEW c \in Workers, JobStep(s, c)
    PROVE  Ordered'
<1>1. NobodyForgotten(s) /\ LockMatches(s) /\ MemoryTyping /\ job[s]["orphan"].at \in OrphanStages
  BY DEF Ordered, MemoryTyped, ThreadsOnly, OrphanStages
<1>2. \A stage \in Stages : Moves(s, c, stage).at = stage /\ Lates(s, c, stage).at = stage
  BY <1>1, JobRecords
<1>3. IdleJob.at = "idle" /\ "orphan" \notin Callers /\ (c \in Callers <=> c # "orphan")
  BY IdleIsJob, ConsolidationConstants DEF Workers
<1>4. CASE Locked(s, c)
  <2>1. c \in Callers /\ job[s][c].at = "lock" /\ held[s] = Nobody /\ queue' = queue
    BY <1>4, CallJobs DEF Locked, MaintenanceLockFree
  <2>2. CASE c = "queue" /\ Becomes(s, c, Moves(s, c, "next"))
             /\ held' = [held EXCEPT ![s] = c] /\ UNCHANGED <<turn, entry>>
    <3>1. HoldAt(c, "next")
      BY <2>2 DEF HoldAt
    <3> QED
      BY <1>2, <2>1, <2>2, <3>1, StageNames, OrderedStage
  <2>3. ASSUME c # "queue", NEW upto \in Nat, NEW ids \in Seq(Nat),
               Becomes(s, c, Reads(s, c, upto, ids)),
               held' = [held EXCEPT ![s] = c], UNCHANGED <<turn, entry>>
        PROVE  Ordered'
    <3>1. Reads(s, c, upto, ids).at = "model"
      <4>1. \A d \in Workers : job[s][d] \in Jobs
        BY <1>1, JobRecords
      <4>2. job[s][c] \in Jobs
        BY <4>1
      <4> QED
        BY <4>2 DEF Reads, Jobs
    <3>2. HoldAt(c, "model")
      BY <1>3, <2>1 DEF HoldAt
    <3> QED
      BY <2>1, <2>3, <3>1, <3>2, OrderedStage
  <2>4. CASE c # "queue" /\ HandsBack(s, c)
    BY <2>1, <2>4, OrderedHandBack
  <2> QED
    BY <1>4, <2>2, <2>3, <2>4, CallJobs
<1>5. CASE ModelsAnswer(s, c)
  <2>1. c \in Callers /\ job[s][c].at = "model" /\ queue' = queue
    BY <1>5, CallJobs DEF ModelsAnswer
  <2>2. HoldAt(c, "model") /\ HoldAt(c, "append") /\ HoldAt(c, "draft")
    BY <1>3, <2>1 DEF HoldAt
  <2>3. ASSUME NEW stage \in {"append", "draft"}, Becomes(s, c, Moves(s, c, stage)),
               UNCHANGED <<turn, entry, held>>
        PROVE  Ordered'
    BY <1>2, <2>1, <2>2, <2>3, StageNames, OrderedStage
  <2> QED
    BY <1>5, <2>1, <2>2, <2>3, CallJobs, OrderedHandBack
<1>6. CASE AppendFacts(s, c) \/ IndexFacts(s, c)
  <2>1. job[s][c].at \in {"append", "written"} /\ UNCHANGED <<turn, entry, held, queue>>
    BY <1>6 DEF AppendFacts, IndexFacts, maintenance
  <2>2. c \in Callers => \A stage \in {"append", "written", "filed"} : HoldAt(c, stage)
    BY <1>3 DEF HoldAt
  <2>3. c \notin Callers => \A stage : ~HoldAt(c, stage)
    BY <1>3 DEF HoldAt
  <2>4. CASE c = "orphan" /\ Becomes(s, c, IdleJob)
    BY <1>3, <2>1, <2>3, <2>4, OrderedStage
  <2>5. CASE c \in Callers /\ Becomes(s, c, Moves(s, c, "filed"))
    BY <1>2, <2>1, <2>2, <2>5, StageNames, OrderedStage
  <2>6. CASE Becomes(s, c, Moves(s, c, "written"))
    BY <1>2, <2>1, <2>2, <2>3, <2>6, StageNames, OrderedStage
  <2> QED
    BY <1>6, <2>4, <2>5, <2>6, CallJobs
<1>7. CASE CommitDraft(s, c)
  <2>1. c \in Callers /\ Becomes(s, c, Lates(s, c, "emit"))
        /\ job[s][c].at \in {"draft", "filed"}
        /\ UNCHANGED <<turn, entry, held, queue>>
    BY <1>7, CallJobs DEF CommitDraft, maintenance
  <2>2. HoldAt(c, "draft") /\ HoldAt(c, "filed") /\ HoldAt(c, "emit")
    BY <1>3, <2>1 DEF HoldAt
  <2> QED
    BY <1>2, <2>1, <2>2, StageNames, OrderedStage
<1>8. CASE Emit(s, c)
  <2>1. c \in Callers /\ HandsBack(s, c) /\ job[s][c].at = "emit" /\ queue' = queue
    BY <1>8, CallJobs DEF Emit
  <2>2. HoldAt(c, "emit")
    BY <1>3, <2>1 DEF HoldAt
  <2> QED
    BY <2>1, <2>2, OrderedHandBack
<1>9. CASE SaveCopies(s, c) \/ SaveAssigns(s, c)
  <2>1. job[s][c].at \in {"save", "copied"} /\ UNCHANGED <<turn, entry, held, queue>>
    BY <1>9 DEF SaveCopies, SaveAssigns, maintenance
  <2>2. \A a, b \in {"save", "copied", "txn"} : HoldAt(c, a) <=> HoldAt(c, b)
    BY DEF HoldAt
  <2>3. CASE SaveCopies(s, c)
    <3>1. Copies(s, c).at = "copied"
      BY <1>1, JobRecords
    <3>2. Becomes(s, c, Copies(s, c))
      BY <2>3, CallJobs
    <3> QED
      BY <2>1, <2>2, <3>1, <3>2, OrderedStage
  <2>4. CASE SaveAssigns(s, c)
    <3>1. Becomes(s, c, Lates(s, c, "txn")) /\ Lates(s, c, "txn").at = "txn"
      BY <1>2, <2>4, CallJobs, StageNames
    <3> QED
      BY <2>1, <2>2, <3>1, OrderedStage
  <2> QED
    BY <1>9, <2>3, <2>4
<1>10. CASE SaveCommits(s, c)
  <2>1. job[s][c].at = "txn" /\ queue' = queue
    BY <1>10 DEF SaveCommits
  <2>2. CASE c = "queue" /\ Becomes(s, c, Moves(s, c, "next")) /\ UNCHANGED <<entry, held, turn>>
    <3>1. HoldAt(c, "next") /\ HoldAt(c, "txn")
      BY <2>2 DEF HoldAt
    <3> QED
      BY <1>2, <2>1, <2>2, <3>1, StageNames, OrderedStage
  <2>3. CASE c = "queue" /\ Finishes(s, c)
    <3>1. HoldAt(c, "txn") /\ c \in Callers
      BY <1>3, <2>3 DEF HoldAt
    <3> QED
      BY <2>1, <2>3, <3>1, OrderedHandBack DEF HandsBack
  <2>4. ASSUME c # "queue", Becomes(s, c, IdleJob), UNCHANGED <<entry, held>>,
               NEW ok \in BOOLEAN, turn' = IF c = "turn" THEN AfterGuard(s, ok) ELSE turn
        PROVE  Ordered'
    <3>1. ~HoldAt(c, "txn") /\ ~HoldAt(c, "idle")
      BY <2>4 DEF HoldAt
    <3>2. \A t \in SessionKeys : LockMatches(t)'
      BY <1>3, <2>1, <2>4, <3>1, LockFollows
    <3>3. turn \in [SessionKeys -> {"idle", "waiting", "guarding", "running", "saving", "silent",
                                   "stopping"}]
      BY DEF MemoryTyped, MemoryTyping
    <3>4. /\ \A t \in SessionKeys \ {s} : turn'[t] = turn[t]
          /\ c # "turn" => turn'[s] = turn[s]
          /\ c = "turn" => turn'[s] # "guarding"
      BY <2>4, <3>3 DEF AfterGuard
    <3>5. \A t \in SessionKeys : NobodyForgotten(t)'
      BY <1>1, <1>3, <2>1, <2>4, <3>4, WaitFollows DEF StageThen, NobodyForgotten
    <3> QED
      BY <3>2, <3>5 DEF Ordered
  <2> QED
    BY <1>10, <2>2, <2>3, <2>4, CallJobs
<1>11. CASE DraftFails(s, c) \/ WriteStops(s, c)
  <2>1. job[s][c].at \in {"append", "written", "draft", "filed"} /\ queue' = queue
    BY <1>11 DEF DraftFails, WriteStops
  <2>2. CASE c = "orphan" /\ Becomes(s, c, IdleJob) /\ UNCHANGED <<turn, entry, held>>
    <3>1. \A stage : ~HoldAt(c, stage)
      BY <2>2 DEF HoldAt
    <3> QED
      BY <1>3, <2>1, <2>2, <3>1, OrderedStage
  <2>3. CASE c \in Callers /\ HandsBack(s, c)
    <3>1. HoldAt(c, job[s][c].at)
      BY <1>3, <2>1, <2>3 DEF HoldAt
    <3> QED
      BY <2>1, <2>3, <3>1, OrderedHandBack
  <2> QED
    BY <1>11, <2>2, <2>3, CallJobs
<1> QED
  BY <1>4, <1>5, <1>6, <1>7, <1>8, <1>9, <1>10, <1>11 DEF JobStep

LEMMA OrderedStep == MemoryTyped /\ Ordered /\ [MemoryNext]_memoryVars => Ordered'
<1> SUFFICES ASSUME MemoryTyped, Ordered, [MemoryNext]_memoryVars PROVE Ordered'
  OBVIOUS
<1>1. CASE ProgramDies
  <2>1. ASSUME NEW t \in SessionKeys, NEW d \in Workers
        PROVE  job'[t][d] = IdleJob /\ held'[t] = Nobody /\ queue'[t] = 0 /\ turn'[t] = "idle"
               /\ entry'[t] = "none"
    BY <1>1 DEF ProgramDies
  <2>2. \A t \in SessionKeys : held'[t] = Nobody /\ queue'[t] = 0 /\ turn'[t] = "idle"
                               /\ entry'[t] = "none"
    BY <1>1 DEF ProgramDies
  <2>3. IdleJob.at = "idle" /\ (\A c : ~HoldAt(c, "idle")) /\ Nobody \notin Callers
        /\ Callers \subseteq Workers
    BY IdleIsJob, ConsolidationConstants DEF HoldAt, Workers
  <2>4. \A t \in SessionKeys : LockMatches(t)'
    BY <2>1, <2>3 DEF LockMatches
  <2>5. \A t \in SessionKeys : NobodyForgotten(t)'
    BY <2>1, <2>2, <2>3 DEF NobodyForgotten
  <2> QED
    BY <2>4, <2>5 DEF Ordered
<1>2. CASE UNCHANGED memoryVars
  <2>1. ASSUME NEW t \in SessionKeys PROVE LockMatches(t)' /\ NobodyForgotten(t)'
    BY <1>2 DEF memoryVars, Ordered, LockMatches, NobodyForgotten
  <2> QED
    BY <2>1 DEF Ordered
<1> QED
  BY <1>1, <1>2, OrderedTurn, OrderedAbandon, OrderedTask, OrderedCall DEF MemoryNext, TurnStep

\* The jobs after a step, from the jobs before it: a job that has read and not
\* committed had done so, or reads a window now; a thread left behind has no
\* window's end; a copy is the session's, or was taken before; a job past its
\* append was past it, or its source is in PENDING.md now.
Descends(s, c) ==
    /\ \/ job'[s][c].at \notin Reading \union {"copied"}
       \/ /\ job'[s][c].at \in Reading /\ job[s][c].at \in Reading
          /\ job'[s][c].upto = job[s][c].upto
          /\ job'[s][c].ids = job[s][c].ids
       \/ c = "orphan" /\ job'[s][c].at \in Reading /\ job'[s][c].upto = 0
       \/ /\ job'[s][c].at \in Reading
          /\ Windowed(s, job'[s][c].upto, job'[s][c].ids)
       \/ /\ job'[s][c].at = "copied"
          /\ \/ job'[s][c].copy = log[s]
             \/ \E d \in Workers : job[s][d].at = "copied" /\ job'[s][c].copy = job[s][d].copy
    /\ job'[s][c].at \in Past =>
          \/ job'[s][c].ids \in Range(pending')
          \/ \E d \in Workers : job[s][d].at \in Past /\ job'[s][c].ids = job[s][d].ids

LEMMA DescendBecomes ==
    ASSUME MemoryTyped, NEW s \in SessionKeys, NEW c \in Workers, NEW j, Becomes(s, c, j),
           \/ j.at \notin Reading \union {"copied"}
           \/ /\ j.at \in Reading /\ job[s][c].at \in Reading
              /\ j.upto = job[s][c].upto /\ j.ids = job[s][c].ids
           \/ j.at \in Reading /\ Windowed(s, j.upto, j.ids)
           \/ j.at = "copied" /\ j.copy = log[s],
           \/ j.at \notin Past
           \/ j.ids \in Range(pending')
           \/ job[s][c].at \in Past /\ j.ids = job[s][c].ids
    PROVE  \A t \in SessionKeys, d \in Workers : Descends(t, d)
<1> SUFFICES ASSUME NEW t \in SessionKeys, NEW d \in Workers PROVE Descends(t, d)
  OBVIOUS
<1>1. job'[t][d] = IF t = s /\ d = c THEN j ELSE job[t][d]
  BY DEF Becomes
<1>2. CASE job'[t][d] = job[t][d]
  BY <1>2 DEF Descends
<1>3. CASE t = s /\ d = c
  BY <1>1, <1>3 DEF Descends
<1> QED
  BY <1>1, <1>2, <1>3

LEMMA DescendSame ==
    ASSUME job' = job
    PROVE  \A t \in SessionKeys, d \in Workers : Descends(t, d)
  BY DEF Descends

LEMMA DescendHandBack ==
    ASSUME MemoryTyped, NEW s \in SessionKeys, NEW c \in Callers, HandsBack(s, c)
    PROVE  \A t \in SessionKeys, d \in Workers : Descends(t, d)
<1>1. c \in Workers
  BY DEF Workers
<1>2. IdleJob.at = "idle" /\ \A stage \in {"save", "next"} : Starts(stage).at = stage
  BY <1>1, JobRecords, IdleIsJob, StageNames DEF MemoryTyped
<1>3. {"save", "idle", "next"} \cap (Reading \union Past \union {"copied"}) = {}
  BY DEF Reading, Past
<1> QED
  BY <1>1, <1>2, <1>3, DescendBecomes DEF HandsBack, Finishes

LEMMA MarkerAdded ==
    ASSUME NEW q \in Seq(Seq(Nat)), NEW e \in Seq(Nat)
    PROVE  Range(Append(q, e)) = Range(q) \union {e}
<1> DEFINE r == Append(q, e)
<1>1. /\ DOMAIN r = 1 .. Len(q) + 1 /\ DOMAIN q = 1 .. Len(q) /\ Len(q) \in Nat
      /\ r[Len(q) + 1] = e /\ \A i \in 1 .. Len(q) : r[i] = q[i]
  OBVIOUS
<1> HIDE DEF r
<1>2. \A i \in DOMAIN r : i \in DOMAIN q \/ i = Len(q) + 1
  BY <1>1
<1>3. \A i \in DOMAIN q : i \in DOMAIN r /\ r[i] = q[i]
  BY <1>1
<1>4. Len(q) + 1 \in DOMAIN r
  BY <1>1
<1>5. Range(r) = Range(q) \union {e}
  BY <1>1, <1>2, <1>3, <1>4 DEF Range
<1> QED
  BY <1>5 DEF r

\* append_pending_once leaves the source's marker in the file, which it may have found there.
LEMMA FactsWritten ==
    ASSUME MemoryTyped, NEW s \in SessionKeys, NEW c \in Workers, AppendFacts(s, c)
    PROVE  job[s][c].ids \in Range(pending') /\ Range(pending) \subseteq Range(pending')
<1> DEFINE source == job[s][c].ids
<1>1. pending \in Seq(Seq(Nat)) /\ source \in Seq(Nat)
  BY JobFields DEF MemoryTyped, MemoryTyping
<1>2. \/ Marked(source) /\ pending' = pending
      \/ pending' = Append(pending, source)
  BY DEF AppendFacts, Write
<1>3. CASE Marked(source) /\ pending' = pending
  BY <1>3 DEF Marked
<1>4. CASE pending' = Append(pending, source)
  <2> HIDE DEF source
  <2>1. Range(pending') = Range(pending) \union {source}
    BY <1>1, <1>4, MarkerAdded
  <2> QED
    BY <2>1 DEF source
<1> QED
  BY <1>2, <1>3, <1>4

LEMMA Descent ==
    ASSUME MemoryTyped, [MemoryNext]_memoryVars
    PROVE  \A t \in SessionKeys, d \in Workers : Descends(t, d)
<1> DEFINE Goal == \A t \in SessionKeys, d \in Workers : Descends(t, d)
<1>1. /\ Reading = {"model", "append", "written", "filed", "draft"}
      /\ Past = {"written", "filed"}
  BY DEF Reading, Past
<1>2. MemoryTyping /\ IdleJob.at = "idle"
  BY IdleIsJob DEF MemoryTyped
<1>3. CASE UNCHANGED memoryVars
  BY <1>3, DescendSame DEF memoryVars
<1>4. CASE ProgramDies
  BY <1>1, <1>2, <1>4 DEF ProgramDies, Descends
<1>5. ASSUME NEW s \in SessionKeys,
             \/ TurnBegins(s) \/ Guard(s) \/ Compact(s) \/ ControlAsks(s)
             \/ \E how \in {"saving", "silent"} : TurnAdds(s, how)
      PROVE  Goal
  <2>1. Asks(s).at = "lock"
    BY <1>2, JobRecords
  <2>2. \/ job' = job
        \/ \E c \in Workers : Becomes(s, c, Asks(s))
    BY <1>5, TurnJobs DEF TurnBegins, TurnAdds, Workers
  <2> QED
    BY <1>1, <2>1, <2>2, DescendSame, DescendBecomes
<1>6. ASSUME NEW s \in SessionKeys, CallTimesOut(s) \/ CancelTurn(s) PROVE Goal
  <2>1. CASE job' = job
    BY <2>1, DescendSame
  <2>2. CASE Becomes(s, "turn", IdleJob) /\ "turn" \in Callers
    BY <1>1, <1>2, <2>2, DescendBecomes DEF Workers
  <2>3. CASE Orphaned(s)
    <3>1. "turn" \in Workers
      BY <2>3 DEF Orphaned, Workers
    <3> SUFFICES ASSUME NEW t \in SessionKeys, NEW d \in Workers PROVE Descends(t, d)
      OBVIOUS
    <3>2. job'[t][d] = IF t = s /\ d = "turn" THEN IdleJob
                       ELSE IF t = s /\ d = "orphan" THEN ThreadOf(job[s]["turn"]) ELSE job[t][d]
      BY <2>3 DEF Orphaned
    <3>3. CASE job'[t][d] = job[t][d]
      BY <3>3 DEF Descends
    <3>4. CASE job'[t][d] = IdleJob
      BY <1>1, <1>2, <3>4 DEF Descends
    <3>5. CASE t = s /\ d = "orphan" /\ job'[t][d] = ThreadOf(job[s]["turn"])
      <4>1. job[s]["turn"] \in Jobs
        BY <1>2, <3>1 DEF MemoryTyping
      <4>2. /\ job'[t][d].at = job[s]["turn"].at /\ job'[t][d].ids = job[s]["turn"].ids
            /\ job'[t][d].copy = job[s]["turn"].copy /\ job'[t][d].upto = 0
        BY <3>5, <4>1, ThreadKeeps
      <4> QED
        BY <3>1, <3>5, <4>2 DEF Descends
    <3> QED
      BY <3>2, <3>3, <3>4, <3>5
  <2> QED
    BY <1>6, <2>1, <2>2, <2>3, TurnJobs
<1>7. ASSUME NEW s \in SessionKeys,
             TurnSaves(s) \/ DoneCallback(s) \/ ("queue" \in Callers /\ MaintenanceStep(s))
      PROVE  Goal
  <2>1. \/ job' = job
        \/ "queue" \in Callers /\ Becomes(s, "queue", Moves(s, "queue", "lock"))
        \/ "queue" \in Callers /\ Becomes(s, "queue", IdleJob)
        \/ /\ "queue" \in Callers
           /\ \E upto \in Nat, ids \in Seq(Nat) :
                 Windowed(s, upto, ids) /\ Becomes(s, "queue", Takes(upto, ids))
    BY <1>7, TaskJobs DEF MaintenanceStep, Finishes
  <2>2. "queue" \in Callers => "queue" \in Workers /\ Moves(s, "queue", "lock").at = "lock"
    BY <1>2, JobRecords, StageNames DEF Workers
  <2>3. ASSUME "queue" \in Callers, NEW upto \in Nat, NEW ids \in Seq(Nat),
               Windowed(s, upto, ids), Becomes(s, "queue", Takes(upto, ids))
        PROVE  Goal
    <3>1. /\ Takes(upto, ids).at = "model" /\ Takes(upto, ids).upto = upto
          /\ Takes(upto, ids).ids = ids
      BY <1>2, JobRecords
    <3> QED
      BY <1>1, <2>2, <2>3, <3>1, DescendBecomes
  <2> QED
    BY <1>1, <1>2, <2>1, <2>2, <2>3, DescendSame, DescendBecomes
<1>8. ASSUME NEW s \in SessionKeys, NEW c \in Workers, JobStep(s, c) PROVE Goal
  <2>1. \A stage \in Stages : /\ Moves(s, c, stage).at = stage
                              /\ Moves(s, c, stage).upto = job[s][c].upto
                              /\ Moves(s, c, stage).ids = job[s][c].ids
                              /\ Lates(s, c, stage).at = stage
    BY <1>2, JobRecords
  <2>2. ASSUME NEW stage \in {"append", "written", "filed", "draft"},
               Becomes(s, c, Moves(s, c, stage)), job[s][c].at \in Reading,
               \/ stage \notin Past \/ job[s][c].at \in Past
               \/ job[s][c].ids \in Range(pending')
        PROVE  Goal
    BY <1>1, <2>1, <2>2, StageNames, DescendBecomes
  <2>3. Becomes(s, c, IdleJob) \/ Finishes(s, c) => Goal
    BY <1>1, <1>2, DescendBecomes DEF Finishes
  <2>4. c \in Callers /\ HandsBack(s, c) => Goal
    BY DescendHandBack
  <2>5. Becomes(s, c, Moves(s, c, "next")) => Goal
    BY <1>1, <2>1, StageNames, DescendBecomes
  <2>6. Becomes(s, c, Lates(s, c, "emit")) \/ Becomes(s, c, Lates(s, c, "txn")) => Goal
    BY <1>1, <2>1, StageNames, DescendBecomes
  <2>7. CASE Locked(s, c)
    <3>1. ASSUME NEW upto \in Nat, NEW ids \in Seq(Nat), Windowed(s, upto, ids),
                 Becomes(s, c, Reads(s, c, upto, ids))
          PROVE  Goal
      <4>1. \A d \in Workers : \A u \in Nat, l \in Seq(Nat) :
               /\ Reads(s, d, u, l).at = "model" /\ Reads(s, d, u, l).upto = u
               /\ Reads(s, d, u, l).ids = l
        BY <1>2, JobRecords
      <4>2. /\ Reads(s, c, upto, ids).at = "model" /\ Reads(s, c, upto, ids).upto = upto
            /\ Reads(s, c, upto, ids).ids = ids
        BY <4>1
      <4> QED
        BY <1>1, <3>1, <4>2, DescendBecomes
    <3> QED
      BY <2>4, <2>5, <2>7, <3>1, CallJobs
  <2>8. CASE ModelsAnswer(s, c)
    <3>1. job[s][c].at \in Reading
      BY <1>1, <2>8 DEF ModelsAnswer
    <3>2. "append" \notin Past /\ "draft" \notin Past
      BY <1>1
    <3> QED
      BY <2>2, <2>4, <2>8, <3>1, <3>2, CallJobs
  <2>9. CASE AppendFacts(s, c) \/ IndexFacts(s, c)
    <3>1. /\ job[s][c].at \in Reading
          /\ job[s][c].at \in Past \/ job[s][c].ids \in Range(pending')
      BY <1>1, <2>9, FactsWritten DEF AppendFacts, IndexFacts
    <3> QED
      BY <2>2, <2>3, <2>9, <3>1, CallJobs
  <2>14. CASE DraftFails(s, c) \/ WriteStops(s, c)
    BY <2>3, <2>4, <2>14, CallJobs
  <2>10. CASE SaveCopies(s, c)
    <3>1. Copies(s, c).at = "copied" /\ Copies(s, c).copy = log[s]
      BY <1>2, JobRecords
    <3>2. Becomes(s, c, Copies(s, c)) /\ "copied" \notin Past
      BY <1>1, <2>10, CallJobs
    <3> QED
      BY <3>1, <3>2, DescendBecomes
  <2>11. CASE CommitDraft(s, c) \/ SaveAssigns(s, c)
    BY <2>6, <2>11, CallJobs
  <2>12. CASE Emit(s, c)
    BY <2>4, <2>12, CallJobs
  <2>13. CASE SaveCommits(s, c)
    BY <2>3, <2>5, <2>13, CallJobs
  <2> QED
    BY <1>8, <2>7, <2>8, <2>9, <2>10, <2>11, <2>12, <2>13, <2>14 DEF JobStep
<1> QED
  BY <1>3, <1>4, <1>5, <1>6, <1>7, <1>8 DEF MemoryNext, TurnStep

\* Only saves change what is stored, and they store the session as it is.
LEMMA StoredStep ==
    ASSUME MemoryTyped, [MemoryNext]_memoryVars, NEW s \in SessionKeys
    PROVE  /\ \/ stored'[s] = stored[s]
              \/ stored'[s] = Image(s) /\ log' = log /\ cursor' = cursor /\ archived' = archived
           /\ archived \subseteq archived'
<1> USE DEF messages, files, notes
<1>0. stored \in [SessionKeys -> [log : Seq(Nat), cursor : Nat]]
  BY DEF MemoryTyped, MemoryTyping
<1>1. CASE UNCHANGED memoryVars \/ ProgramDies
  BY <1>1 DEF memoryVars, ProgramDies
<1>2. ASSUME NEW t \in SessionKeys, TurnSaves(t) \/ \E c \in Workers : SaveCommits(t, c)
      PROVE  \/ stored'[s] = stored[s] /\ archived' = archived
             \/ stored'[s] = Image(s) /\ log' = log /\ cursor' = cursor /\ archived' = archived
  BY <1>0, <1>2 DEF TurnSaves, SaveCommits
<1>3. ASSUME NEW t \in SessionKeys,
             \/ TurnBegins(t) \/ Guard(t) \/ Compact(t) \/ CallTimesOut(t) \/ ControlAsks(t)
             \/ CancelTurn(t) \/ DoneCallback(t) \/ MaintenanceStep(t)
             \/ \E how \in {"saving", "silent"} : TurnAdds(t, how)
      PROVE  stored' = stored /\ archived' = archived
  BY <1>3 DEF TurnBegins, Guard, Compact, CallTimesOut, ControlAsks, CancelTurn, DoneCallback,
              MaintenanceStep, TakeEvent, QueueEmpty, TurnAdds
<1>4. ASSUME NEW t \in SessionKeys, NEW c \in Workers,
             \/ Locked(t, c) \/ ModelsAnswer(t, c) \/ AppendFacts(t, c) \/ IndexFacts(t, c)
             \/ DraftFails(t, c) \/ WriteStops(t, c)
             \/ CommitDraft(t, c) \/ Emit(t, c) \/ SaveCopies(t, c) \/ SaveAssigns(t, c)
      PROVE  stored' = stored /\ archived \subseteq archived'
  BY <1>4 DEF Locked, ModelsAnswer, AppendFacts, IndexFacts, DraftFails, WriteStops, CommitDraft,
              Emit, SaveCopies, SaveAssigns
<1> QED
  BY <1>1, <1>2, <1>3, <1>4 DEF MemoryNext, TurnStep, JobStep

\* The cursor moves with a draft that is committed, and otherwise when the
\* program starts again.
LEMMA CursorStep ==
    ASSUME MemoryTyped, [MemoryNext]_memoryVars
    PROVE  \/ cursor' = cursor
           \/ ProgramDies
           \/ \E s \in SessionKeys, c \in Workers : CommitDraft(s, c)
<1> USE DEF messages, files, notes
<1>3. ASSUME NEW t \in SessionKeys, TurnStep(t) \/ CancelTurn(t) \/ ControlAsks(t)
                                    \/ DoneCallback(t) \/ MaintenanceStep(t)
      PROVE  cursor' = cursor
  BY <1>3 DEF TurnBegins, Guard, Compact, CallTimesOut, ControlAsks, CancelTurn, DoneCallback,
              MaintenanceStep, TakeEvent, QueueEmpty, TurnAdds, TurnSaves, TurnStep
<1>4. ASSUME NEW t \in SessionKeys, NEW c \in Workers, JobStep(t, c), ~CommitDraft(t, c)
      PROVE  cursor' = cursor
  BY <1>4 DEF Locked, ModelsAnswer, AppendFacts, IndexFacts, DraftFails, WriteStops, Emit,
              SaveCopies, SaveAssigns, SaveCommits, JobStep
<1> QED
  BY <1>3, <1>4 DEF MemoryNext, memoryVars

\* Whoever has read a window read it after the last commit.
Advances(s) ==
    /\ stored[s].cursor <= cursor[s]
    /\ \A c \in Callers : job[s][c].at \in Reading => cursor[s] <= job[s][c].upto

LEMMA AdvancesStep ==
    ASSUME MemoryTyped, Ordered, [MemoryNext]_memoryVars, \A s \in SessionKeys : Advances(s),
           NEW s \in SessionKeys
    PROVE  Advances(s)' /\ stored'[s].cursor >= stored[s].cursor
<1>1. /\ stored[s].cursor \in Nat /\ cursor[s] \in Nat
      /\ \A c \in Callers : job[s][c].upto \in Nat
  BY JobFields DEF MemoryTyped, MemoryTyping, Workers
<1>2. Image(s).cursor = cursor[s]
  BY DEF Image
<1>3. Callers \subseteq Workers /\ "orphan" \notin Callers
  BY ConsolidationConstants DEF Workers
<1>4. stored'[s].cursor \in {stored[s].cursor, cursor[s]}
      /\ (stored'[s].cursor # stored[s].cursor => cursor'[s] = cursor[s])
  BY <1>2, StoredStep
<1>5. CASE cursor' = cursor
  <2>1. ASSUME NEW c \in Callers, job'[s][c].at \in Reading
        PROVE  cursor[s] <= job'[s][c].upto
    <3>1. Descends(s, c) /\ c \in Workers /\ c # "orphan"
      BY <1>3, Descent
    <3>2. CASE Windowed(s, job'[s][c].upto, job'[s][c].ids)
      <4>1. job'[s][c].upto \in Nat
        BY <2>1, <3>1, TypedStep DEF MemoryTyped, MemoryTyping, Jobs
      <4> QED
        BY <1>1, <3>2, <4>1 DEF Windowed
    <3>3. CASE job[s][c].at \in Reading /\ job'[s][c].upto = job[s][c].upto
      BY <3>3 DEF Advances
    <3> QED
      BY <2>1, <3>1, <3>2, <3>3 DEF Descends, Reading
  <2> QED
    BY <1>1, <1>4, <1>5, <2>1 DEF Advances
<1>6. CASE ProgramDies
  <2>1. /\ stored' = stored /\ cursor'[s] = stored[s].cursor
        /\ \A c \in Workers : job'[s][c].at = "idle"
    BY <1>6, IdleIsJob DEF ProgramDies
  <2> QED
    BY <1>1, <1>3, <2>1 DEF Advances, Reading
<1>7. ASSUME NEW t \in SessionKeys, NEW c \in Workers, CommitDraft(t, c)
      PROVE  Advances(s)' /\ stored'[s].cursor >= stored[s].cursor
  <2>1. /\ stored' = stored /\ cursor' = [cursor EXCEPT ![t] = job[t][c].upto]
        /\ job[t][c].at \in {"draft", "filed"} /\ c \in Callers /\ Becomes(t, c, Lates(t, c, "emit"))
    BY <1>7, CallJobs DEF CommitDraft, CursorAfter
  <2>2. cursor \in [SessionKeys -> Nat] /\ Lates(t, c, "emit").at = "emit"
    <3>1. cursor \in [SessionKeys -> Nat] /\ MemoryTyping
      BY DEF MemoryTyped, MemoryTyping
    <3>2. \A d \in Workers : \A stage \in Stages : Lates(t, d, stage).at = stage
      BY <3>1, JobRecords
    <3> QED
      BY <2>1, <3>1, <3>2, StageNames
  <2>3. \A d \in Workers : job'[s][d] = IF s = t /\ d = c THEN Lates(t, c, "emit") ELSE job[s][d]
    BY <2>1 DEF Becomes
  <2>4. CASE s # t
    BY <1>1, <1>3, <2>1, <2>2, <2>3, <2>4 DEF Advances
  <2>5. CASE s = t
    <3>1. cursor[s] <= job[s][c].upto /\ cursor'[s] = job[s][c].upto
      BY <2>1, <2>2, <2>5 DEF Advances, Reading
    <3>2. ASSUME NEW d \in Callers, d # c PROVE job[s][d].at \notin Reading
      <4>1. HoldAt(c, job[s][c].at) => held[s] = c
        BY <1>3, <2>1 DEF Ordered, LockMatches
      <4>2. HoldAt(d, job[s][d].at) => held[s] = d
        BY <1>3 DEF Ordered, LockMatches
      <4>3. HoldAt(c, job[s][c].at) /\ (job[s][d].at \in Reading => HoldAt(d, job[s][d].at))
        BY <1>3, <2>1, <2>5 DEF HoldAt, Reading
      <4> QED
        BY <3>2, <4>1, <4>2, <4>3
    <3>3. \A d \in Callers : job'[s][d].at \notin Reading
      BY <1>3, <2>2, <2>3, <2>5, <3>2 DEF Reading
    <3> QED
      BY <1>1, <2>1, <3>1, <3>3 DEF Advances
  <2> QED
    BY <2>4, <2>5
<1> QED
  BY <1>5, <1>6, <1>7, CursorStep

------------------------------------------------------------------------------
\* The sources of committed drafts, and those of jobs past their append, have
\* their markers in PENDING.md.
Filed ==
    /\ noted \subseteq Range(pending)
    /\ \A s \in SessionKeys, c \in Workers :
          job[s][c].at \in Past => job[s][c].ids \in Range(pending)

\* PENDING.md only grows.
LEMMA PendingGrows ==
    ASSUME MemoryTyped, [MemoryNext]_memoryVars
    PROVE  Range(pending) \subseteq Range(pending')
<1> USE DEF files, notes
<1>1. ASSUME NEW t \in SessionKeys, TurnStep(t) \/ CancelTurn(t) \/ ControlAsks(t)
                                    \/ DoneCallback(t) \/ MaintenanceStep(t)
      PROVE  pending' = pending
  BY <1>1 DEF TurnBegins, Guard, Compact, CallTimesOut, ControlAsks, CancelTurn, DoneCallback,
              MaintenanceStep, TakeEvent, QueueEmpty, TurnAdds, TurnSaves, TurnStep
<1>2. ASSUME NEW t \in SessionKeys, NEW c \in Workers, JobStep(t, c),
             ~AppendFacts(t, c), ~WriteStops(t, c)
      PROVE  pending' = pending
  BY <1>2 DEF Locked, ModelsAnswer, IndexFacts, DraftFails, CommitDraft, Emit, SaveCopies,
              SaveAssigns, SaveCommits, JobStep
<1>3. ASSUME NEW t \in SessionKeys, NEW c \in Workers, WriteStops(t, c)
      PROVE  Range(pending) \subseteq Range(pending')
  <2> DEFINE source == job[t][c].ids
  <2>1. pending' = Append(pending, source) /\ pending \in Seq(Seq(Nat)) /\ source \in Seq(Nat)
    BY <1>3, JobFields DEF WriteStops, Write, MemoryTyped, MemoryTyping
  <2> HIDE DEF source
  <2> QED
    BY <2>1, MarkerAdded
<1> QED
  BY <1>1, <1>2, <1>3, FactsWritten DEF MemoryNext, memoryVars, ProgramDies

\* A source is noted when its draft is committed, past its append.
LEMMA NotedStep ==
    ASSUME [MemoryNext]_memoryVars
    PROVE  \/ noted' = noted
           \/ \E s \in SessionKeys, c \in Workers :
                 job[s][c].at \in Past /\ noted' = noted \union {job[s][c].ids}
<1> USE DEF files
<1>1. ASSUME NEW t \in SessionKeys, TurnStep(t) \/ CancelTurn(t) \/ ControlAsks(t)
                                    \/ DoneCallback(t) \/ MaintenanceStep(t)
      PROVE  noted' = noted
  BY <1>1 DEF TurnBegins, Guard, Compact, CallTimesOut, ControlAsks, CancelTurn, DoneCallback,
              MaintenanceStep, TakeEvent, QueueEmpty, TurnAdds, TurnSaves, TurnStep
<1>2. ASSUME NEW t \in SessionKeys, NEW c \in Workers, JobStep(t, c), ~CommitDraft(t, c)
      PROVE  noted' = noted
  BY <1>2 DEF Locked, ModelsAnswer, AppendFacts, IndexFacts, DraftFails, WriteStops, Emit,
              SaveCopies, SaveAssigns, SaveCommits, JobStep
<1>3. ASSUME NEW t \in SessionKeys, NEW c \in Workers, CommitDraft(t, c)
      PROVE  \/ noted' = noted
             \/ job[t][c].at \in Past /\ noted' = noted \union {job[t][c].ids}
  BY <1>3 DEF CommitDraft, Past
<1> QED
  BY <1>1, <1>2, <1>3 DEF MemoryNext, memoryVars, ProgramDies

LEMMA FiledStep ==
    ASSUME MemoryTyped, Filed, [MemoryNext]_memoryVars
    PROVE  Filed'
<1>1. Range(pending) \subseteq Range(pending')
  BY PendingGrows
<1>2. noted' \subseteq Range(pending')
  BY <1>1, NotedStep DEF Filed
<1>3. ASSUME NEW s \in SessionKeys, NEW c \in Workers, job'[s][c].at \in Past
      PROVE  job'[s][c].ids \in Range(pending')
  BY <1>1, <1>3, Descent DEF Descends, Filed
<1>4. Past' = Past /\ Range(pending)' = Range(pending')
  BY DEF Past, Range
<1> QED
  BY <1>2, <1>3, <1>4 DEF Filed

\* a is the beginning of b.
Begins(a, b) == Len(a) <= Len(b) /\ \A i \in 1 .. Len(a) : a[i] = b[i]

\* The first n messages of l are among the known ones.
Covers(l, n, known) == n <= Len(l) /\ \A i \in 1 .. n : l[i] \in known

\* Every message has an id of its own, and none is newer than the last given.
Distinct(l, last) ==
    /\ \A i \in DOMAIN l : l[i] <= last
    /\ \A i, j \in DOMAIN l : l[i] = l[j] => i = j

\* Up to the cursor every message of s is archived, up to the end of an open
\* window archived or read, and every copy is a beginning of the session.
Kept(s) ==
    /\ Distinct(log[s], fresh)
    /\ Begins(stored[s].log, log[s])
    /\ Covers(log[s], cursor[s], archived)
    /\ Covers(stored[s].log, stored[s].cursor, archived)
    /\ \A c \in Workers :
          /\ job[s][c].at \in Reading
                => Covers(log[s], job[s][c].upto, archived \union Range(job[s][c].ids))
          /\ job[s][c].at = "copied" => Begins(job[s][c].copy, log[s])

LEMMA CoversMore ==
    ASSUME NEW l \in Seq(Nat), NEW m \in Seq(Nat), NEW n \in Nat, NEW known, NEW more,
           Covers(l, n, known), Begins(l, m), known \subseteq more
    PROVE  Covers(m, n, more)
<1>1. Len(l) \in Nat /\ Len(m) \in Nat /\ Len(l) <= Len(m) /\ n <= Len(l)
  BY DEF Covers, Begins
<1>2. ASSUME NEW i \in 1 .. n PROVE m[i] \in more
  <2>1. l[i] \in known /\ i \in 1 .. Len(l)
    BY <1>1 DEF Covers
  <2>2. m[i] = l[i]
    BY <2>1 DEF Begins
  <2> QED
    BY <2>1, <2>2
<1>3. n <= Len(m)
  BY <1>1
<1> QED
  BY <1>2, <1>3 DEF Covers

LEMMA BeginsMore ==
    ASSUME NEW k \in Seq(Nat), NEW l \in Seq(Nat), NEW m \in Seq(Nat), Begins(k, l), Begins(l, m)
    PROVE  Begins(k, m)
  BY DEF Begins

LEMMA BeginsItself == \A l : l \in Seq(Nat) => Begins(l, l)
  BY DEF Begins

LEMMA DistinctPart ==
    ASSUME NEW l \in Seq(Nat), NEW m \in Seq(Nat), NEW last \in Nat, Distinct(l, last), Begins(m, l)
    PROVE  Distinct(m, last)
<1>1. /\ DOMAIN l = 1 .. Len(l) /\ DOMAIN m = 1 .. Len(m)
      /\ Len(l) \in Nat /\ Len(m) \in Nat /\ Len(m) <= Len(l)
  BY DEF Begins
<1>2. \A i \in DOMAIN m : i \in DOMAIN l /\ m[i] = l[i]
  BY <1>1 DEF Begins
<1> QED
  BY <1>2 DEF Distinct

LEMMA DistinctLater ==
    ASSUME NEW l \in Seq(Nat), NEW last \in Nat, NEW later \in Nat, last <= later,
           Distinct(l, last)
    PROVE  Distinct(l, later)
<1>1. \A i \in DOMAIN l : l[i] \in Nat
  OBVIOUS
<1> QED
  BY <1>1 DEF Distinct

LEMMA DistinctAdds ==
    ASSUME NEW l \in Seq(Nat), NEW last \in Nat, Distinct(l, last), NEW size \in Nat,
           NEW new \in Seq(Nat), Len(new) = size, \A i \in 1 .. size : new[i] = last + i
    PROVE  /\ l \o new \in Seq(Nat)
           /\ Begins(l, l \o new)
           /\ Distinct(l \o new, last + size)
<1> DEFINE m == l \o new
<1>1. /\ m \in Seq(Nat) /\ Len(m) = Len(l) + size /\ DOMAIN m = 1 .. Len(l) + size
      /\ \A i \in 1 .. Len(l) : m[i] = l[i]
      /\ \A i \in Len(l) + 1 .. Len(l) + size : m[i] = last + (i - Len(l))
  <2>1. /\ m \in Seq(Nat) /\ Len(m) = Len(l) + size /\ DOMAIN m = 1 .. Len(l) + size
        /\ \A i \in 1 .. Len(l) : m[i] = l[i]
    <3>1. /\ m \in Seq(Nat) /\ Len(m) = Len(l) + size
          /\ \A i \in 1 .. Len(l) : m[i] = l[i]
      OBVIOUS
    <3> QED
      BY <3>1
  <2>2. ASSUME NEW i \in Len(l) + 1 .. Len(l) + size PROVE m[i] = last + (i - Len(l))
    <3>1. m[i] = new[i - Len(l)] /\ i - Len(l) \in 1 .. size
      OBVIOUS
    <3> QED
      BY <3>1
  <2> QED
    BY <2>1, <2>2
<1>2. Len(l) \in Nat /\ DOMAIN l = 1 .. Len(l) /\ \A i \in 1 .. Len(l) : l[i] \in Nat
  OBVIOUS
<1> HIDE DEF m
<1>3. Begins(l, m)
  BY <1>1, <1>2 DEF Begins
<1>4. Distinct(m, last + size)
  <2>1. \A i \in 1 .. Len(l) : m[i] \in Nat /\ m[i] <= last
    BY <1>1, <1>2 DEF Distinct
  <2>2. \A i \in 1 .. Len(l) + size :
           i \in 1 .. Len(l) \/ (i \in Len(l) + 1 .. Len(l) + size /\ m[i] = last + (i - Len(l)))
    BY <1>1, <1>2
  <2>3. ASSUME NEW i \in 1 .. Len(l) + size PROVE m[i] <= last + size
    <3>1. CASE i \in 1 .. Len(l)
      <4>1. m[i] \in Nat /\ m[i] <= last
        BY <2>1, <3>1
      <4> QED
        BY <4>1
    <3>2. CASE i \in Len(l) + 1 .. Len(l) + size /\ m[i] = last + (i - Len(l))
      BY <1>2, <3>2
    <3> QED
      BY <2>2, <3>1, <3>2
  <2>4. ASSUME NEW i \in 1 .. Len(l) + size, NEW j \in 1 .. Len(l) + size, m[i] = m[j] PROVE i = j
    <3>1. CASE i \in 1 .. Len(l) /\ j \in 1 .. Len(l)
      BY <1>1, <1>2, <2>4, <3>1 DEF Distinct
    <3>2. CASE i \notin 1 .. Len(l) \/ j \notin 1 .. Len(l)
      BY <1>2, <2>1, <2>2, <2>4, <3>2
    <3> QED
      BY <3>1, <3>2
  <2> QED
    BY <1>1, <2>3, <2>4 DEF Distinct
<1> QED
  BY <1>1, <1>3, <1>4 DEF m

LEMMA InRange ==
    ASSUME NEW l \in Seq(Nat), NEW x \in Range(l)
    PROVE  \E j \in 1 .. Len(l) : x = l[j]
<1>1. DOMAIN l = 1 .. Len(l)
  OBVIOUS
<1> QED
  BY <1>1 DEF Range

\* A copy that has all the messages of the session is the session.
LEMMA CopyOfAll ==
    ASSUME NEW l \in Seq(Nat), NEW m \in Seq(Nat), NEW last \in Nat, Distinct(l, last),
           Begins(m, l), \A i \in 1 .. Len(l) : \E j \in 1 .. Len(m) : l[i] = m[j]
    PROVE  m = l
<1>1. /\ Len(l) \in Nat /\ Len(m) \in Nat /\ Len(m) <= Len(l)
      /\ \A i \in 1 .. Len(m) : m[i] = l[i]
      /\ \A i, j \in 1 .. Len(l) : l[i] = l[j] => i = j
  <2>1. Len(l) \in Nat /\ Len(m) \in Nat
    OBVIOUS
  <2>2. DOMAIN l = 1 .. Len(l)
    OBVIOUS
  <2>3. Len(m) <= Len(l) /\ \A i \in 1 .. Len(m) : m[i] = l[i]
    BY DEF Begins
  <2>4. \A i, j \in 1 .. Len(l) : l[i] = l[j] => i = j
    BY <2>2 DEF Distinct
  <2> QED
    BY <2>1, <2>2, <2>3, <2>4
<1>2. \A i \in 1 .. Len(l) : i \in 1 .. Len(m)
  BY <1>1
<1>3. Len(m) = Len(l)
  BY <1>1, <1>2
<1> QED
  BY <1>1, <1>3

\* What a step makes of the messages of a session from which no save has taken any.
LEMMA LogStep ==
    ASSUME MemoryTyped, [MemoryNext]_memoryVars, NEW s \in SessionKeys, dropped'[s] = {},
           dropped[s] = {} => Kept(s)
    PROVE  /\ dropped[s] = {}
           /\ \/ ProgramDies
              \/ /\ log'[s] \in Seq(Nat)
                 /\ Begins(log[s], log'[s])
                 /\ Distinct(log'[s], fresh')
<1> USE DEF messages, files, notes
<1>0. /\ log \in [SessionKeys -> Seq(Nat)] /\ fresh \in Nat
      /\ dropped \in [SessionKeys -> SUBSET Nat] /\ MemoryTyping
  BY DEF MemoryTyped, MemoryTyping
<1>1. ASSUME log' = log, fresh' = fresh, dropped' = dropped
      PROVE  /\ dropped[s] = {}
             /\ log'[s] \in Seq(Nat) /\ Begins(log[s], log'[s]) /\ Distinct(log'[s], fresh')
  BY <1>0, <1>1, BeginsItself DEF Kept
<1>2. ASSUME NEW t \in SessionKeys, NEW size \in Nat, NEW new \in Seq(Nat), Len(new) = size,
             \A i \in 1 .. size : new[i] = fresh + i,
             log' = [log EXCEPT ![t] = @ \o new], fresh' = fresh + size, dropped' = dropped
      PROVE  /\ dropped[s] = {}
             /\ log'[s] \in Seq(Nat) /\ Begins(log[s], log'[s]) /\ Distinct(log'[s], fresh')
  <2>1. log[s] \in Seq(Nat) /\ Distinct(log[s], fresh) /\ dropped[s] = {}
    BY <1>0, <1>2 DEF Kept
  <2>2. CASE s = t
    BY <1>0, <1>2, <2>1, <2>2, DistinctAdds
  <2>3. CASE s # t
    BY <1>0, <1>2, <2>1, <2>3, BeginsItself, DistinctLater
  <2> QED
    BY <2>2, <2>3
<1>3. ASSUME NEW t \in SessionKeys, NEW how \in {"saving", "silent"}, TurnAdds(t, how)
      PROVE  /\ dropped[s] = {}
             /\ log'[s] \in Seq(Nat) /\ Begins(log[s], log'[s]) /\ Distinct(log'[s], fresh')
  <2> DEFINE size == IF how = "silent" THEN 1 ELSE 2
             new == [i \in 1 .. size |-> fresh + i]
  <2>1. size \in Nat /\ new \in Seq(Nat) /\ Len(new) = size /\ \A i \in 1 .. size : new[i] = fresh + i
    BY <1>0
  <2>2. log' = [log EXCEPT ![t] = @ \o new] /\ fresh' = fresh + size /\ dropped' = dropped
    BY <1>3 DEF TurnAdds
  <2> HIDE DEF size, new
  <2> QED
    BY <1>2, <2>1, <2>2
<1>4. ASSUME NEW t \in SessionKeys, CancelTurn(t)
      PROVE  /\ dropped[s] = {}
             /\ log'[s] \in Seq(Nat) /\ Begins(log[s], log'[s]) /\ Distinct(log'[s], fresh')
  <2> DEFINE new == <<fresh + 1, fresh + 2>>
  <2>1. new \in Seq(Nat) /\ Len(new) = 2 /\ \A i \in 1 .. 2 : new[i] = fresh + i
    BY <1>0
  <2>2. /\ dropped' = dropped
        /\ \/ log' = [log EXCEPT ![t] = @ \o new] /\ fresh' = fresh + 2
           \/ log' = log /\ fresh' = fresh
    BY <1>4 DEF CancelTurn
  <2> HIDE DEF new
  <2> QED
    BY <1>1, <1>2, <2>1, <2>2
<1>5. ASSUME NEW t \in SessionKeys, NEW c \in Workers, SaveAssigns(t, c)
      PROVE  /\ dropped[s] = {}
             /\ log'[s] \in Seq(Nat) /\ Begins(log[s], log'[s]) /\ Distinct(log'[s], fresh')
  <2>1. CASE s # t
    <3>1. log'[s] = log[s] /\ fresh' = fresh /\ dropped'[s] = dropped[s]
      BY <1>0, <1>5, <2>1 DEF SaveAssigns
    <3> QED
      BY <1>0, <3>1, BeginsItself DEF Kept
  <2>2. CASE s = t
    <3>1. /\ log'[s] = job[s][c].copy /\ fresh' = fresh /\ job[s][c].at = "copied"
          /\ dropped'[s] = dropped[s] \union (Range(log[s]) \ Range(job[s][c].copy))
      BY <1>0, <1>5, <2>2 DEF SaveAssigns
    <3>2. dropped[s] = {} /\ Range(log[s]) \ Range(job[s][c].copy) = {}
      BY <3>1
    <3>3. Begins(job[s][c].copy, log[s]) /\ Distinct(log[s], fresh)
      BY <3>1, <3>2 DEF Kept
    <3>4. job[s][c].copy \in Seq(Nat) /\ log[s] \in Seq(Nat)
      BY <1>0, JobFields
    <3>5. job[s][c].copy = log[s]
      <4>1. \A x \in Range(log[s]) : x \in Range(job[s][c].copy)
        BY <3>2
      <4>2. \A i \in 1 .. Len(log[s]) : \E j \in 1 .. Len(job[s][c].copy) :
               log[s][i] = job[s][c].copy[j]
        <5> SUFFICES ASSUME NEW i \in 1 .. Len(log[s])
                     PROVE  \E j \in 1 .. Len(job[s][c].copy) : log[s][i] = job[s][c].copy[j]
          OBVIOUS
        <5>1. log[s][i] \in Range(log[s])
          BY <3>4 DEF Range
        <5>2. log[s][i] \in Range(job[s][c].copy)
          BY <4>1, <5>1
        <5> QED
          BY <3>4, <5>2, InRange
      <4> QED
        BY <1>0, <3>3, <3>4, <4>2, CopyOfAll
    <3> QED
      BY <3>1, <3>2, <3>3, <3>4, <3>5, BeginsItself
  <2> QED
    BY <2>1, <2>2
<1>6. ASSUME NEW t \in SessionKeys,
             \/ TurnBegins(t) \/ Guard(t) \/ Compact(t) \/ CallTimesOut(t) \/ ControlAsks(t)
             \/ DoneCallback(t) \/ MaintenanceStep(t) \/ TurnSaves(t)
      PROVE  log' = log /\ fresh' = fresh /\ dropped' = dropped
  BY <1>6 DEF TurnBegins, Guard, Compact, CallTimesOut, ControlAsks, DoneCallback,
              MaintenanceStep, TakeEvent, QueueEmpty, TurnSaves
<1>7. ASSUME NEW t \in SessionKeys, NEW c \in Workers,
             \/ Locked(t, c) \/ ModelsAnswer(t, c) \/ AppendFacts(t, c) \/ IndexFacts(t, c)
             \/ DraftFails(t, c) \/ WriteStops(t, c)
             \/ CommitDraft(t, c) \/ Emit(t, c) \/ SaveCopies(t, c) \/ SaveCommits(t, c)
      PROVE  log' = log /\ fresh' = fresh /\ dropped' = dropped
  BY <1>7 DEF Locked, ModelsAnswer, AppendFacts, IndexFacts, DraftFails, WriteStops, CommitDraft,
              Emit, SaveCopies, SaveCommits
<1>8. CASE UNCHANGED memoryVars
  BY <1>1, <1>8 DEF memoryVars
<1>9. CASE ProgramDies
  BY <1>9 DEF ProgramDies
<1> QED
  BY <1>1, <1>3, <1>4, <1>5, <1>6, <1>7, <1>8, <1>9 DEF MemoryNext, TurnStep, JobStep

LEMMA KeptStep ==
    ASSUME MemoryTyped, Ordered, [MemoryNext]_memoryVars, NEW s \in SessionKeys,
           dropped[s] = {} => Kept(s), dropped'[s] = {}
    PROVE  Kept(s)'
<1>1. Kept(s) /\ dropped[s] = {}
  BY LogStep
<1>2. /\ log[s] \in Seq(Nat) /\ cursor[s] \in Nat /\ fresh \in Nat
      /\ stored[s].log \in Seq(Nat) /\ stored[s].cursor \in Nat
      /\ \A c \in Workers : job[s][c].upto \in Nat /\ job[s][c].copy \in Seq(Nat)
  BY JobFields DEF MemoryTyped, MemoryTyping
<1>3. archived \subseteq archived'
  BY StoredStep
<1>4. CASE ProgramDies
  <2>1. /\ log'[s] = stored[s].log /\ cursor'[s] = stored[s].cursor
        /\ stored' = stored /\ fresh' = fresh /\ archived' = archived
        /\ \A c \in Workers : job'[s][c].at = "idle"
    BY <1>4, IdleIsJob DEF ProgramDies, files, notes
  <2>2. Distinct(stored[s].log, fresh)
    BY <1>1, <1>2, DistinctPart DEF Kept
  <2>3. Begins(stored[s].log, stored[s].log)
    BY <1>2, BeginsItself
  <2>4. Covers(stored[s].log, stored[s].cursor, archived)
    BY <1>1 DEF Kept
  <2> QED
    BY <2>1, <2>2, <2>3, <2>4 DEF Kept, Reading
<1>5. CASE log'[s] \in Seq(Nat) /\ Begins(log[s], log'[s]) /\ Distinct(log'[s], fresh')
  <2>1. Begins(stored'[s].log, log'[s])
    <3>1. CASE stored'[s] = stored[s]
      BY <1>1, <1>2, <1>5, <3>1, BeginsMore DEF Kept
    <3>2. CASE stored'[s] = Image(s)
      BY <1>5, <3>2 DEF Image
    <3> QED
      BY <3>1, <3>2, StoredStep
  <2>2. Covers(stored'[s].log, stored'[s].cursor, archived')
    <3>1. CASE stored'[s] = stored[s]
      <4>1. Begins(stored[s].log, stored[s].log) /\ Covers(stored[s].log, stored[s].cursor, archived)
        BY <1>1, <1>2, BeginsItself DEF Kept
      <4> QED
        BY <1>2, <1>3, <3>1, <4>1, CoversMore
    <3>2. CASE stored'[s] = Image(s) /\ archived' = archived
      BY <1>1, <3>2 DEF Image, Kept
    <3> QED
      BY <3>1, <3>2, StoredStep
  <2>3. ASSUME NEW c \in Workers
        PROVE  /\ job'[s][c].at \in Reading
                    => Covers(log'[s], job'[s][c].upto, archived' \union Range(job'[s][c].ids))
               /\ job'[s][c].at = "copied" => Begins(job'[s][c].copy, log'[s])
    <3>0. ASSUME job'[s][c].upto = 0
          PROVE  Covers(log'[s], job'[s][c].upto, archived' \union Range(job'[s][c].ids))
      BY <1>5, <3>0 DEF Covers
    <3>1. ASSUME job[s][c].at \in Reading,
                 job'[s][c].upto = job[s][c].upto, job'[s][c].ids = job[s][c].ids
          PROVE  Covers(log'[s], job'[s][c].upto, archived' \union Range(job'[s][c].ids))
      <4>1. Covers(log[s], job[s][c].upto, archived \union Range(job[s][c].ids))
        BY <1>1, <3>1 DEF Kept
      <4>2. archived \union Range(job[s][c].ids) \subseteq archived' \union Range(job[s][c].ids)
        BY <1>3
      <4> QED
        BY <1>2, <1>5, <3>1, <4>1, <4>2, CoversMore
    <3>2. ASSUME Windowed(s, job'[s][c].upto, job'[s][c].ids)
          PROVE  Covers(log'[s], job'[s][c].upto, archived' \union Range(job'[s][c].ids))
      <4> DEFINE upto == job'[s][c].upto
                 ids == job'[s][c].ids
      <4>1. upto \in Nat
        <5>1. MemoryTyped'
          BY TypedStep
        <5>2. job' \in [SessionKeys -> [Workers -> Jobs]]
          BY <5>1 DEF MemoryTyped, MemoryTyping
        <5>3. job'[s][c] \in Jobs
          BY <5>2
        <5> QED
          BY <5>3 DEF Jobs
      <4>2. Windowed(s, upto, ids)
        BY <3>2
      <4> HIDE DEF upto, ids
      <4>3. Covers(log[s], upto, archived \union Range(ids))
        <5>1. upto <= Len(log[s])
          BY <4>2 DEF Windowed
        <5>2. ASSUME NEW i \in 1 .. upto PROVE log[s][i] \in archived \union Range(ids)
          <6>1. CASE i \in 1 .. cursor[s]
            BY <1>1, <6>1 DEF Kept, Covers
          <6>2. CASE i \in cursor[s] + 1 .. upto
            BY <4>2, <6>2 DEF Windowed
          <6> QED
            BY <1>2, <4>1, <6>1, <6>2
        <5> QED
          BY <5>1, <5>2 DEF Covers
      <4>4. archived \union Range(ids) \subseteq archived' \union Range(ids)
        BY <1>3
      <4>5. Covers(log'[s], upto, archived' \union Range(ids))
        BY <1>2, <1>5, <4>1, <4>3, <4>4, CoversMore
      <4> QED
        BY <4>5 DEF upto, ids
    <3>3. ASSUME NEW d \in Workers, job[s][d].at = "copied", job'[s][c].copy = job[s][d].copy
          PROVE  Begins(job'[s][c].copy, log'[s])
      <4>1. Begins(job[s][d].copy, log[s])
        BY <1>1, <3>3 DEF Kept
      <4> QED
        BY <1>2, <1>5, <3>3, <4>1, BeginsMore
    <3>4. Descends(s, c)
      BY Descent
    <3>5. CASE job'[s][c].at \in Reading
      BY <3>0, <3>1, <3>2, <3>4, <3>5 DEF Descends, Reading
    <3>6. CASE job'[s][c].at = "copied"
      BY <1>5, <3>3, <3>4, <3>6 DEF Descends, Reading
    <3> QED
      BY <3>5, <3>6 DEF Reading
  <2>4. Covers(log'[s], cursor'[s], archived')
    <3>1. CASE cursor' = cursor
      <4>1. Covers(log[s], cursor[s], archived)
        BY <1>1 DEF Kept
      <4> QED
        BY <1>2, <1>3, <1>5, <3>1, <4>1, CoversMore
    <3>2. ASSUME NEW t \in SessionKeys, NEW c \in Workers, CommitDraft(t, c)
          PROVE  Covers(log'[s], cursor'[s], archived')
      <4>1. /\ log' = log /\ cursor' = [cursor EXCEPT ![t] = job[t][c].upto]
            /\ archived' = archived \union Range(job[t][c].ids)
            /\ job[t][c].at \in {"draft", "filed"}
            /\ cursor \in [SessionKeys -> Nat]
        BY <3>2 DEF CommitDraft, CursorAfter, MemoryTyped, MemoryTyping
      <4>2. CASE t = s
        BY <1>1, <4>1, <4>2 DEF Kept, Reading
      <4>3. CASE t # s
        <5>1. Covers(log[s], cursor[s], archived) /\ cursor'[s] = cursor[s] /\ log'[s] = log[s]
          BY <1>1, <4>1, <4>3 DEF Kept
        <5> QED
          BY <1>2, <1>3, <1>5, <5>1, CoversMore
      <4> QED
        BY <4>2, <4>3
    <3>3. CASE ProgramDies
      BY <1>4, <3>3 DEF Kept
    <3> QED
      BY <3>1, <3>2, <3>3, CursorStep
  <2> QED
    BY <1>5, <2>1, <2>2, <2>3, <2>4 DEF Kept
<1> QED
  BY <1>4, <1>5, LogStep

------------------------------------------------------------------------------
LEMMA MemoryStart ==
    ASSUME MemoryInit
    PROVE  /\ MemoryTyped /\ Ordered /\ Filed
           /\ \A s \in SessionKeys : Advances(s) /\ Kept(s)
<1>1. /\ IdleJob \in Jobs /\ IdleJob.at = "idle" /\ "orphan" \in Workers
      /\ Callers \subseteq Workers /\ Nobody \notin Callers
      /\ \A c : ~HoldAt(c, "idle")
  BY IdleIsJob, ConsolidationConstants DEF Workers, HoldAt
<1>2. MemoryTyped
  BY <1>1 DEF MemoryInit, MemoryTyped, MemoryTyping, ThreadsOnly, QueueServed
<1>3. \A s \in SessionKeys : /\ log[s] = <<>> /\ cursor[s] = 0 /\ stored[s].log = <<>>
                             /\ stored[s].cursor = 0
                             /\ held[s] = Nobody /\ queue[s] = 0 /\ turn[s] = "idle" /\ entry[s] = "none"
                             /\ \A c \in Workers : job[s][c] = IdleJob
  BY DEF MemoryInit
<1>4. ASSUME NEW s \in SessionKeys PROVE LockMatches(s) /\ NobodyForgotten(s)
  BY <1>1, <1>3 DEF LockMatches, NobodyForgotten
<1>5. ASSUME NEW s \in SessionKeys PROVE Advances(s)
  BY <1>1, <1>3 DEF Advances, Reading
<1>6. ASSUME NEW s \in SessionKeys PROVE Kept(s)
  BY <1>1, <1>3 DEF Kept, Distinct, Begins, Covers, Reading
<1>7. Filed
  BY <1>1, <1>3 DEF MemoryInit, Filed, Past
<1> QED
  BY <1>2, <1>4, <1>5, <1>6, <1>7 DEF Ordered

\* The inductive invariant of the memory.
MemoryInv ==
    /\ MemoryTyped /\ Ordered /\ Filed
    /\ \A s \in SessionKeys : Advances(s) /\ (dropped[s] = {} => Kept(s))

LEMMA MemoryKeeps == MemoryInv /\ [MemoryNext]_memoryVars => MemoryInv'
<1> SUFFICES ASSUME MemoryInv, [MemoryNext]_memoryVars PROVE MemoryInv'
  OBVIOUS
<1>1. MemoryTyped /\ Ordered /\ Filed /\ \A s \in SessionKeys : Advances(s)
  BY DEF MemoryInv
<1>2. MemoryTyped' /\ Ordered' /\ Filed'
  BY <1>1, TypedStep, OrderedStep, FiledStep
<1>3. ASSUME NEW s \in SessionKeys PROVE Advances(s)'
  BY <1>1, AdvancesStep
<1>4. ASSUME NEW s \in SessionKeys, dropped'[s] = {} PROVE Kept(s)'
  BY <1>1, <1>4, KeptStep DEF MemoryInv
<1> QED
  BY <1>2, <1>3, <1>4 DEF MemoryInv

LEMMA MemoryInvariant == MemorySpec => []MemoryInv
<1>1. MemoryInit => MemoryInv
  BY MemoryStart DEF MemoryInv
<1> QED
  BY <1>1, MemoryKeeps, PTL DEF MemorySpec

\* The facts of every committed draft are in PENDING.md, but for those whose
\* write stopped behind its marker: through failed appends, calls that were
\* cancelled, threads that outlive them and crashes (append_pending_once).
THEOREM FactsFiled == MemorySpec => []FactsAreOnFile
<1>1. MemoryInv => FactsAreOnFile
  BY DEF MemoryInv, Filed, FactsAreOnFile
<1> QED
  BY <1>1, MemoryInvariant, PTL

\* Every message before the cursor of a session is in the archive, through
\* cancelled tasks, threads that outlive them and crashes, in a session none of
\* whose messages a save of a stale copy has dropped (_finalize_consolidation).
THEOREM NothingForgotten == MemorySpec => []NothingIsForgotten
<1>1. MemoryInv => NothingIsForgotten
  BY DEF MemoryInv, NothingIsForgotten, Kept, Covers
<1> QED
  BY <1>1, MemoryInvariant, PTL

\* A turn in the queue has a task that will get to it, the maintenance lock is
\* with a consolidation that is there, and a guarding turn's runs (enqueue, run).
THEOREM Served == MemorySpec => []WaitersAreServed
<1>1. MemoryInv => WaitersAreServed
  <2> SUFFICES ASSUME MemoryInv, NEW s \in SessionKeys
               PROVE  /\ queue[s] > 0 => entry[s] # "none"
                      /\ "queue" \in Callers => (entry[s] = "live" <=> job[s]["queue"] # IdleJob)
                      /\ held[s] # Nobody => job[s][held[s]] # IdleJob
                      /\ turn[s] = "guarding" => InCall(s)
    BY DEF WaitersAreServed
  <2>1. LockMatches(s) /\ NobodyForgotten(s) /\ MemoryTyped
    BY DEF MemoryInv, Ordered
  <2>2. IdleJob.at = "idle" /\ held[s] \in Callers \union {Nobody} /\ Callers \subseteq Workers
    BY <2>1, IdleIsJob DEF MemoryTyped, MemoryTyping, Workers
  <2>3. held[s] # Nobody => job[s][held[s]] # IdleJob
    BY <2>1, <2>2 DEF LockMatches, HoldAt
  <2>4. \A c \in Callers : job[s][c].at = "idle" <=> job[s][c] = IdleJob
    BY <2>1, <2>2 DEF LockMatches
  <2> QED
    BY <2>1, <2>3, <2>4 DEF NobodyForgotten, InCall
<1> QED
  BY <1>1, MemoryInvariant, PTL

\* No save takes a cursor back in sessions.db (last_consolidated).
THEOREM CursorAdvances == MemorySpec => CursorNeverRetreats
<1>1. MemoryInv /\ [MemoryNext]_memoryVars
         => [\A s \in SessionKeys : stored'[s].cursor >= stored[s].cursor]_memoryVars
  <2> SUFFICES ASSUME MemoryInv, [MemoryNext]_memoryVars, NEW s \in SessionKeys
               PROVE  stored'[s].cursor >= stored[s].cursor
    OBVIOUS
  <2> QED
    BY AdvancesStep DEF MemoryInv
<1> QED
  BY <1>1, MemoryInvariant, PTL DEF MemorySpec, CursorNeverRetreats

(***************************************************************************)
(* Turns.  The proofs rest on what the steps have in common.  A step moves *)
(* one task at most (TaskMovement), posts or sends one envelope at most    *)
(* (Posting), concerns one push at most (PushesSteady, LeavesPush), and    *)
(* lets the transcripts grow (TellsTruly).  The invariant has a part for   *)
(* each: a ticket of a lane that is still to be served is of one push or   *)
(* was given up (PushesHold); a live task waits for its session's one lock *)
(* or holds it, alone (LocksHold); each envelope has a ticket its lane has *)
(* given and not served, and the counts are those of the sets (CountInv);  *)
(* answers are posted, sent and shown in the order of the transcript       *)
(* (OrderInv), for only one turn of a session can be at its commit.        *)
(***************************************************************************)

Lanes == [turns : Nat, sends : Nat, sending : BOOLEAN, next : Nat, serving : Nat,
          nextPush : Nat, servingPush : Nat, cancelled : SUBSET Nat]

\* The pushes of a lane: the ticket being served has not been given up.
SoundLane(l) ==
    /\ l \in Lanes
    /\ l.servingPush <= l.nextPush
    /\ \A t \in l.cancelled : l.servingPush < t /\ t < l.nextPush

\* Nothing but the counts of a lane's answers changes from l to k.
SamePushes(l, k) ==
    /\ k.nextPush = l.nextPush /\ k.servingPush = l.servingPush /\ k.cancelled = l.cancelled

SameAnswers(l, k) ==
    /\ k.turns = l.turns /\ k.sends = l.sends /\ k.next = l.next /\ k.serving = l.serving

\* A set of naturals that has an element has a least one.
LEMMA LeastNatural ==
    ASSUME NEW T, T \subseteq Nat, T # {}
    PROVE  \E x \in T : \A y \in T : x <= y
<1>1. PICK x \in T : \A y \in T : ~(<<y, x>> \in OpToRel(<, Nat))
  <2> DEFINE R == OpToRel(<, Nat)
  <2>1. IsWellFoundedOn(R, Nat)
    BY NatLessThanWellFounded
  <2> HIDE DEF R
  <2>2. \E x \in T : \A y \in T : ~(<<y, x>> \in R)
    BY <2>1, WFMin
  <2> QED
    BY <2>2 DEF R
<1>2. \A y \in T : ~(y < x)
  BY <1>1 DEF OpToRel
<1> QED
  BY <1>2

\* _skip_cancelled_non_passive stops at the first ticket that nobody gave up.
LEMMA Skipping ==
    ASSUME NEW l \in Lanes, l.servingPush <= l.nextPush, \A t \in l.cancelled : t < l.nextPush
    PROVE  /\ SoundLane(SkipCancelled(l))
           /\ SameAnswers(l, SkipCancelled(l))
           /\ SkipCancelled(l).sending = l.sending
           /\ SkipCancelled(l).nextPush = l.nextPush
           /\ l.servingPush <= SkipCancelled(l).servingPush
           /\ \A t \in l.servingPush .. SkipCancelled(l).servingPush - 1 : t \in l.cancelled
           /\ SkipCancelled(l).servingPush \notin l.cancelled
           /\ \A t \in Nat : t \in SkipCancelled(l).cancelled
                  <=> t \in l.cancelled /\ SkipCancelled(l).servingPush <= t
<1> DEFINE OK(t) == /\ t \notin l.cancelled
                    /\ \A u \in l.servingPush .. t - 1 : u \in l.cancelled
           first == CHOOSE t \in l.servingPush .. l.nextPush : OK(t)
<1>1. l.servingPush \in Nat /\ l.nextPush \in Nat /\ l.cancelled \subseteq Nat
  BY DEF Lanes
<1>2. first \in l.servingPush .. l.nextPush /\ OK(first)
  <2> DEFINE T == {t \in l.servingPush .. l.nextPush : t \notin l.cancelled}
  <2>1. T \subseteq Nat /\ l.nextPush \in T
    BY <1>1
  <2>2. PICK x \in T : \A y \in T : x <= y
    <3> HIDE DEF T
    <3> QED
      BY <2>1, LeastNatural
  <2>3. x \in l.servingPush .. l.nextPush /\ x \notin l.cancelled
    OBVIOUS
  <2>4. ASSUME NEW u \in l.servingPush .. x - 1 PROVE u \in l.cancelled
    <3>1. u \in l.servingPush .. l.nextPush /\ ~(x <= u)
      BY <1>1, <2>3
    <3>2. u \notin T
      BY <2>2, <3>1
    <3> QED
      BY <3>1, <3>2
  <2>5. OK(x)
    BY <2>3, <2>4
  <2> HIDE DEF OK
  <2> QED
    BY <2>3, <2>5
<1>3. SkipCancelled(l) = [l EXCEPT !.servingPush = first,
                                   !.cancelled = {t \in l.cancelled : t >= first}]
  BY DEF SkipCancelled
<1> HIDE DEF first
<1>4. ASSUME NEW f \in Nat, NEW C \in SUBSET Nat
      PROVE  LET k == [l EXCEPT !.servingPush = f, !.cancelled = C] IN
             /\ k \in Lanes /\ k.servingPush = f /\ k.cancelled = C
             /\ k.nextPush = l.nextPush /\ k.sending = l.sending
             /\ k.turns = l.turns /\ k.sends = l.sends /\ k.next = l.next /\ k.serving = l.serving
  BY DEF Lanes
<1>5. first \in Nat /\ {t \in l.cancelled : t >= first} \in SUBSET Nat
  BY <1>1, <1>2
<1>6. /\ SkipCancelled(l) \in Lanes /\ SkipCancelled(l).servingPush = first
      /\ SkipCancelled(l).cancelled = {t \in l.cancelled : t >= first}
      /\ SkipCancelled(l).nextPush = l.nextPush /\ SkipCancelled(l).sending = l.sending
      /\ SameAnswers(l, SkipCancelled(l))
  <2> DEFINE C == {t \in l.cancelled : t >= first}
  <2>1. C \in SUBSET Nat /\ SkipCancelled(l) = [l EXCEPT !.servingPush = first, !.cancelled = C]
    BY <1>3, <1>5
  <2> HIDE DEF C
  <2>2. /\ SkipCancelled(l) \in Lanes /\ SkipCancelled(l).servingPush = first
        /\ SkipCancelled(l).cancelled = C
        /\ SkipCancelled(l).nextPush = l.nextPush /\ SkipCancelled(l).sending = l.sending
        /\ SkipCancelled(l).turns = l.turns /\ SkipCancelled(l).sends = l.sends
        /\ SkipCancelled(l).next = l.next /\ SkipCancelled(l).serving = l.serving
    BY <1>5, <2>1 DEF Lanes
  <2> QED
    BY <2>2 DEF SameAnswers, C
<1>7. \A t \in l.cancelled : t >= first => first < t
  BY <1>1, <1>2
<1>8. SoundLane(SkipCancelled(l))
  BY <1>1, <1>2, <1>6, <1>7 DEF SoundLane
<1> QED
  BY <1>1, <1>2, <1>6, <1>8

LEMMA Counting ==
    ASSUME NEW l, SoundLane(l)
    PROVE  /\ SoundLane(Posted(l)) /\ SamePushes(l, Posted(l))
           /\ Posted(l).turns = l.turns /\ Posted(l).sends = l.sends + 1
           /\ Posted(l).next = l.next + 1 /\ Posted(l).serving = l.serving
           /\ SoundLane(Completed(l)) /\ SamePushes(l, Completed(l))
           /\ Completed(l).turns = (IF l.turns > 0 THEN l.turns - 1 ELSE 0)
           /\ Completed(l).sends = l.sends
           /\ Completed(l).next = l.next /\ Completed(l).serving = l.serving
           /\ SoundLane(Sent(l)) /\ SamePushes(l, Sent(l))
           /\ Sent(l).turns = l.turns
           /\ Sent(l).sends = (IF l.sends > 0 THEN l.sends - 1 ELSE 0)
           /\ Sent(l).next = l.next /\ Sent(l).serving = l.serving + 1
           /\ SoundLane([l EXCEPT !.turns = @ + 1]) /\ SamePushes(l, [l EXCEPT !.turns = @ + 1])
           /\ [l EXCEPT !.turns = @ + 1].turns = l.turns + 1
           /\ [l EXCEPT !.turns = @ + 1].sends = l.sends
           /\ [l EXCEPT !.turns = @ + 1].next = l.next
           /\ [l EXCEPT !.turns = @ + 1].serving = l.serving
           /\ SoundLane([l EXCEPT !.sending = TRUE]) /\ SamePushes(l, [l EXCEPT !.sending = TRUE])
           /\ SameAnswers(l, [l EXCEPT !.sending = TRUE])
<1>1. l \in Lanes
  BY DEF SoundLane
<1>2. SoundLane(Posted(l)) /\ SamePushes(l, Posted(l))
      /\ Posted(l).turns = l.turns /\ Posted(l).sends = l.sends + 1
      /\ Posted(l).next = l.next + 1 /\ Posted(l).serving = l.serving
  <2>1. /\ Posted(l) \in Lanes /\ Posted(l).nextPush = l.nextPush
        /\ Posted(l).servingPush = l.servingPush /\ Posted(l).cancelled = l.cancelled
        /\ Posted(l).turns = l.turns /\ Posted(l).sends = l.sends + 1
        /\ Posted(l).next = l.next + 1 /\ Posted(l).serving = l.serving
    <3>1. l.next + 1 \in Nat /\ l.sends + 1 \in Nat
      BY <1>1 DEF Lanes
    <3> DEFINE k == [l EXCEPT !.next = l.next + 1, !.sends = l.sends + 1]
    <3>2. Posted(l) = k
      BY DEF Posted
    <3>3. k \in Lanes
      BY <1>1, <3>1 DEF Lanes
    <3>4. /\ k.nextPush = l.nextPush /\ k.servingPush = l.servingPush
          /\ k.cancelled = l.cancelled /\ k.turns = l.turns /\ k.sends = l.sends + 1
          /\ k.next = l.next + 1 /\ k.serving = l.serving
      BY <1>1 DEF Lanes
    <3> QED
      BY <3>2, <3>3, <3>4
  <2> QED
    BY <2>1 DEF SoundLane, SamePushes
<1>3. SoundLane(Completed(l)) /\ SamePushes(l, Completed(l))
      /\ Completed(l).turns = (IF l.turns > 0 THEN l.turns - 1 ELSE 0)
      /\ Completed(l).sends = l.sends
      /\ Completed(l).next = l.next /\ Completed(l).serving = l.serving
  BY <1>1 DEF SoundLane, Completed, Lanes, SamePushes
<1>4. SoundLane(Sent(l)) /\ SamePushes(l, Sent(l))
      /\ Sent(l).turns = l.turns
      /\ Sent(l).sends = (IF l.sends > 0 THEN l.sends - 1 ELSE 0)
      /\ Sent(l).next = l.next /\ Sent(l).serving = l.serving + 1
  <2> DEFINE n == IF l.sends > 0 THEN l.sends - 1 ELSE 0
             k == [l EXCEPT !.sends = n, !.serving = l.serving + 1, !.sending = FALSE]
  <2>3. Sent(l) = k /\ n \in Nat /\ l.serving + 1 \in Nat
    BY <1>1 DEF Sent, Lanes
  <2> HIDE DEF n
  <2>4. k \in Lanes
    BY <1>1, <2>3 DEF Lanes
  <2>5. /\ k.nextPush = l.nextPush /\ k.servingPush = l.servingPush
        /\ k.cancelled = l.cancelled /\ k.turns = l.turns
        /\ k.next = l.next /\ k.serving = l.serving + 1
    BY <1>1 DEF Lanes
  <2>1. /\ Sent(l) \in Lanes /\ Sent(l).nextPush = l.nextPush
        /\ Sent(l).servingPush = l.servingPush /\ Sent(l).cancelled = l.cancelled
        /\ Sent(l).turns = l.turns
        /\ Sent(l).next = l.next /\ Sent(l).serving = l.serving + 1
    BY <2>3, <2>4, <2>5
  <2>2. Sent(l).sends = (IF l.sends > 0 THEN l.sends - 1 ELSE 0)
    BY <1>1 DEF Sent, Lanes
  <2> QED
    BY <2>1, <2>2 DEF SoundLane, SamePushes
<1>5. /\ SoundLane([l EXCEPT !.turns = @ + 1]) /\ SamePushes(l, [l EXCEPT !.turns = @ + 1])
      /\ [l EXCEPT !.turns = @ + 1].turns = l.turns + 1
      /\ [l EXCEPT !.turns = @ + 1].sends = l.sends
      /\ [l EXCEPT !.turns = @ + 1].next = l.next
      /\ [l EXCEPT !.turns = @ + 1].serving = l.serving
  BY <1>1 DEF SoundLane, Lanes, SamePushes
<1>6. SoundLane([l EXCEPT !.sending = TRUE]) /\ SamePushes(l, [l EXCEPT !.sending = TRUE])
      /\ SameAnswers(l, [l EXCEPT !.sending = TRUE])
  BY <1>1 DEF SoundLane, Lanes, SamePushes, SameAnswers
<1> QED
  BY <1>2, <1>3, <1>4, <1>5, <1>6

\* Taking a ticket, and giving the turn to the next: what the pushes of a lane become.
LEMMA Ticketing ==
    ASSUME NEW l, SoundLane(l)
    PROVE  /\ SoundLane(TakePushTicket(l)) /\ SameAnswers(l, TakePushTicket(l))
           /\ TakePushTicket(l).nextPush = l.nextPush + 1
           /\ TakePushTicket(l).servingPush = l.servingPush
           /\ TakePushTicket(l).cancelled = l.cancelled
  <1> DEFINE k == [l EXCEPT !.nextPush = @ + 1]
  <1>1. /\ k \in Lanes /\ k.servingPush = l.servingPush /\ k.nextPush = l.nextPush + 1
        /\ k.cancelled = l.cancelled /\ SameAnswers(l, k)
    BY DEF SoundLane, Lanes, SameAnswers
  <1>2. /\ l.servingPush \in Nat /\ l.nextPush \in Nat /\ l.cancelled \subseteq Nat
        /\ l.servingPush <= l.nextPush /\ \A t \in l.cancelled : l.servingPush < t /\ t < l.nextPush
    BY DEF SoundLane, Lanes
  <1> HIDE DEF k
  <1>3. k.servingPush <= k.nextPush /\ \A t \in k.cancelled : t < k.nextPush
    BY <1>1, <1>2
  <1> DEFINE n == SkipCancelled(k)
  <1>4. /\ SoundLane(n) /\ SameAnswers(k, n) /\ n.nextPush = k.nextPush
        /\ k.servingPush <= n.servingPush
        /\ \A t \in k.servingPush .. n.servingPush - 1 : t \in k.cancelled
        /\ \A t \in Nat : t \in n.cancelled <=> t \in k.cancelled /\ n.servingPush <= t
    BY <1>1, <1>3, Skipping
  <1>5. n.servingPush \in Nat /\ n.cancelled \subseteq Nat
    BY <1>4 DEF SoundLane, Lanes
  <1> HIDE DEF n
  <1>6. n.servingPush = l.servingPush
    <2> SUFFICES ASSUME l.servingPush < n.servingPush PROVE FALSE
      BY <1>1, <1>2, <1>4, <1>5
    <2>1. l.servingPush \in k.servingPush .. n.servingPush - 1
      BY <1>1, <1>2, <1>5
    <2> QED
      BY <1>1, <1>2, <1>4, <2>1
  <1>7. n.cancelled = l.cancelled
    <2>1. ASSUME NEW t \in Nat PROVE t \in n.cancelled <=> t \in l.cancelled
      BY <1>1, <1>2, <1>4, <1>6
    <2> QED
      BY <1>2, <1>5, <2>1
  <1>8. TakePushTicket(l) = n
    BY DEF TakePushTicket, n, k
  <1> QED
    BY <1>1, <1>4, <1>6, <1>7, <1>8 DEF SameAnswers

LEMMA GivingUp ==
    ASSUME NEW l, SoundLane(l), NEW t \in Nat, l.servingPush <= t, t < l.nextPush
    PROVE  LET n == PushGivenUp(l, t) IN
           /\ SoundLane(n) /\ SameAnswers(l, n) /\ n.nextPush = l.nextPush
           /\ l.servingPush <= n.servingPush
           /\ \A u \in l.servingPush .. n.servingPush - 1 : u \in l.cancelled \/ u = t
           /\ \A u \in Nat : u \in n.cancelled
                  <=> (u \in l.cancelled \/ u = t) /\ n.servingPush <= u
  <1> DEFINE k == [l EXCEPT !.cancelled = @ \union {t}]
  <1>1. /\ k \in Lanes /\ k.servingPush = l.servingPush /\ k.nextPush = l.nextPush
        /\ k.cancelled = l.cancelled \union {t} /\ SameAnswers(l, k)
    BY DEF SoundLane, Lanes, SameAnswers
  <1>2. /\ l.servingPush <= l.nextPush /\ \A u \in l.cancelled : u < l.nextPush
    BY DEF SoundLane
  <1> HIDE DEF k
  <1>3. k.servingPush <= k.nextPush /\ \A u \in k.cancelled : u < k.nextPush
    BY <1>1, <1>2
  <1> DEFINE n == SkipCancelled(k)
  <1>4. /\ SoundLane(n) /\ SameAnswers(k, n) /\ n.nextPush = k.nextPush
        /\ k.servingPush <= n.servingPush
        /\ \A u \in k.servingPush .. n.servingPush - 1 : u \in k.cancelled
        /\ \A u \in Nat : u \in n.cancelled <=> u \in k.cancelled /\ n.servingPush <= u
    BY <1>1, <1>3, Skipping
  <1> HIDE DEF n
  <1>5. PushGivenUp(l, t) = n
    BY DEF PushGivenUp, n, k
  <1> QED
    BY <1>1, <1>4, <1>5 DEF SameAnswers

LEMMA PushSending ==
    ASSUME NEW l, SoundLane(l), l.servingPush < l.nextPush
    PROVE  LET n == PushSent(l) IN
           /\ SoundLane(n) /\ SameAnswers(l, n) /\ n.nextPush = l.nextPush
           /\ l.servingPush + 1 <= n.servingPush
           /\ \A u \in l.servingPush + 1 .. n.servingPush - 1 : u \in l.cancelled
           /\ \A u \in Nat : u \in n.cancelled <=> u \in l.cancelled /\ n.servingPush <= u
  <1> DEFINE k == [l EXCEPT !.servingPush = @ + 1, !.sending = FALSE]
  <1>1. /\ k \in Lanes /\ k.servingPush = l.servingPush + 1 /\ k.nextPush = l.nextPush
        /\ k.cancelled = l.cancelled /\ SameAnswers(l, k)
    <2>1. l \in Lanes /\ l.servingPush + 1 \in Nat
      BY DEF SoundLane, Lanes
    <2>2. ASSUME NEW f \in Nat
          PROVE  LET n == [l EXCEPT !.servingPush = f, !.sending = FALSE] IN
                 /\ n \in Lanes /\ n.servingPush = f /\ n.nextPush = l.nextPush
                 /\ n.cancelled = l.cancelled /\ n.turns = l.turns /\ n.sends = l.sends
                 /\ n.next = l.next /\ n.serving = l.serving
      BY <2>1 DEF Lanes
    <2>3. k = [l EXCEPT !.servingPush = l.servingPush + 1, !.sending = FALSE]
      OBVIOUS
    <2> QED
      BY <2>1, <2>2, <2>3 DEF SameAnswers
  <1>2. /\ l.servingPush \in Nat /\ l.nextPush \in Nat /\ \A u \in l.cancelled : u < l.nextPush
    BY DEF SoundLane, Lanes
  <1> HIDE DEF k
  <1>3. k.servingPush <= k.nextPush /\ \A u \in k.cancelled : u < k.nextPush
    BY <1>1, <1>2
  <1> DEFINE n == SkipCancelled(k)
  <1>4. /\ SoundLane(n) /\ SameAnswers(k, n) /\ n.nextPush = k.nextPush
        /\ k.servingPush <= n.servingPush
        /\ \A u \in k.servingPush .. n.servingPush - 1 : u \in k.cancelled
        /\ \A u \in Nat : u \in n.cancelled <=> u \in k.cancelled /\ n.servingPush <= u
    BY <1>1, <1>3, Skipping
  <1> HIDE DEF n
  <1>5. PushSent(l) = n
    BY DEF PushSent, n, k
  <1> QED
    BY <1>1, <1>4, <1>5 DEF SameAnswers

\* Where the task of a message may be.
TaskPlaces == {"new", "inbox", "waiting"} \union InTurn \union Ended

\* What may be posted, and the tickets of pushes.
Envelopes == [chat : Chats, ticket : Nat, what : Messages \union Notices \union {Nothing}]

Tickets == [chat : Chats, ticket : Nat]

\* m waits for its turn in a lane, or has it.
InPush(m) == at[m] \in {"pushing", "sending"}

\* Type correctness of tasks, lanes and envelopes.
TurnsTyping ==
    /\ at \in [Messages -> TaskPlaces]
    /\ inbox \in Seq(Messages)
    /\ lane \in [Chats -> Lanes]
    /\ pushing \in [Messages -> Tickets \union {Nothing}]
    /\ posted \subseteq Envelopes /\ going \subseteq posted

\* The ticket of a push that is there is one that is still to be served.
TicketIsOpen(m) ==
    LET l == lane[pushing[m].chat] IN
    /\ pushing[m] \in Tickets
    /\ pushing[m].ticket \in l.servingPush .. l.nextPush - 1
    /\ pushing[m].ticket \notin l.cancelled
    /\ at[m] = "sending" => pushing[m].ticket = l.servingPush

\* Each ticket that is still to be served is of one push, or was given up.
TicketsAreHeld(c) ==
    \A t \in lane[c].servingPush .. lane[c].nextPush - 1 :
        \/ t \in lane[c].cancelled
        \/ \E m \in Messages : InPush(m) /\ pushing[m] = [chat |-> c, ticket |-> t]

\* The pushes of all lanes.
PushesHold ==
    /\ \A c \in Chats : SoundLane(lane[c])
    /\ \A m \in Messages : ~InPush(m) => pushing[m] = Nothing
    /\ \A m \in Messages : InPush(m) => TicketIsOpen(m)
    /\ \A m, o \in Messages : InPush(m) /\ InPush(o) /\ pushing[m] = pushing[o] => m = o
    /\ \A c \in Chats : TicketsAreHeld(c)

\* The part of the invariant that is about pushes.
PushInv == TurnsTyping /\ PushesHold

\* A step that concerns no push, but that one's turn may begin.
PushesSteady ==
    /\ pushing' = pushing
    /\ \A m \in Messages :
         /\ at'[m] \in {"pushing", "sending"} <=> InPush(m)
         /\ at'[m] = "sending" =>
              at[m] = "sending" \/ pushing[m].ticket = lane[pushing[m].chat].servingPush
    /\ \A c \in Chats : SoundLane(lane'[c]) /\ SamePushes(lane[c], lane'[c])

LEMMA SteadyHolds == ASSUME PushInv, PushesSteady PROVE PushesHold'
<1>1. \A m \in Messages : InPush(m)' <=> InPush(m)
  BY DEF PushesSteady, InPush
<1>2. \A c \in Chats : SoundLane(lane[c])'
  BY DEF PushesSteady
<1>3. \A m \in Messages : ~InPush(m)' => pushing'[m] = Nothing
  BY <1>1 DEF PushInv, PushesHold, PushesSteady
<1>4. ASSUME NEW m \in Messages, InPush(m)' PROVE TicketIsOpen(m)'
  <2>1. InPush(m) /\ TicketIsOpen(m)
    BY <1>1, <1>4 DEF PushInv, PushesHold
  <2>2. pushing[m].chat \in Chats
    BY <2>1 DEF TicketIsOpen, Tickets
  <2>3. SamePushes(lane[pushing[m].chat], lane'[pushing[m].chat]) /\ pushing'[m] = pushing[m]
    BY <2>2 DEF PushesSteady
  <2>4. at'[m] = "sending" => pushing[m].ticket = lane[pushing[m].chat].servingPush
    BY <2>1 DEF PushesSteady, TicketIsOpen
  <2> QED
    BY <2>1, <2>3, <2>4 DEF TicketIsOpen, SamePushes
<1>5. \A m, o \in Messages :
         InPush(m)' /\ InPush(o)' /\ pushing'[m] = pushing'[o] => m = o
  BY <1>1 DEF PushInv, PushesHold, PushesSteady
<1>6. ASSUME NEW c \in Chats PROVE TicketsAreHeld(c)'
  <2>1. SamePushes(lane[c], lane'[c]) /\ TicketsAreHeld(c) /\ pushing' = pushing
    BY DEF PushesSteady, PushInv, PushesHold
  <2> QED
    BY <1>1, <2>1 DEF TicketsAreHeld, SamePushes
<1> QED
  BY <1>2, <1>3, <1>4, <1>5, <1>6 DEF PushesHold

\* What a lane becomes when a push gives its ticket up, or had its turn.
LEMMA ReleasedLane ==
    ASSUME PushInv, NEW m \in Messages, InPush(m)
    PROVE  LET c == pushing[m].chat
               t == pushing[m].ticket
               l == lane[c]
               n == Released(m)[c] IN
           /\ pushing[m] \in Tickets
           /\ SoundLane(n) /\ SameAnswers(l, n) /\ n.nextPush = l.nextPush
           /\ l.servingPush <= n.servingPush
           /\ \A u \in l.servingPush .. n.servingPush - 1 : u \in l.cancelled \/ u = t
           /\ \A u \in n.cancelled : u \in l.cancelled \/ u = t
           /\ \A u \in Nat : n.servingPush <= u /\ (u \in l.cancelled \/ u = t) => u \in n.cancelled
           /\ Released(m) \in [Chats -> Lanes]
           /\ \A d \in Chats \ {c} : Released(m)[d] = lane[d]
<1> DEFINE c == pushing[m].chat
           t == pushing[m].ticket
           l == lane[c]
<1>1. TicketIsOpen(m) /\ pushing[m] \in Tickets /\ c \in Chats /\ t \in Nat
  BY DEF PushInv, PushesHold, TicketIsOpen, Tickets
<1>2. SoundLane(l) /\ l \in Lanes /\ lane \in [Chats -> Lanes]
  BY <1>1 DEF PushInv, PushesHold, TurnsTyping
<1>3. /\ l.servingPush \in Nat /\ l.nextPush \in Nat /\ l.servingPush <= t /\ t < l.nextPush
      /\ at[m] = "sending" => t = l.servingPush
  BY <1>1, <1>2 DEF TicketIsOpen, Lanes
<1>4. CASE at[m] = "pushing"
  <2>1. Released(m) = [lane EXCEPT ![c] = PushGivenUp(l, t)]
    BY <1>4 DEF Released
  <2> DEFINE n == PushGivenUp(l, t)
  <2>2. /\ SoundLane(n) /\ SameAnswers(l, n) /\ n.nextPush = l.nextPush
        /\ l.servingPush <= n.servingPush
        /\ \A u \in l.servingPush .. n.servingPush - 1 : u \in l.cancelled \/ u = t
        /\ \A u \in Nat : u \in n.cancelled
               <=> (u \in l.cancelled \/ u = t) /\ n.servingPush <= u
    BY <1>1, <1>2, <1>3, GivingUp
  <2>3. n \in Lanes /\ n.cancelled \subseteq Nat
    BY <2>2 DEF SoundLane, Lanes
  <2> HIDE DEF n, l
  <2>4. Released(m)[c] = n /\ Released(m) \in [Chats -> Lanes]
        /\ \A d \in Chats \ {c} : Released(m)[d] = lane[d]
    BY <1>1, <1>2, <2>1, <2>3 DEF n
  <2>5. \A u \in n.cancelled : u \in l.cancelled \/ u = t
    BY <2>2, <2>3
  <2> QED
    BY <1>1, <2>2, <2>4, <2>5 DEF l
<1>5. CASE at[m] = "sending"
  <2>1. Released(m) = [lane EXCEPT ![c] = PushSent(l)]
    BY <1>5 DEF Released
  <2> DEFINE n == PushSent(l)
  <2>2. /\ SoundLane(n) /\ SameAnswers(l, n) /\ n.nextPush = l.nextPush
        /\ l.servingPush + 1 <= n.servingPush
        /\ \A u \in l.servingPush + 1 .. n.servingPush - 1 : u \in l.cancelled
        /\ \A u \in Nat : u \in n.cancelled <=> u \in l.cancelled /\ n.servingPush <= u
    <3>1. l.servingPush < l.nextPush
      BY <1>3, <1>5
    <3> QED
      BY <1>2, <3>1, PushSending
  <2>3. n \in Lanes /\ n.cancelled \subseteq Nat /\ n.servingPush \in Nat
    BY <2>2 DEF SoundLane, Lanes
  <2> HIDE DEF n, l
  <2>4. Released(m)[c] = n /\ Released(m) \in [Chats -> Lanes]
        /\ \A d \in Chats \ {c} : Released(m)[d] = lane[d]
    BY <1>1, <1>2, <2>1, <2>3 DEF n
  <2>5. \A u \in n.cancelled : u \in l.cancelled \/ u = t
    BY <2>2, <2>3
  <2>6. t = l.servingPush
    BY <1>3, <1>5 DEF l
  <2>7. ASSUME NEW u \in l.servingPush .. n.servingPush - 1 PROVE u \in l.cancelled \/ u = t
    <3>1. l.servingPush \in Nat
      BY <1>3 DEF l
    <3>2. u = l.servingPush \/ u \in l.servingPush + 1 .. n.servingPush - 1
      BY <2>3, <3>1
    <3> QED
      BY <2>2, <2>6, <3>2
  <2>8. l.servingPush <= n.servingPush /\ ~(n.servingPush <= t)
    BY <1>3, <2>2, <2>3, <2>6 DEF l
  <2>9. \A u \in Nat : n.servingPush <= u /\ (u \in l.cancelled \/ u = t) => u \in n.cancelled
    BY <2>2, <2>8
  <2> QED
    BY <1>1, <2>2, <2>4, <2>5, <2>7, <2>8, <2>9 DEF l
<1> QED
  BY <1>4, <1>5 DEF InPush

\* m's push is over, well or not.
LeavesPush(m) ==
    /\ pushing' = [pushing EXCEPT ![m] = Nothing]
    /\ \E place \in TaskPlaces \ {"pushing", "sending"} : at' = [at EXCEPT ![m] = place]
    /\ \A c \in Chats : SoundLane(lane'[c]) /\ SamePushes(Released(m)[c], lane'[c])

LEMMA LeavesHolds ==
    ASSUME PushInv, NEW m \in Messages, InPush(m), LeavesPush(m)
    PROVE  PushesHold'
<1> DEFINE c == pushing[m].chat
           t == pushing[m].ticket
           l == lane[c]
           n == lane'[c]
<1>1. /\ pushing[m] \in Tickets
      /\ l.servingPush <= n.servingPush
      /\ \A u \in l.servingPush .. n.servingPush - 1 : u \in l.cancelled \/ u = t
      /\ \A u \in n.cancelled : u \in l.cancelled \/ u = t
      /\ \A u \in Nat : n.servingPush <= u /\ (u \in l.cancelled \/ u = t) => u \in n.cancelled
      /\ \A d \in Chats \ {c} : SamePushes(lane[d], lane'[d])
      /\ n.nextPush = l.nextPush /\ SoundLane(n)
      /\ c \in Chats /\ t \in Nat
  <2>1. pushing[m] \in Tickets
    BY ReleasedLane
  <2>2. c \in Chats /\ t \in Nat
    BY <2>1 DEF Tickets
  <2>3. \A d \in Chats : SoundLane(lane'[d]) /\ SamePushes(Released(m)[d], lane'[d])
    BY DEF LeavesPush
  <2>4. SamePushes(Released(m)[c], n) /\ SoundLane(n)
    BY <2>2, <2>3
  <2>5. \A d \in Chats \ {c} : SamePushes(lane[d], lane'[d])
    BY <2>3, ReleasedLane
  <2> QED
    BY <2>1, <2>2, <2>4, <2>5, ReleasedLane DEF SamePushes
<1>2. /\ l.servingPush \in Nat /\ l.nextPush \in Nat /\ l.cancelled \subseteq Nat
      /\ n.servingPush \in Nat /\ n.nextPush \in Nat /\ n.cancelled \subseteq Nat
  BY <1>1 DEF PushInv, PushesHold, SoundLane, Lanes
<1>3. /\ \A o \in Messages \ {m} : at'[o] = at[o] /\ pushing'[o] = pushing[o]
      /\ pushing'[m] = Nothing /\ at'[m] \notin {"pushing", "sending"}
  BY DEF LeavesPush, PushInv, TurnsTyping
<1>4. /\ \A o \in Messages \ {m} : InPush(o)' <=> InPush(o)
      /\ ~InPush(m)'
  BY <1>3 DEF InPush
<1>5. \A d \in Chats : SoundLane(lane[d])'
  BY DEF LeavesPush
<1>6. \A o \in Messages : ~InPush(o)' => pushing'[o] = Nothing
  BY <1>3, <1>4 DEF PushInv, PushesHold
<1> HIDE DEF l, n, c, t
<1>7. ASSUME NEW o \in Messages, InPush(o)' PROVE TicketIsOpen(o)'
  <2>1. o # m /\ InPush(o) /\ TicketIsOpen(o) /\ pushing'[o] = pushing[o] /\ at'[o] = at[o]
    BY <1>3, <1>4, <1>7 DEF PushInv, PushesHold
  <2>2. pushing[o] \in Tickets /\ pushing[o].chat \in Chats /\ pushing[o].ticket \in Nat
    BY <2>1 DEF TicketIsOpen, Tickets
  <2>3. CASE pushing[o].chat # c
    <3>1. SamePushes(lane[pushing[o].chat], lane'[pushing[o].chat])
      BY <1>1, <2>2, <2>3
    <3> QED
      BY <2>1, <3>1 DEF TicketIsOpen, SamePushes
  <2>4. CASE pushing[o].chat = c
    <3> DEFINE u == pushing[o].ticket
    <3>1. u # t
      <4>1. SUFFICES ASSUME u = t PROVE FALSE
        OBVIOUS
      <4>2. pushing[m] = pushing[o]
        BY <1>1, <2>2, <2>4, <4>1 DEF Tickets, c, t
      <4> QED
        BY <2>1, <4>2 DEF PushInv, PushesHold
    <3>2. /\ u \in l.servingPush .. l.nextPush - 1 /\ u \notin l.cancelled
          /\ at[o] = "sending" => u = l.servingPush
      BY <2>1, <2>4 DEF TicketIsOpen, l
    <3>3. ~(u \in l.servingPush .. n.servingPush - 1)
      BY <1>1, <3>1, <3>2
    <3>4. u \in n.servingPush .. n.nextPush - 1
      BY <1>1, <1>2, <2>2, <3>2, <3>3
    <3>5. u \notin n.cancelled
      BY <1>1, <3>1, <3>2
    <3>6. at[o] = "sending" => u = n.servingPush
      BY <1>1, <1>2, <3>2, <3>4
    <3> QED
      BY <2>1, <2>2, <2>4, <3>4, <3>5, <3>6 DEF TicketIsOpen, n
  <2> QED
    BY <2>3, <2>4
<1>8. \A o, p \in Messages :
         InPush(o)' /\ InPush(p)' /\ pushing'[o] = pushing'[p] => o = p
  BY <1>3, <1>4 DEF PushInv, PushesHold
<1>9. ASSUME NEW d \in Chats, NEW u \in lane'[d].servingPush .. lane'[d].nextPush - 1,
             u \notin lane'[d].cancelled
      PROVE  \E o \in Messages : InPush(o)' /\ pushing'[o] = [chat |-> d, ticket |-> u]
  <2>1. TicketsAreHeld(d)
    BY DEF PushInv, PushesHold
  <2>2. /\ u \in lane[d].servingPush .. lane[d].nextPush - 1 /\ u \notin lane[d].cancelled
        /\ ~(d = c /\ u = t)
    <3>1. CASE d = c
      <4>1. u \in n.servingPush .. n.nextPush - 1 /\ u \notin n.cancelled
        BY <1>9, <3>1 DEF n
      <4>2. u \in Nat /\ n.servingPush <= u
        BY <1>2, <4>1
      <4>3. u \notin l.cancelled /\ u # t
        BY <1>1, <4>1, <4>2
      <4>4. u \in l.servingPush .. l.nextPush - 1
        BY <1>1, <1>2, <4>1
      <4> QED
        BY <3>1, <4>3, <4>4 DEF l
    <3>2. CASE d # c
      <4>1. SamePushes(lane[d], lane'[d])
        BY <1>1, <3>2
      <4> QED
        BY <1>9, <3>2, <4>1 DEF SamePushes
    <3> QED
      BY <3>1, <3>2
  <2>3. PICK o \in Messages : InPush(o) /\ pushing[o] = [chat |-> d, ticket |-> u]
    BY <2>1, <2>2 DEF TicketsAreHeld
  <2>4. o # m
    BY <2>2, <2>3 DEF c, t
  <2> QED
    BY <1>3, <1>4, <2>3, <2>4
<1>10. \A d \in Chats : TicketsAreHeld(d)'
  BY <1>9 DEF TicketsAreHeld
<1> QED
  BY <1>5, <1>6, <1>7, <1>8, <1>10 DEF PushesHold

\* A lane of the lanes is replaced.
LEMMA LaneAt ==
    ASSUME TurnsTyping, NEW c \in Chats, NEW x \in Lanes, lane' = [lane EXCEPT ![c] = x]
    PROVE  lane' \in [Chats -> Lanes] /\ lane'[c] = x /\ \A d \in Chats \ {c} : lane'[d] = lane[d]
  BY DEF TurnsTyping

\* The chats of messages and notices.
LEMMA Homes ==
    /\ \A m \in Messages : SessionOf[m] \in Sessions /\ Home(m) \in Chats
    /\ \A n \in Notices : SessionOf[n] \in Sessions /\ ChatOf[SessionOf[n]] \in Chats
  BY LocalConstants DEF Home

LEMMA SameLane == ASSUME NEW l PROVE SamePushes(l, l) /\ SameAnswers(l, l)
  BY DEF SamePushes, SameAnswers

\* Where the counters of one lane change but not its pushes.
LEMMA LaneSteady ==
    ASSUME PushInv, NEW c \in Chats, NEW x, lane' = [lane EXCEPT ![c] = x],
           SoundLane(x), SamePushes(lane[c], x)
    PROVE  /\ lane' \in [Chats -> Lanes]
           /\ \A d \in Chats : SoundLane(lane'[d]) /\ SamePushes(lane[d], lane'[d])
<1>1. x \in Lanes
  BY DEF SoundLane
<1>2. lane' \in [Chats -> Lanes] /\ lane'[c] = x /\ \A d \in Chats \ {c} : lane'[d] = lane[d]
  BY <1>1, LaneAt DEF PushInv
<1>3. \A d \in Chats : SoundLane(lane[d])
  BY DEF PushInv, PushesHold
<1> QED
  BY <1>2, <1>3, SameLane

\* A task that is in no push ends.
LEMMA EndSteady ==
    ASSUME PushInv, NEW m \in Messages, ~InPush(m), NEW how \in Ended, EndTask(m, how)
    PROVE  /\ at' \in [Messages -> TaskPlaces] /\ pushing' = pushing
           /\ \A o \in Messages : /\ at'[o] \in {"pushing", "sending"} <=> InPush(o)
                                  /\ at'[o] = "sending" => at[o] = "sending"
  BY DEF PushInv, PushesHold, TurnsTyping, EndTask, InPush, TaskPlaces, Ended

\* A task that is in no push gets to a place that is none.
LEMMA MoveSteady ==
    ASSUME PushInv, NEW m \in Messages, ~InPush(m), NEW p \in TaskPlaces \ {"pushing", "sending"},
           at' = [at EXCEPT ![m] = p]
    PROVE  /\ at' \in [Messages -> TaskPlaces]
           /\ \A o \in Messages : /\ at'[o] \in {"pushing", "sending"} <=> InPush(o)
                                  /\ at'[o] = "sending" => at[o] = "sending"
  BY DEF PushInv, TurnsTyping, InPush

\* What is posted is an envelope.
LEMMA PostTyped ==
    ASSUME PushInv, NEW c \in Chats, NEW what \in Messages \union Notices \union {Nothing},
           posted' = posted \union {Envelope(c, what)}, UNCHANGED going
    PROVE  posted' \subseteq Envelopes /\ going' \subseteq posted'
<1>1. lane[c].next \in Nat
  BY DEF PushInv, TurnsTyping, Lanes
<1> QED
  BY <1>1 DEF PushInv, TurnsTyping, Envelope, Envelopes

\* The steps of this component that leave its pushes as they are.
Untouched == UNCHANGED <<at, inbox, lane, pushing, posted, going>>

LEMMA UntouchedHolds == ASSUME PushInv, Untouched PROVE PushInv'
<1>1. TurnsTyping'
  BY DEF PushInv, TurnsTyping, Untouched
<1>2. PushesSteady
  BY SameLane DEF PushInv, PushesHold, PushesSteady, Untouched, InPush
<1> QED
  BY <1>1, <1>2, SteadyHolds DEF PushInv

\* What the proofs of the steps show of them: their types, and no push is concerned.
SteadyStep == TurnsTyping' /\ PushesSteady

LEMMA SteadyStepHolds == ASSUME PushInv, SteadyStep PROVE PushInv'
  BY SteadyHolds DEF SteadyStep, PushInv

LEMMA PublishSteady == ASSUME PushInv, NEW m \in Messages, Publish(m) PROVE SteadyStep
<1> DEFINE x == [lane[Home(m)] EXCEPT !.turns = @ + 1]
<1>1. Home(m) \in Chats
  BY Homes
<1>2. SoundLane(lane[Home(m)])
  BY <1>1 DEF PushInv, PushesHold
<1>3. SoundLane(x) /\ SamePushes(lane[Home(m)], x)
  BY <1>2, Counting
<1>4. lane' = [lane EXCEPT ![Home(m)] = x]
  BY DEF Publish
<1> HIDE DEF x
<1>5. /\ lane' \in [Chats -> Lanes]
      /\ \A d \in Chats : SoundLane(lane'[d]) /\ SamePushes(lane[d], lane'[d])
  BY <1>1, <1>3, <1>4, LaneSteady
<1>6. at' = [at EXCEPT ![m] = "inbox"] /\ ~InPush(m) /\ "inbox" \in TaskPlaces \ {"pushing", "sending"}
  BY DEF Publish, InPush, TaskPlaces
<1>7. /\ at' \in [Messages -> TaskPlaces]
      /\ \A o \in Messages : /\ at'[o] \in {"pushing", "sending"} <=> InPush(o)
                             /\ at'[o] = "sending" => at[o] = "sending"
  BY <1>6, MoveSteady
<1>8. pushing' = pushing /\ posted' = posted /\ going' = going /\ inbox' \in Seq(Messages)
  BY DEF Publish, PushInv, TurnsTyping
<1> QED
  BY <1>5, <1>7, <1>8 DEF SteadyStep, PushesSteady, TurnsTyping, PushInv

\* Entering a turn, or being refused it.
LEMMA EnterSteady ==
    ASSUME PushInv, NEW m \in Messages, at[m] \in {"inbox", "waiting"}, NEW l, Enter(m, l),
           inbox' \in Seq(Messages), UNCHANGED going
    PROVE  SteadyStep
<1>1. Home(m) \in Chats /\ ~InPush(m)
  BY Homes DEF InPush
<1>2. CASE UNCHANGED <<lane, posted, pushing>> /\ at' = [at EXCEPT ![m] = "running"]
  <2>1. "running" \in TaskPlaces \ {"pushing", "sending"}
    BY DEF TaskPlaces, InTurn
  <2>2. /\ at' \in [Messages -> TaskPlaces]
        /\ \A o \in Messages : /\ at'[o] \in {"pushing", "sending"} <=> InPush(o)
                               /\ at'[o] = "sending" => at[o] = "sending"
    BY <1>1, <1>2, <2>1, MoveSteady
  <2> QED
    BY <1>2, <2>2, SameLane DEF SteadyStep, PushesSteady, TurnsTyping, PushInv, PushesHold
<1>3. CASE /\ EndTask(m, "refused")
           /\ lane' = [lane EXCEPT ![Home(m)] = Completed(Posted(@))]
           /\ posted' = posted \union {Envelope(Home(m), Nothing)}
  <2>1. SoundLane(lane[Home(m)])
    BY <1>1 DEF PushInv, PushesHold
  <2>2. SoundLane(Posted(lane[Home(m)])) /\ SamePushes(lane[Home(m)], Posted(lane[Home(m)]))
    BY <2>1, Counting
  <2>3. /\ SoundLane(Completed(Posted(lane[Home(m)])))
        /\ SamePushes(Posted(lane[Home(m)]), Completed(Posted(lane[Home(m)])))
    BY <2>2, Counting
  <2>4. SamePushes(lane[Home(m)], Completed(Posted(lane[Home(m)])))
    BY <2>2, <2>3 DEF SamePushes
  <2>5. /\ lane' \in [Chats -> Lanes]
        /\ \A d \in Chats : SoundLane(lane'[d]) /\ SamePushes(lane[d], lane'[d])
    BY <1>1, <1>3, <2>3, <2>4, LaneSteady
  <2>6. "refused" \in Ended
    BY DEF Ended
  <2>7. /\ at' \in [Messages -> TaskPlaces] /\ pushing' = pushing
        /\ \A o \in Messages : /\ at'[o] \in {"pushing", "sending"} <=> InPush(o)
                               /\ at'[o] = "sending" => at[o] = "sending"
    BY <1>1, <1>3, <2>6, EndSteady
  <2>8. posted' \subseteq Envelopes /\ going' \subseteq posted'
    BY <1>1, <1>3, PostTyped
  <2> QED
    BY <2>5, <2>7, <2>8 DEF SteadyStep, PushesSteady, TurnsTyping, PushInv
<1> QED
  BY <1>2, <1>3 DEF Enter

\* The messages that wait in the inbox wait there once.
InboxHolds ==
    /\ \A i \in DOMAIN inbox : at[inbox[i]] = "inbox"
    /\ \A i, j \in DOMAIN inbox : inbox[i] = inbox[j] => i = j

\* The head of the inbox.
LEMMA Heads ==
    ASSUME inbox \in Seq(Messages), InboxHolds, inbox # <<>>
    PROVE  /\ Head(inbox) \in Messages /\ at[Head(inbox)] = "inbox"
           /\ Tail(inbox) \in Seq(Messages)
<1>1. 1 \in DOMAIN inbox /\ Head(inbox) = inbox[1] /\ Head(inbox) \in Messages
  OBVIOUS
<1> QED
  BY <1>1 DEF InboxHolds

LEMMA ConsumeSteady == ASSUME PushInv, InboxHolds, Consume PROVE SteadyStep
<1> DEFINE m == Head(inbox)
<1>1. m \in Messages /\ at[m] = "inbox" /\ inbox' \in Seq(Messages) /\ UNCHANGED going
  BY Heads DEF Consume, PushInv, TurnsTyping
<1>2. CASE Enter(m, LockFor(m))
  <2> HIDE DEF m
  <2> QED
    BY <1>1, <1>2, EnterSteady
<1>3. CASE at' = [at EXCEPT ![m] = "waiting"] /\ UNCHANGED <<lane, posted, pushing>>
  <2>1. "waiting" \in TaskPlaces \ {"pushing", "sending"} /\ ~InPush(m)
    BY <1>1 DEF TaskPlaces, InPush
  <2> HIDE DEF m
  <2>2. /\ at' \in [Messages -> TaskPlaces]
        /\ \A o \in Messages : /\ at'[o] \in {"pushing", "sending"} <=> InPush(o)
                               /\ at'[o] = "sending" => at[o] = "sending"
    BY <1>1, <1>3, <2>1, MoveSteady
  <2> QED
    BY <1>1, <1>3, <2>2, SameLane DEF SteadyStep, PushesSteady, TurnsTyping, PushInv, PushesHold
<1> QED
  BY <1>2, <1>3 DEF Consume

LEMMA AcquireSteady == ASSUME PushInv, NEW m \in Messages, Acquire(m) PROVE SteadyStep
<1>1. at[m] = "waiting" /\ Enter(m, mine[m]) /\ inbox' \in Seq(Messages) /\ UNCHANGED going
  BY DEF Acquire, PushInv, TurnsTyping
<1> QED
  BY <1>1, EnterSteady

LEMMA PushStartsSteady == ASSUME PushInv, NEW m \in Messages, PushStarts(m) PROVE SteadyStep
<1> DEFINE c == pushing[m].chat
           x == [lane[c] EXCEPT !.sending = TRUE]
<1>1. InPush(m) /\ at' = [at EXCEPT ![m] = "sending"] /\ UNCHANGED <<inbox, pushing, posted, going>>
      /\ pushing[m].ticket = lane[c].servingPush
  BY DEF PushStarts, InPush
<1>2. c \in Chats
  BY <1>1 DEF PushInv, PushesHold, TicketIsOpen, Tickets
<1>3. SoundLane(lane[c])
  BY <1>2 DEF PushInv, PushesHold
<1>4. SoundLane(x) /\ SamePushes(lane[c], x)
  BY <1>3, Counting
<1>5. lane' = [lane EXCEPT ![c] = x]
  BY DEF PushStarts
<1> HIDE DEF x, c
<1>6. /\ lane' \in [Chats -> Lanes]
      /\ \A d \in Chats : SoundLane(lane'[d]) /\ SamePushes(lane[d], lane'[d])
  BY <1>2, <1>4, <1>5, LaneSteady
<1>7. /\ at' \in [Messages -> TaskPlaces]
      /\ \A o \in Messages : /\ at'[o] \in {"pushing", "sending"} <=> InPush(o)
                             /\ at'[o] = "sending" => at[o] = "sending" \/ o = m
  BY <1>1 DEF PushInv, TurnsTyping, InPush, TaskPlaces, InTurn
<1> QED
  BY <1>1, <1>6, <1>7 DEF SteadyStep, PushesSteady, TurnsTyping, PushInv, c

LEMMA CommitSteady == ASSUME PushInv, NEW m \in Messages, Commit(m) PROVE SteadyStep
<1>1. ~InPush(m) /\ "committed" \in TaskPlaces \ {"pushing", "sending"}
      /\ at' = [at EXCEPT ![m] = "committed"]
      /\ UNCHANGED <<inbox, lane, posted, going, pushing>>
  BY DEF Commit, Runs, InPush, TaskPlaces, InTurn, delivery
<1>2. /\ at' \in [Messages -> TaskPlaces]
      /\ \A o \in Messages : /\ at'[o] \in {"pushing", "sending"} <=> InPush(o)
                             /\ at'[o] = "sending" => at[o] = "sending"
  BY <1>1, MoveSteady
<1> QED
  BY <1>1, <1>2, SameLane DEF SteadyStep, PushesSteady, TurnsTyping, PushInv, PushesHold

\* publish_outbound concerns no push.
LEMMA PostSteady ==
    ASSUME PushInv, NEW c \in Chats, NEW what \in Messages \union Notices \union {Nothing},
           Post(c, what), UNCHANGED going
    PROVE  /\ lane' \in [Chats -> Lanes]
           /\ \A d \in Chats : SoundLane(lane'[d]) /\ SamePushes(lane[d], lane'[d])
           /\ posted' \subseteq Envelopes /\ going' \subseteq posted'
<1>1. SoundLane(lane[c])
  BY DEF PushInv, PushesHold
<1>2. SoundLane(Posted(lane[c])) /\ SamePushes(lane[c], Posted(lane[c]))
  BY <1>1, Counting
<1>3. lane' = [lane EXCEPT ![c] = Posted(lane[c])] /\ posted' = posted \union {Envelope(c, what)}
  BY DEF Post
<1> QED
  BY <1>2, <1>3, LaneSteady, PostTyped

LEMMA AnswerSteady == ASSUME PushInv, NEW m \in Messages, Answer(m) PROVE SteadyStep
<1>1. ~InPush(m) /\ "published" \in TaskPlaces \ {"pushing", "sending"}
      /\ at' = [at EXCEPT ![m] = "published"]
      /\ UNCHANGED <<inbox, going, pushing>>
  BY DEF Answer, InPush, TaskPlaces, InTurn
<1>2. PICK what \in {m, Nothing} : Post(Home(m), what)
  BY DEF Answer
<1>3. /\ lane' \in [Chats -> Lanes]
      /\ \A d \in Chats : SoundLane(lane'[d]) /\ SamePushes(lane[d], lane'[d])
      /\ posted' \subseteq Envelopes /\ going' \subseteq posted'
  BY <1>1, <1>2, Homes, PostSteady
<1>4. /\ at' \in [Messages -> TaskPlaces]
      /\ \A o \in Messages : /\ at'[o] \in {"pushing", "sending"} <=> InPush(o)
                             /\ at'[o] = "sending" => at[o] = "sending"
  BY <1>1, MoveSteady
<1> QED
  BY <1>1, <1>3, <1>4 DEF SteadyStep, PushesSteady, TurnsTyping, PushInv

\* Of a lane that a message is done in.
LEMMA CompletedLane ==
    ASSUME PushInv, NEW c \in Chats,
           \/ lane' = [lane EXCEPT ![c] = Completed(lane[c])]
           \/ lane' = [lane EXCEPT ![c] = Completed(Posted(lane[c]))]
    PROVE  /\ lane' \in [Chats -> Lanes]
           /\ \A d \in Chats : SoundLane(lane'[d]) /\ SamePushes(lane[d], lane'[d])
<1>1. SoundLane(lane[c])
  BY DEF PushInv, PushesHold
<1>2. SoundLane(Completed(lane[c])) /\ SamePushes(lane[c], Completed(lane[c]))
  BY <1>1, Counting
<1>3. SoundLane(Posted(lane[c])) /\ SamePushes(lane[c], Posted(lane[c]))
  BY <1>1, Counting
<1>4. /\ SoundLane(Completed(Posted(lane[c])))
      /\ SamePushes(Posted(lane[c]), Completed(Posted(lane[c])))
  BY <1>3, Counting
<1>5. SamePushes(lane[c], Completed(Posted(lane[c])))
  BY <1>3, <1>4 DEF SamePushes
<1> QED
  BY <1>2, <1>4, <1>5, LaneSteady

\* Finish, FailTurn and DropWaiting: a task that is in no push ends.
LEMMA EndStepSteady ==
    ASSUME PushInv, NEW m \in Messages, Finish(m) \/ FailTurn(m) \/ DropWaiting(m)
    PROVE  SteadyStep
<1>1. ~InPush(m) /\ Home(m) \in Chats
  BY Homes DEF InPush, Finish, FailTurn, DropWaiting
<1>2. PICK how \in Ended : EndTask(m, how)
  BY DEF Finish, FailTurn, DropWaiting, Ended
<1>3. UNCHANGED <<inbox, going>>
  BY DEF Finish, FailTurn, DropWaiting
<1>4. \/ lane' = [lane EXCEPT ![Home(m)] = Completed(lane[Home(m)])]
      \/ lane' = [lane EXCEPT ![Home(m)] = Completed(Posted(lane[Home(m)]))]
  BY DEF Finish, FailTurn, DropWaiting, CompleteInbound
<1>5. /\ lane' \in [Chats -> Lanes]
      /\ \A d \in Chats : SoundLane(lane'[d]) /\ SamePushes(lane[d], lane'[d])
  BY <1>1, <1>4, CompletedLane
<1>6. posted' = posted \/ posted' = posted \union {Envelope(Home(m), Nothing)}
  BY DEF Finish, FailTurn, DropWaiting
<1>7. posted' \subseteq Envelopes /\ going' \subseteq posted'
  BY <1>1, <1>3, <1>6, PostTyped DEF PushInv, TurnsTyping
<1>8. /\ at' \in [Messages -> TaskPlaces] /\ pushing' = pushing
      /\ \A o \in Messages : /\ at'[o] \in {"pushing", "sending"} <=> InPush(o)
                             /\ at'[o] = "sending" => at[o] = "sending"
  BY <1>1, <1>2, EndSteady
<1> QED
  BY <1>3, <1>5, <1>7, <1>8 DEF SteadyStep, PushesSteady, TurnsTyping, PushInv

LEMMA SendStartsSteady == ASSUME PushInv, NEW e \in posted, SendStarts(e) PROVE SteadyStep
<1> DEFINE x == [lane[e.chat] EXCEPT !.sending = TRUE]
<1>1. e.chat \in Chats
  BY DEF PushInv, TurnsTyping, Envelopes
<1>2. SoundLane(lane[e.chat])
  BY <1>1 DEF PushInv, PushesHold
<1>3. SoundLane(x) /\ SamePushes(lane[e.chat], x)
  BY <1>2, Counting
<1>4. lane' = [lane EXCEPT ![e.chat] = x]
  BY DEF SendStarts
<1> HIDE DEF x
<1>5. /\ lane' \in [Chats -> Lanes]
      /\ \A d \in Chats : SoundLane(lane'[d]) /\ SamePushes(lane[d], lane'[d])
  BY <1>1, <1>3, <1>4, LaneSteady
<1> QED
  BY <1>5 DEF SteadyStep, PushesSteady, TurnsTyping, PushInv, PushesHold, SendStarts, InPush, tasks

LEMMA SendEndsSteady ==
    ASSUME PushInv, NEW e \in posted, NEW ok, SendEnds(e, ok) PROVE SteadyStep
<1> DEFINE x == Sent(lane[e.chat])
<1>1. e.chat \in Chats
  BY DEF PushInv, TurnsTyping, Envelopes
<1>2. SoundLane(lane[e.chat])
  BY <1>1 DEF PushInv, PushesHold
<1>3. SoundLane(x) /\ SamePushes(lane[e.chat], x)
  BY <1>2, Counting
<1>4. lane' = [lane EXCEPT ![e.chat] = x]
  BY DEF SendEnds
<1> HIDE DEF x
<1>5. /\ lane' \in [Chats -> Lanes]
      /\ \A d \in Chats : SoundLane(lane'[d]) /\ SamePushes(lane[d], lane'[d])
  BY <1>1, <1>3, <1>4, LaneSteady
<1>6. /\ going' = going \ {e} /\ posted' = posted \ {e}
      /\ UNCHANGED <<at, inbox, pushing>>
  BY DEF SendEnds, tasks
<1> QED
  BY <1>5, <1>6 DEF SteadyStep, PushesSteady, TurnsTyping, PushInv, InPush

LEMMA NoticePostsSteady ==
    ASSUME PushInv, NEW n \in Notices, NoticePosts(n) PROVE SteadyStep
<1>1. /\ Post(ChatOf[SessionOf[n]], n) /\ UNCHANGED <<at, inbox, pushing, going>>
      /\ ChatOf[SessionOf[n]] \in Chats
  BY Homes DEF NoticePosts, tasks
<1>2. /\ lane' \in [Chats -> Lanes]
      /\ \A d \in Chats : SoundLane(lane'[d]) /\ SamePushes(lane[d], lane'[d])
      /\ posted' \subseteq Envelopes /\ going' \subseteq posted'
  BY <1>1, PostSteady
<1> QED
  BY <1>1, <1>2 DEF SteadyStep, PushesSteady, TurnsTyping, PushInv, InPush

LEMMA PushHolds == ASSUME PushInv, NEW m \in Messages, NEW c \in Chats, Push(m, c) PROVE PushInv'
<1> DEFINE t == lane[c].nextPush
           l == lane[c]
           x == TakePushTicket(lane[c])
           ticket == [chat |-> c, ticket |-> t]
<1>1. /\ at' = [at EXCEPT ![m] = "pushing"] /\ pushing' = [pushing EXCEPT ![m] = ticket]
      /\ lane' = [lane EXCEPT ![c] = x] /\ UNCHANGED <<inbox, posted, going>>
      /\ ~InPush(m)
  BY DEF Push, Runs, InPush
<1>2. SoundLane(l)
  BY DEF PushInv, PushesHold
<1>3. /\ SoundLane(x) /\ x.nextPush = t + 1 /\ x.servingPush = l.servingPush
      /\ x.cancelled = l.cancelled /\ x \in Lanes
  <2>1. /\ SoundLane(x) /\ x.nextPush = t + 1 /\ x.servingPush = l.servingPush
        /\ x.cancelled = l.cancelled
    BY <1>2, Ticketing
  <2> QED
    BY <2>1 DEF SoundLane
<1>4. /\ t \in Nat /\ l.servingPush \in Nat /\ l.servingPush <= t
      /\ \A u \in l.cancelled : u < t
  BY <1>2 DEF SoundLane, Lanes
<1> HIDE DEF x, l, t
<1>5. lane' \in [Chats -> Lanes] /\ lane'[c] = x /\ \A d \in Chats \ {c} : lane'[d] = lane[d]
  BY <1>1, <1>3, LaneAt DEF PushInv
<1>6. /\ at' \in [Messages -> TaskPlaces]
      /\ at'[m] = "pushing" /\ \A o \in Messages \ {m} : at'[o] = at[o]
  BY <1>1 DEF PushInv, TurnsTyping, TaskPlaces, InTurn
<1>7. /\ pushing' \in [Messages -> Tickets \union {Nothing}]
      /\ pushing'[m] = ticket /\ \A o \in Messages \ {m} : pushing'[o] = pushing[o]
      /\ ticket \in Tickets
  BY <1>1, <1>4 DEF PushInv, TurnsTyping, Tickets
<1>8. TurnsTyping'
  BY <1>1, <1>5, <1>6, <1>7 DEF PushInv, TurnsTyping
<1>9. InPush(m)' /\ \A o \in Messages \ {m} : InPush(o)' <=> InPush(o)
  BY <1>6 DEF InPush
<1>10. \A d \in Chats : SoundLane(lane[d])'
  BY <1>3, <1>5 DEF PushInv, PushesHold
<1>11. \A o \in Messages : ~InPush(o)' => pushing'[o] = Nothing
  BY <1>7, <1>9 DEF PushInv, PushesHold
<1>12. ASSUME NEW o \in Messages, InPush(o)' PROVE TicketIsOpen(o)'
  <2>1. CASE o = m
    <3>1. ticket.chat = c /\ ticket.ticket = t
      OBVIOUS
    <3>2. t \in x.servingPush .. x.nextPush - 1 /\ t \notin x.cancelled
      BY <1>3, <1>4
    <3> HIDE DEF ticket
    <3> QED
      BY <1>5, <1>6, <1>7, <2>1, <3>1, <3>2 DEF TicketIsOpen
  <2>2. CASE o # m
    <3>1. TicketIsOpen(o) /\ pushing'[o] = pushing[o] /\ at'[o] = at[o]
      BY <1>6, <1>7, <1>9, <1>12, <2>2 DEF PushInv, PushesHold
    <3>2. CASE pushing[o].chat = c
      <4>1. /\ pushing[o].ticket \in l.servingPush .. t - 1 /\ pushing[o].ticket \notin l.cancelled
            /\ at[o] = "sending" => pushing[o].ticket = l.servingPush
        BY <3>1, <3>2 DEF TicketIsOpen, l, t
      <4>2. pushing[o].ticket \in x.servingPush .. x.nextPush - 1
        BY <1>3, <1>4, <4>1
      <4> QED
        BY <1>3, <1>5, <3>1, <3>2, <4>1, <4>2 DEF TicketIsOpen
    <3>3. CASE pushing[o].chat # c
      <4>1. lane'[pushing[o].chat] = lane[pushing[o].chat]
        BY <1>5, <3>1, <3>3 DEF TicketIsOpen, Tickets
      <4> QED
        BY <3>1, <4>1 DEF TicketIsOpen
    <3> QED
      BY <3>2, <3>3
  <2> QED
    BY <2>1, <2>2
<1>13. ASSUME NEW o \in Messages, InPush(o)', o # m PROVE pushing'[o] # ticket
  <2>1. TicketIsOpen(o) /\ pushing'[o] = pushing[o]
    BY <1>7, <1>9, <1>13 DEF PushInv, PushesHold
  <2>2. SUFFICES ASSUME pushing[o] = ticket PROVE FALSE
    BY <2>1
  <2>3. t \in l.servingPush .. t - 1
    BY <2>1, <2>2 DEF TicketIsOpen, l, t
  <2> QED
    BY <1>4, <2>3
<1>14. \A o, p \in Messages :
         InPush(o)' /\ InPush(p)' /\ pushing'[o] = pushing'[p] => o = p
  BY <1>7, <1>9, <1>13 DEF PushInv, PushesHold
<1>15. ASSUME NEW d \in Chats, NEW u \in lane'[d].servingPush .. lane'[d].nextPush - 1,
              u \notin lane'[d].cancelled
       PROVE  \E o \in Messages : InPush(o)' /\ pushing'[o] = [chat |-> d, ticket |-> u]
  <2>1. CASE d = c /\ u = t
    BY <1>7, <1>9, <2>1
  <2>2. CASE ~(d = c /\ u = t)
    <3>1. u \in lane[d].servingPush .. lane[d].nextPush - 1 /\ u \notin lane[d].cancelled
      <4>1. CASE d = c
        <5>1. u \in x.servingPush .. x.nextPush - 1 /\ u \notin x.cancelled /\ u # t
          BY <1>5, <1>15, <2>2, <4>1
        <5>2. u \in l.servingPush .. t - 1 /\ u \notin l.cancelled
          BY <1>3, <1>4, <5>1
        <5> QED
          BY <4>1, <5>2 DEF l, t
      <4>2. CASE d # c
        BY <1>5, <1>15, <4>2
      <4> QED
        BY <4>1, <4>2
    <3>2. PICK o \in Messages : InPush(o) /\ pushing[o] = [chat |-> d, ticket |-> u]
      BY <3>1 DEF PushInv, PushesHold, TicketsAreHeld
    <3>3. o # m
      BY <1>1, <3>2
    <3> QED
      BY <1>7, <1>9, <3>2, <3>3
  <2> QED
    BY <2>1, <2>2
<1>16. \A d \in Chats : TicketsAreHeld(d)'
  BY <1>15 DEF TicketsAreHeld
<1> QED
  BY <1>8, <1>10, <1>11, <1>12, <1>14, <1>16 DEF PushInv, PushesHold

LEMMA PushEndsHolds == ASSUME PushInv, NEW m \in Messages, PushEnds(m) PROVE PushInv'
<1>1. /\ InPush(m) /\ lane' = Released(m) /\ pushing' = [pushing EXCEPT ![m] = Nothing]
      /\ at' = [at EXCEPT ![m] = "running"] /\ UNCHANGED <<inbox, posted, going>>
      /\ "running" \in TaskPlaces \ {"pushing", "sending"}
  BY DEF PushEnds, InPush, TaskPlaces, InTurn
<1>2. /\ lane' \in [Chats -> Lanes] /\ pushing[m].chat \in Chats
      /\ SoundLane(lane'[pushing[m].chat])
      /\ \A d \in Chats \ {pushing[m].chat} : lane'[d] = lane[d]
  BY <1>1, ReleasedLane DEF Tickets
<1>3. \A d \in Chats : SoundLane(lane'[d])
  BY <1>2 DEF PushInv, PushesHold
<1>4. LeavesPush(m)
  BY <1>1, <1>3, SameLane DEF LeavesPush
<1>5. TurnsTyping'
  BY <1>1, <1>2 DEF PushInv, TurnsTyping
<1> QED
  BY <1>1, <1>4, <1>5, LeavesHolds DEF PushInv

\* complete_inbound after a push was left.
LEMMA CompletedReleased ==
    ASSUME PushInv, NEW m \in Messages, at[m] \in InTurn,
           lane' = CompleteInbound(Released(m), m)
    PROVE  /\ lane' \in [Chats -> Lanes]
           /\ \A d \in Chats : SoundLane(lane'[d]) /\ SamePushes(Released(m)[d], lane'[d])
           /\ Released(m) \in [Chats -> Lanes]
           /\ \A d \in Chats : SoundLane(Released(m)[d]) /\ SameAnswers(lane[d], Released(m)[d])
           /\ \A d \in Chats : lane'[d] = IF d = Home(m) THEN Completed(Released(m)[d])
                                          ELSE Released(m)[d]
<1>1. Released(m) \in [Chats -> Lanes]
      /\ \A d \in Chats : SoundLane(Released(m)[d]) /\ SameAnswers(lane[d], Released(m)[d])
  <2>1. CASE InPush(m)
    <3>1. /\ Released(m) \in [Chats -> Lanes] /\ pushing[m].chat \in Chats
          /\ SoundLane(Released(m)[pushing[m].chat])
          /\ SameAnswers(lane[pushing[m].chat], Released(m)[pushing[m].chat])
          /\ \A d \in Chats \ {pushing[m].chat} : Released(m)[d] = lane[d]
      BY <2>1, ReleasedLane DEF Tickets
    <3> QED
      BY <3>1, SameLane DEF PushInv, PushesHold
  <2>2. CASE ~InPush(m)
    <3>1. Released(m) = lane
      BY <2>2 DEF Released, InPush
    <3> QED
      BY <3>1, SameLane DEF PushInv, PushesHold, TurnsTyping
  <2> QED
    BY <2>1, <2>2
<1> DEFINE r == Released(m)
           c == Home(m)
<1> HIDE DEF r, c
<1>2. c \in Chats
  BY Homes DEF c
<1>3. SoundLane(r[c]) /\ r \in [Chats -> Lanes]
  BY <1>1, <1>2 DEF r
<1>4. SoundLane(Completed(r[c])) /\ SamePushes(r[c], Completed(r[c]))
  BY <1>3, Counting
<1>5. Completed(r[c]) \in Lanes
  BY <1>4 DEF SoundLane
<1>6. lane' = [r EXCEPT ![c] = Completed(r[c])]
  BY DEF CompleteInbound, r, c
<1>7. /\ lane' \in [Chats -> Lanes]
      /\ \A d \in Chats : lane'[d] = IF d = c THEN Completed(r[d]) ELSE r[d]
  BY <1>2, <1>3, <1>5, <1>6
<1>8. \A d \in Chats : SoundLane(lane'[d]) /\ SamePushes(r[d], lane'[d])
  BY <1>1, <1>2, <1>4, <1>7, SameLane DEF r
<1> QED
  BY <1>1, <1>7, <1>8 DEF r, c

LEMMA PersistHolds == ASSUME PushInv, NEW m \in Messages, Persist(m) PROVE PushInv'
<1>1. /\ at[m] \in InTurn /\ lane' = CompleteInbound(Released(m), m)
      /\ EndTask(m, "interrupted") /\ UNCHANGED <<inbox, posted, going>>
  BY DEF Persist
<1>2. /\ lane' \in [Chats -> Lanes]
      /\ \A d \in Chats : SoundLane(lane'[d]) /\ SamePushes(Released(m)[d], lane'[d])
  BY <1>1, CompletedReleased
<1>3. /\ pushing' = [pushing EXCEPT ![m] = Nothing] /\ at' = [at EXCEPT ![m] = "interrupted"]
      /\ "interrupted" \in TaskPlaces \ {"pushing", "sending"} /\ "interrupted" \in Ended
  BY <1>1 DEF EndTask, TaskPlaces, Ended
<1>4. TurnsTyping'
  BY <1>1, <1>2, <1>3 DEF PushInv, TurnsTyping
<1>5. CASE InPush(m)
  <2>1. LeavesPush(m)
    BY <1>2, <1>3 DEF LeavesPush
  <2> QED
    BY <1>4, <1>5, <2>1, LeavesHolds DEF PushInv
<1>6. CASE ~InPush(m)
  <2>1. Released(m) = lane
    BY <1>6 DEF Released, InPush
  <2>2. /\ pushing' = pushing
        /\ \A o \in Messages : /\ at'[o] \in {"pushing", "sending"} <=> InPush(o)
                               /\ at'[o] = "sending" => at[o] = "sending"
    BY <1>1, <1>3, <1>6, EndSteady
  <2>3. PushesSteady
    BY <1>2, <2>1, <2>2 DEF PushesSteady
  <2> QED
    BY <1>4, <2>3, SteadyHolds DEF PushInv
<1> QED
  BY <1>5, <1>6

\* A fresh lane has no pushes.
LEMMA FreshIsSound ==
    SoundLane(FreshLane) /\ FreshLane.servingPush = 0 /\ FreshLane.nextPush = 0
  BY DEF FreshLane, SoundLane, Lanes

\* Nothing is in memory.
NothingThere ==
    /\ at \in [Messages -> TaskPlaces] /\ \A m \in Messages : ~InPush(m)
    /\ inbox = <<>>
    /\ lane = [c \in Chats |-> FreshLane] /\ pushing = [m \in Messages |-> Nothing]
    /\ posted = {} /\ going = {}

LEMMA NothingThereHolds == NothingThere => PushInv
<1> SUFFICES ASSUME NothingThere PROVE PushInv
  OBVIOUS
<1> USE DEF NothingThere
<1>1. \A c \in Chats : SoundLane(lane[c]) /\ lane[c] \in Lanes
                       /\ lane[c].servingPush = 0 /\ lane[c].nextPush = 0
  BY FreshIsSound DEF SoundLane
<1>2. TurnsTyping
  BY <1>1 DEF TurnsTyping
<1>3. \A c \in Chats : lane[c].servingPush .. lane[c].nextPush - 1 = {}
  BY <1>1
<1> QED
  BY <1>1, <1>2, <1>3 DEF PushInv, PushesHold, TicketsAreHeld

LEMMA VanishHolds == ASSUME PushInv, Vanish PROVE PushInv'
<1>1. NothingThere'
  BY DEF Vanish, PushInv, TurnsTyping, InPush, TaskPlaces, Ended, Live, InTurn, NothingThere
<1>2. NothingThere' => PushInv'
  BY NothingThereHolds, PTL
<1> QED
  BY <1>1, <1>2

LEMMA TaskStepPushes == ASSUME PushInv, NEW m \in Messages, TaskStep(m) PROVE PushInv'
  BY AcquireSteady, PushStartsSteady, CommitSteady, AnswerSteady, EndStepSteady,
     SteadyStepHolds, PushEndsHolds, PersistHolds DEF TaskStep

LEMMA PushesStep == ASSUME PushInv, InboxHolds, [TurnsNext]_turnsVars PROVE PushInv'
<1>1. CASE \E m \in Messages : Publish(m) \/ TaskStep(m) \/ \E c \in Chats : Push(m, c)
  BY <1>1, PublishSteady, SteadyStepHolds, TaskStepPushes, PushHolds
<1>2. CASE Consume
  BY <1>2, ConsumeSteady, SteadyStepHolds
<1>3. CASE \E e \in posted : Sending(e)
  BY <1>3, SendStartsSteady, SendEndsSteady, SteadyStepHolds DEF Sending
<1>4. CASE \E n \in Notices : NoticePosts(n)
  BY <1>4, NoticePostsSteady, SteadyStepHolds
<1>5. CASE ProgramExits \/ ProgramCrashes
  BY <1>5, VanishHolds DEF ProgramExits, ProgramCrashes
<1>6. CASE \/ StopReading \/ \E s \in Sessions : Interrupt(s)
           \/ \E n \in Notices : NoticeBegins(n) \/ NoticeRecords(n)
           \/ Stop \/ Restart \/ UNCHANGED turnsVars
  <2>1. Untouched
    BY <1>6 DEF Untouched, StopReading, Interrupt, NoticeBegins, NoticeRecords, Stop, Restart,
                turnsVars, tasks, delivery
  <2> QED
    BY <2>1, UntouchedHolds
<1> QED
  BY <1>1, <1>2, <1>3, <1>4, <1>5, <1>6 DEF TurnsNext

\* What a step does to the messages of the lanes,
TurnsSame == \A c \in Chats : lane'[c].turns = lane[c].turns

OneMore(m) == \A c \in Chats :
    lane'[c].turns = IF c = Home(m) THEN lane[c].turns + 1 ELSE lane[c].turns

OneLess(m) == \A c \in Chats :
    lane'[c].turns = IF c = Home(m) /\ lane[c].turns > 0 THEN lane[c].turns - 1 ELSE lane[c].turns

\* and to their answers.
SendsSame == \A c \in Chats :
    /\ lane'[c].sends = lane[c].sends /\ lane'[c].next = lane[c].next
    /\ lane'[c].serving = lane[c].serving

SendsMore(c) == \A d \in Chats :
    /\ lane'[d].sends = IF d = c THEN lane[d].sends + 1 ELSE lane[d].sends
    /\ lane'[d].next = IF d = c THEN lane[d].next + 1 ELSE lane[d].next
    /\ lane'[d].serving = lane[d].serving

LEMMA LaneKept ==
    ASSUME PushInv, NEW c \in Chats, NEW x \in Lanes, lane' = [lane EXCEPT ![c] = x],
           SameAnswers(lane[c], x)
    PROVE  TurnsSame /\ SendsSame
<1>1. lane'[c] = x /\ \A d \in Chats \ {c} : lane'[d] = lane[d]
  BY LaneAt DEF PushInv
<1> QED
  BY <1>1 DEF TurnsSame, SendsSame, SameAnswers

LEMMA LanePosted ==
    ASSUME PushInv, NEW c \in Chats, lane' = [lane EXCEPT ![c] = Posted(lane[c])]
    PROVE  TurnsSame /\ SendsMore(c)
<1>1. SoundLane(lane[c])
  BY DEF PushInv, PushesHold
<1>2. /\ SoundLane(Posted(lane[c]))
      /\ Posted(lane[c]).turns = lane[c].turns /\ Posted(lane[c]).sends = lane[c].sends + 1
      /\ Posted(lane[c]).next = lane[c].next + 1 /\ Posted(lane[c]).serving = lane[c].serving
  BY <1>1, Counting
<1> DEFINE x == Posted(lane[c])
<1> HIDE DEF x
<1>3. x \in Lanes /\ lane' = [lane EXCEPT ![c] = x]
  BY <1>2 DEF SoundLane, x
<1>4. lane'[c] = x /\ \A d \in Chats \ {c} : lane'[d] = lane[d]
  BY <1>3, LaneAt DEF PushInv
<1> QED
  BY <1>2, <1>4 DEF TurnsSame, SendsMore, x

LEMMA LaneCompleted ==
    ASSUME PushInv, NEW m \in Messages, lane' = [lane EXCEPT ![Home(m)] = Completed(lane[Home(m)])]
    PROVE  OneLess(m) /\ SendsSame
<1> DEFINE c == Home(m)
           x == Completed(lane[c])
<1>0. c \in Chats
  BY Homes
<1>1. SoundLane(lane[c])
  BY <1>0 DEF PushInv, PushesHold
<1>2. /\ SoundLane(x)
      /\ x.turns = (IF lane[c].turns > 0 THEN lane[c].turns - 1 ELSE 0)
      /\ x.sends = lane[c].sends
      /\ x.next = lane[c].next /\ x.serving = lane[c].serving
  BY <1>1, Counting
<1>8. lane[c].turns \in Nat
  BY <1>1 DEF SoundLane, Lanes
<1> HIDE DEF x
<1>3. x \in Lanes /\ lane' = [lane EXCEPT ![c] = x]
  BY <1>2 DEF SoundLane, x
<1>4. lane'[c] = x /\ \A d \in Chats \ {c} : lane'[d] = lane[d]
  BY <1>0, <1>3, LaneAt DEF PushInv
<1>5. x.turns = IF lane[c].turns > 0 THEN lane[c].turns - 1 ELSE lane[c].turns
  BY <1>2, <1>8
<1>6. OneLess(m)
  BY <1>4, <1>5 DEF OneLess
<1>7. SendsSame
  BY <1>2, <1>4 DEF SendsSame
<1> QED
  BY <1>6, <1>7

LEMMA LaneRefused ==
    ASSUME PushInv, NEW m \in Messages,
           lane' = [lane EXCEPT ![Home(m)] = Completed(Posted(lane[Home(m)]))]
    PROVE  OneLess(m) /\ SendsMore(Home(m))
<1> DEFINE c == Home(m)
           p == Posted(lane[c])
           x == Completed(p)
<1>0. c \in Chats
  BY Homes
<1>1. SoundLane(lane[c])
  BY <1>0 DEF PushInv, PushesHold
<1>2. /\ SoundLane(p)
      /\ p.turns = lane[c].turns /\ p.sends = lane[c].sends + 1
      /\ p.next = lane[c].next + 1 /\ p.serving = lane[c].serving
      /\ lane[c].turns \in Nat
  BY <1>1, Counting DEF SoundLane, Lanes
<1> HIDE DEF p
<1>3. /\ SoundLane(x)
      /\ x.turns = (IF p.turns > 0 THEN p.turns - 1 ELSE 0)
      /\ x.sends = p.sends
      /\ x.next = p.next /\ x.serving = p.serving
  BY <1>2, Counting
<1>4. lane' = [lane EXCEPT ![c] = x]
  BY DEF p
<1> HIDE DEF x
<1>5. x \in Lanes
  BY <1>3 DEF SoundLane
<1>6. lane'[c] = x /\ \A d \in Chats \ {c} : lane'[d] = lane[d]
  BY <1>0, <1>4, <1>5, LaneAt DEF PushInv
<1>7. x.turns = IF lane[c].turns > 0 THEN lane[c].turns - 1 ELSE lane[c].turns
  BY <1>2, <1>3
<1>8. OneLess(m)
  BY <1>6, <1>7 DEF OneLess
<1>9. SendsMore(Home(m))
  BY <1>2, <1>3, <1>6 DEF SendsMore
<1> QED
  BY <1>8, <1>9

------------------------------------------------------------------------------
\* Where the tasks go.  A message comes,
Arrives(m) ==
    /\ at[m] = "new" /\ at' = [at EXCEPT ![m] = "inbox"] /\ inbox' = Append(inbox, m)
    /\ UNCHANGED <<mine, lock>> /\ OneMore(m)

\* its task takes its session's lock, or waits for it,
TakesLock(m) ==
    \/ at[m] = "waiting" /\ inbox' = inbox /\ lock' = lock /\ mine' = [mine EXCEPT ![m] = @]
    \/ /\ at[m] = "inbox" /\ inbox # <<>> /\ m = Head(inbox) /\ inbox' = Tail(inbox)
       /\ mine' = [mine EXCEPT ![m] = LockFor(m)]
       /\ lock' = [lock EXCEPT ![SessionOf[m]] = LockFor(m)]

LockFree(m) ==
    \/ at[m] = "waiting" /\ \A o \in Messages : mine[o] = mine[m] => at[o] \notin InTurn
    \/ at[m] = "inbox" /\ \A o \in Messages : mine[o] = LockFor(m) => at[o] \notin InTurn

Enters(m) ==
    TakesLock(m) /\ LockFree(m) /\ at' = [at EXCEPT ![m] = "running"] /\ TurnsSame

Waits(m) ==
    TakesLock(m) /\ at[m] = "inbox" /\ at' = [at EXCEPT ![m] = "waiting"] /\ TurnsSame

\* it works,
Works(m) ==
    /\ at[m] \in InTurn /\ \E p \in InTurn : at' = [at EXCEPT ![m] = p]
    /\ UNCHANGED <<mine, lock, inbox>> /\ TurnsSame

\* and it ends, in its turn or without one.
Ends(m) ==
    /\ \E how \in Ended : EndTask(m, how) /\ (how = "refused" => LockFree(m))
    /\ \/ at[m] \in Live /\ inbox' = inbox
       \/ at[m] = "inbox" /\ inbox # <<>> /\ m = Head(inbox) /\ inbox' = Tail(inbox)
    /\ OneLess(m)

Rests == UNCHANGED <<at, mine, lock, inbox>> /\ TurnsSame

TaskMovement ==
    \/ \E m \in Messages : Arrives(m) \/ Enters(m) \/ Waits(m) \/ Works(m) \/ Ends(m)
    \/ Rests \/ Vanish

\* What is sent: something is posted,
Posts(c, what) ==
    /\ UNCHANGED <<going, shown>>
    /\ posted' = posted \union {Envelope(c, what)}
    /\ SendsMore(c)

\* or its send begins or ends, or nothing of the kind.
NothingSent == UNCHANGED <<posted, going, shown>> /\ SendsSame

LEMMA PublishMoves == ASSUME PushInv, NEW m \in Messages, Publish(m) PROVE Arrives(m) /\ NothingSent
<1> DEFINE c == Home(m)
           x == [lane[c] EXCEPT !.turns = @ + 1]
<1>1. c \in Chats /\ SoundLane(lane[c])
  BY Homes DEF PushInv, PushesHold
<1>2. /\ SoundLane(x) /\ x.turns = lane[c].turns + 1 /\ x.sends = lane[c].sends
      /\ x.next = lane[c].next /\ x.serving = lane[c].serving
  BY <1>1, Counting
<1>3. lane' = [lane EXCEPT ![c] = x]
  BY DEF Publish
<1> HIDE DEF x
<1>4. lane'[c] = x /\ \A d \in Chats \ {c} : lane'[d] = lane[d]
  BY <1>1, <1>2, <1>3, LaneAt DEF PushInv, SoundLane
<1>5. OneMore(m) /\ SendsSame
  BY <1>2, <1>4 DEF OneMore, SendsSame
<1> QED
  BY <1>5 DEF Publish, Arrives, NothingSent

LEMMA EnterMoves ==
    ASSUME PushInv, NEW m \in Messages, NEW l, Enter(m, l), UNCHANGED <<going, shown>>,
           \/ at[m] = "inbox" /\ l = LockFor(m)
           \/ at[m] = "waiting" /\ l = mine[m],
           \A o \in Messages : mine[o] = l => at[o] \notin InTurn,
           \/ at[m] = "waiting" /\ inbox' = inbox
           \/ at[m] = "inbox" /\ inbox # <<>> /\ m = Head(inbox) /\ inbox' = Tail(inbox),
           lock \in [Sessions -> Messages \union {Nothing}]
    PROVE  \/ Enters(m) /\ NothingSent
           \/ Ends(m) /\ Posts(Home(m), Nothing)
<1>1. LockFree(m)
  BY DEF LockFree
<1>2. CASE /\ at' = [at EXCEPT ![m] = "running"]
           /\ mine' = [mine EXCEPT ![m] = l]
           /\ lock' = [lock EXCEPT ![SessionOf[m]] = IF at[m] = "inbox" THEN l ELSE @]
           /\ UNCHANGED <<lane, posted>>
  <2>1. TurnsSame /\ SendsSame
    BY <1>2 DEF TurnsSame, SendsSame
  <2>2. at[m] = "waiting" => lock' = lock
    BY <1>2
  <2>3. at[m] = "inbox" => lock' = [lock EXCEPT ![SessionOf[m]] = LockFor(m)]
    BY <1>2
  <2>4. TakesLock(m)
    BY <1>2, <2>2, <2>3 DEF TakesLock
  <2> QED
    BY <1>1, <1>2, <2>1, <2>4 DEF Enters, NothingSent
<1>3. CASE /\ EndTask(m, "refused")
           /\ lane' = [lane EXCEPT ![Home(m)] = Completed(Posted(@))]
           /\ posted' = posted \union {Envelope(Home(m), Nothing)}
  <2>1. OneLess(m) /\ SendsMore(Home(m))
    BY <1>3, LaneRefused
  <2> QED
    BY <1>1, <1>3, <2>1 DEF Ends, Posts, Ended, Live
<1> QED
  BY <1>2, <1>3 DEF Enter

LEMMA ConsumeMoves ==
    ASSUME PushInv, InboxHolds, Consume, lock \in [Sessions -> Messages \union {Nothing}]
    PROVE  LET m == Head(inbox) IN
           /\ m \in Messages
           /\ \/ Enters(m) /\ NothingSent
              \/ Waits(m) /\ NothingSent
              \/ Ends(m) /\ Posts(Home(m), Nothing)
<1> DEFINE m == Head(inbox)
<1>1. /\ m \in Messages /\ at[m] = "inbox" /\ inbox' = Tail(inbox) /\ inbox # <<>>
      /\ UNCHANGED <<going, shown>>
  BY Heads DEF Consume, PushInv, TurnsTyping
<1>2. CASE FreeLock(LockFor(m), Waiting) /\ Enter(m, LockFor(m))
  <2>1. \A o \in Messages : mine[o] = LockFor(m) => at[o] \notin InTurn
    BY <1>2 DEF FreeLock
  <2> QED
    BY <1>1, <1>2, <2>1, EnterMoves
<1>3. CASE /\ at' = [at EXCEPT ![m] = "waiting"] /\ mine' = [mine EXCEPT ![m] = LockFor(m)]
           /\ lock' = [lock EXCEPT ![SessionOf[m]] = LockFor(m)]
           /\ UNCHANGED <<lane, posted>>
  BY <1>1, <1>3 DEF Waits, TakesLock, NothingSent, TurnsSame, SendsSame
<1> QED
  BY <1>1, <1>2, <1>3 DEF Consume

LEMMA AcquireMoves ==
    ASSUME PushInv, NEW m \in Messages, Acquire(m), lock \in [Sessions -> Messages \union {Nothing}]
    PROVE  \/ Enters(m) /\ NothingSent
           \/ Ends(m) /\ Posts(Home(m), Nothing)
<1>1. /\ at[m] = "waiting" /\ Enter(m, mine[m]) /\ UNCHANGED <<inbox, going, shown>>
      /\ \A o \in Messages : mine[o] = mine[m] => at[o] \notin InTurn
  BY DEF Acquire, FreeLock
<1> QED
  BY <1>1, EnterMoves

LEMMA PushMoves ==
    ASSUME PushInv, NEW m \in Messages, NEW c \in Chats, Push(m, c) PROVE Works(m) /\ NothingSent
<1>1. SoundLane(lane[c])
  BY DEF PushInv, PushesHold
<1>2. SoundLane(TakePushTicket(lane[c])) /\ SameAnswers(lane[c], TakePushTicket(lane[c]))
  BY <1>1, Ticketing
<1>3. TurnsSame /\ SendsSame
  BY <1>2, LaneKept DEF SoundLane, Push
<1> QED
  BY <1>3 DEF Push, Runs, Works, NothingSent, InTurn

LEMMA PushStartsMoves ==
    ASSUME PushInv, NEW m \in Messages, PushStarts(m) PROVE Works(m) /\ NothingSent
<1> DEFINE c == pushing[m].chat
           x == [lane[c] EXCEPT !.sending = TRUE]
<1>1. InPush(m)
  BY DEF PushStarts, InPush
<1>2. c \in Chats
  BY <1>1 DEF PushInv, PushesHold, TicketIsOpen, Tickets
<1>3. SoundLane(lane[c])
  BY <1>2 DEF PushInv, PushesHold
<1>4. SoundLane(x) /\ SameAnswers(lane[c], x)
  BY <1>3, Counting
<1>5. lane' = [lane EXCEPT ![c] = x]
  BY DEF PushStarts
<1> HIDE DEF x, c
<1>6. TurnsSame /\ SendsSame
  BY <1>2, <1>4, <1>5, LaneKept DEF SoundLane
<1> QED
  BY <1>6 DEF PushStarts, Works, NothingSent, InTurn

LEMMA PushEndsMoves ==
    ASSUME PushInv, NEW m \in Messages, PushEnds(m) PROVE Works(m) /\ NothingSent
<1>1. InPush(m) /\ lane' = Released(m)
  BY DEF PushEnds, InPush
<1>2. /\ SameAnswers(lane[pushing[m].chat], lane'[pushing[m].chat])
      /\ \A d \in Chats \ {pushing[m].chat} : lane'[d] = lane[d]
  BY <1>1, ReleasedLane
<1>3. TurnsSame /\ SendsSame
  BY <1>2 DEF TurnsSame, SendsSame, SameAnswers
<1> QED
  BY <1>3 DEF PushEnds, Works, NothingSent, InTurn

LEMMA CommitMoves == ASSUME PushInv, NEW m \in Messages, Commit(m) PROVE Works(m) /\ NothingSent
  BY DEF Commit, Runs, Works, NothingSent, TurnsSame, SendsSame, InTurn, delivery

LEMMA AnswerMoves ==
    ASSUME PushInv, NEW m \in Messages, Answer(m)
    PROVE  Works(m) /\ Posts(Home(m), IF at[m] = "committed" THEN m ELSE Nothing)
<1>1. TurnsSame /\ SendsMore(Home(m))
  BY Homes, LanePosted DEF Answer, Post
<1> QED
  BY <1>1 DEF Answer, Post, Works, Posts, InTurn

LEMMA FinishMoves ==
    ASSUME PushInv, NEW m \in Messages, Finish(m) \/ DropWaiting(m) PROVE Ends(m) /\ NothingSent
<1>1. lane' = [lane EXCEPT ![Home(m)] = Completed(lane[Home(m)])]
  BY DEF Finish, DropWaiting, CompleteInbound
<1>2. OneLess(m) /\ SendsSame
  BY <1>1, LaneCompleted
<1>3. /\ \E how \in Ended \ {"refused"} : EndTask(m, how)
      /\ at[m] \in Live /\ UNCHANGED <<inbox, posted, going, shown>>
  BY DEF Finish, DropWaiting, Live, InTurn, Ended
<1> QED
  BY <1>2, <1>3 DEF Ends, NothingSent

LEMMA FailTurnMoves ==
    ASSUME PushInv, NEW m \in Messages, FailTurn(m) PROVE Ends(m) /\ Posts(Home(m), Nothing)
<1>1. OneLess(m) /\ SendsMore(Home(m))
  BY LaneRefused DEF FailTurn
<1>2. /\ \E how \in Ended \ {"refused"} : EndTask(m, how)
      /\ at[m] \in Live /\ UNCHANGED <<inbox, going, shown>>
      /\ posted' = posted \union {Envelope(Home(m), Nothing)}
  BY DEF FailTurn, Live, InTurn, Ended
<1> QED
  BY <1>1, <1>2 DEF Ends, Posts

LEMMA PersistMoves ==
    ASSUME PushInv, NEW m \in Messages, Persist(m) PROVE Ends(m) /\ NothingSent
<1> DEFINE r == Released(m)
<1>1. /\ at[m] \in InTurn /\ lane' = CompleteInbound(r, m)
      /\ EndTask(m, "interrupted") /\ UNCHANGED <<inbox, posted, going, shown>>
  BY DEF Persist
<1>2. /\ \A d \in Chats : SoundLane(r[d]) /\ SameAnswers(lane[d], r[d])
      /\ \A d \in Chats : lane'[d] = IF d = Home(m) THEN Completed(r[d]) ELSE r[d]
  BY <1>1, CompletedReleased
<1> HIDE DEF r
<1>3. ASSUME NEW d \in Chats
      PROVE  /\ lane'[d].turns = IF d = Home(m) /\ lane[d].turns > 0 THEN lane[d].turns - 1
                                 ELSE lane[d].turns
             /\ lane'[d].sends = lane[d].sends /\ lane'[d].next = lane[d].next
             /\ lane'[d].serving = lane[d].serving
  <2>1. /\ SoundLane(r[d]) /\ r[d].turns = lane[d].turns /\ r[d].sends = lane[d].sends
        /\ r[d].next = lane[d].next /\ r[d].serving = lane[d].serving
        /\ lane[d].turns \in Nat
    BY <1>2 DEF SameAnswers, SoundLane, Lanes
  <2>2. /\ Completed(r[d]).turns = (IF r[d].turns > 0 THEN r[d].turns - 1 ELSE 0)
        /\ Completed(r[d]).sends = r[d].sends
        /\ Completed(r[d]).next = r[d].next /\ Completed(r[d]).serving = r[d].serving
    BY <2>1, Counting
  <2>3. CASE d = Home(m)
    <3>1. lane'[d] = Completed(r[d])
      BY <1>2, <2>3
    <3> QED
      BY <2>1, <2>2, <2>3, <3>1
  <2>4. CASE d # Home(m)
    <3>1. lane'[d] = r[d]
      BY <1>2, <2>4
    <3> QED
      BY <2>1, <2>4, <3>1
  <2> QED
    BY <2>3, <2>4
<1>4. OneLess(m) /\ SendsSame
  BY <1>3 DEF OneLess, SendsSame
<1> QED
  BY <1>1, <1>4 DEF Ends, NothingSent, Live, Ended

\* Type correctness of the locks.
LocksTyped ==
    /\ mine \in [Messages -> Messages \union {Nothing}]
    /\ lock \in [Sessions -> Messages \union {Nothing}]

LEMMA SendingMoves ==
    ASSUME PushInv, NEW e \in posted, NEW ok, SendStarts(e) \/ SendEnds(e, ok)
    PROVE  Rests
<1>1. e.chat \in Chats
  BY DEF PushInv, TurnsTyping, Envelopes
<1>2. SoundLane(lane[e.chat])
  BY <1>1 DEF PushInv, PushesHold
<1>3. CASE SendStarts(e)
  <2> DEFINE x == [lane[e.chat] EXCEPT !.sending = TRUE]
  <2>1. SoundLane(x) /\ SameAnswers(lane[e.chat], x)
    BY <1>2, Counting
  <2>2. lane' = [lane EXCEPT ![e.chat] = x]
    BY <1>3 DEF SendStarts
  <2> HIDE DEF x
  <2>3. TurnsSame
    BY <1>1, <2>1, <2>2, LaneKept DEF SoundLane
  <2> QED
    BY <1>3, <2>3 DEF SendStarts, Rests, tasks
<1>4. CASE SendEnds(e, ok)
  <2> DEFINE x == Sent(lane[e.chat])
  <2>1. SoundLane(x) /\ x.turns = lane[e.chat].turns
    BY <1>2, Counting
  <2>2. lane' = [lane EXCEPT ![e.chat] = x]
    BY <1>4 DEF SendEnds
  <2> HIDE DEF x
  <2>3. lane'[e.chat] = x /\ \A d \in Chats \ {e.chat} : lane'[d] = lane[d]
    BY <1>1, <2>1, <2>2, LaneAt DEF PushInv, SoundLane
  <2>4. TurnsSame
    BY <2>1, <2>3 DEF TurnsSame
  <2> QED
    BY <1>4, <2>4 DEF SendEnds, Rests, tasks
<1> QED
  BY <1>3, <1>4

LEMMA OtherMoves ==
    ASSUME PushInv,
           \/ StopReading \/ \E s \in Sessions : Interrupt(s)
           \/ \E n \in Notices : NoticeBegins(n) \/ NoticeRecords(n)
           \/ Stop \/ Restart \/ UNCHANGED turnsVars
    PROVE  Rests /\ NothingSent
  BY DEF Rests, NothingSent, TurnsSame, SendsSame, StopReading, Interrupt, NoticeBegins,
         NoticeRecords, Stop, Restart, turnsVars, tasks, delivery

LEMMA NoticePostsMoves ==
    ASSUME PushInv, NEW n \in Notices, NoticePosts(n)
    PROVE  Rests /\ Posts(ChatOf[SessionOf[n]], n)
<1>1. TurnsSame /\ SendsMore(ChatOf[SessionOf[n]])
  BY Homes, LanePosted DEF NoticePosts, Post
<1> QED
  BY <1>1 DEF NoticePosts, Post, Rests, Posts, tasks

\* Every step moves one task at most, or the process ends.
LEMMA Movements ==
    ASSUME PushInv, InboxHolds, LocksTyped, [TurnsNext]_turnsVars PROVE TaskMovement
<1>0. lock \in [Sessions -> Messages \union {Nothing}]
  BY DEF LocksTyped
<1>1. CASE \E m \in Messages : Publish(m) \/ TaskStep(m) \/ \E c \in Chats : Push(m, c)
  BY <1>0, <1>1, PublishMoves, AcquireMoves, PushMoves, PushStartsMoves, PushEndsMoves,
     CommitMoves, AnswerMoves, FinishMoves, FailTurnMoves, PersistMoves DEF TaskStep, TaskMovement
<1>2. CASE Consume
  BY <1>0, <1>2, ConsumeMoves DEF TaskMovement
<1>3. CASE \E e \in posted : Sending(e)
  BY <1>3, SendingMoves DEF Sending, TaskMovement
<1>4. CASE \E n \in Notices : NoticePosts(n)
  BY <1>4, NoticePostsMoves DEF TaskMovement
<1>5. CASE ProgramExits \/ ProgramCrashes
  BY <1>5 DEF ProgramExits, ProgramCrashes, TaskMovement
<1>6. CASE \/ StopReading \/ \E s \in Sessions : Interrupt(s)
           \/ \E n \in Notices : NoticeBegins(n) \/ NoticeRecords(n)
           \/ Stop \/ Restart \/ UNCHANGED turnsVars
  BY <1>6, OtherMoves DEF TaskMovement
<1> QED
  BY <1>1, <1>2, <1>3, <1>4, <1>5, <1>6 DEF TurnsNext

------------------------------------------------------------------------------
\* A live task waits for its session's lock or holds it, one at a time holds it,
\* and a task that is not live has none.
LocksHold ==
    /\ \A m \in Messages : at[m] \in Live => mine[m] = lock[SessionOf[m]] /\ mine[m] # Nothing
    /\ \A m \in Messages : at[m] \notin Live => mine[m] = Nothing
    /\ \A m, o \in Messages :
         at[m] \in InTurn /\ at[o] \in InTurn /\ SessionOf[m] = SessionOf[o] => m = o

\* The part that is about the locks of sessions.
LockInv == LocksTyped /\ InboxHolds /\ LocksHold

\* The inbox when the task of a message that is not in it moves,
LEMMA InboxStays ==
    ASSUME PushInv, InboxHolds, inbox' = inbox, NEW m \in Messages, at[m] # "inbox", NEW p,
           at' = [at EXCEPT ![m] = p]
    PROVE  InboxHolds'
<1>1. \A i \in DOMAIN inbox : inbox[i] \in Messages /\ inbox[i] # m
  BY DEF InboxHolds, PushInv, TurnsTyping
<1> QED
  BY <1>1 DEF InboxHolds, PushInv, TurnsTyping

\* and when its head is taken.
LEMMA InboxLoses ==
    ASSUME PushInv, InboxHolds, inbox # <<>>, inbox' = Tail(inbox), NEW p,
           at' = [at EXCEPT ![Head(inbox)] = p]
    PROVE  InboxHolds'
<1>1. inbox \in Seq(Messages) /\ Len(inbox) \in Nat /\ Len(inbox) > 0
      /\ DOMAIN inbox = 1 .. Len(inbox)
  BY DEF PushInv, TurnsTyping
<1>2. /\ inbox' \in Seq(Messages) /\ Len(inbox') = Len(inbox) - 1
      /\ DOMAIN inbox' = 1 .. Len(inbox')
      /\ \A i \in 1 .. Len(inbox') : inbox'[i] = inbox[i + 1]
      /\ Head(inbox) = inbox[1]
  BY <1>1
<1>3. ASSUME NEW i \in DOMAIN inbox'
      PROVE  /\ inbox'[i] = inbox[i + 1] /\ i + 1 \in DOMAIN inbox /\ 1 \in DOMAIN inbox /\ i + 1 # 1
             /\ i \in Nat
  BY <1>1, <1>2
<1>4. ASSUME NEW i \in DOMAIN inbox' PROVE at'[inbox'[i]] = "inbox"
  <2>1. inbox[i + 1] # Head(inbox) /\ inbox[i + 1] \in Messages /\ at[inbox[i + 1]] = "inbox"
    BY <1>1, <1>2, <1>3 DEF InboxHolds
  <2> QED
    BY <1>3, <2>1 DEF PushInv, TurnsTyping
<1>5. ASSUME NEW i \in DOMAIN inbox', NEW j \in DOMAIN inbox', inbox'[i] = inbox'[j]
      PROVE  i = j
  <2>1. i + 1 = j + 1
    BY <1>3, <1>5 DEF InboxHolds
  <2> QED
    BY <1>3, <2>1
<1> QED
  BY <1>4, <1>5 DEF InboxHolds

LEMMA InboxGains ==
    ASSUME PushInv, InboxHolds, NEW m \in Messages, at[m] = "new", inbox' = Append(inbox, m),
           at' = [at EXCEPT ![m] = "inbox"]
    PROVE  InboxHolds'
<1>1. inbox \in Seq(Messages) /\ Len(inbox) \in Nat /\ DOMAIN inbox = 1 .. Len(inbox)
  BY DEF PushInv, TurnsTyping
<1>2. /\ DOMAIN inbox' = 1 .. Len(inbox) + 1
      /\ \A i \in 1 .. Len(inbox) : inbox'[i] = inbox[i]
      /\ inbox'[Len(inbox) + 1] = m
  BY <1>1
<1>3. \A i \in 1 .. Len(inbox) : inbox[i] \in Messages /\ inbox[i] # m
  BY <1>1 DEF InboxHolds
<1>4. \A i \in DOMAIN inbox' : i \in 1 .. Len(inbox) \/ i = Len(inbox) + 1
  BY <1>1, <1>2
<1>5. \A i \in DOMAIN inbox' : at'[inbox'[i]] = "inbox"
  BY <1>1, <1>2, <1>3, <1>4 DEF InboxHolds, PushInv, TurnsTyping
<1>6. \A i, j \in DOMAIN inbox' : inbox'[i] = inbox'[j] => i = j
  BY <1>1, <1>2, <1>3, <1>4 DEF InboxHolds
<1> QED
  BY <1>5, <1>6 DEF InboxHolds

\* A task that takes a lock that is free is the only one in its session's turn.
LEMMA FreeMeansAlone ==
    ASSUME LockInv, NEW m \in Messages, at[m] \in {"inbox", "waiting"}, LockFree(m),
           NEW o \in Messages, SessionOf[o] = SessionOf[m]
    PROVE  at[o] \notin InTurn
<1>1. SUFFICES ASSUME at[o] \in InTurn PROVE FALSE
  OBVIOUS
<1>2. mine[o] = lock[SessionOf[m]] /\ mine[o] # Nothing
  BY <1>1 DEF LockInv, LocksHold, Live
<1>3. LockFor(m) = mine[o] /\ (at[m] = "waiting" => mine[m] = mine[o])
  BY <1>2 DEF LockFor, LockInv, LocksHold, Live
<1> QED
  BY <1>1, <1>3 DEF LockFree

LEMMA TakenLock ==
    ASSUME PushInv, LockInv, NEW m \in Messages, TakesLock(m), NEW p \in {"running", "waiting"},
           at' = [at EXCEPT ![m] = p]
    PROVE  /\ LocksTyped' /\ InboxHolds'
           /\ \A o \in Messages : at'[o] \in Live => mine'[o] = lock'[SessionOf[o]] /\ mine'[o] # Nothing
           /\ \A o \in Messages : at'[o] \notin Live => mine'[o] = Nothing
<1> DEFINE s == SessionOf[m]
<1>1. s \in Sessions /\ p \in Live
  BY Homes DEF Live, InTurn
<1>2. at \in [Messages -> TaskPlaces] /\ at'[m] = p /\ \A o \in Messages \ {m} : at'[o] = at[o]
  BY DEF PushInv, TurnsTyping
<1>3. CASE at[m] = "waiting" /\ inbox' = inbox /\ lock' = lock /\ mine' = [mine EXCEPT ![m] = @]
  <2>1. mine' = mine /\ at[m] \in Live /\ at[m] # "inbox"
    BY <1>3 DEF LockInv, LocksTyped, Live
  <2>2. InboxHolds'
    BY <1>3, <2>1, InboxStays DEF LockInv
  <2> QED
    BY <1>1, <1>2, <1>3, <2>1, <2>2 DEF LockInv, LocksTyped, LocksHold
<1>4. CASE /\ at[m] = "inbox" /\ inbox # <<>> /\ m = Head(inbox) /\ inbox' = Tail(inbox)
           /\ mine' = [mine EXCEPT ![m] = LockFor(m)]
           /\ lock' = [lock EXCEPT ![s] = LockFor(m)]
  <2>1. InboxHolds'
    BY <1>4, InboxLoses DEF LockInv
  <2>2. LockFor(m) \in Messages /\ LockFor(m) # Nothing
    BY <1>1, LocalConstants DEF LockFor, LockInv, LocksTyped
  <2>3. /\ LocksTyped'
        /\ mine'[m] = LockFor(m) /\ \A o \in Messages \ {m} : mine'[o] = mine[o]
        /\ lock'[s] = LockFor(m) /\ \A t \in Sessions \ {s} : lock'[t] = lock[t]
    BY <1>1, <1>4, <2>2 DEF LockInv, LocksTyped
  <2>4. ASSUME NEW o \in Messages \ {m}, at'[o] \in Live
        PROVE  mine'[o] = lock'[SessionOf[o]] /\ mine'[o] # Nothing
    <3>1. mine[o] = lock[SessionOf[o]] /\ mine[o] # Nothing /\ mine'[o] = mine[o]
      BY <1>2, <2>3, <2>4 DEF LockInv, LocksHold
    <3>2. SessionOf[o] \in Sessions
      BY Homes
    <3>3. CASE SessionOf[o] = s
      BY <2>3, <3>1, <3>3 DEF LockFor
    <3>4. CASE SessionOf[o] # s
      BY <2>3, <3>1, <3>2, <3>4
    <3> QED
      BY <3>3, <3>4
  <2>5. \A o \in Messages : at'[o] \notin Live => mine'[o] = Nothing
    BY <1>1, <1>2, <2>3 DEF LockInv, LocksHold
  <2> QED
    BY <2>1, <2>2, <2>3, <2>4, <2>5
<1> QED
  BY <1>3, <1>4 DEF TakesLock

LEMMA EntersLocks == ASSUME PushInv, LockInv, NEW m \in Messages, Enters(m) PROVE LockInv'
<1>1. TakesLock(m) /\ LockFree(m) /\ at' = [at EXCEPT ![m] = "running"]
      /\ at[m] \in {"inbox", "waiting"}
  BY DEF Enters, TakesLock
<1>2. /\ LocksTyped' /\ InboxHolds'
      /\ \A o \in Messages : at'[o] \in Live => mine'[o] = lock'[SessionOf[o]] /\ mine'[o] # Nothing
      /\ \A o \in Messages : at'[o] \notin Live => mine'[o] = Nothing
  BY <1>1, TakenLock
<1>3. \A o \in Messages : SessionOf[o] = SessionOf[m] => at[o] \notin InTurn
  BY <1>1, FreeMeansAlone
<1>4. \A o \in Messages \ {m} : at'[o] = at[o]
  BY <1>1 DEF PushInv, TurnsTyping
<1>5. \A n, o \in Messages :
         at'[n] \in InTurn /\ at'[o] \in InTurn /\ SessionOf[n] = SessionOf[o] => n = o
  BY <1>3, <1>4 DEF LockInv, LocksHold
<1> QED
  BY <1>2, <1>5 DEF LockInv, LocksHold

LEMMA WaitsLocks == ASSUME PushInv, LockInv, NEW m \in Messages, Waits(m) PROVE LockInv'
<1>1. TakesLock(m) /\ at' = [at EXCEPT ![m] = "waiting"]
  BY DEF Waits
<1>2. /\ LocksTyped' /\ InboxHolds'
      /\ \A o \in Messages : at'[o] \in Live => mine'[o] = lock'[SessionOf[o]] /\ mine'[o] # Nothing
      /\ \A o \in Messages : at'[o] \notin Live => mine'[o] = Nothing
  BY <1>1, TakenLock
<1>3. "waiting" \notin InTurn
  BY DEF InTurn
<1>4. \A o \in Messages : at'[o] \in InTurn => at[o] \in InTurn
  BY <1>1, <1>3 DEF PushInv, TurnsTyping
<1> QED
  BY <1>2, <1>4 DEF LockInv, LocksHold

LEMMA ArrivesLocks == ASSUME PushInv, LockInv, NEW m \in Messages, Arrives(m) PROVE LockInv'
<1>1. InboxHolds'
  BY InboxGains DEF Arrives, LockInv
<1>2. /\ \A o \in Messages \ {m} : at'[o] = at[o]
      /\ at[m] \notin Live /\ at'[m] \notin Live /\ at'[m] \notin InTurn
      /\ UNCHANGED <<mine, lock>>
  BY DEF Arrives, PushInv, TurnsTyping, Live, InTurn
<1> QED
  BY <1>1, <1>2 DEF LockInv, LocksHold, LocksTyped

LEMMA WorksLocks == ASSUME PushInv, LockInv, NEW m \in Messages, Works(m) PROVE LockInv'
<1>1. PICK p \in InTurn : at' = [at EXCEPT ![m] = p]
  BY DEF Works
<1>2. at[m] # "inbox" /\ at[m] \in InTurn /\ UNCHANGED <<mine, lock, inbox>>
  BY DEF Works, InTurn
<1>3. InboxHolds'
  BY <1>1, <1>2, InboxStays DEF LockInv
<1>4. \A o \in Messages : (at'[o] \in InTurn <=> at[o] \in InTurn)
                          /\ (at'[o] \in Live <=> at[o] \in Live)
  BY <1>1, <1>2 DEF PushInv, TurnsTyping, Live
<1> QED
  BY <1>2, <1>3, <1>4 DEF LockInv, LocksHold, LocksTyped

LEMMA EndsLocks == ASSUME PushInv, LockInv, NEW m \in Messages, Ends(m) PROVE LockInv'
<1> DEFINE s == SessionOf[m]
<1>0. s \in Sessions /\ m \in Messages
  BY Homes
<1>1. PICK how \in Ended : EndTask(m, how)
  BY DEF Ends
<1>2. /\ at' = [at EXCEPT ![m] = how] /\ mine' = [mine EXCEPT ![m] = Nothing]
      /\ lock' = [lock EXCEPT ![s] = KeptLock(m)]
      /\ how \notin Live /\ how \notin InTurn
  BY <1>1 DEF EndTask, Ended, Live, InTurn
<1>3. InboxHolds'
  <2>1. CASE at[m] \in Live /\ inbox' = inbox
    <3>1. at[m] # "inbox"
      BY <2>1 DEF Live, InTurn
    <3> QED
      BY <1>2, <2>1, <3>1, InboxStays DEF LockInv
  <2>2. CASE at[m] = "inbox" /\ inbox # <<>> /\ m = Head(inbox) /\ inbox' = Tail(inbox)
    BY <1>2, <2>2, InboxLoses DEF LockInv
  <2> QED
    BY <2>1, <2>2 DEF Ends
<1>4. /\ at'[m] = how /\ \A o \in Messages \ {m} : at'[o] = at[o]
      /\ mine'[m] = Nothing /\ \A o \in Messages \ {m} : mine'[o] = mine[o]
  BY <1>2 DEF PushInv, TurnsTyping, LockInv, LocksTyped
<1>5. KeptLock(m) \in Messages \union {Nothing}
  BY <1>0 DEF KeptLock, LockFor, LockInv, LocksTyped
<1>6. /\ LocksTyped' /\ lock'[s] = KeptLock(m) /\ \A t \in Sessions \ {s} : lock'[t] = lock[t]
  BY <1>0, <1>2, <1>5 DEF LockInv, LocksTyped
<1>7. ASSUME NEW o \in Messages, at'[o] \in Live
      PROVE  mine'[o] = lock'[SessionOf[o]] /\ mine'[o] # Nothing
  <2>1. o # m /\ at[o] \in Live /\ mine'[o] = mine[o]
        /\ mine[o] = lock[SessionOf[o]] /\ mine[o] # Nothing
    BY <1>2, <1>4, <1>7 DEF LockInv, LocksHold
  <2>2. SessionOf[o] \in Sessions
    BY Homes
  <2>3. CASE SessionOf[o] = s
    <3>1. o \in Others(m)
      BY <2>1, <2>3 DEF Others
    <3>2. KeptLock(m) = lock[s]
      BY <2>1, <2>3, <3>1 DEF KeptLock, LockFor
    <3> QED
      BY <1>6, <2>1, <2>3, <3>2
  <2>4. CASE SessionOf[o] # s
    BY <1>6, <2>1, <2>2, <2>4
  <2> QED
    BY <2>3, <2>4
<1>8. \A o \in Messages : at'[o] \notin Live => mine'[o] = Nothing
  BY <1>4 DEF LockInv, LocksHold
<1>9. \A n, o \in Messages :
         at'[n] \in InTurn /\ at'[o] \in InTurn /\ SessionOf[n] = SessionOf[o] => n = o
  BY <1>2, <1>4 DEF LockInv, LocksHold
<1> QED
  BY <1>3, <1>6, <1>7, <1>8, <1>9 DEF LockInv, LocksHold

LEMMA VanishLocks == ASSUME PushInv, Vanish PROVE LockInv'
<1>1. \A m \in Messages : at'[m] \notin Live /\ at'[m] \notin InTurn
  BY DEF Vanish, PushInv, TurnsTyping, TaskPlaces, Live, InTurn, Ended
<1>2. inbox' = <<>> /\ LocksTyped' /\ \A m \in Messages : mine'[m] = Nothing
  BY DEF Vanish, LocksTyped
<1>3. InboxHolds'
  BY <1>2 DEF InboxHolds
<1> QED
  BY <1>1, <1>2, <1>3 DEF LockInv, LocksHold

LEMMA LocksStep == ASSUME PushInv, LockInv, [TurnsNext]_turnsVars PROVE LockInv'
<1>1. TaskMovement
  BY Movements DEF LockInv
<1>2. CASE Rests
  BY <1>2 DEF Rests, LockInv, LocksHold, LocksTyped, InboxHolds
<1> QED
  BY <1>1, <1>2, ArrivesLocks, EntersLocks, WaitsLocks, WorksLocks, EndsLocks, VanishLocks
     DEF TaskMovement

LEMMA TurnsStart == TurnsInit => PushInv /\ LockInv
<1> SUFFICES ASSUME TurnsInit PROVE PushInv /\ LockInv
  OBVIOUS
<1>1. NothingThere
  BY DEF TurnsInit, NothingThere, TaskPlaces, InPush
<1>2. LockInv
  BY DEF TurnsInit, LockInv, LocksTyped, LocksHold, InboxHolds, Live, InTurn
<1> QED
  BY <1>1, <1>2, NothingThereHolds

\* They need each other: where a task is says what it has.
TurnsInv == PushInv /\ LockInv

LEMMA TurnsKeep == TurnsInv /\ [TurnsNext]_turnsVars => TurnsInv'
  BY PushesStep, LocksStep DEF TurnsInv, LockInv

LEMMA TurnsInvariant == TurnsSpec => []TurnsInv
<1>1. TurnsInit => TurnsInv
  BY TurnsStart DEF TurnsInv
<1> QED
  BY <1>1, TurnsKeep, PTL DEF TurnsSpec

\* The ticket a lane serves is that of a push which is there, or of nobody yet,
\* in whatever order pushes end, time out or are cancelled
\* (_skip_cancelled_non_passive).
THEOREM PushesGetTheirTurn == TurnsSpec => []PushesAreNotStuck
<1>1. TurnsInv => PushesAreNotStuck
  <2> SUFFICES ASSUME TurnsInv, NEW c \in Chats, lane[c].servingPush # lane[c].nextPush
               PROVE  \E m \in Messages :
                         pushing[m] = [chat |-> c, ticket |-> lane[c].servingPush]
    BY DEF PushesAreNotStuck
  <2>1. SoundLane(lane[c]) /\ TicketsAreHeld(c)
    BY DEF TurnsInv, PushInv, PushesHold
  <2>2. /\ lane[c].servingPush \in lane[c].servingPush .. lane[c].nextPush - 1
        /\ lane[c].servingPush \notin lane[c].cancelled
    BY <2>1 DEF SoundLane, Lanes
  <2> QED
    BY <2>1, <2>2 DEF TicketsAreHeld
<1> QED
  BY <1>1, TurnsInvariant, PTL

\* TurnsWaitForEachOther of one step.
WaitedStep ==
    \A m \in Messages :
        at'[m] \in {"running", "refused"} /\ at[m] \in {"inbox", "waiting"} =>
            \A o \in Messages \ {m} :
                SessionOf[o] = SessionOf[m] => at[o] \notin InTurn

LEMMA WaitedNext == TurnsInv /\ [TurnsNext]_turnsVars => WaitedStep
<1> SUFFICES ASSUME TurnsInv, [TurnsNext]_turnsVars, NEW m \in Messages,
                    at'[m] \in {"running", "refused"}, at[m] \in {"inbox", "waiting"}
             PROVE  LockFree(m)
  BY FreeMeansAlone DEF WaitedStep, TurnsInv
<1>1. TaskMovement /\ at \in [Messages -> TaskPlaces]
  BY Movements DEF TurnsInv, LockInv, PushInv, TurnsTyping
<1>2. CASE \E o \in Messages : Arrives(o) \/ Waits(o) \/ Works(o)
  BY <1>1, <1>2 DEF Arrives, Waits, Works, InTurn
<1>3. CASE \E o \in Messages : Enters(o)
  BY <1>1, <1>3 DEF Enters
<1>4. CASE \E o \in Messages : Ends(o)
  BY <1>1, <1>4 DEF Ends, EndTask, Ended
<1>5. CASE Rests \/ Vanish
  BY <1>1, <1>5 DEF Rests, Vanish, Live
<1> QED
  BY <1>1, <1>2, <1>3, <1>4, <1>5 DEF TaskMovement

\* A message is neither run nor refused while another turn of its session goes
\* on in this process, although the entry of the lock comes and goes (_process_item).
THEOREM TurnsWait == TurnsSpec => TurnsWaitForEachOther
<1>1. TurnsInv /\ [TurnsNext]_turnsVars => [WaitedStep]_turnsVars
  BY WaitedNext
<1>2. TurnsSpec => [][WaitedStep]_turnsVars
  BY <1>1, TurnsInvariant, PTL DEF TurnsSpec
<1> QED
  BY <1>2 DEF WaitedStep, TurnsWaitForEachOther

\* The messages of a lane, and its envelopes.
OpenTurns(c) == {m \in Messages : Home(m) = c /\ at[m] \in Live \union {"inbox"}}

OpenSends(c) == {e \in posted : e.chat = c}

\* Each envelope has its own ticket, which its lane has given and has not served,
\* and the one that is sent is the one to be served.
EnvelopesHold ==
    /\ IsFiniteSet(posted)
    /\ \A c \in Chats : lane[c].serving <= lane[c].next
    /\ \A e \in posted : lane[e.chat].serving <= e.ticket /\ e.ticket < lane[e.chat].next
    /\ \A e, f \in posted : e.chat = f.chat /\ e.ticket = f.ticket => e = f
    /\ \A e \in going : e.ticket = lane[e.chat].serving

\* The part that is about counts and tickets.
CountInv ==
    /\ EnvelopesHold
    /\ \A c \in Chats : lane[c].turns = Cardinality(OpenTurns(c))
    /\ \A c \in Chats : lane[c].sends = Cardinality(OpenSends(c))

LEMMA FiniteTurns == \A c \in Chats : IsFiniteSet(OpenTurns(c))
<1>1. MaxMessages \in Int
  BY LocalConstants
<1>2. IsFiniteSet(Messages)
  BY <1>1, FS_Interval DEF Messages
<1> QED
  BY <1>2, FS_Subset DEF OpenTurns

\* Counting a set that gains or loses an element.
LEMMA GainsOne ==
    ASSUME NEW S, IsFiniteSet(S), NEW x, x \notin S
    PROVE  IsFiniteSet(S \union {x}) /\ Cardinality(S \union {x}) = Cardinality(S) + 1
  BY FS_AddElement

LEMMA LosesOne ==
    ASSUME NEW S, IsFiniteSet(S), NEW x \in S
    PROVE  /\ IsFiniteSet(S \ {x}) /\ Cardinality(S) \in Nat
           /\ Cardinality(S) > 0 /\ Cardinality(S \ {x}) = Cardinality(S) - 1
<1>1. IsFiniteSet(S \ {x}) /\ Cardinality(S \ {x}) = Cardinality(S) - 1
  BY FS_RemoveElement
<1>2. Cardinality(S \ {x}) \in Nat /\ Cardinality(S) \in Nat
  BY <1>1, FS_CardinalityType
<1> QED
  BY <1>1, <1>2

LEMMA TurnsAreCounted ==
    ASSUME TurnsInv, CountInv, TaskMovement, NEW c \in Chats
    PROVE  lane'[c].turns = Cardinality(OpenTurns(c)')
<1>1. /\ at \in [Messages -> TaskPlaces] /\ IsFiniteSet(OpenTurns(c))
      /\ lane[c].turns = Cardinality(OpenTurns(c))
  BY FiniteTurns DEF TurnsInv, PushInv, TurnsTyping, CountInv
<1>2. CASE \E m \in Messages : Arrives(m)
  <2>1. PICK m \in Messages : Arrives(m)
    BY <1>2
  <2>2. /\ lane'[c].turns = IF c = Home(m) THEN lane[c].turns + 1 ELSE lane[c].turns
        /\ at[m] = "new" /\ at'[m] = "inbox" /\ \A o \in Messages \ {m} : at'[o] = at[o]
    BY <1>1, <2>1 DEF Arrives, OneMore
  <2>3. m \notin OpenTurns(c)
    BY <2>2 DEF OpenTurns, Live, InTurn
  <2>4. OpenTurns(c)' = IF c = Home(m) THEN OpenTurns(c) \union {m} ELSE OpenTurns(c)
    BY <2>2, <2>3 DEF OpenTurns, Home
  <2> QED
    BY <1>1, <2>2, <2>3, <2>4, GainsOne
<1>3. CASE \E m \in Messages : Enters(m) \/ Waits(m) \/ Works(m)
  <2>1. PICK m \in Messages : Enters(m) \/ Waits(m) \/ Works(m)
    BY <1>3
  <2>2. /\ TurnsSame /\ at[m] \in Live \union {"inbox"}
        /\ \E p \in Live : at' = [at EXCEPT ![m] = p]
    BY <2>1 DEF Enters, Waits, Works, TakesLock, Live, InTurn
  <2>3. OpenTurns(c)' = OpenTurns(c)
    BY <1>1, <2>2 DEF OpenTurns, Home
  <2> QED
    BY <1>1, <2>2, <2>3 DEF TurnsSame
<1>4. CASE \E m \in Messages : Ends(m)
  <2>1. PICK m \in Messages : Ends(m)
    BY <1>4
  <2>2. PICK how \in Ended : at' = [at EXCEPT ![m] = how]
    BY <2>1 DEF Ends, EndTask
  <2>3. /\ lane'[c].turns = IF c = Home(m) /\ lane[c].turns > 0 THEN lane[c].turns - 1
                            ELSE lane[c].turns
        /\ at[m] \in Live \union {"inbox"} /\ at'[m] \notin Live \union {"inbox"}
        /\ \A o \in Messages \ {m} : at'[o] = at[o]
    BY <1>1, <2>1, <2>2 DEF Ends, OneLess, Ended, Live, InTurn
  <2>4. CASE c = Home(m)
    <3>1. m \in OpenTurns(c) /\ OpenTurns(c)' = OpenTurns(c) \ {m}
      BY <2>3, <2>4 DEF OpenTurns, Home
    <3>2. Cardinality(OpenTurns(c)) > 0 /\ Cardinality(OpenTurns(c) \ {m}) = Cardinality(OpenTurns(c)) - 1
      BY <1>1, <3>1, LosesOne
    <3> QED
      BY <1>1, <2>3, <2>4, <3>1, <3>2
  <2>5. CASE c # Home(m)
    <3>1. OpenTurns(c)' = OpenTurns(c)
      BY <2>3, <2>5 DEF OpenTurns, Home
    <3> QED
      BY <1>1, <2>3, <2>5, <3>1
  <2> QED
    BY <2>4, <2>5
<1>5. CASE Rests
  <2>1. OpenTurns(c)' = OpenTurns(c)
    BY <1>5 DEF OpenTurns, Home, Rests
  <2> QED
    BY <1>1, <1>5, <2>1 DEF Rests, TurnsSame
<1>6. CASE Vanish
  <2>1. OpenTurns(c)' = {}
    BY <1>1, <1>6 DEF Vanish, OpenTurns, TaskPlaces, Live, InTurn, Ended
  <2>2. lane'[c].turns = 0
    BY <1>6 DEF Vanish, FreshLane
  <2> QED
    BY <2>1, <2>2, FS_EmptySet
<1> QED
  BY <1>2, <1>3, <1>4, <1>5, <1>6 DEF TaskMovement

\* A task that has committed posts its answer.
Answers(m) ==
    at[m] = "committed" /\ at' = [at EXCEPT ![m] = "published"] /\ Posts(Home(m), m)

\* What is sent: every step posts one envelope at most.
Posting ==
    \/ NothingSent \/ Vanish
    \/ \E c \in Chats, what \in Notices \union {Nothing} : Posts(c, what)
    \/ \E m \in Messages : Answers(m)
    \/ \E e \in posted : SendStarts(e) \/ \E ok \in BOOLEAN : SendEnds(e, ok)

LEMMA Postings ==
    ASSUME PushInv, InboxHolds, LocksTyped, [TurnsNext]_turnsVars PROVE Posting
<1>0. lock \in [Sessions -> Messages \union {Nothing}]
  BY DEF LocksTyped
<1>1. CASE \E m \in Messages : Publish(m) \/ TaskStep(m) \/ \E c \in Chats : Push(m, c)
  <2>1. PICK m \in Messages : Publish(m) \/ TaskStep(m) \/ \E c \in Chats : Push(m, c)
    BY <1>1
  <2>2. CASE Answer(m)
    BY <2>2, AnswerMoves, Homes DEF Answer, Answers, Posting
  <2>3. CASE ~Answer(m)
    <3>1. NothingSent \/ Posts(Home(m), Nothing)
      BY <1>0, <2>1, <2>3, PublishMoves, AcquireMoves, PushMoves, PushStartsMoves,
         PushEndsMoves, CommitMoves, FinishMoves, FailTurnMoves, PersistMoves DEF TaskStep
    <3> QED
      BY <3>1, Homes DEF Posting
  <2> QED
    BY <2>2, <2>3
<1>2. CASE Consume
  <2>1. Head(inbox) \in Messages /\ (NothingSent \/ Posts(Home(Head(inbox)), Nothing))
    BY <1>0, <1>2, ConsumeMoves
  <2> QED
    BY <2>1, Homes DEF Posting
<1>3. CASE \E e \in posted : Sending(e)
  BY <1>3 DEF Sending, Posting
<1>4. CASE \E n \in Notices : NoticePosts(n)
  BY <1>4, NoticePostsMoves, Homes DEF Posting
<1>5. CASE ProgramExits \/ ProgramCrashes
  BY <1>5 DEF ProgramExits, ProgramCrashes, Posting
<1>6. CASE \/ StopReading \/ \E s \in Sessions : Interrupt(s)
           \/ \E n \in Notices : NoticeBegins(n) \/ NoticeRecords(n)
           \/ Stop \/ Restart \/ UNCHANGED turnsVars
  BY <1>6, OtherMoves DEF Posting
<1> QED
  BY <1>1, <1>2, <1>3, <1>4, <1>5, <1>6 DEF TurnsNext

LEMMA EnvelopeTypes ==
    ASSUME TurnsInv
    PROVE  /\ \A f \in posted : f.chat \in Chats /\ f.ticket \in Nat
           /\ \A d \in Chats : /\ lane[d].next \in Nat /\ lane[d].serving \in Nat
                               /\ lane[d].sends \in Nat
           /\ going \subseteq posted
  BY DEF TurnsInv, PushInv, TurnsTyping, Envelopes, Lanes

LEMMA PostsCounted ==
    ASSUME TurnsInv, CountInv, NEW c \in Chats, NEW what, Posts(c, what)
    PROVE  EnvelopesHold' /\ \A d \in Chats : lane'[d].sends = Cardinality(OpenSends(d)')
<1> DEFINE e == Envelope(c, what)
<1>1. e.chat = c /\ e.ticket = lane[c].next
  BY DEF Envelope
<1> HIDE DEF e
<1>2. /\ posted' = posted \union {e} /\ going' = going
      /\ \A d \in Chats : /\ lane'[d].sends = IF d = c THEN lane[d].sends + 1 ELSE lane[d].sends
                          /\ lane'[d].next = IF d = c THEN lane[d].next + 1 ELSE lane[d].next
                          /\ lane'[d].serving = lane[d].serving
  BY DEF Posts, SendsMore, e
<1>3. \A f \in posted : ~(f.chat = c /\ f.ticket = lane[c].next)
  BY EnvelopeTypes DEF CountInv, EnvelopesHold
<1>4. e \notin posted
  BY <1>1, <1>3
<1>5. IsFiniteSet(posted')
  BY <1>2, FS_AddElement DEF CountInv, EnvelopesHold
<1>6. \A d \in Chats : lane'[d].serving <= lane'[d].next
  BY <1>2, EnvelopeTypes DEF CountInv, EnvelopesHold
<1>7. ASSUME NEW f \in posted'
      PROVE  lane'[f.chat].serving <= f.ticket /\ f.ticket < lane'[f.chat].next
  <2>1. CASE f = e
    BY <1>1, <1>2, <2>1, EnvelopeTypes DEF CountInv, EnvelopesHold
  <2>2. CASE f \in posted
    BY <1>2, <2>2, EnvelopeTypes DEF CountInv, EnvelopesHold
  <2> QED
    BY <1>2, <2>1, <2>2
<1>8. \A f, g \in posted' : f.chat = g.chat /\ f.ticket = g.ticket => f = g
  BY <1>1, <1>2, <1>3 DEF CountInv, EnvelopesHold
<1>9. \A f \in going' : f.ticket = lane'[f.chat].serving
  BY <1>2, EnvelopeTypes DEF CountInv, EnvelopesHold
<1>10. EnvelopesHold'
  BY <1>5, <1>6, <1>7, <1>8, <1>9 DEF EnvelopesHold
<1>11. ASSUME NEW d \in Chats PROVE lane'[d].sends = Cardinality(OpenSends(d)')
  <2>1. IsFiniteSet(OpenSends(d)) /\ lane[d].sends = Cardinality(OpenSends(d)) /\ e \notin OpenSends(d)
    BY <1>4, FS_Subset DEF OpenSends, CountInv, EnvelopesHold
  <2>2. OpenSends(d)' = IF d = c THEN OpenSends(d) \union {e} ELSE OpenSends(d)
    BY <1>1, <1>2 DEF OpenSends
  <2> QED
    BY <1>2, <2>1, <2>2, GainsOne
<1> QED
  BY <1>10, <1>11

LEMMA SendStartsCounted ==
    ASSUME TurnsInv, CountInv, NEW e \in posted, SendStarts(e)
    PROVE  EnvelopesHold' /\ \A d \in Chats : lane'[d].sends = Cardinality(OpenSends(d)')
<1> DEFINE x == [lane[e.chat] EXCEPT !.sending = TRUE]
<1>1. e.chat \in Chats /\ SoundLane(lane[e.chat])
  BY EnvelopeTypes DEF TurnsInv, PushInv, PushesHold
<1>2. SoundLane(x) /\ SameAnswers(lane[e.chat], x)
  BY <1>1, Counting
<1>3. lane' = [lane EXCEPT ![e.chat] = x]
  BY DEF SendStarts
<1> HIDE DEF x
<1>4. SendsSame
  BY <1>1, <1>2, <1>3, LaneKept DEF SoundLane, TurnsInv
<1>5. /\ posted' = posted /\ going' = going \union {e} /\ e.ticket = lane[e.chat].serving
      /\ \A d \in Chats : /\ lane'[d].sends = lane[d].sends /\ lane'[d].next = lane[d].next
                          /\ lane'[d].serving = lane[d].serving
  BY <1>4 DEF SendStarts, MaySend, SendsSame
<1>6. EnvelopesHold'
  BY <1>1, <1>5, EnvelopeTypes DEF CountInv, EnvelopesHold
<1>7. \A d \in Chats : OpenSends(d)' = OpenSends(d)
  BY <1>5 DEF OpenSends
<1> QED
  BY <1>5, <1>6, <1>7 DEF CountInv

LEMMA SendEndsCounted ==
    ASSUME TurnsInv, CountInv, NEW e \in posted, NEW ok, SendEnds(e, ok)
    PROVE  EnvelopesHold' /\ \A d \in Chats : lane'[d].sends = Cardinality(OpenSends(d)')
<1> DEFINE c == e.chat
           x == Sent(lane[c])
<1>1. c \in Chats /\ SoundLane(lane[c])
  BY EnvelopeTypes DEF TurnsInv, PushInv, PushesHold
<1>2. /\ SoundLane(x)
      /\ x.sends = (IF lane[c].sends > 0 THEN lane[c].sends - 1 ELSE 0)
      /\ x.next = lane[c].next /\ x.serving = lane[c].serving + 1
  BY <1>1, Counting
<1>3. lane' = [lane EXCEPT ![c] = x] /\ posted' = posted \ {e} /\ going' = going \ {e} /\ e \in going
  BY DEF SendEnds
<1> HIDE DEF x
<1>4. lane'[c] = x /\ \A d \in Chats \ {c} : lane'[d] = lane[d]
  BY <1>1, <1>2, <1>3, LaneAt DEF TurnsInv, PushInv, SoundLane
<1>5. e.ticket = lane[c].serving /\ e.ticket < lane[c].next
  BY <1>3 DEF CountInv, EnvelopesHold
<1>6. IsFiniteSet(posted')
  BY <1>3, FS_RemoveElement DEF CountInv, EnvelopesHold
<1>7. ASSUME NEW d \in Chats PROVE lane'[d].serving <= lane'[d].next
  BY <1>1, <1>2, <1>4, <1>5, EnvelopeTypes DEF CountInv, EnvelopesHold
<1>8. ASSUME NEW f \in posted'
      PROVE  lane'[f.chat].serving <= f.ticket /\ f.ticket < lane'[f.chat].next
  <2>1. /\ f \in posted /\ f # e /\ f.chat \in Chats /\ f.ticket \in Nat
        /\ lane[f.chat].serving <= f.ticket /\ f.ticket < lane[f.chat].next
    BY <1>3, EnvelopeTypes DEF CountInv, EnvelopesHold
  <2>2. f.chat = c => f.ticket # e.ticket
    BY <2>1 DEF CountInv, EnvelopesHold
  <2>3. CASE f.chat = c
    BY <1>1, <1>2, <1>4, <1>5, <2>1, <2>2, <2>3, EnvelopeTypes
  <2>4. CASE f.chat # c
    BY <1>4, <2>1, <2>4
  <2> QED
    BY <2>3, <2>4
<1>9. \A f, g \in posted' : f.chat = g.chat /\ f.ticket = g.ticket => f = g
  BY <1>3 DEF CountInv, EnvelopesHold
<1>10. ASSUME NEW f \in going' PROVE f.ticket = lane'[f.chat].serving
  <2>1. f \in going /\ f \in posted /\ f # e /\ f.ticket = lane[f.chat].serving /\ f.chat \in Chats
    BY <1>3, EnvelopeTypes DEF CountInv, EnvelopesHold
  <2>2. f.chat # c
    BY <1>3, <1>5, <2>1 DEF CountInv, EnvelopesHold
  <2> QED
    BY <1>4, <2>1, <2>2
<1>11. EnvelopesHold'
  BY <1>6, <1>7, <1>8, <1>9, <1>10 DEF EnvelopesHold
<1>12. ASSUME NEW d \in Chats PROVE lane'[d].sends = Cardinality(OpenSends(d)')
  <2>1. IsFiniteSet(OpenSends(d)) /\ lane[d].sends = Cardinality(OpenSends(d))
    BY FS_Subset DEF OpenSends, CountInv, EnvelopesHold
  <2>2. CASE d = c
    <3>1. e \in OpenSends(d) /\ OpenSends(d)' = OpenSends(d) \ {e}
      BY <1>3, <2>2 DEF OpenSends
    <3>2. /\ Cardinality(OpenSends(d)) > 0
          /\ Cardinality(OpenSends(d) \ {e}) = Cardinality(OpenSends(d)) - 1
      BY <2>1, <3>1, LosesOne
    <3> QED
      BY <1>2, <1>4, <2>1, <2>2, <3>1, <3>2
  <2>3. CASE d # c
    <3>1. OpenSends(d)' = OpenSends(d)
      BY <1>3, <2>3 DEF OpenSends
    <3> QED
      BY <1>4, <2>1, <2>3, <3>1
  <2> QED
    BY <2>2, <2>3
<1> QED
  BY <1>11, <1>12

LEMMA SendsAreCounted ==
    ASSUME TurnsInv, CountInv, Posting
    PROVE  EnvelopesHold' /\ \A d \in Chats : lane'[d].sends = Cardinality(OpenSends(d)')
<1>1. CASE NothingSent
  <2>1. /\ posted' = posted /\ going' = going
        /\ \A d \in Chats : /\ lane'[d].sends = lane[d].sends /\ lane'[d].next = lane[d].next
                            /\ lane'[d].serving = lane[d].serving
    BY <1>1 DEF NothingSent, SendsSame
  <2>2. \A d \in Chats : OpenSends(d)' = OpenSends(d)
    BY <2>1 DEF OpenSends
  <2>3. EnvelopesHold'
    BY <2>1, EnvelopeTypes DEF CountInv, EnvelopesHold
  <2> QED
    BY <2>1, <2>2, <2>3 DEF CountInv
<1>2. CASE Vanish
  <2>1. /\ posted' = {} /\ going' = {}
        /\ \A d \in Chats : lane'[d].sends = 0 /\ lane'[d].serving = 0 /\ lane'[d].next = 0
    BY <1>2 DEF Vanish, FreshLane
  <2>2. \A d \in Chats : OpenSends(d)' = {}
    BY <2>1 DEF OpenSends
  <2>3. EnvelopesHold'
    BY <2>1, FS_EmptySet DEF EnvelopesHold
  <2> QED
    BY <2>1, <2>2, <2>3, FS_EmptySet
<1>3. CASE \E m \in Messages : Answers(m)
  BY <1>3, Homes, PostsCounted DEF Answers
<1> QED
  BY <1>1, <1>2, <1>3, PostsCounted, SendStartsCounted, SendEndsCounted DEF Posting

LEMMA CountsStart == TurnsInit => CountInv
<1> SUFFICES ASSUME TurnsInit PROVE CountInv
  OBVIOUS
<1>1. posted = {} /\ going = {} /\ \A c \in Chats :
         lane[c].turns = 0 /\ lane[c].sends = 0 /\ lane[c].serving = 0 /\ lane[c].next = 0
  BY DEF TurnsInit, FreshLane
<1>2. \A c \in Chats : OpenSends(c) = {} /\ OpenTurns(c) = {}
  <2>1. \A m \in Messages : at[m] \notin Live \union {"inbox"}
    BY DEF TurnsInit, Live, InTurn
  <2> QED
    BY <1>1, <2>1 DEF OpenSends, OpenTurns
<1> QED
  <2>1. IsFiniteSet({}) /\ Cardinality({}) = 0
    BY FS_EmptySet
  <2>2. EnvelopesHold
    BY <1>1, <2>1 DEF EnvelopesHold
  <2>3. \A c \in Chats : /\ lane[c].turns = Cardinality(OpenTurns(c))
                         /\ lane[c].sends = Cardinality(OpenSends(c))
    BY <1>1, <1>2, <2>1
  <2> QED
    BY <2>2, <2>3 DEF CountInv

LEMMA CountsKeep == TurnsInv /\ CountInv /\ [TurnsNext]_turnsVars => CountInv'
<1> SUFFICES ASSUME TurnsInv, CountInv, [TurnsNext]_turnsVars PROVE CountInv'
  OBVIOUS
<1>1. TaskMovement /\ Posting
  BY Movements, Postings DEF TurnsInv, LockInv
<1> QED
  BY <1>1, TurnsAreCounted, SendsAreCounted DEF CountInv

LEMMA CountsInvariant == TurnsSpec => []CountInv
  BY CountsStart, CountsKeep, TurnsInvariant, PTL DEF TurnsSpec

\* turns and sends of a lane are the messages and the envelopes of its chat that
\* are on their way (ChatLane, complete_inbound).
THEOREM CountsAreExact == TurnsSpec => []LaneCountsAreExact
<1>1. CountInv => LaneCountsAreExact
  BY DEF CountInv, LaneCountsAreExact, OpenTurns, OpenSends
<1> QED
  BY <1>1, CountsInvariant, PTL

TranscriptLines == [role : {"user", "assistant", "marker"}, of : Messages \union Notices]

\* What a session's transcript says, and that it says a before b.
HasLine(s, x) == \E k \in DOMAIN transcript[s] : transcript[s][k] = x

Said(m) == HasLine(SessionOf[m], Says("assistant", m))

SaidBefore(a, b) ==
    LET said == transcript[SessionOf[a]] IN
    \E k, l \in DOMAIN said :
        k < l /\ said[k] = Says("assistant", a) /\ said[l] = Says("assistant", b)

\* Nothing is taken out of a transcript, or changed in it.
TranscriptGrows(s) ==
    /\ Len(transcript[s]) <= Len(transcript'[s])
    /\ \A k \in 1 .. Len(transcript[s]) : transcript'[s][k] = transcript[s][k]

\* Type correctness of the transcripts.
SaidTyped == transcript \in [Sessions -> Seq(TranscriptLines)]

LEMMA Appending ==
    ASSUME NEW S, NEW t \in Seq(S), NEW u \in Seq(S)
    PROVE  /\ t \o u \in Seq(S) /\ Len(t \o u) = Len(t) + Len(u)
           /\ \A k \in 1 .. Len(t) : (t \o u)[k] = t[k]
           /\ \A k \in 1 .. Len(u) : (t \o u)[Len(t) + k] = u[k]
  OBVIOUS

LEMMA AppendingTwice ==
    ASSUME NEW S, NEW t \in Seq(S), NEW u \in Seq(S), NEW v \in Seq(S)
    PROVE  (t \o u) \o v = t \o (u \o v)
  OBVIOUS

LEMMA LinesSaid ==
    ASSUME NEW role \in {"user", "assistant", "marker"}, NEW x \in Messages \union Notices
    PROVE  Says(role, x) \in TranscriptLines
  BY DEF Says, TranscriptLines

\* A session says something more.
LEMMA SaysMore ==
    ASSUME SaidTyped, NEW s \in Sessions, NEW u \in Seq(TranscriptLines),
           transcript' = [transcript EXCEPT ![s] = @ \o u]
    PROVE  /\ SaidTyped' /\ \A t \in Sessions : TranscriptGrows(t)
           /\ \A k \in 1 .. Len(u) : /\ Len(transcript[s]) + k \in DOMAIN transcript'[s]
                                     /\ transcript'[s][Len(transcript[s]) + k] = u[k]
<1> DEFINE old == transcript[s]
           new == old \o u
<1>1. old \in Seq(TranscriptLines) /\ Len(old) \in Nat /\ Len(u) \in Nat
  BY DEF SaidTyped
<1>2. transcript' = [transcript EXCEPT ![s] = new]
  OBVIOUS
<1> HIDE DEF old
<1>3. /\ new \in Seq(TranscriptLines) /\ Len(new) = Len(old) + Len(u)
      /\ \A k \in 1 .. Len(old) : new[k] = old[k]
      /\ \A k \in 1 .. Len(u) : new[Len(old) + k] = u[k]
      /\ DOMAIN new = 1 .. Len(new)
  BY <1>1, Appending
<1> HIDE DEF new
<1>4. /\ SaidTyped' /\ transcript'[s] = new
      /\ \A t \in Sessions \ {s} : transcript'[t] = transcript[t]
  BY <1>2, <1>3 DEF SaidTyped
<1>5. ASSUME NEW t \in Sessions PROVE TranscriptGrows(t)
  <2>1. CASE t = s
    BY <1>1, <1>3, <1>4, <2>1 DEF TranscriptGrows, old
  <2>2. CASE t # s
    <3>1. transcript'[t] = transcript[t] /\ Len(transcript[t]) \in Nat
      BY <1>4, <2>2 DEF SaidTyped
    <3> QED
      BY <3>1 DEF TranscriptGrows
  <2> QED
    BY <2>1, <2>2
<1>6. ASSUME NEW k \in 1 .. Len(u)
      PROVE Len(old) + k \in DOMAIN new /\ new[Len(old) + k] = u[k]
  BY <1>1, <1>3
<1> QED
  BY <1>4, <1>5, <1>6 DEF old

LEMMA SaysSame ==
    ASSUME SaidTyped, transcript' = transcript
    PROVE  SaidTyped' /\ \A t \in Sessions : TranscriptGrows(t)
<1>1. \A t \in Sessions : Len(transcript[t]) \in Nat
  BY DEF SaidTyped
<1> QED
  BY <1>1 DEF SaidTyped, TranscriptGrows

\* What was said stays said.
LEMMA StaysSaid ==
    ASSUME SaidTyped, SaidTyped', NEW s \in Sessions, TranscriptGrows(s)
    PROVE  /\ \A x : HasLine(s, x) => HasLine(s, x)'
           /\ \A a, b \in Messages :
                SessionOf[a] = s /\ SaidBefore(a, b) => SaidBefore(a, b)'
<1>1. /\ DOMAIN transcript[s] = 1 .. Len(transcript[s]) /\ Len(transcript[s]) \in Nat
      /\ DOMAIN transcript'[s] = 1 .. Len(transcript'[s]) /\ Len(transcript'[s]) \in Nat
  BY DEF SaidTyped
<1>2. \A k \in DOMAIN transcript[s] : k \in DOMAIN transcript'[s]
                                      /\ transcript'[s][k] = transcript[s][k]
  BY <1>1 DEF TranscriptGrows
<1>3. ASSUME NEW x, HasLine(s, x) PROVE \E k \in DOMAIN transcript'[s] : transcript'[s][k] = x
  BY <1>2, <1>3 DEF HasLine
<1>4. ASSUME NEW a \in Messages, NEW b \in Messages, SessionOf[a] = s, SaidBefore(a, b)
      PROVE  SaidBefore(a, b)'
  <2>1. PICK k \in DOMAIN transcript[s], l \in DOMAIN transcript[s] :
           k < l /\ transcript[s][k] = Says("assistant", a) /\ transcript[s][l] = Says("assistant", b)
    BY <1>4 DEF SaidBefore
  <2>2. \E p, l2 \in DOMAIN transcript'[s] :
           p < l2 /\ transcript'[s][p] = Says("assistant", a) /\ transcript'[s][l2] = Says("assistant", b)
    BY <1>2, <2>1
  <2> QED
    BY <1>4, <2>2 DEF SaidBefore, Says
<1> QED
  BY <1>3, <1>4 DEF HasLine

LEMMA QuestionLines == ASSUME NEW m \in Messages PROVE Question(m) \in Seq(TranscriptLines)
<1>1. Says("user", m) \in TranscriptLines
  BY LinesSaid
<1> QED
  BY <1>1 DEF Question

LEMMA CommitSays ==
    ASSUME SaidTyped, NEW m \in Messages, Commit(m)
    PROVE  /\ SaidTyped' /\ \A t \in Sessions : TranscriptGrows(t)
           /\ \E l \in DOMAIN transcript'[SessionOf[m]] :
                l > Len(transcript[SessionOf[m]])
                /\ transcript'[SessionOf[m]][l] = Says("assistant", m)
<1> DEFINE s == SessionOf[m]
           a == Says("assistant", m)
           u == Question(m) \o <<a>>
<1>1. s \in Sessions /\ a \in TranscriptLines /\ Question(m) \in Seq(TranscriptLines)
  BY Homes, LinesSaid, QuestionLines
<1> HIDE DEF a
<1>2. /\ <<a>> \in Seq(TranscriptLines) /\ Len(<<a>>) = 1 /\ <<a>>[1] = a
      /\ 1 \in 1 .. Len(<<a>>)
  BY <1>1
<1>3. u \in Seq(TranscriptLines) /\ Len(u) = Len(Question(m)) + 1 /\ u[Len(Question(m)) + 1] = a
      /\ Len(Question(m)) \in Nat
  BY <1>1, <1>2, Appending
<1>4. transcript' = [transcript EXCEPT ![s] = (@ \o Question(m)) \o <<a>>]
  BY DEF Commit, a
<1>5. transcript[s] \in Seq(TranscriptLines)
  BY <1>1 DEF SaidTyped
<1>6. (transcript[s] \o Question(m)) \o <<a>> = transcript[s] \o u
  <2> DEFINE v == <<a>>
             o == transcript[s]
             w == Question(m)
  <2>1. v \in Seq(TranscriptLines) /\ o \in Seq(TranscriptLines) /\ w \in Seq(TranscriptLines)
    BY <1>1, <1>2, <1>5
  <2> HIDE DEF v, o, w
  <2>2. (o \o w) \o v = o \o (w \o v)
    BY <2>1, AppendingTwice
  <2> QED
    BY <2>2 DEF v, o, w
<1>7. transcript' = [transcript EXCEPT ![s] = @ \o u]
  BY <1>4, <1>6
<1> HIDE DEF u, s
<1>8. /\ SaidTyped' /\ \A t \in Sessions : TranscriptGrows(t)
      /\ \A k \in 1 .. Len(u) : /\ Len(transcript[s]) + k \in DOMAIN transcript'[s]
                                /\ transcript'[s][Len(transcript[s]) + k] = u[k]
  BY <1>1, <1>3, <1>7, SaysMore
<1>9. Len(u) \in 1 .. Len(u) /\ u[Len(u)] = a /\ Len(transcript[s]) \in Nat
  BY <1>3, <1>5
<1>10. /\ Len(transcript[s]) + Len(u) \in DOMAIN transcript'[s]
       /\ transcript'[s][Len(transcript[s]) + Len(u)] = a
       /\ Len(transcript[s]) + Len(u) > Len(transcript[s])
  <2>1. Len(u) > 0 /\ Len(u) \in Nat
    BY <1>3, <1>9
  <2>2. /\ Len(transcript[s]) + Len(u) \in DOMAIN transcript'[s]
        /\ transcript'[s][Len(transcript[s]) + Len(u)] = u[Len(u)]
    BY <1>8, <1>9
  <2> QED
    BY <1>9, <2>1, <2>2
<1> QED
  BY <1>8, <1>10 DEF s, a

LEMMA PersistSays ==
    ASSUME SaidTyped, NEW m \in Messages, Persist(m)
    PROVE  /\ SaidTyped' /\ \A t \in Sessions : TranscriptGrows(t)
           /\ m \notin Background => HasLine(SessionOf[m], Says("user", m))'
<1> DEFINE s == SessionOf[m]
           q == Says("user", m)
           u == <<q, Says("marker", m)>>
<1>1. s \in Sessions /\ q \in TranscriptLines /\ u \in Seq(TranscriptLines) /\ Len(u) = 2 /\ u[1] = q
  BY Homes, LinesSaid
<1>2. CASE transcript' = transcript /\ (m \in Background \/ PairIsSaved(m))
  <2>1. SaidTyped' /\ \A t \in Sessions : TranscriptGrows(t)
    BY <1>2, SaysSame
  <2>2. ASSUME PairIsSaved(m) PROVE \E k \in DOMAIN transcript'[s] : transcript'[s][k] = q
    <3>1. transcript[s] \in Seq(TranscriptLines)
      BY <1>1 DEF SaidTyped
    <3>2. /\ Len(transcript[s]) >= 2 /\ transcript[s][Len(transcript[s]) - 1] = q
      BY <2>2 DEF PairIsSaved
    <3>3. Len(transcript[s]) - 1 \in DOMAIN transcript[s]
      BY <3>1, <3>2
    <3> QED
      BY <1>2, <3>2, <3>3
  <2> QED
    BY <1>2, <2>1, <2>2 DEF HasLine, Says
<1>3. CASE transcript' = [transcript EXCEPT ![s] = @ \o u]
  <2> HIDE DEF u, q, s
  <2>1. /\ SaidTyped' /\ \A t \in Sessions : TranscriptGrows(t)
        /\ \A k \in 1 .. Len(u) : /\ Len(transcript[s]) + k \in DOMAIN transcript'[s]
                                  /\ transcript'[s][Len(transcript[s]) + k] = u[k]
    BY <1>1, <1>3, SaysMore
  <2>2. 1 \in 1 .. Len(u)
    BY <1>1
  <2>3. \E k \in DOMAIN transcript'[s] : transcript'[s][k] = q
    BY <1>1, <2>1, <2>2
  <2> QED
    BY <2>1, <2>3 DEF HasLine, Says, s, q
<1> QED
  BY <1>2, <1>3 DEF Persist

LEMMA RecordSays ==
    ASSUME SaidTyped, NEW n \in Notices, NoticeRecords(n)
    PROVE  SaidTyped' /\ \A t \in Sessions : TranscriptGrows(t)
<1> DEFINE s == SessionOf[n]
           a == Says("assistant", n)
           u == <<a>>
<1>1. s \in Sessions /\ a \in TranscriptLines /\ u \in Seq(TranscriptLines)
  BY Homes, LinesSaid
<1>2. transcript' = [transcript EXCEPT ![s] = Append(@, a)]
  BY DEF NoticeRecords
<1>3. transcript[s] \in Seq(TranscriptLines)
  BY <1>1 DEF SaidTyped
<1> HIDE DEF a
<1>4. Append(transcript[s], a) = transcript[s] \o u
  BY <1>1, <1>3
<1>5. transcript' = [transcript EXCEPT ![s] = @ \o u]
  BY <1>2, <1>4
<1> HIDE DEF u, s
<1> QED
  BY <1>1, <1>5, SaysMore

\* Every step lets the transcripts grow; only one's commit has it committed, and
\* only its interruption, interrupted.
TellsTruly ==
    /\ SaidTyped' /\ \A s \in Sessions : TranscriptGrows(s)
    /\ \A m \in Messages :
         /\ at'[m] = "committed" => at[m] = "committed" \/ Commit(m)
         /\ at'[m] = "interrupted" => at[m] = "interrupted" \/ Persist(m)

\* A task that goes to another place.
LEMMA GoesTo ==
    ASSUME TurnsInv, NEW m \in Messages, NEW p, at' = [at EXCEPT ![m] = p]
    PROVE  at'[m] = p /\ \A o \in Messages \ {m} : at'[o] = at[o]
  BY DEF TurnsInv, PushInv, TurnsTyping

LEMMA SameTells ==
    ASSUME SaidTyped, transcript' = transcript, TurnsInv,
           \/ at' = at
           \/ \E m \in Messages, p \in TaskPlaces \ {"committed", "interrupted"} :
                 at' = [at EXCEPT ![m] = p]
    PROVE  TellsTruly
<1>1. SaidTyped' /\ \A s \in Sessions : TranscriptGrows(s)
  BY SaysSame
<1> QED
  BY <1>1, GoesTo DEF TellsTruly

LEMMA EnterTells ==
    ASSUME SaidTyped, transcript' = transcript, TurnsInv, NEW m \in Messages, NEW l, Enter(m, l)
    PROVE  TellsTruly
<1>1. \E p \in TaskPlaces \ {"committed", "interrupted"} : at' = [at EXCEPT ![m] = p]
  BY DEF Enter, EndTask, TaskPlaces, Ended, InTurn
<1> QED
  BY <1>1, SameTells

LEMMA TaskTells ==
    ASSUME SaidTyped, TurnsInv, NEW m \in Messages,
           Publish(m) \/ TaskStep(m) \/ \E c \in Chats : Push(m, c)
    PROVE  TellsTruly
<1>1. CASE Commit(m)
  <2>1. at' = [at EXCEPT ![m] = "committed"]
    BY <1>1 DEF Commit
  <2> QED
    BY <1>1, <2>1, GoesTo, CommitSays DEF TellsTruly
<1>2. CASE Persist(m)
  <2>1. at' = [at EXCEPT ![m] = "interrupted"]
    BY <1>2 DEF Persist, EndTask
  <2> QED
    BY <1>2, <2>1, GoesTo, PersistSays DEF TellsTruly
<1>3. CASE Acquire(m)
  BY <1>3, EnterTells DEF Acquire
<1>4. CASE Finish(m) \/ FailTurn(m) \/ DropWaiting(m)
  <2>1. transcript' = transcript /\ \E p \in {"over", "lost"} : at' = [at EXCEPT ![m] = p]
    BY <1>4 DEF Finish, FailTurn, DropWaiting, EndTask
  <2>2. {"over", "lost"} \subseteq TaskPlaces \ {"committed", "interrupted"}
    BY DEF TaskPlaces, Ended
  <2> QED
    BY <2>1, <2>2, SameTells
<1>5. CASE Publish(m) \/ PushStarts(m) \/ PushEnds(m) \/ Answer(m) \/ \E c \in Chats : Push(m, c)
  <2>1. /\ transcript' = transcript
        /\ \E p \in {"inbox", "pushing", "sending", "running", "published"} :
              at' = [at EXCEPT ![m] = p]
    BY <1>5 DEF Publish, PushStarts, PushEnds, Answer, Push
  <2>2. {"inbox", "pushing", "sending", "running", "published"}
           \subseteq TaskPlaces \ {"committed", "interrupted"}
    BY DEF TaskPlaces, InTurn
  <2> QED
    BY <2>1, <2>2, SameTells
<1> QED
  BY <1>1, <1>2, <1>3, <1>4, <1>5 DEF TaskStep

LEMMA VanishTells == ASSUME SaidTyped, TurnsInv, Vanish PROVE TellsTruly
<1>1. transcript' = transcript
  BY DEF Vanish
<1>2. ASSUME NEW m \in Messages PROVE at'[m] \in {at[m], "lost"}
  BY DEF Vanish
<1> QED
  BY <1>1, <1>2, SaysSame DEF TellsTruly

LEMMA Telling == ASSUME SaidTyped, TurnsInv, [TurnsNext]_turnsVars PROVE TellsTruly
<1>1. CASE \E m \in Messages : Publish(m) \/ TaskStep(m) \/ \E c \in Chats : Push(m, c)
  BY <1>1, TaskTells
<1>2. CASE Consume
  <2> DEFINE m == Head(inbox)
  <2>1. m \in Messages /\ transcript' = transcript
    BY <1>2, Heads DEF Consume, TurnsInv, PushInv, TurnsTyping, LockInv
  <2>2. CASE Enter(m, LockFor(m))
    <3> HIDE DEF m
    <3> QED
      BY <2>1, <2>2, EnterTells
  <2>3. CASE at' = [at EXCEPT ![m] = "waiting"]
    <3> HIDE DEF m
    <3> QED
      BY <2>1, <2>3, SameTells DEF TaskPlaces
  <2> QED
    BY <1>2, <2>2, <2>3 DEF Consume
<1>3. CASE \E e \in posted : Sending(e)
  BY <1>3, SameTells DEF Sending, SendStarts, SendEnds, tasks
<1>4. CASE \E n \in Notices : NoticeRecords(n)
  <2>1. at' = at
    BY <1>4 DEF NoticeRecords, tasks
  <2> QED
    BY <1>4, <2>1, RecordSays DEF TellsTruly
<1>5. CASE ProgramExits \/ ProgramCrashes
  BY <1>5, VanishTells DEF ProgramExits, ProgramCrashes
<1>6. CASE \/ StopReading \/ \E s \in Sessions : Interrupt(s)
           \/ \E n \in Notices : NoticeBegins(n) \/ NoticePosts(n)
           \/ Stop \/ Restart \/ UNCHANGED turnsVars
  <2>1. at' = at /\ transcript' = transcript
    BY <1>6 DEF StopReading, Interrupt, NoticeBegins, NoticePosts, Stop, Restart,
                turnsVars, tasks
  <2> QED
    BY <2>1, SameTells
<1> QED
  BY <1>1, <1>2, <1>3, <1>4, <1>5, <1>6 DEF TurnsNext

\* The part that is about interrupted turns.
KeptInv == SaidTyped /\ InterruptedTurnsAreKept

LEMMA InterruptedStep ==
    TurnsInv /\ KeptInv /\ [TurnsNext]_turnsVars => KeptInv'
<1> SUFFICES ASSUME TurnsInv, KeptInv, [TurnsNext]_turnsVars PROVE KeptInv'
  OBVIOUS
<1>1. TellsTruly
  BY Telling DEF KeptInv
<1>2. ASSUME NEW m \in Messages \ Background, at'[m] = "interrupted"
      PROVE  HasLine(SessionOf[m], Says("user", m))'
  <2>1. SessionOf[m] \in Sessions
    BY Homes
  <2>2. CASE Persist(m)
    BY <1>2, <2>2, PersistSays DEF KeptInv
  <2>3. CASE at[m] = "interrupted"
    <3>1. HasLine(SessionOf[m], Says("user", m))
      BY <1>2, <2>3 DEF KeptInv, InterruptedTurnsAreKept, HasLine
    <3> DEFINE q == Says("user", m)
    <3>2. HasLine(SessionOf[m], q) /\ SaidTyped /\ SaidTyped' /\ TranscriptGrows(SessionOf[m])
      BY <1>1, <2>1, <3>1 DEF KeptInv, TellsTruly
    <3>3. \A x : HasLine(SessionOf[m], x) => HasLine(SessionOf[m], x)'
      BY <2>1, <3>2, StaysSaid
    <3> QED
      BY <3>1, <3>3
  <2> QED
    BY <1>1, <1>2, <2>2, <2>3 DEF TellsTruly
<1>3. InterruptedTurnsAreKept'
  BY <1>2 DEF InterruptedTurnsAreKept, HasLine, Says
<1> QED
  BY <1>1, <1>3 DEF KeptInv, TellsTruly

LEMMA KeptInvariant == TurnsSpec => []KeptInv
<1>1. TurnsInit => KeptInv
  BY DEF TurnsInit, KeptInv, SaidTyped, InterruptedTurnsAreKept
<1> QED
  BY <1>1, InterruptedStep, TurnsInvariant, PTL DEF TurnsSpec

\* The question of a turn that was interrupted stays in its session
\* (_persist_interrupted_turn).
THEOREM InterruptedAreKept == TurnsSpec => []InterruptedTurnsAreKept
  BY KeptInvariant, PTL DEF KeptInv

\* The answer of m is on its way, or its chat was sent it.
Answered(m) ==
    \/ \E e \in posted : e.what = m
    \/ \E i \in DOMAIN shown[Home(m)] : shown[Home(m)][i] = m

\* Two messages of a session.
Siblings(a, b) == a \in Messages /\ b \in Messages /\ SessionOf[a] = SessionOf[b]

\* What is answered, or about to be, is in the transcript, after all that was
\* answered before; an envelope is in its session's chat.
CommitsInOrder ==
    /\ \A m \in Messages : at[m] = "committed" \/ Answered(m) => Said(m)
    /\ \A m, o \in Messages :
         SessionOf[m] = SessionOf[o] /\ at[m] = "committed" /\ Answered(o) => SaidBefore(o, m)

\* Answers go to the chat of their session,
SentHome ==
    /\ shown \in [Chats -> Seq(Messages)]
    /\ \A e \in posted : e.what \in Messages => e.chat = Home(e.what)
    /\ \A c \in Chats : \A i \in DOMAIN shown[c] : Home(shown[c][i]) = c

\* those that are posted have their tickets in order,
TicketsInOrder ==
    \A e, f \in posted :
        Siblings(e.what, f.what) /\ e.ticket < f.ticket => SaidBefore(e.what, f.what)

\* those that were shown come before them,
ShownFirst ==
    \A f \in posted : \A i \in DOMAIN shown[f.chat] :
        Siblings(shown[f.chat][i], f.what) => SaidBefore(shown[f.chat][i], f.what)

\* and are in order themselves.
ShownInOrder ==
    \A c \in Chats : \A i, j \in DOMAIN shown[c] :
        i < j /\ Siblings(shown[c][i], shown[c][j]) => SaidBefore(shown[c][i], shown[c][j])

SendsInOrder == SentHome /\ TicketsInOrder /\ ShownFirst /\ ShownInOrder

\* The part that is about the order of answers,
OrderInv == CommitsInOrder /\ SendsInOrder

\* which needs the others.
OrderWorld == TurnsInv /\ CountInv /\ KeptInv /\ OrderInv

\* The transcripts after the step.
NowBefore(a, b) ==
    LET said == transcript'[SessionOf[a]] IN
    \E k, l \in DOMAIN said :
        k < l /\ said[k] = Says("assistant", a) /\ said[l] = Says("assistant", b)

\* Transcripts only grow.
StillSaid ==
    /\ \A m \in Messages : Said(m) => Said(m)'
    /\ \A a, b \in Messages : SaidBefore(a, b) => NowBefore(a, b)

LEMMA NowMeans == \A a, b \in Messages : SaidBefore(a, b)' <=> NowBefore(a, b)
  BY DEF SaidBefore, NowBefore, Says

LEMMA StillSays == ASSUME OrderWorld, TellsTruly PROVE StillSaid
<1>1. SaidTyped /\ SaidTyped'
  BY DEF OrderWorld, KeptInv, TellsTruly
<1>2. ASSUME NEW m \in Messages, Said(m) PROVE Said(m)'
  <2> DEFINE s == SessionOf[m]
             a == Says("assistant", m)
  <2>1. s \in Sessions /\ TranscriptGrows(s) /\ HasLine(s, a)
    BY <1>2, Homes DEF TellsTruly, Said
  <2>2. \A x : HasLine(s, x) => HasLine(s, x)'
    BY <1>1, <2>1, StaysSaid
  <2> QED
    BY <2>1, <2>2 DEF Said, Says
<1>3. ASSUME NEW a \in Messages, NEW b \in Messages, SaidBefore(a, b) PROVE SaidBefore(a, b)'
  BY <1>1, <1>3, Homes, StaysSaid DEF TellsTruly
<1> QED
  BY <1>2, <1>3, NowMeans DEF StillSaid

LEMMA ShownType ==
    ASSUME OrderWorld
    PROVE  /\ \A c \in Chats : \A i \in DOMAIN shown[c] :
                shown[c][i] \in Messages /\ Answered(shown[c][i])
           /\ \A e \in posted : /\ e.chat \in Chats /\ e.ticket \in Nat
                                /\ (e.what \in Messages => Answered(e.what))
<1>1. ASSUME NEW c \in Chats, NEW i \in DOMAIN shown[c]
      PROVE  shown[c][i] \in Messages /\ Answered(shown[c][i])
  BY DEF OrderWorld, OrderInv, SendsInOrder, SentHome, TicketsInOrder, ShownFirst, ShownInOrder, Answered
<1>2. \A e \in posted : e.chat \in Chats /\ e.ticket \in Nat
  BY EnvelopeTypes DEF OrderWorld
<1> QED
  BY <1>1, <1>2 DEF Answered

\* What a step that answers nothing leaves answered.
LEMMA AnswersStay ==
    ASSUME OrderWorld, Posting, NEW o \in Messages, Answered(o)'
    PROVE  Answered(o) \/ Answers(o)
<1>1. Home(o) \in Chats
  BY Homes
<1>2. CASE NothingSent \/ Vanish
  BY <1>2 DEF NothingSent, Vanish, Answered, Home
<1>3. ASSUME NEW c \in Chats, NEW what \in Messages \union Notices \union {Nothing}, Posts(c, what)
      PROVE  Answered(o) \/ what = o
  <2>1. shown' = shown /\ posted' = posted \union {Envelope(c, what)} /\ Envelope(c, what).what = what
    BY <1>3 DEF Posts, Envelope
  <2> QED
    BY <2>1 DEF Answered, Home
<1>4. CASE \E c \in Chats, what \in Notices \union {Nothing} : Posts(c, what)
  BY <1>3, <1>4, LocalConstants
<1>5. CASE \E m \in Messages : Answers(m)
  BY <1>3, <1>5, Homes DEF Answers
<1>6. CASE \E e \in posted : SendStarts(e)
  BY <1>6 DEF SendStarts, Answered, Home
<1>7. ASSUME NEW e \in posted, NEW ok, SendEnds(e, ok) PROVE Answered(o)
  <2>1. posted' \subseteq posted
    BY <1>7 DEF SendEnds
  <2>2. CASE shown' = shown
    BY <2>1, <2>2 DEF Answered, Home
  <2>3. CASE e.what \in Messages /\ shown' = [shown EXCEPT ![e.chat] = Append(@, e.what)]
    <3>1. e.chat \in Chats /\ shown \in [Chats -> Seq(Messages)]
      BY ShownType DEF OrderWorld, OrderInv, SendsInOrder, SentHome, TicketsInOrder, ShownFirst, ShownInOrder
    <3>2. shown'[Home(o)] = shown[Home(o)] \/ shown'[Home(o)] = Append(shown[Home(o)], e.what)
      BY <1>1, <2>3, <3>1
    <3>3. ASSUME NEW i \in DOMAIN shown'[Home(o)], shown'[Home(o)][i] = o
          PROVE  e.what = o \/ \E j \in DOMAIN shown[Home(o)] : shown[Home(o)][j] = o
      <4> DEFINE t == shown[Home(o)]
      <4>1. t \in Seq(Messages)
        BY <1>1, <3>1
      <4> HIDE DEF t
      <4>2. CASE shown'[Home(o)] = t
        BY <3>3, <4>2 DEF t
      <4>3. CASE shown'[Home(o)] = Append(t, e.what)
        <5>1. i \in 1 .. Len(t) + 1 /\ Append(t, e.what)[i] = o
          BY <2>3, <3>3, <4>1, <4>3
        <5>2. i = Len(t) + 1 => e.what = o
          BY <4>1, <5>1
        <5>3. i # Len(t) + 1 => i \in DOMAIN t /\ t[i] = o
          BY <4>1, <5>1
        <5> QED
          BY <5>2, <5>3 DEF t
      <4> QED
        BY <3>2, <4>2, <4>3 DEF t
    <3> QED
      BY <2>1, <3>3 DEF Answered, Home
  <2> QED
    BY <1>7, <2>2, <2>3 DEF SendEnds
<1> QED
  BY <1>2, <1>4, <1>5, <1>6, <1>7 DEF Posting

LEMMA CommitsStep ==
    ASSUME OrderWorld, TellsTruly, Posting PROVE CommitsInOrder'
<1>1. StillSaid
  BY StillSays
<1>2. ASSUME NEW m \in Messages, at'[m] = "committed" \/ Answered(m)' PROVE Said(m)'
  <2>1. CASE Commit(m)
    <3>1. \E l \in DOMAIN transcript'[SessionOf[m]] :
             transcript'[SessionOf[m]][l] = Says("assistant", m)
      BY <2>1, CommitSays DEF OrderWorld, KeptInv
    <3> QED
      BY <3>1 DEF Said, HasLine, Says
  <2>2. CASE at[m] = "committed" \/ Answered(m)
    BY <1>1, <2>2 DEF OrderWorld, OrderInv, CommitsInOrder, StillSaid
  <2> QED
    BY <1>2, <2>1, <2>2, AnswersStay DEF TellsTruly, Answers
<1>3. ASSUME NEW m \in Messages, NEW o \in Messages, SessionOf[m] = SessionOf[o],
             at'[m] = "committed", Answered(o)'
      PROVE  SaidBefore(o, m)'
  <2>1. CASE at[m] = "committed"
    <3>1. CASE Answered(o)
      <4>1. SaidBefore(o, m)
        BY <1>3, <2>1, <3>1 DEF OrderWorld, OrderInv, CommitsInOrder
      <4> QED
        BY <1>1, <4>1, NowMeans DEF StillSaid
    <3>2. CASE Answers(o)
      <4>1. at[o] = "committed" /\ at'[o] = "published"
        BY <3>2, GoesTo DEF Answers, OrderWorld
      <4>2. o = m
        BY <1>3, <2>1, <4>1 DEF OrderWorld, TurnsInv, LockInv, LocksHold, InTurn
      <4> QED
        BY <1>3, <4>1, <4>2
    <3> QED
      BY <1>3, <3>1, <3>2, AnswersStay
  <2>2. CASE Commit(m)
    <3> DEFINE s == SessionOf[m]
    <3>1. Answered(o)
      BY <1>3, <2>2 DEF Commit, delivery, Answered, Home
    <3>2. Said(o) /\ s \in Sessions
      BY <3>1, Homes DEF OrderWorld, OrderInv, CommitsInOrder
    <3>3. PICK k \in DOMAIN transcript[s] : transcript[s][k] = Says("assistant", o)
      BY <1>3, <3>2 DEF Said, HasLine
    <3>4. PICK l \in DOMAIN transcript'[s] :
             l > Len(transcript[s]) /\ transcript'[s][l] = Says("assistant", m)
      BY <2>2, CommitSays DEF OrderWorld, KeptInv
    <3>5. /\ transcript[s] \in Seq(TranscriptLines) /\ transcript'[s] \in Seq(TranscriptLines) /\ TranscriptGrows(s)
      BY <3>2 DEF OrderWorld, KeptInv, SaidTyped, TellsTruly
    <3>6. k \in 1 .. Len(transcript[s]) /\ Len(transcript[s]) \in Nat /\ Len(transcript'[s]) \in Nat
          /\ DOMAIN transcript'[s] = 1 .. Len(transcript'[s])
      BY <3>3, <3>5
    <3>7. k \in DOMAIN transcript'[s] /\ k < l /\ transcript'[s][k] = Says("assistant", o)
      BY <3>3, <3>4, <3>5, <3>6 DEF TranscriptGrows
    <3> QED
      BY <1>3, <3>4, <3>7 DEF SaidBefore, Says
  <2> QED
    BY <1>3, <2>1, <2>2 DEF TellsTruly
<1> QED
  BY <1>2, <1>3 DEF CommitsInOrder

\* Where nothing is shown and no answer is posted, the order stays.
LEMMA FewerSends ==
    ASSUME OrderWorld, StillSaid, shown' = shown,
           \A e \in posted' : e \in posted \/ e.what \notin Messages
    PROVE  SendsInOrder'
<1> USE DEF OrderWorld, OrderInv, SendsInOrder, SentHome, TicketsInOrder, ShownFirst, ShownInOrder
<1>1. \A e \in posted' : e.what \in Messages => e \in posted
  OBVIOUS
<1>2. /\ shown' \in [Chats -> Seq(Messages)]
      /\ \A e \in posted' : e.what \in Messages => e.chat = Home(e.what)
      /\ \A c \in Chats : \A i \in DOMAIN shown'[c] : Home(shown'[c][i]) = c
  BY <1>1
<1>3. ASSUME NEW e \in posted', NEW f \in posted', Siblings(e.what, f.what), e.ticket < f.ticket
      PROVE  NowBefore(e.what, f.what)
  BY <1>1, <1>3 DEF Siblings, StillSaid
<1>4. ASSUME NEW f \in posted', NEW i \in DOMAIN shown'[f.chat], Siblings(shown'[f.chat][i], f.what)
      PROVE  NowBefore(shown[f.chat][i], f.what)
  BY <1>1, <1>4 DEF Siblings, StillSaid
<1>5. ASSUME NEW c \in Chats, NEW i \in DOMAIN shown'[c], NEW j \in DOMAIN shown'[c], i < j,
             Siblings(shown'[c][i], shown'[c][j])
      PROVE  NowBefore(shown[c][i], shown[c][j])
  BY <1>5 DEF Siblings, StillSaid
<1> QED
  BY <1>2, <1>3, <1>4, <1>5 DEF Siblings, SaidBefore, NowBefore, Home

\* The answer that is posted last is of the message that was committed last.
LEMMA AnswerInOrder ==
    ASSUME OrderWorld, StillSaid, NEW m \in Messages, Answers(m) PROVE SendsInOrder'
<1> DEFINE e == Envelope(Home(m), m)
<1>1. e.chat = Home(m) /\ e.ticket = lane[Home(m)].next /\ e.what = m /\ Home(m) \in Chats
  BY Homes DEF Envelope
<1> HIDE DEF e
<1>2. shown' = shown /\ posted' = posted \union {e} /\ at[m] = "committed"
  BY DEF Answers, Posts, e
<1>3. shown \in [Chats -> Seq(Messages)]
  BY DEF OrderWorld, OrderInv, SendsInOrder, SentHome, TicketsInOrder, ShownFirst, ShownInOrder
<1>4. \A f \in posted' : f.what \in Messages => f.chat = Home(f.what)
  BY <1>1, <1>2 DEF OrderWorld, OrderInv, SendsInOrder, SentHome, TicketsInOrder, ShownFirst, ShownInOrder
<1>5. ASSUME NEW o \in Messages, SessionOf[o] = SessionOf[m], Answered(o)
      PROVE  NowBefore(o, m)
  BY <1>2, <1>5 DEF OrderWorld, OrderInv, CommitsInOrder, StillSaid
<1>6. ASSUME NEW f \in posted, Siblings(e.what, f.what) PROVE ~(e.ticket < f.ticket)
  <2>1. f.chat = Home(m)
    BY <1>1, <1>6 DEF Siblings, Home, OrderWorld, OrderInv, SendsInOrder, SentHome, TicketsInOrder, ShownFirst, ShownInOrder
  <2>2. f.ticket < lane[Home(m)].next
    BY <2>1 DEF OrderWorld, CountInv, EnvelopesHold
  <2>3. f.ticket \in Nat /\ lane[Home(m)].next \in Nat
    BY <1>1, EnvelopeTypes DEF OrderWorld
  <2> QED
    BY <1>1, <2>2, <2>3
<1>7. ASSUME NEW f \in posted', NEW g \in posted', Siblings(f.what, g.what), f.ticket < g.ticket
      PROVE  NowBefore(f.what, g.what)
  <2>1. CASE f \in posted /\ g \in posted
    BY <1>7, <2>1 DEF OrderWorld, OrderInv, SendsInOrder, SentHome, TicketsInOrder, ShownFirst, ShownInOrder, StillSaid, Siblings
  <2>2. CASE f \in posted /\ g = e
    <3>1. f.what \in Messages /\ SessionOf[f.what] = SessionOf[m] /\ Answered(f.what)
      BY <1>1, <1>7, <2>2 DEF Siblings, Answered
    <3>2. NowBefore(f.what, m)
      BY <1>5, <3>1
    <3> QED
      BY <1>1, <2>2, <3>2
  <2>3. CASE f = e /\ g = e
    <3>1. e.ticket \in Nat
      BY <1>1, EnvelopeTypes DEF OrderWorld
    <3> QED
      BY <1>7, <2>3, <3>1
  <2>4. CASE f = e /\ g \in posted
    BY <1>6, <1>7, <2>4
  <2> QED
    BY <1>2, <2>1, <2>2, <2>3, <2>4
<1>8. ASSUME NEW f \in posted', NEW i \in DOMAIN shown[f.chat], Siblings(shown[f.chat][i], f.what)
      PROVE  NowBefore(shown[f.chat][i], f.what)
  <2>1. CASE f \in posted
    BY <1>8, <2>1 DEF OrderWorld, OrderInv, SendsInOrder, SentHome, TicketsInOrder, ShownFirst, ShownInOrder, StillSaid, Siblings
  <2>2. CASE f = e
    <3> DEFINE o == shown[f.chat][i]
    <3>1. f.chat \in Chats /\ f.what = m
      BY <1>1, <2>2
    <3>2. o \in Messages /\ SessionOf[o] = SessionOf[m] /\ Answered(o)
      BY <1>8, <3>1, ShownType DEF Siblings
    <3> HIDE DEF o
    <3>3. NowBefore(o, m)
      BY <1>5, <3>2
    <3> QED
      BY <3>1, <3>3 DEF o
  <2> QED
    BY <1>2, <2>1, <2>2
<1>9. ASSUME NEW c \in Chats, NEW i \in DOMAIN shown[c], NEW j \in DOMAIN shown[c], i < j,
             Siblings(shown[c][i], shown[c][j])
      PROVE  NowBefore(shown[c][i], shown[c][j])
  BY <1>9 DEF Siblings, StillSaid, OrderWorld, OrderInv, SendsInOrder, SentHome, TicketsInOrder, ShownFirst, ShownInOrder
<1>10. \A c \in Chats : \A i \in DOMAIN shown[c] : Home(shown[c][i]) = c
  BY DEF OrderWorld, OrderInv, SendsInOrder, SentHome, TicketsInOrder, ShownFirst, ShownInOrder
<1> QED
  BY <1>2, <1>3, <1>4, <1>7, <1>8, <1>9, <1>10 DEF SendsInOrder, SentHome, TicketsInOrder, ShownFirst, ShownInOrder, Siblings, SaidBefore, NowBefore, Home

\* The answer that is shown last is the one whose ticket was to be served.
LEMMA ShowsInOrder ==
    ASSUME OrderWorld, StillSaid, NEW e \in posted, e \in going, e.what \in Messages,
           posted' = posted \ {e}, shown' = [shown EXCEPT ![e.chat] = Append(@, e.what)]
    PROVE  SendsInOrder'
<1> DEFINE c == e.chat
           t == shown[c]
           n == Len(t) + 1
<1>1. c \in Chats /\ shown \in [Chats -> Seq(Messages)] /\ c = Home(e.what)
  BY ShownType DEF OrderWorld, OrderInv, SendsInOrder, SentHome, TicketsInOrder, ShownFirst, ShownInOrder
<1>2. t \in Seq(Messages) /\ DOMAIN t = 1 .. Len(t) /\ Len(t) \in Nat
  BY <1>1
<1>3. /\ shown' \in [Chats -> Seq(Messages)] /\ shown'[c] = Append(t, e.what)
      /\ \A d \in Chats \ {c} : shown'[d] = shown[d]
  BY <1>1, <1>2
<1> HIDE DEF t
<1>4. /\ DOMAIN shown'[c] = 1 .. n /\ shown'[c][n] = e.what
      /\ \A i \in 1 .. Len(t) : shown'[c][i] = t[i]
      /\ \A i \in 1 .. n : i = n \/ i \in 1 .. Len(t)
  BY <1>2, <1>3
<1> HIDE DEF n
<1>5. ASSUME NEW f \in posted', Siblings(e.what, f.what) PROVE NowBefore(e.what, f.what)
  <2>1. f \in posted /\ f # e /\ f.what \in Messages
    BY <1>5 DEF Siblings
  <2>2. f.chat = c
    BY <1>1, <1>5, <2>1 DEF Siblings, Home, OrderWorld, OrderInv, SendsInOrder, SentHome, TicketsInOrder, ShownFirst, ShownInOrder
  <2>3. /\ e.ticket = lane[c].serving /\ lane[c].serving <= f.ticket /\ e.ticket # f.ticket
        /\ e.ticket \in Nat /\ f.ticket \in Nat
    BY <2>1, <2>2, EnvelopeTypes DEF OrderWorld, CountInv, EnvelopesHold
  <2>4. e.ticket < f.ticket
    BY <2>3
  <2>5. SaidBefore(e.what, f.what)
    BY <1>5, <2>1, <2>4 DEF OrderWorld, OrderInv, SendsInOrder, SentHome, TicketsInOrder, ShownFirst, ShownInOrder
  <2> QED
    BY <1>5, <2>5 DEF Siblings, StillSaid
<1>6. ASSUME NEW i \in DOMAIN t, Siblings(t[i], e.what) PROVE NowBefore(t[i], e.what)
  BY <1>6 DEF OrderWorld, OrderInv, SendsInOrder, SentHome, TicketsInOrder, ShownFirst, ShownInOrder, StillSaid, Siblings, t
<1>7. ASSUME NEW f \in posted', NEW g \in posted', Siblings(f.what, g.what), f.ticket < g.ticket
      PROVE  NowBefore(f.what, g.what)
  BY <1>7 DEF OrderWorld, OrderInv, SendsInOrder, SentHome, TicketsInOrder, ShownFirst, ShownInOrder, StillSaid, Siblings
<1>8. ASSUME NEW f \in posted', NEW i \in DOMAIN shown'[f.chat],
             Siblings(shown'[f.chat][i], f.what)
      PROVE  NowBefore(shown'[f.chat][i], f.what)
  <2>1. f \in posted /\ f.chat \in Chats
    BY ShownType
  <2>2. CASE f.chat = c
    <3>1. CASE i = n
      BY <1>4, <1>5, <1>8, <2>2, <3>1
    <3>2. CASE i \in 1 .. Len(t)
      <4>1. shown'[f.chat][i] = shown[f.chat][i] /\ i \in DOMAIN shown[f.chat]
        BY <1>2, <1>4, <2>2, <3>2 DEF t
      <4>2. SaidBefore(shown[f.chat][i], f.what)
        BY <1>8, <2>1, <4>1 DEF OrderWorld, OrderInv, SendsInOrder, SentHome, TicketsInOrder, ShownFirst, ShownInOrder
      <4>3. SaidBefore(shown'[f.chat][i], f.what)
        BY <4>1, <4>2
      <4> QED
        BY <1>8, <4>3 DEF Siblings, StillSaid
    <3> QED
      BY <1>4, <1>8, <2>2, <3>1, <3>2
  <2>3. CASE f.chat # c
    <3>1. shown'[f.chat] = shown[f.chat]
      BY <1>3, <2>1, <2>3
    <3>2. SaidBefore(shown[f.chat][i], f.what)
      BY <1>8, <2>1, <3>1 DEF OrderWorld, OrderInv, SendsInOrder, SentHome, TicketsInOrder, ShownFirst, ShownInOrder
    <3>3. SaidBefore(shown'[f.chat][i], f.what)
      BY <3>1, <3>2
    <3> QED
      BY <1>8, <3>3 DEF Siblings, StillSaid
  <2> QED
    BY <2>2, <2>3
<1>9. ASSUME NEW d \in Chats, NEW i \in DOMAIN shown'[d], NEW j \in DOMAIN shown'[d], i < j,
             Siblings(shown'[d][i], shown'[d][j])
      PROVE  NowBefore(shown'[d][i], shown'[d][j])
  <2>1. CASE d = c /\ j = n
    <3>1. i \in 1 .. Len(t) /\ i \in DOMAIN t
      BY <1>2, <1>4, <1>9, <2>1 DEF n
    <3>2. shown'[d][i] = t[i] /\ shown'[d][j] = e.what
      BY <1>4, <2>1, <3>1
    <3>3. NowBefore(t[i], e.what)
      BY <1>6, <1>9, <3>1, <3>2
    <3> QED
      BY <3>2, <3>3
  <2>2. CASE ~(d = c /\ j = n)
    <3>1. /\ shown'[d][i] = shown[d][i] /\ shown'[d][j] = shown[d][j]
          /\ i \in DOMAIN shown[d] /\ j \in DOMAIN shown[d]
      <4>1. CASE d = c
        <5>1. j \in 1 .. Len(t)
          BY <1>4, <1>9, <2>2, <4>1
        <5>2. i \in 1 .. Len(t)
          BY <1>2, <1>4, <1>9, <4>1, <5>1 DEF n
        <5> QED
          BY <1>2, <1>4, <4>1, <5>1, <5>2 DEF t
      <4>2. CASE d # c
        BY <1>3, <1>9, <4>2
      <4> QED
        BY <4>1, <4>2
    <3>2. SaidBefore(shown[d][i], shown[d][j])
      BY <1>9, <3>1 DEF OrderWorld, OrderInv, SendsInOrder, SentHome, TicketsInOrder, ShownFirst, ShownInOrder
    <3>3. SaidBefore(shown'[d][i], shown'[d][j])
      BY <3>1, <3>2
    <3> QED
      BY <1>9, <3>3 DEF Siblings, StillSaid
  <2> QED
    BY <2>1, <2>2
<1>10. ASSUME NEW d \in Chats, NEW i \in DOMAIN shown'[d] PROVE Home(shown'[d][i]) = d
  <2>1. CASE d = c /\ i = n
    BY <1>1, <1>4, <2>1
  <2>2. CASE ~(d = c /\ i = n)
    <3>1. shown'[d][i] = shown[d][i] /\ i \in DOMAIN shown[d]
      BY <1>2, <1>3, <1>4, <1>10, <2>2 DEF t
    <3> QED
      BY <3>1 DEF OrderWorld, OrderInv, SendsInOrder, SentHome, TicketsInOrder, ShownFirst, ShownInOrder
  <2> QED
    BY <2>1, <2>2
<1>11. \A f \in posted' : f.what \in Messages => f.chat = Home(f.what)
  BY DEF OrderWorld, OrderInv, SendsInOrder, SentHome, TicketsInOrder, ShownFirst, ShownInOrder
<1>12. SentHome'
  BY <1>3, <1>10, <1>11 DEF SentHome, Home
<1>13. TicketsInOrder'
  BY <1>7 DEF TicketsInOrder, Siblings, SaidBefore, NowBefore
<1>14. ShownFirst'
  BY <1>8 DEF ShownFirst, Siblings, SaidBefore, NowBefore
<1>15. ShownInOrder'
  <2> SUFFICES ASSUME NEW d \in Chats, NEW i \in DOMAIN shown'[d], NEW j \in DOMAIN shown'[d],
                      i < j, Siblings(shown[d][i], shown[d][j])'
               PROVE  SaidBefore(shown[d][i], shown[d][j])'
    BY DEF ShownInOrder
  <2>1. Siblings(shown'[d][i], shown'[d][j])
    BY DEF Siblings
  <2>2. NowBefore(shown'[d][i], shown'[d][j])
    BY <1>9, <2>1
  <2> QED
    BY <2>2 DEF SaidBefore, NowBefore
<1> QED
  BY <1>12, <1>13, <1>14, <1>15 DEF SendsInOrder

LEMMA SendsStep == ASSUME OrderWorld, StillSaid, Posting PROVE SendsInOrder'
<1>1. CASE NothingSent \/ Vanish \/ \E e \in posted : SendStarts(e)
  <2>1. shown' = shown /\ posted' \subseteq posted
    BY <1>1 DEF NothingSent, Vanish, SendStarts
  <2> QED
    BY <2>1, FewerSends
<1>2. CASE \E c \in Chats, what \in Notices \union {Nothing} : Posts(c, what)
  <2>1. PICK c \in Chats, what \in Notices \union {Nothing} : Posts(c, what)
    BY <1>2
  <2>2. what \notin Messages
    BY LocalConstants
  <2>3. shown' = shown /\ posted' = posted \union {Envelope(c, what)} /\ Envelope(c, what).what = what
    BY <2>1 DEF Posts, Envelope
  <2> QED
    BY <2>2, <2>3, FewerSends
<1>3. CASE \E m \in Messages : Answers(m)
  BY <1>3, AnswerInOrder
<1>4. ASSUME NEW e \in posted, NEW ok, SendEnds(e, ok) PROVE SendsInOrder'
  <2>1. posted' = posted \ {e} /\ e \in going
    BY <1>4 DEF SendEnds
  <2>2. CASE shown' = shown
    BY <2>1, <2>2, FewerSends
  <2>3. CASE e.what \in Messages /\ shown' = [shown EXCEPT ![e.chat] = Append(@, e.what)]
    BY <2>1, <2>3, ShowsInOrder
  <2> QED
    BY <1>4, <2>2, <2>3 DEF SendEnds
<1> QED
  BY <1>1, <1>2, <1>3, <1>4 DEF Posting

LEMMA OrderKeeps == OrderWorld /\ [TurnsNext]_turnsVars => OrderInv'
<1> SUFFICES ASSUME OrderWorld, [TurnsNext]_turnsVars PROVE OrderInv'
  OBVIOUS
<1>1. TellsTruly
  BY Telling DEF OrderWorld, KeptInv
<1>2. Posting
  BY Postings DEF OrderWorld, TurnsInv, LockInv
<1>3. StillSaid
  BY <1>1, StillSays
<1> QED
  BY <1>1, <1>2, <1>3, CommitsStep, SendsStep DEF OrderInv

LEMMA OrderStart == TurnsInit => OrderInv
<1> SUFFICES ASSUME TurnsInit PROVE OrderInv
  OBVIOUS
<1>1. /\ posted = {} /\ \A c \in Chats : shown[c] = <<>> /\ DOMAIN shown[c] = {}
      /\ shown \in [Chats -> Seq(Messages)] /\ \A m \in Messages : at[m] # "committed"
  BY DEF TurnsInit
<1>2. \A m \in Messages : ~Answered(m)
  BY <1>1, Homes DEF Answered
<1> QED
  BY <1>1, <1>2 DEF OrderInv, CommitsInOrder, SendsInOrder, SentHome, TicketsInOrder, ShownFirst, ShownInOrder

LEMMA OrderInvariant == TurnsSpec => []OrderInv
<1>1. OrderWorld <=> TurnsInv /\ CountInv /\ KeptInv /\ OrderInv
  BY DEF OrderWorld
<1> QED
  BY <1>1, OrderStart, OrderKeeps, TurnsInvariant, CountsInvariant, KeptInvariant, PTL
     DEF TurnsSpec

\* A chat is sent the answers of a session in the order they were saved in
\* (publish_outbound, run_passive).
THEOREM AnswersInOrder == TurnsSpec => []AnswersAreShownInOrder
<1>1. OrderInv => AnswersAreShownInOrder
  <2> SUFFICES ASSUME OrderInv, NEW s \in Sessions,
                      NEW i \in DOMAIN shown[ChatOf[s]], NEW j \in DOMAIN shown[ChatOf[s]],
                      i < j, SessionOf[shown[ChatOf[s]][i]] = s, SessionOf[shown[ChatOf[s]][j]] = s
               PROVE  \E k, l \in DOMAIN transcript[s] :
                         /\ k < l
                         /\ transcript[s][k] = Says("assistant", shown[ChatOf[s]][i])
                         /\ transcript[s][l] = Says("assistant", shown[ChatOf[s]][j])
    BY DEF AnswersAreShownInOrder
  <2> DEFINE c == ChatOf[s]
             a == shown[c][i]
             b == shown[c][j]
  <2>1. c \in Chats /\ shown \in [Chats -> Seq(Messages)]
    BY LocalConstants DEF OrderInv, SendsInOrder, SentHome, TicketsInOrder, ShownFirst, ShownInOrder
  <2>2. Siblings(a, b)
    BY <2>1 DEF Siblings
  <2>3. SaidBefore(a, b)
    BY <2>1, <2>2 DEF OrderInv, SendsInOrder, SentHome, TicketsInOrder, ShownFirst, ShownInOrder
  <2> QED
    BY <2>3 DEF SaidBefore
<1> QED
  BY <1>1, OrderInvariant, PTL
==============================================================================
