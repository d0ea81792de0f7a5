---- MODULE ControlPlane ----
(***************************************************************************)
(* The local program's control plane: turns that clients start over the    *)
(* workspace socket (agent/control, infra/control), the restart that a     *)
(* turn may ask for (agent/restart.py), and the supervisor that starts the *)
(* next generation of the gateway process (agent/supervisor.py).          *)
(*                                                                         *)
(* A turn id is used once.  Its events before the last are left out: the   *)
(* forwarder of the connection that started it is streaming until it sends *)
(* turn/completed, whose frame is the one that is waited for.              *)
(***************************************************************************)
EXTENDS Naturals, FiniteSets

CONSTANTS
    Turns,            \* turn ids
    Threads,          \* threads the turns belong to
    Connections,      \* slots for client connections
    WaitsForClients,  \* Server.wait_closed() waits for connected clients
                      \* (Python 3.12 and later, not 3.11)
    MaxBoots,         \* bound: generations of the gateway process
    MaxFaults,        \* bound: crashes, failed writes, lost streams
    None

ASSUME ControlConstants ==
    /\ WaitsForClients \in BOOLEAN
    /\ MaxBoots \in Nat \ {0} /\ MaxFaults \in Nat
    /\ None \notin Turns \union Threads \union Connections

VARIABLES
    status,      \* control.db: status of each turn
    readiness,   \* .runtime-ready.json: the boot it names, 0 when absent
    supervisor,  \* what the supervisor knows and does
    boot,        \* generations started so far
    pipe,        \* commit frames on the current generation's private pipe
    process,     \* the gateway: its phase and exit code
    signalled,   \* SIGTERM reached the gateway
    task,        \* phase of the task of each turn in _tasks
    thread,      \* thread of each turn
    cancelled,   \* tasks with a cancellation under way
    interrupts,  \* _interrupt_requested
    admission,   \* _accepting_turns, _restart_owner_turn_id, _closed
    restart,     \* the RestartCoordinator
    link,        \* client connections
    via,         \* connection that forwards the events of each turn
    forward,     \* phase of each turn's forwarder
    received,    \* turns whose turn/completed was written to the client
    faults

gateway == <<process, signalled>>
turns == <<status, task, thread, cancelled, interrupts>>
transport == <<link, via, forward, received>>
watch == <<readiness, supervisor, boot>>
vars == <<status, readiness, supervisor, boot, pipe, process, signalled, task,
          thread, cancelled, interrupts, admission, restart, link, via, forward,
          received, faults>>

------------------------------------------------------------------------------
(* The runtime's bookkeeping.                                              *)

Terminal == {"completed", "failed", "interrupted", "cancelled"}

InFlight == {t \in Turns : task[t] # "none"}

\* _active_by_thread: an owner is entered and removed with its task.
ThreadBusy(h) == \E t \in InFlight : thread[t] = h

OpenAdmission == [accepting |-> TRUE, owner |-> None, closed |-> FALSE]
NoRestart == [state |-> "idle", turn |-> None, completed |-> FALSE, delivered |-> FALSE]

Init ==
    /\ status = [t \in Turns |-> "none"]
    /\ readiness = 0
    /\ supervisor = [pc |-> "spawn", stop |-> FALSE, saw |-> FALSE, code |-> 0]
    /\ boot = 0
    /\ pipe = {}
    /\ process = [phase |-> "none", code |-> 0]
    /\ signalled = FALSE
    /\ task = [t \in Turns |-> "none"]
    /\ thread = [t \in Turns |-> None]
    /\ cancelled = {}
    /\ interrupts = {}
    /\ admission = OpenAdmission
    /\ restart = NoRestart
    /\ link = [c \in Connections |-> "closed"]
    /\ via = [t \in Turns |-> None]
    /\ forward = [t \in Turns |-> "none"]
    /\ received = {}
    /\ faults = 0

Fault == faults < MaxFaults /\ faults' = faults + 1

Lives == process.phase \in {"serving", "stopping"}

------------------------------------------------------------------------------
(* RestartCoordinator.  Its pending request is restart.turn.               *)

Pending(t) == restart.state # "committed" /\ restart.turn = t

\* _cancel, and the resume of the admission it was armed with.
CancelRestart ==
    /\ restart' = [NoRestart EXCEPT !.state = "cancelled"]
    /\ admission' = [admission EXCEPT !.owner = None,
                                      !.accepting = ~admission.closed \/ @]

\* Mutant: other turns in flight are not looked at.
ArmAnyway(t) ==
    /\ task[t] = "executing"
    /\ restart.turn = None
    /\ admission.accepting
    /\ admission' = [admission EXCEPT !.accepting = FALSE, !.owner = t]
    /\ restart' = [state |-> "armed", turn |-> t, completed |-> FALSE, delivered |-> FALSE]
    /\ UNCHANGED <<watch, pipe, gateway, turns, transport, faults>>

\* agent_restart within turn t: the caller must be the only turn.
Arm(t) ==
    /\ task[t] = "executing"
    /\ restart.turn = None
    /\ InFlight = {t}
    /\ admission.accepting
    /\ admission' = [admission EXCEPT !.accepting = FALSE, !.owner = t]
    /\ restart' = [state |-> "armed", turn |-> t, completed |-> FALSE, delivered |-> FALSE]
    /\ UNCHANGED <<watch, pipe, gateway, turns, transport, faults>>

\* Mutant: the status of the caller's end is not looked at.
MarkAnyEnd(t, s) ==
    IF ~Pending(t) THEN UNCHANGED <<restart, admission>>
    ELSE /\ restart' = [restart EXCEPT !.completed = TRUE, !.state = "waiting"]
         /\ UNCHANGED admission

\* mark_turn_terminal; the delivery can only follow.
MarkTerminal(t, s) ==
    IF ~Pending(t) THEN UNCHANGED <<restart, admission>>
    ELSE IF s # "completed" THEN CancelRestart
    ELSE /\ restart' = [restart EXCEPT !.completed = TRUE, !.state = "waiting"]
         /\ UNCHANGED admission

MarkDeliveryFailed(t) ==
    IF Pending(t) THEN CancelRestart ELSE UNCHANGED <<restart, admission>>

\* mark_delivered and _commit_if_ready: one frame to the private pipe, whose
\* write may fail.
MarkDelivered(t) ==
    IF ~Pending(t) THEN UNCHANGED <<restart, admission, pipe, faults>>
    ELSE IF ~restart.completed
    THEN /\ restart' = [restart EXCEPT !.delivered = TRUE]
         /\ UNCHANGED <<admission, pipe, faults>>
    ELSE \/ /\ pipe' = pipe \union {t}
            /\ restart' = [restart EXCEPT !.state = "committed", !.delivered = TRUE]
            /\ UNCHANGED <<admission, faults>>
         \/ Fault /\ CancelRestart /\ UNCHANGED pipe

\* Mutant: the watchdog runs from the end of the turn.
LateWatchdog ==
    /\ restart.state = "waiting"
    /\ CancelRestart
    /\ UNCHANGED <<watch, pipe, gateway, turns, transport, faults>>

\* _delivery_watchdog, which runs from the arming.
Watchdog ==
    /\ restart.turn # None
    /\ restart.state # "committed"
    /\ CancelRestart
    /\ UNCHANGED <<watch, pipe, gateway, turns, transport, faults>>

------------------------------------------------------------------------------
(* ConversationRuntime.                                                    *)

\* turn/start: the record, the task and the forwarder of one request.
StartTurn(t, h, c) ==
    /\ Lives
    /\ link[c] = "open"
    /\ admission.accepting /\ ~admission.closed
    /\ ~ThreadBusy(h)
    /\ status[t] = "none"
    /\ status' = [status EXCEPT ![t] = "queued"]
    /\ task' = [task EXCEPT ![t] = "queued"]
    /\ thread' = [thread EXCEPT ![t] = h]
    /\ via' = [via EXCEPT ![t] = c]
    /\ forward' = [forward EXCEPT ![t] = "streaming"]
    /\ UNCHANGED <<watch, pipe, gateway, cancelled, interrupts, admission,
                   restart, link, received, faults>>

\* The global admission lock is taken.
Begin(t) ==
    /\ task[t] = "queued"
    /\ t \notin cancelled
    /\ \A u \in Turns : task[u] # "executing"
    /\ status[t] = "queued"
    /\ status' = [status EXCEPT ![t] = "in_progress"]
    /\ task' = [task EXCEPT ![t] = "executing"]
    /\ UNCHANGED <<watch, pipe, gateway, thread, cancelled, interrupts,
                   admission, restart, transport, faults>>

\* The finally of _run.
Leave(t) ==
    /\ task' = [task EXCEPT ![t] = "none"]
    /\ cancelled' = cancelled \ {t}
    /\ interrupts' = interrupts \ {t}

\* transition_turn into a terminal status, and the end of _run with it.
Settle(t, from, to) ==
    /\ status[t] = from
    /\ status' = [status EXCEPT ![t] = to]
    /\ Leave(t)
    /\ MarkTerminal(t, to)
    /\ UNCHANGED <<watch, pipe, gateway, thread, transport>>

Complete(t) ==
    /\ task[t] = "executing"
    /\ t \notin cancelled
    /\ Settle(t, "in_progress", "completed")
    /\ UNCHANGED faults

\* The executor raises, of itself or on its way out of a cancellation.
Fail(t) ==
    /\ task[t] = "executing"
    /\ Fault
    /\ Settle(t, "in_progress", "failed")

\* The except CancelledError of _run.
EndCancelled(t) ==
    /\ t \in cancelled
    /\ UNCHANGED faults
    /\ \/ task[t] = "queued" /\ Settle(t, "queued", "cancelled")
       \/ /\ task[t] = "executing"
          /\ Settle(t, "in_progress", IF t \in interrupts THEN "interrupted" ELSE "cancelled")

\* The store cannot be written: no terminal record, no terminal event; the
\* stream fails, and the forwarder with it.
LoseTerminal(t) ==
    /\ task[t] = "executing"
    /\ Fault
    /\ Leave(t)
    /\ forward' = [forward EXCEPT ![t] = IF @ = "streaming" THEN "broken" ELSE @]
    /\ UNCHANGED <<watch, pipe, gateway, status, thread, admission, restart,
                   link, via, received>>

\* Mutant: the interrupter of a queued turn commits its end itself.
InterruptEagerly(t) ==
    /\ Lives
    /\ \E c \in Connections : link[c] = "open"
    /\ t \in InFlight \ cancelled
    /\ cancelled' = cancelled \union {t}
    /\ status' = [status EXCEPT ![t] = IF @ = "queued" THEN "cancelled" ELSE @]
    /\ interrupts' = IF status[t] = "queued" THEN interrupts ELSE interrupts \union {t}
    /\ UNCHANGED <<watch, pipe, gateway, task, thread, admission, restart,
                   transport, faults>>

\* interrupt_turn of an active turn.
InterruptTurn(t) ==
    /\ Lives
    /\ \E c \in Connections : link[c] = "open"
    /\ t \in InFlight \ cancelled
    /\ cancelled' = cancelled \union {t}
    /\ interrupts' = IF status[t] = "queued" THEN interrupts ELSE interrupts \union {t}
    /\ UNCHANGED <<watch, pipe, gateway, status, task, thread, admission,
                   restart, transport, faults>>

------------------------------------------------------------------------------
(* Connections and the forwarding of events.                               *)

Connect(c) ==
    /\ process.phase = "serving"
    /\ link[c] = "closed"
    /\ link' = [link EXCEPT ![c] = "open"]
    /\ UNCHANGED <<watch, pipe, gateway, turns, admission, restart, via,
                   forward, received, faults>>

\* The finally of run and the close of the router: forwarders are cancelled.
HangUp(cs) ==
    /\ link' = [c \in Connections |-> IF c \in cs /\ link[c] = "open" THEN "closing" ELSE link[c]]
    /\ forward' = [t \in Turns |->
         IF via[t] \in cs /\ forward[t] \in {"streaming", "sending", "sent", "broken"}
           THEN "cancelled" ELSE forward[t]]
    /\ UNCHANGED <<via, received>>

\* The client goes away, or its socket fails.
Disconnect(c) ==
    /\ link[c] = "open"
    /\ HangUp({c})
    /\ UNCHANGED <<watch, pipe, gateway, turns, admission, restart, faults>>

CloseLink(c) ==
    /\ link[c] = "closing"
    /\ \A t \in Turns : via[t] = c => forward[t] # "cancelled"
    /\ link' = [link EXCEPT ![c] = "closed"]
    /\ UNCHANGED <<watch, pipe, gateway, turns, admission, restart, via,
                   forward, received, faults>>

\* The terminal event reaches the forwarder, which queues its frame.
SendTerminal(t) ==
    /\ forward[t] = "streaming"
    /\ status[t] \in Terminal
    /\ forward' = [forward EXCEPT ![t] = "sending"]
    /\ UNCHANGED <<watch, pipe, gateway, turns, admission, restart, link, via,
                   received, faults>>

\* The writer's drain of that frame is over; a client that does not read
\* holds it up.
WriteFrame(t) ==
    /\ forward[t] = "sending"
    /\ forward' = [forward EXCEPT ![t] = "sent"]
    /\ received' = received \union {t}
    /\ UNCHANGED <<watch, pipe, gateway, turns, admission, restart, link, via, faults>>

NotifyDelivered(t) ==
    /\ forward[t] = "sent"
    /\ forward' = [forward EXCEPT ![t] = "ended"]
    /\ MarkDelivered(t)
    /\ UNCHANGED <<watch, gateway, turns, link, via, received>>

\* A consumer that is too slow, a full queue or the end of the connection.
LoseStream(t) ==
    /\ forward[t] \in {"streaming", "sending"}
    /\ Fault
    /\ forward' = [forward EXCEPT ![t] = "broken"]
    /\ UNCHANGED <<watch, pipe, gateway, turns, admission, restart, link, via, received>>

NotifyDeliveryFailed(t) ==
    /\ forward[t] \in {"broken", "cancelled"}
    /\ forward' = [forward EXCEPT ![t] = "ended"]
    /\ MarkDeliveryFailed(t)
    /\ UNCHANGED <<watch, pipe, gateway, turns, link, via, received, faults>>

------------------------------------------------------------------------------
(* The gateway process: runtime_serve and stop_background.                 *)

\* What is in memory is gone, and clients see their connections end.
Forget ==
    /\ signalled' = FALSE
    /\ task' = [t \in Turns |-> "none"]
    /\ cancelled' = {} /\ interrupts' = {}
    /\ admission' = OpenAdmission
    /\ restart' = NoRestart
    /\ link' = [c \in Connections |-> "closed"]
    /\ forward' = [t \in Turns |-> "none"]
    /\ UNCHANGED <<thread, via, received>>

Ready ==
    /\ process.phase = "starting"
    /\ process' = [process EXCEPT !.phase = "serving"]
    /\ readiness' = boot
    /\ UNCHANGED <<supervisor, boot, pipe, signalled, turns, admission, restart,
                   transport, faults>>

\* A stop signal or a committed restart ends the wait.
StopServing ==
    /\ process.phase = "serving"
    /\ signalled \/ restart.state = "committed"
    /\ \E code \in {0, 75} :
         /\ IF code = 75 THEN restart.state = "committed" ELSE signalled
         /\ process' = [phase |-> "stopping", code |-> code]
    /\ readiness' = 0
    /\ UNCHANGED <<supervisor, boot, pipe, signalled, turns, admission, restart,
                   transport, faults>>

\* SocketAppServer.stop.
StopServer ==
    /\ process.phase = "stopping"
    /\ WaitsForClients => \A c \in Connections : link[c] = "closed"
    /\ process' = [process EXCEPT !.phase = "hanging_up"]
    /\ HangUp(Connections)
    /\ UNCHANGED <<watch, pipe, signalled, turns, admission, restart, faults>>

\* ConversationRuntime.shutdown.
Shutdown ==
    /\ process.phase = "hanging_up"
    /\ \A c \in Connections : link[c] = "closed"
    /\ process' = [process EXCEPT !.phase = "closing"]
    /\ admission' = [admission EXCEPT !.closed = TRUE]
    /\ cancelled' = InFlight
    /\ UNCHANGED <<watch, pipe, signalled, status, task, thread, interrupts,
                   restart, transport, faults>>

Exit ==
    /\ process.phase = "closing"
    /\ InFlight = {}
    /\ process' = [process EXCEPT !.phase = "exited"]
    /\ Forget
    /\ UNCHANGED <<watch, pipe, status, faults>>

Crash ==
    /\ process.phase \notin {"none", "exited"}
    /\ Fault
    /\ process' = [phase |-> "exited", code |-> 1]
    /\ Forget
    /\ UNCHANGED <<watch, pipe, status>>

------------------------------------------------------------------------------
(* The supervisor: run_supervisor and _wait_child.                         *)

\* Mutant: a stop that came between two generations is not looked at.
SpawnAnyway ==
    /\ supervisor.pc = "spawn"
    /\ boot < MaxBoots
    /\ boot' = boot + 1
    /\ pipe' = {}
    /\ process' = [phase |-> "starting", code |-> 0]
    /\ supervisor' = [supervisor EXCEPT !.pc = "wait", !.saw = FALSE]
    /\ UNCHANGED <<readiness, signalled, turns, admission, restart, transport, faults>>

Spawn ==
    /\ supervisor.pc = "spawn"
    /\ ~supervisor.stop
    /\ boot < MaxBoots
    /\ boot' = boot + 1
    /\ pipe' = {}
    /\ process' = [phase |-> "starting", code |-> 0]
    /\ supervisor' = [supervisor EXCEPT !.pc = "wait", !.saw = FALSE]
    /\ UNCHANGED <<readiness, signalled, turns, admission, restart, transport, faults>>

SpawnBlocked ==
    /\ supervisor.pc = "spawn"
    /\ supervisor.stop
    /\ supervisor' = [supervisor EXCEPT !.pc = "ended", !.code = 0]
    /\ UNCHANGED <<readiness, boot, pipe, gateway, turns, admission, restart,
                   transport, faults>>

\* forward_stop: the signal handler, and the signal it passes on.
StopRequested ==
    /\ supervisor.pc # "ended"
    /\ ~supervisor.stop
    /\ supervisor' = [supervisor EXCEPT !.stop = TRUE]
    /\ signalled' = (process.phase \notin {"none", "exited"})
    /\ UNCHANGED <<readiness, boot, pipe, process, turns, admission, restart,
                   transport, faults>>

\* The default action of the signal, before the handler of the gateway.
SignalKills ==
    /\ process.phase = "starting"
    /\ signalled
    /\ process' = [phase |-> "exited", code |-> 1]
    /\ Forget
    /\ UNCHANGED <<watch, pipe, status, faults>>

SeeReady ==
    /\ supervisor.pc = "wait"
    /\ ~supervisor.saw
    /\ readiness = boot
    /\ supervisor' = [supervisor EXCEPT !.saw = TRUE]
    /\ UNCHANGED <<readiness, boot, pipe, gateway, turns, admission, restart,
                   transport, faults>>

\* The deadline passes: the child is terminated and waited for.
ReadinessTimeout ==
    /\ supervisor.pc = "wait"
    /\ ~supervisor.saw
    /\ process.phase = "starting"
    /\ Fault
    /\ supervisor' = [supervisor EXCEPT !.pc = "ended",
                                        !.code = IF supervisor.stop THEN 0 ELSE 70]
    /\ process' = [phase |-> "exited", code |-> 1]
    /\ Forget
    /\ UNCHANGED <<readiness, boot, pipe, status>>

\* _valid_commit: one frame on the pipe of this boot, of its identity.
CommitValid == Cardinality(pipe) = 1

Reap ==
    LET relaunch == /\ ~supervisor.stop
                    /\ process.code = 75
                    /\ supervisor.saw \/ readiness = boot
                    /\ CommitValid
        code == IF supervisor.stop THEN 0
                ELSE IF process.code = 75 THEN 70 ELSE process.code
    IN
    /\ supervisor.pc = "wait"
    /\ process.phase = "exited"
    /\ supervisor' = IF relaunch THEN [supervisor EXCEPT !.pc = "spawn"]
                     ELSE [supervisor EXCEPT !.pc = "ended", !.code = code]
    /\ UNCHANGED <<readiness, boot, pipe, gateway, turns, admission, restart,
                   transport, faults>>

------------------------------------------------------------------------------

RuntimeNext ==
    \/ \E t \in Turns :
         \/ \E h \in Threads, c \in Connections : StartTurn(t, h, c)
         \/ Begin(t) \/ Arm(t) \/ Complete(t) \/ Fail(t) \/ EndCancelled(t)
         \/ LoseTerminal(t) \/ InterruptTurn(t)
         \/ SendTerminal(t) \/ WriteFrame(t) \/ LoseStream(t)
         \/ NotifyDelivered(t) \/ NotifyDeliveryFailed(t)
    \/ \E c \in Connections : Connect(c) \/ Disconnect(c) \/ CloseLink(c)
    \/ Watchdog

ProcessNext ==
    \/ Ready \/ StopServing \/ StopServer \/ Shutdown \/ Exit \/ Crash
    \/ Spawn \/ SpawnBlocked \/ StopRequested \/ SignalKills \/ SeeReady
    \/ ReadinessTimeout \/ Reap

Next == RuntimeNext \/ ProcessNext

Spec == Init /\ [][Next]_vars

\* What runs on its own.  How long a turn executes, whether a client reads or
\* goes away, and who asks for a restart or a stop is not up to the program.
Fairness ==
    /\ \A t \in Turns :
         /\ WF_vars(Begin(t)) /\ WF_vars(EndCancelled(t)) /\ WF_vars(SendTerminal(t))
         /\ WF_vars(NotifyDelivered(t)) /\ WF_vars(NotifyDeliveryFailed(t))
    /\ \A c \in Connections : WF_vars(CloseLink(c))
    /\ WF_vars(Watchdog)
    /\ WF_vars(Ready \/ StopServing \/ StopServer \/ Shutdown \/ Exit)
    /\ WF_vars(Spawn \/ SpawnBlocked \/ SeeReady \/ Reap)

FairSpec == Spec /\ Fairness

------------------------------------------------------------------------------
(* Properties.                                                             *)

\* Every task agrees with the record in the store, no thread has two, and the
\* owner that froze admission is the restart's caller, whose request is still
\* open: no interrupt, failure or lost stream leaves admission to a turn that
\* is gone (_run, interrupt_turn, arm and _cancel).
OwnersAreCurrent ==
    /\ \A t \in InFlight :
         /\ status[t] = IF task[t] = "queued" THEN "queued" ELSE "in_progress"
         /\ \A u \in InFlight \ {t} : thread[u] # thread[t]
    /\ admission.owner = restart.turn
    /\ ~admission.accepting => admission.owner # None \/ admission.closed

\* Once the commit frame is on the pipe no turn is in flight and none is let
\* in: a restart that was delivered cuts off nobody (quiesce_for_restart).
CommittedIsQuiet ==
    restart.state = "committed" =>
        /\ InFlight = {}
        /\ ~admission.accepting
        /\ pipe = {restart.turn}

\* A next generation is started only after a turn of the last one asked for
\* it, was stored as completed and had its last event written to its client
\* (run_supervisor, RestartCoordinator).
RelaunchOnlyAfterDelivery ==
    [][boot > 0 /\ boot' # boot =>
         \E t \in received : pipe = {t} /\ status[t] = "completed"]_vars

\* Admission that a request has frozen comes back, or the process stops
\* serving, whatever becomes of the turn, its stream or its client.
AdmissionComesBack ==
    process.phase = "serving" /\ ~admission.accepting
        ~> admission.accepting \/ process.phase # "serving"

\* A stop ends the supervisor, also one that comes between two generations,
\* while a child starts or while a restart is being committed.
StopIsHonoured == supervisor.stop ~> supervisor.pc = "ended"
====
