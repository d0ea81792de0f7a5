---- MODULE LocalTurns ----
(***************************************************************************)
(* The local program's turns: messages that channels put on the message    *)
(* bus, the tasks AgentLoop makes of them, one at a time per session       *)
(* (agent/core/runtime.py), the sends of a chat, which its lane orders     *)
(* (bus/queue.py), and the rows of sessions.db that outlive the process    *)
(* (session/manager.py).                                                   *)
(*                                                                         *)
(* One event loop runs everything, so a step ends where its code awaits    *)
(* something that can keep it waiting.  A lane's condition is never held   *)
(* across such a point: its operations are part of the step they are in.   *)
(***************************************************************************)
EXTENDS Naturals, Sequences, FiniteSets

CONSTANTS
    MaxMessages,    \* bound: inbound messages, numbered as they are published
    Sessions, Chats,
    SessionOf,      \* session of a message or of a notice
    ChatOf,         \* chat that a session's answers go to
    Background,     \* messages with omit_user_turn
    Notices,        \* what the proactive loop has to say
    MaxPushes,      \* bound: message_push calls
    MaxTroubles,    \* bound: interrupts by a user, crashes and shutdowns
    Nothing

Messages == 1 .. MaxMessages

ASSUME LocalConstants ==
    /\ MaxMessages \in Nat
    /\ SessionOf \in [Messages \union Notices -> Sessions]
    /\ ChatOf \in [Sessions -> Chats]
    /\ Background \subseteq Messages /\ Messages \intersect Notices = {}
    /\ MaxPushes \in Nat /\ MaxTroubles \in Nat
    /\ Nothing \notin Messages \union Notices \union Sessions \union Chats

VARIABLES
    program,     \* "up", "stopping" or "down"
    reading,     \* AgentLoop.run is in consume_inbound
    awaited,     \* tasks AgentLoop.shutdown waits for
    inbox,       \* MessageBus._inbound
    at,          \* where the task of each message is
    cut,         \* tasks with a cancellation under way
    lock,        \* _session_locks; a lock is named by the task that made it
    mine,        \* lock each task waits for or holds
    line,        \* tasks waiting for a session lock, the first to come first
    active,      \* _active_tasks
    row,         \* session_admissions: the task that inserted the row
    transcript,  \* messages of each session in sessions.db
    lane,        \* the lane of each chat
    posted,      \* outbound envelopes whose send has not ended
    going,       \* those whose channel subscribers are at it
    pushing,     \* ticket and chat of a task's message_push
    notice,      \* phase of each notice
    shown,       \* the answers each chat was sent
    pushes, troubles

tasks == <<at, cut, lock, mine, line, active>>
delivery == <<lane, posted, going, shown>>
bounds == <<pushes, troubles>>
life == <<program, reading, awaited>>
turnsVars == <<program, reading, awaited, inbox, at, cut, lock, mine, line,
               active, row, transcript, lane, posted, going, pushing, notice,
               shown, pushes, troubles>>

------------------------------------------------------------------------------
(* Tasks and their places.                                                 *)

Home(m) == ChatOf[SessionOf[m]]

\* Inside "async with lock": these tasks hold their session's lock.
InTurn == {"running", "pushing", "sending", "committed", "published"}

\* Tasks in AgentLoop._tasks that are not done.
Live == {"waiting"} \union InTurn

\* How a task ended: its turn ran to its end, also to an error; it was refused
\* the session; it was interrupted in its turn; or it never had one.
Ended == {"over", "refused", "interrupted", "lost"}

\* asyncio.Lock is fair: it is free for m when nobody holds it and nobody came
\* earlier.  `ahead` are the tasks that wait before m.
FreeLock(l, ahead) ==
    /\ \A o \in Messages : mine[o] = l => at[o] \notin InTurn
    /\ \A o \in ahead : mine[o] # l

Ahead(m) == {line[i] : i \in {j \in DOMAIN line :
                \E k \in DOMAIN line : j < k /\ line[k] = m}}

Waiting == {line[i] : i \in DOMAIN line}

\* AgentLoop.is_busy
Busy(s) == active[s] # Nothing \/ \E o \in Messages :
               lock[s] # Nothing /\ mine[o] = lock[s] /\ at[o] \in InTurn

------------------------------------------------------------------------------
(* The lane of a chat (ChatLane): what its counters become.                *)

FreshLane == [turns |-> 0, sends |-> 0, sending |-> FALSE, next |-> 0,
              serving |-> 0, nextPush |-> 0, servingPush |-> 0, cancelled |-> {}]

Posted(l) == [l EXCEPT !.next = @ + 1, !.sends = @ + 1]

Completed(l) == [l EXCEPT !.turns = IF @ > 0 THEN @ - 1 ELSE 0]

Sent(l) == [l EXCEPT !.sends = IF @ > 0 THEN @ - 1 ELSE 0,
                     !.serving = @ + 1, !.sending = FALSE]

\* A mutant: tickets that were given up are only skipped before the next send.
SkipNothing(l) == l

\* _skip_cancelled_non_passive: on to the first ticket nobody gave up.
SkipCancelled(l) ==
    LET first == CHOOSE t \in l.servingPush .. l.nextPush :
            /\ t \notin l.cancelled
            /\ \A u \in l.servingPush .. t - 1 : u \in l.cancelled IN
    [l EXCEPT !.servingPush = first,
              !.cancelled = {t \in @ : t >= first}]

TakePushTicket(l) == SkipCancelled([l EXCEPT !.nextPush = @ + 1])

PushSent(l) ==
    SkipCancelled([l EXCEPT !.servingPush = @ + 1, !.sending = FALSE])

PushGivenUp(l, t) == SkipCancelled([l EXCEPT !.cancelled = @ \union {t}])

\* The lane once the finally of m's push ran, if m is in one.
Released(m) ==
    CASE at[m] = "pushing" ->
            [lane EXCEPT ![pushing[m].chat] = PushGivenUp(@, pushing[m].ticket)]
      [] at[m] = "sending" -> [lane EXCEPT ![pushing[m].chat] = PushSent(@)]
      [] OTHER -> lane

\* `what` is an answer by its message, a notice, or Nothing: a reply or an error
\* nothing is saved for.
Envelope(c, what) == [chat |-> c, ticket |-> lane[c].next, what |-> what]

------------------------------------------------------------------------------
TurnsInit ==
    /\ program = "up" /\ reading = TRUE /\ awaited = {}
    /\ inbox = <<>>
    /\ at = [m \in Messages |-> "new"] /\ cut = {}
    /\ lock = [s \in Sessions |-> Nothing]
    /\ mine = [m \in Messages |-> Nothing] /\ line = <<>>
    /\ active = [s \in Sessions |-> Nothing]
    /\ row = [s \in Sessions |-> Nothing]
    /\ transcript = [s \in Sessions |-> <<>>]
    /\ lane = [c \in Chats |-> FreshLane] /\ posted = {} /\ going = {}
    /\ pushing = [m \in Messages |-> Nothing]
    /\ notice = [n \in Notices |-> "new"]
    /\ shown = [c \in Chats |-> <<>>]
    /\ pushes = 0 /\ troubles = 0

(* Into the loop.                                                          *)

\* publish_inbound, by a channel, the scheduler or a child that ended.
Publish(m) ==
    /\ program \in {"up", "stopping"} /\ at[m] = "new"
    /\ \A o \in 1 .. m - 1 : at[o] # "new"
    /\ at' = [at EXCEPT ![m] = "inbox"]
    /\ inbox' = Append(inbox, m)
    /\ lane' = [lane EXCEPT ![Home(m)].turns = @ + 1]
    /\ UNCHANGED <<life, cut, lock, mine, line, active, row, transcript, posted,
                    pushing, notice, going, shown, bounds>>

\* The wait of a stopped loop runs out.
StopReading ==
    /\ program = "stopping" /\ reading /\ reading' = FALSE
    /\ UNCHANGED <<program, awaited, inbox, tasks, row, transcript, delivery,
                    pushing, notice, bounds>>

Others(m) == {o \in Messages \ {m} : SessionOf[o] = SessionOf[m] /\ at[o] \in Live}

\* setdefault(key, asyncio.Lock())
LockFor(m) == IF lock[SessionOf[m]] = Nothing THEN m ELSE lock[SessionOf[m]]

\* A mutant: the entry goes whenever the lock is not held.
KeptIfHeld(m) ==
    IF \E o \in Others(m) : mine[o] = LockFor(m) /\ at[o] \in InTurn
    THEN LockFor(m) ELSE Nothing

\* The entry of m's session once m is done: it goes with the last task.
KeptLock(m) == IF Others(m) # {} THEN LockFor(m) ELSE Nothing

\* The end of _process_item, but for the row and the lane.
EndTask(m, how) ==
    /\ at' = [at EXCEPT ![m] = how]
    /\ cut' = cut \ {m}
    /\ lock' = [lock EXCEPT ![SessionOf[m]] = KeptLock(m)]
    /\ mine' = [mine EXCEPT ![m] = Nothing]
    /\ line' = SelectSeq(line, LAMBDA o : o # m)
    /\ active' = [active EXCEPT ![SessionOf[m]] = IF @ = m THEN Nothing ELSE @]
    /\ pushing' = [pushing EXCEPT ![m] = Nothing]

\* release_admission deletes the row only of its own insert.
Unlock(m) == row' = [row EXCEPT ![SessionOf[m]] = IF @ = m THEN Nothing ELSE @]

\* A mutant: a turn that was cancelled does not report its message complete.
CompleteUncut(l, m) ==
    [l EXCEPT ![Home(m)] = IF m \in cut THEN @ ELSE Completed(@)]

\* complete_inbound
CompleteInbound(l, m) == [l EXCEPT ![Home(m)] = Completed(@)]

\* The session's lock is m's: acquire_admission inserts the row and the
\* pipeline runs, or the row is there and the user is told of an error.
Enter(m, l) ==
    LET s == SessionOf[m] IN
    \/ /\ row[s] = Nothing
       /\ row' = [row EXCEPT ![s] = m]
       /\ at' = [at EXCEPT ![m] = "running"]
       /\ mine' = [mine EXCEPT ![m] = l]
       /\ lock' = [lock EXCEPT ![s] = IF at[m] = "inbox" THEN l ELSE @]
       /\ line' = SelectSeq(line, LAMBDA o : o # m)
       /\ active' = [active EXCEPT ![s] = m]
       /\ UNCHANGED <<cut, lane, posted, pushing>>
    \/ /\ row[s] # Nothing
       /\ EndTask(m, "refused")
       /\ lane' = [lane EXCEPT ![Home(m)] = Completed(Posted(@))]
       /\ posted' = posted \union {Envelope(Home(m), Nothing)}
       /\ UNCHANGED row

\* AgentLoop.run makes a task of the next message, which begins before the loop
\* takes another.  A loop that was stopped in its wait takes one more message.
\* The step between create_task and the beginning of the task is left out: only
\* shutdown can come in it, and cancels a task that then never begins, and so
\* gives nothing back of a process that is about to end.
Consume ==
    LET m == Head(inbox)
        l == LockFor(m) IN
    /\ reading /\ inbox # <<>>
    /\ inbox' = Tail(inbox) /\ reading' = (program = "up")
    /\ \/ FreeLock(l, Waiting) /\ Enter(m, l)
       \/ /\ ~FreeLock(l, Waiting)
          /\ at' = [at EXCEPT ![m] = "waiting"]
          /\ mine' = [mine EXCEPT ![m] = l]
          /\ lock' = [lock EXCEPT ![SessionOf[m]] = l]
          /\ line' = Append(line, m)
          /\ UNCHANGED <<cut, active, row, lane, posted, pushing>>
    /\ UNCHANGED <<program, awaited, transcript, notice, going, shown, bounds>>

\* The lock is handed to the task that has waited longest.
Acquire(m) ==
    /\ at[m] = "waiting" /\ m \notin cut
    /\ FreeLock(mine[m], Ahead(m))
    /\ Enter(m, mine[m])
    /\ UNCHANGED <<life, inbox, transcript, notice, going, shown, bounds>>

------------------------------------------------------------------------------
(* A turn (PassiveTurnPipeline).                                           *)

Runs(m) == at[m] = "running" /\ m \notin cut

\* The model calls message_push, which joins the lane of the chat it names.
Push(m, c) ==
    /\ Runs(m) /\ pushes < MaxPushes
    /\ pushes' = pushes + 1
    /\ at' = [at EXCEPT ![m] = "pushing"]
    /\ pushing' = [pushing EXCEPT ![m] = [chat |-> c, ticket |-> lane[c].nextPush]]
    /\ lane' = [lane EXCEPT ![c] = TakePushTicket(@)]
    /\ UNCHANGED <<life, inbox, cut, lock, mine, line, active, row, transcript,
                    posted, notice, going, shown, troubles>>

\* run_non_passive: a push waits for the chat's turns and their answers.
PushStarts(m) ==
    /\ at[m] = "pushing" /\ m \notin cut
    /\ LET l == lane[pushing[m].chat] IN
        /\ ~l.sending /\ l.turns = 0 /\ l.sends = 0
        /\ pushing[m].ticket = l.servingPush
    /\ at' = [at EXCEPT ![m] = "sending"]
    /\ lane' = [lane EXCEPT ![pushing[m].chat].sending = TRUE]
    /\ UNCHANGED <<life, inbox, cut, lock, mine, line, active, row, transcript,
                    posted, pushing, notice, going, shown, bounds>>

\* A mutant: the tool has all the time it wants.
PushOnlySends(m) ==
    /\ at[m] = "sending" /\ m \notin cut
    /\ at' = [at EXCEPT ![m] = "running"]
    /\ lane' = Released(m)
    /\ pushing' = [pushing EXCEPT ![m] = Nothing]
    /\ UNCHANGED <<life, inbox, cut, lock, mine, line, active, row, transcript,
                    posted, notice, going, shown, bounds>>

\* The send of a push ended, well or not, or the tool ran out of its time
\* (ToolExecutor's timeout), waiting or sending.
PushEnds(m) ==
    /\ at[m] \in {"pushing", "sending"} /\ m \notin cut
    /\ at' = [at EXCEPT ![m] = "running"]
    /\ lane' = Released(m)
    /\ pushing' = [pushing EXCEPT ![m] = Nothing]
    /\ UNCHANGED <<life, inbox, cut, lock, mine, line, active, row, transcript,
                    posted, notice, going, shown, bounds>>

Says(role, what) == [role |-> role, of |-> what]

Question(m) == IF m \in Background THEN <<>> ELSE <<Says("user", m)>>

\* _commit_and_dispatch up to its save.
Commit(m) ==
    /\ Runs(m)
    /\ at' = [at EXCEPT ![m] = "committed"]
    /\ transcript' = [transcript EXCEPT ![SessionOf[m]] =
                         @ \o Question(m) \o <<Says("assistant", m)>>]
    /\ UNCHANGED <<life, inbox, cut, lock, mine, line, active, row, delivery,
                    pushing, notice, bounds>>

\* publish_outbound.
Post(c, what) ==
    /\ lane' = [lane EXCEPT ![c] = Posted(@)]
    /\ posted' = posted \union {Envelope(c, what)}

\* publish_outbound of the answer, after the observers of the commit; or of a
\* reply that nothing is saved for (a command, a plugin's abort, the guard).
Answer(m) ==
    /\ at[m] \in {"running", "committed"} /\ m \notin cut
    /\ at' = [at EXCEPT ![m] = "published"]
    /\ Post(Home(m), IF at[m] = "committed" THEN m ELSE Nothing)
    /\ UNCHANGED <<life, inbox, cut, lock, mine, line, active, row, transcript,
                    pushing, notice, going, shown, bounds>>

\* The observers of TurnFinished are through.
Finish(m) ==
    /\ at[m] = "published" /\ m \notin cut
    /\ EndTask(m, "over") /\ Unlock(m)
    /\ lane' = CompleteInbound(lane, m)
    /\ UNCHANGED <<life, inbox, transcript, posted, notice, going, shown, bounds>>

\* The model, a tool or a plugin's module raises, also after the commit; the
\* user is told of an error.
FailTurn(m) ==
    /\ at[m] \in {"running", "committed"} /\ m \notin cut
    /\ EndTask(m, "over") /\ Unlock(m)
    /\ lane' = [lane EXCEPT ![Home(m)] = Completed(Posted(@))]
    /\ posted' = posted \union {Envelope(Home(m), Nothing)}
    /\ UNCHANGED <<life, inbox, transcript, notice, going, shown, bounds>>

------------------------------------------------------------------------------
(* Cancellation.                                                           *)

\* request_interrupt: cancel() of the session's turn; it is raised where the
\* task waits, when the loop comes to it.
Interrupt(s) ==
    /\ program = "up" /\ troubles < MaxTroubles
    /\ active[s] # Nothing
    /\ troubles' = troubles + 1
    /\ cut' = cut \union {active[s]}
    /\ UNCHANGED <<life, inbox, at, lock, mine, line, active, row, transcript,
                    delivery, pushing, notice, pushes>>

\* Cancelled while it waits for the session's lock.
DropWaiting(m) ==
    /\ at[m] = "waiting" /\ m \in cut
    /\ EndTask(m, "lost")
    /\ lane' = CompleteInbound(lane, m)
    /\ UNCHANGED <<life, inbox, row, transcript, posted, notice, going, shown, bounds>>

\* A mutant: any question and answer at the end are taken for m's.
AnyPairIsSaved(m) ==
    LET said == transcript[SessionOf[m]] IN
    Len(said) >= 2 /\ said[Len(said) - 1].role = "user"

\* The last two messages are m's question, known by its time, and an answer.
PairIsSaved(m) ==
    LET said == transcript[SessionOf[m]] IN
    Len(said) >= 2 /\ said[Len(said) - 1] = Says("user", m)

\* Cancelled in its turn: the pipeline reports it interrupted and passes the
\* cancellation on to _persist_interrupted_turn, and the task ends.
Persist(m) ==
    /\ at[m] \in InTurn /\ m \in cut
    /\ transcript' = IF m \in Background \/ PairIsSaved(m) THEN transcript
                     ELSE [transcript EXCEPT ![SessionOf[m]] =
                             @ \o <<Says("user", m), Says("marker", m)>>]
    /\ EndTask(m, "interrupted") /\ Unlock(m)
    /\ lane' = CompleteInbound(Released(m), m)
    /\ UNCHANGED <<life, inbox, posted, notice, going, shown, bounds>>

------------------------------------------------------------------------------
(* The sends of a chat (dispatch_outbound, run_passive).                   *)

\* A mutant: envelopes are sent as their tasks come.
AnyTurn(e) == ~lane[e.chat].sending

MaySend(e) == ~lane[e.chat].sending /\ e.ticket = lane[e.chat].serving

SendStarts(e) ==
    /\ e \in posted /\ MaySend(e)
    /\ lane' = [lane EXCEPT ![e.chat].sending = TRUE]
    /\ going' = going \union {e}
    /\ UNCHANGED <<life, inbox, tasks, row, transcript, posted, pushing, notice,
                    shown, bounds>>

\* The channel's subscribers succeeded or one of them raised.  A notice's
\* sender is told which (publish_outbound_and_wait).
SendEnds(e, ok) ==
    /\ e \in going
    /\ going' = going \ {e} /\ posted' = posted \ {e}
    /\ lane' = [lane EXCEPT ![e.chat] = Sent(@)]
    /\ shown' = IF ok /\ e.what \in Messages
                THEN [shown EXCEPT ![e.chat] = Append(@, e.what)] ELSE shown
    /\ notice' = [n \in Notices |-> IF n # e.what THEN notice[n]
                                    ELSE IF ok THEN "delivered" ELSE "dropped"]
    /\ UNCHANGED <<life, inbox, tasks, row, transcript, pushing, bounds>>

------------------------------------------------------------------------------
(* A notice of the proactive loop, which works on one at a time.           *)

\* The gate of a tick: nothing is said to a session that is busy.
NoticeBegins(n) ==
    /\ program = "up" /\ notice[n] = "new" /\ ~Busy(SessionOf[n])
    /\ \A o \in Notices : notice[o] \notin {"judging", "posted", "delivered"}
    /\ notice' = [notice EXCEPT ![n] = "judging"]
    /\ UNCHANGED <<life, inbox, tasks, row, transcript, delivery, pushing, bounds>>

NoticePosts(n) ==
    /\ notice[n] = "judging"
    /\ notice' = [notice EXCEPT ![n] = "posted"]
    /\ Post(ChatOf[SessionOf[n]], n)
    /\ UNCHANGED <<life, inbox, tasks, row, transcript, pushing, going, shown, bounds>>

\* _record_proactive_message, when the channel has it.
NoticeRecords(n) ==
    /\ notice[n] = "delivered"
    /\ notice' = [notice EXCEPT ![n] = "recorded"]
    /\ transcript' = [transcript EXCEPT ![SessionOf[n]] =
                         Append(@, Says("assistant", n))]
    /\ UNCHANGED <<life, inbox, tasks, row, delivery, pushing, bounds>>

------------------------------------------------------------------------------
(* The process.                                                            *)

\* CoreRuntime.stop_background: AgentLoop.shutdown cancels the tasks there are
\* and waits for those only.
Stop ==
    LET pending == {m \in Messages : at[m] \in Live} IN
    /\ program = "up" /\ troubles < MaxTroubles
    /\ program' = "stopping" /\ troubles' = troubles + 1
    /\ cut' = cut \union pending /\ awaited' = pending
    /\ UNCHANGED <<reading, inbox, at, lock, mine, line, active, row, transcript,
                    delivery, pushing, notice, pushes>>

\* What was in memory is gone; sessions.db and what the chats show stay.
Vanish ==
    /\ program' = "down" /\ reading' = FALSE /\ awaited' = {}
    /\ inbox' = <<>>
    /\ at' = [m \in Messages |-> IF at[m] \in Live \union {"inbox"} THEN "lost"
                                 ELSE at[m]]
    /\ cut' = {} /\ line' = <<>>
    /\ lock' = [s \in Sessions |-> Nothing] /\ mine' = [m \in Messages |-> Nothing]
    /\ active' = [s \in Sessions |-> Nothing]
    /\ lane' = [c \in Chats |-> FreshLane] /\ posted' = {} /\ going' = {}
    /\ pushing' = [m \in Messages |-> Nothing]
    /\ notice' = [n \in Notices |->
                    IF notice[n] \in {"new", "recorded"} THEN notice[n] ELSE "dropped"]
    /\ UNCHANGED <<row, transcript, shown, pushes>>

\* The rest of stop_background, which waits for the outbound queue at most ten
\* seconds and closes sessions.db before a late task is cancelled: such a task
\* can neither save nor release.
ProgramExits ==
    /\ program = "stopping" /\ \A m \in awaited : at[m] \notin Live
    /\ Vanish /\ UNCHANGED troubles

ProgramCrashes ==
    /\ program # "down" /\ troubles < MaxTroubles /\ troubles' = troubles + 1
    /\ Vanish

\* The next process: nothing of sessions.db is cleaned up.
Restart ==
    /\ program = "down" /\ program' = "up" /\ reading' = TRUE
    /\ UNCHANGED <<awaited, inbox, tasks, row, transcript, delivery, pushing,
                    notice, bounds>>

------------------------------------------------------------------------------
\* What a task does of itself: all but the calls a model may or may not make.
TaskStep(m) ==
    \/ Acquire(m) \/ PushStarts(m) \/ PushEnds(m)
    \/ Commit(m) \/ Answer(m) \/ Finish(m) \/ FailTurn(m)
    \/ DropWaiting(m) \/ Persist(m)

Sending(e) == SendStarts(e) \/ \E ok \in BOOLEAN : SendEnds(e, ok)

TurnsNext ==
    \/ \E m \in Messages : Publish(m) \/ TaskStep(m) \/ \E c \in Chats : Push(m, c)
    \/ Consume \/ StopReading
    \/ \E s \in Sessions : Interrupt(s)
    \/ \E e \in posted : Sending(e)
    \/ \E n \in Notices : NoticeBegins(n) \/ NoticePosts(n) \/ NoticeRecords(n)
    \/ Stop \/ ProgramExits \/ ProgramCrashes \/ Restart

TurnsSpec == TurnsInit /\ [][TurnsNext]_turnsVars

\* The loop runs what is ready.  Models and tools answer or time out
\* (RuntimeConfig.model_timeout_seconds, ToolExecutor.timeout_seconds), so the
\* task of a turn gets on; a stopping process comes to its end.
TurnsFairness ==
    /\ WF_turnsVars(Consume) /\ WF_turnsVars(StopReading) /\ WF_turnsVars(ProgramExits)
    /\ \A m \in Messages : WF_turnsVars(TaskStep(m))

FairTurnsSpec == TurnsSpec /\ TurnsFairness

------------------------------------------------------------------------------
(* Properties.                                                             *)

\* A message waits for a turn of its session that goes on in this process, and
\* is never refused because of it, although the entry of the session's lock
\* comes and goes with its tasks (_process_item, acquire_admission).
TurnsWaitForEachOther ==
    [][\A m \in Messages :
          at'[m] \in {"running", "refused"} /\ at[m] \in {"inbox", "waiting"} =>
             \A o \in Messages \ {m} :
                SessionOf[o] = SessionOf[m] => at[o] \notin InTurn]_turnsVars

\* The lane counts the messages and envelopes that are on their way, so a push
\* never waits for one that is not (complete_inbound on every way out).
LaneCountsAreExact ==
    \A c \in Chats :
        /\ lane[c].turns = Cardinality({m \in Messages :
               Home(m) = c /\ at[m] \in Live \union {"inbox"}})
        /\ lane[c].sends = Cardinality({e \in posted : e.chat = c})

\* The ticket whose turn it is belongs to a push that is there, or to nobody
\* yet, although pushes give up in any order (_skip_cancelled_non_passive).
PushesAreNotStuck ==
    \A c \in Chats :
        \/ lane[c].servingPush = lane[c].nextPush
        \/ \E m \in Messages :
               pushing[m] = [chat |-> c, ticket |-> lane[c].servingPush]

\* A chat shows the answers of a session in the order they were saved in.
AnswersAreShownInOrder ==
    \A s \in Sessions :
        LET said == transcript[s]
            seen == shown[ChatOf[s]] IN
        \A i, j \in DOMAIN seen :
            i < j /\ SessionOf[seen[i]] = s /\ SessionOf[seen[j]] = s =>
                \E k, l \in DOMAIN said :
                    /\ k < l
                    /\ said[k] = Says("assistant", seen[i])
                    /\ said[l] = Says("assistant", seen[j])

\* A turn that was interrupted leaves its question in the session
\* (_persist_interrupted_turn).
InterruptedTurnsAreKept ==
    \A m \in Messages \ Background : at[m] = "interrupted" =>
        \E i \in DOMAIN transcript[SessionOf[m]] :
            transcript[SessionOf[m]][i] = Says("user", m)

\* A message that was published comes to an end, also when its turn pushes to
\* its own chat, whose lane waits for the turn (ToolExecutor's timeout).
EveryTurnEnds ==
    \A m \in Messages : at[m] = "inbox" ~> at[m] \in Ended

------------------------------------------------------------------------------
(* What the code says and does not keep.                                   *)

\* session/manager.py:775: a turn is refused because "another process" has the
\* session: whose turn it is lives.
RefusedOnlyWhenTaken ==
    [][\A m \in Messages : at[m] # "refused" /\ at'[m] = "refused" =>
          at[row[SessionOf[m]]] \in InTurn]_turnsVars
==============================================================================
