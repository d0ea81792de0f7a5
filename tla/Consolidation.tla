---- MODULE Consolidation ----
(***************************************************************************)
(* How the local program turns a session into long term memory: the        *)
(* cursor last_consolidated that splits a session into what the prompt     *)
(* still shows and what was extracted, the maintenance queue of a session  *)
(* and its lock (core/memory/markdown.py), the guard of a turn and the     *)
(* compact tool (agent/core/runtime.py, agent/tools/builtins.py),          *)
(* thread/consolidate/start (bootstrap/app.py), PENDING.md with its index  *)
(* (core/memory/store.py) and sessions.db (session/manager.py).            *)
(*                                                                         *)
(* One event loop runs the callers; the appends to PENDING.md and          *)
(* save_async run in threads beside it, and go on when the call that       *)
(* waited for them is cancelled: the job of "orphan" is such a thread.     *)
(***************************************************************************)
EXTENDS Integers, Sequences, SequencesExt, FiniteSets

CONSTANTS
    SessionKeys,
    Callers,      \* who may consolidate: some of "queue", "turn" and "control"
    Keep,         \* keep_count: messages the queue leaves to the prompt
    MinNew,       \* _consolidation_min_new_messages
    Threshold,    \* messages at which a turn insists on a consolidation
    TailSources,  \* sources in the last _CONSOLIDATION_TAIL_BYTES of PENDING.md
    MaxIds,       \* bound: messages of all sessions
    MaxFailures,  \* bound: crashes and errors of files and the index
    Nobody

ASSUME ConsolidationConstants ==
    /\ Callers \subseteq {"queue", "turn", "control"}
    /\ Keep \in Nat /\ MinNew \in Nat \ {0} /\ Threshold \in Nat \ {0}
    /\ TailSources \in Nat \ {0}
    /\ MaxIds \in Nat /\ MaxFailures \in Nat
    /\ Nobody \notin Callers

VARIABLES
    log,      \* Session.messages of the cached session, by their ids
    cursor,   \* Session.last_consolidated
    stored,   \* what sessions.db has of both
    fresh,    \* ids given so far
    turn,     \* the turn of a session
    queue,    \* turns committed that _maintenance_queues holds
    entry,    \* "none", or the state of the task in _maintenance_tasks
    held,     \* who has the maintenance lock of a session
    job,      \* the consolidation each caller is in
    pending,  \* PENDING.md: the sources whose markers it has, in order
    torn,     \* those of them that a failed write left without all their facts
    index,    \* consolidation_writes: the sources it has
    archived, \* messages that a draft was made of and committed
    noted,    \* sources of the drafts with facts that were committed
    dropped,  \* messages that a save took out of each session
    failures

memoryVars == <<log, cursor, stored, fresh, turn, queue, entry, held, job,
                pending, torn, index, archived, noted, dropped, failures>>

------------------------------------------------------------------------------
(* Windows and records.                                                    *)

IdleJob == [at |-> "idle", ids |-> <<>>, upto |-> 0, before |-> 0,
            copy |-> <<>>]

Job(s, c, stage) == [job EXCEPT ![s][c].at = stage]

\* The same, when what the job had read is of no more use.
Late(s, c, stage) ==
    [job EXCEPT ![s][c] = [IdleJob EXCEPT !.at = stage, !.before = job[s][c].before]]

\* The same, when nothing it has read matters to what follows.
Anew(s, c, stage) == [job EXCEPT ![s][c] = [IdleJob EXCEPT !.at = stage]]

\* A thread whose call is gone: the window's end and the cursor are the call's.
ThreadOf(call) == [call EXCEPT !.upto = 0, !.before = 0]

NoJob(s, c) == [job EXCEPT ![s][c] = IdleJob]

Workers == Callers \union {"orphan"}

\* The end of the window of _select_consolidation_window.
Until(s, force) == Len(log[s]) - (IF force THEN 0 ELSE Keep)

HasWindow(s, force) ==
    /\ Until(s, force) > cursor[s]
    /\ force \/ Until(s, force) - cursor[s] >= MinNew

\* The messages between the cursor and the end; their ids are the source_ref.
Window(s, force) == SubSeq(log[s], cursor[s] + 1, Until(s, force))

Unconsolidated(s) ==
    Len(log[s]) - (IF cursor[s] < Len(log[s]) THEN cursor[s] ELSE Len(log[s]))

\* _save_sqlite_append_only: what is stored must begin what is saved.
MaySave(s) == IsPrefix(stored[s].log, log[s])

Image(s) == [log |-> log[s], cursor |-> cursor[s]]

\* A session in the synchronous part of its turn keeps the event loop.
LoopFree == \A s \in SessionKeys : turn[s] \notin {"saving", "silent", "stopping"}

\* A mutant: nobody waits for the lock.
NoLock(s) == TRUE

MaintenanceLockFree(s) == held[s] = Nobody

Release(s) == held' = [held EXCEPT ![s] = Nobody]

------------------------------------------------------------------------------
MemoryInit ==
    /\ log = [s \in SessionKeys |-> <<>>]
    /\ cursor = [s \in SessionKeys |-> 0]
    /\ stored = [s \in SessionKeys |-> [log |-> <<>>, cursor |-> 0]]
    /\ fresh = 0
    /\ turn = [s \in SessionKeys |-> "idle"]
    /\ queue = [s \in SessionKeys |-> 0]
    /\ entry = [s \in SessionKeys |-> "none"]
    /\ held = [s \in SessionKeys |-> Nobody]
    /\ job = [s \in SessionKeys |-> [c \in Workers |-> IdleJob]]
    /\ pending = <<>> /\ torn = {} /\ index = {}
    /\ archived = {} /\ noted = {}
    /\ dropped = [s \in SessionKeys |-> {}]
    /\ failures = 0

notes == <<pending, torn, index>>
Failure == failures < MaxFailures /\ failures' = failures + 1

files == <<notes, archived, noted, dropped>>
messages == <<log, cursor, stored, fresh>>
maintenance == <<queue, entry>>

------------------------------------------------------------------------------
(* A turn.                                                                 *)

TurnBegins(s) ==
    /\ LoopFree /\ turn[s] = "idle" /\ fresh < MaxIds
    /\ turn' = [turn EXCEPT ![s] = "waiting"]
    /\ UNCHANGED <<messages, maintenance, held, job, files, failures>>

\* wait_for_session keeps the turn while a task of the session is at work, but
\* not longer than its timeout, so the turn may go on at any time.  Then
\* _guard_memory_context lets it pass or asks for a consolidation.
Guard(s) ==
    /\ LoopFree /\ turn[s] = "waiting"
    /\ \/ /\ Unconsolidated(s) < Threshold
          /\ turn' = [turn EXCEPT ![s] = "running"]
          /\ UNCHANGED job
       \/ /\ Unconsolidated(s) >= Threshold
          /\ "turn" \in Callers
          /\ turn' = [turn EXCEPT ![s] = "guarding"]
          /\ job' = [job EXCEPT ![s]["turn"] =
                       [IdleJob EXCEPT !.at = "lock", !.before = cursor[s]]]
    /\ UNCHANGED <<messages, maintenance, held, files, failures>>

\* What becomes of the turn when its consolidation is over: the guard stops it
\* when the cursor is where it was.
AfterGuard(s, advanced) ==
    [turn EXCEPT ![s] = IF @ # "guarding" THEN @
                        ELSE IF advanced THEN "running" ELSE "idle"]

InCall(s) == "turn" \in Callers /\ job[s]["turn"] # IdleJob

\* The model calls the compact tool.
Compact(s) ==
    /\ LoopFree /\ turn[s] = "running" /\ "turn" \in Callers
    /\ job[s]["turn"] = IdleJob
    /\ job' = [job EXCEPT ![s]["turn"] =
                 [IdleJob EXCEPT !.at = "lock", !.before = cursor[s]]]
    /\ UNCHANGED <<messages, turn, maintenance, held, files, failures>>

\* add_message of the user's and the assistant's message.  A background turn
\* leaves the user's out (omit_user_turn).
TurnAdds(s, how) ==
    /\ LoopFree /\ turn[s] = "running" /\ ~InCall(s)
    /\ LET size == IF how = "silent" THEN 1 ELSE 2 IN
       /\ fresh + size <= MaxIds
       /\ fresh' = fresh + size
       /\ log' = [log EXCEPT ![s] = @ \o [i \in 1 .. size |-> fresh + i]]
    /\ turn' = [turn EXCEPT ![s] = how]
    /\ UNCHANGED <<cursor, stored, maintenance, held, job, files, failures>>

\* The call of a turn is cancelled: its lock is free, and a thread it had
\* started goes on alone; one that had not begun may be called off.
ThreadAtWork(s) == job[s]["turn"].at \in {"written", "copied", "txn"}
ThreadAsked(s) == job[s]["turn"].at \in {"append", "save"}

AbandonCall(s) ==
    /\ held' = [held EXCEPT ![s] = IF @ = "turn" THEN Nobody ELSE @]
    /\ \/ /\ ThreadAtWork(s) \/ ThreadAsked(s)
          /\ job[s]["orphan"] = IdleJob
          /\ job' = [job EXCEPT ![s]["orphan"] = ThreadOf(job[s]["turn"]),
                                ![s]["turn"] = IdleJob]
       \/ /\ ~ThreadAtWork(s)
          /\ job' = NoJob(s, "turn")

\* The tool's timeout ends the call of compact, and the turn goes on.
CallTimesOut(s) ==
    /\ LoopFree /\ turn[s] = "running" /\ InCall(s)
    /\ AbandonCall(s)
    /\ UNCHANGED <<messages, turn, maintenance, files, failures>>

\* A turn is cancelled: the session keeps the question with a partial answer
\* (_persist_interrupted_turn), except a background turn's.
CancelTurn(s) ==
    /\ LoopFree /\ turn[s] \in {"waiting", "guarding", "running"}
    /\ IF InCall(s) THEN AbandonCall(s) ELSE UNCHANGED <<job, held>>
    /\ \/ /\ fresh + 2 <= MaxIds
          /\ fresh' = fresh + 2
          /\ log' = [log EXCEPT ![s] = @ \o <<fresh + 1, fresh + 2>>]
          /\ turn' = [turn EXCEPT ![s] = "stopping"]
       \/ /\ turn' = [turn EXCEPT ![s] = "idle"]
          /\ UNCHANGED <<fresh, log>>
    /\ UNCHANGED <<cursor, stored, maintenance, files, failures>>

\* save, and for a turn that was not interrupted TurnCommitted, which puts it
\* into the queue: the event says nothing of skip_post_memory.  A save that is
\* refused ends the turn with its error.
TurnSaves(s) ==
    /\ turn[s] \in {"saving", "silent", "stopping"}
    /\ turn' = [turn EXCEPT ![s] = "idle"]
    /\ stored' = IF MaySave(s) THEN [stored EXCEPT ![s] = Image(s)] ELSE stored
    /\ IF turn[s] # "stopping" /\ MaySave(s) /\ "queue" \in Callers
       THEN /\ queue' = [queue EXCEPT ![s] = @ + 1]
            /\ entry' = [entry EXCEPT ![s] = IF @ = "none" THEN "live" ELSE @]
            /\ job' = IF entry[s] = "none" THEN Job(s, "queue", "lock") ELSE job
       ELSE UNCHANGED <<queue, entry, job>>
    /\ UNCHANGED <<log, cursor, fresh, held, files, failures>>

------------------------------------------------------------------------------
(* The maintenance task of a session.                                      *)

\* The task ends, with its queue empty or by an error; its entry stays until
\* the callback runs.
TaskEnds(s) ==
    /\ job' = NoJob(s, "queue")
    /\ entry' = [entry EXCEPT ![s] = "done"]
    /\ Release(s)

\* The task takes the next event: it consolidates when there is enough, and
\* otherwise refreshes the recent turns in RECENT_CONTEXT.md, which may raise.
TakeEvent(s) ==
    /\ LoopFree /\ job[s]["queue"].at = "next" /\ queue[s] > 0
    /\ queue' = [queue EXCEPT ![s] = @ - 1]
    /\ \/ /\ HasWindow(s, FALSE)
          /\ job' = [job EXCEPT ![s]["queue"] =
                       [IdleJob EXCEPT !.at = "model", !.upto = Until(s, FALSE),
                                       !.ids = Window(s, FALSE)]]
          /\ UNCHANGED <<entry, held>>
       \/ ~HasWindow(s, FALSE) /\ UNCHANGED <<job, entry, held>>
       \/ ~HasWindow(s, FALSE) /\ TaskEnds(s)
    /\ UNCHANGED <<messages, turn, files, failures>>

QueueEmpty(s) ==
    /\ LoopFree /\ job[s]["queue"].at = "next" /\ queue[s] = 0
    /\ TaskEnds(s)
    /\ UNCHANGED <<messages, turn, queue, files, failures>>

\* A mutant: the callback only forgets the task.
NoRelaunch(s) == FALSE

\* _on_maintenance_done: what came in between gets a task of its own.
Relaunch(s) == queue[s] > 0

DoneCallback(s) ==
    /\ LoopFree /\ entry[s] = "done"
    /\ entry' = [entry EXCEPT ![s] = IF Relaunch(s) THEN "live" ELSE "none"]
    /\ job' = IF Relaunch(s) THEN Job(s, "queue", "lock") ELSE job
    /\ UNCHANGED <<messages, turn, queue, held, files, failures>>

------------------------------------------------------------------------------
(* A consolidation, for any of its callers.                                *)

\* thread/consolidate/start
ControlAsks(s) ==
    /\ LoopFree /\ "control" \in Callers /\ job[s]["control"] = IdleJob
    /\ job' = [job EXCEPT ![s]["control"] =
                 [IdleJob EXCEPT !.at = "lock", !.before = cursor[s]]]
    /\ UNCHANGED <<messages, turn, maintenance, held, files, failures>>

\* consolidate returns to its caller, or raises.  The task goes on with its
\* next event, after a save when there was a draft; the others have left the
\* lock, and save when the cursor advanced.
Returns(s, c, drafted, raised) ==
    \/ /\ c = "queue" /\ raised
       /\ TaskEnds(s)
       /\ UNCHANGED turn
    \/ /\ c = "queue" /\ ~raised
       /\ job' = Anew(s, c, IF drafted THEN "save" ELSE "next")
       /\ UNCHANGED <<turn, entry, held>>
    \/ /\ c # "queue" /\ ~raised /\ cursor[s] > job[s][c].before
       /\ job' = Anew(s, c, "save")
       /\ Release(s)
       /\ UNCHANGED <<turn, entry>>
    \/ /\ c # "queue" /\ (raised \/ cursor[s] <= job[s][c].before)
       /\ job' = NoJob(s, c)
       /\ turn' = IF c = "turn"
                  THEN AfterGuard(s, cursor[s] > job[s][c].before) ELSE turn
       /\ Release(s)
       /\ UNCHANGED entry

\* The lock is taken; a forced consolidation takes what there is.
Locked(s, c) ==
    /\ LoopFree /\ job[s][c].at = "lock" /\ MaintenanceLockFree(s)
    /\ \/ /\ c = "queue"
          /\ job' = Job(s, c, "next")
          /\ held' = [held EXCEPT ![s] = c]
          /\ UNCHANGED <<turn, entry>>
       \/ /\ c # "queue" /\ HasWindow(s, TRUE)
          /\ job' = [job EXCEPT ![s][c].at = "model",
                                ![s][c].upto = Until(s, TRUE),
                                ![s][c].ids = Window(s, TRUE)]
          /\ held' = [held EXCEPT ![s] = c]
          /\ UNCHANGED <<turn, entry>>
       \/ /\ c # "queue" /\ ~HasWindow(s, TRUE)
          /\ Returns(s, c, FALSE, FALSE)
    /\ UNCHANGED <<messages, queue, files, failures>>

\* The models answer: with a draft that has facts to append or none, or not
\* usefully, or not in time.
ModelsAnswer(s, c) ==
    /\ LoopFree /\ job[s][c].at = "model"
    /\ \/ /\ \E stage \in {"append", "draft"} : job' = Job(s, c, stage)
          /\ UNCHANGED <<turn, entry, held>>
       \/ Returns(s, c, FALSE, FALSE)
    /\ UNCHANGED <<messages, queue, files, failures>>

\* append_pending_once, in a thread: the facts are taken to be in PENDING.md
\* when the index has their source, or the end of the file its marker.
Marked(source) == source \in Range(pending)
InTail(source) ==
    \E i \in DOMAIN pending : pending[i] = source /\ i + TailSources > Len(pending)
KnownSource(source) == source \in index \/ InTail(source)

AppendLockFree ==
    \A s \in SessionKeys, c \in Workers : job[s][c].at # "written"

\* The thread is done: its call goes on, when there is one.
Appended(s, c) == IF c = "orphan" THEN NoJob(s, c) ELSE Job(s, c, "filed")

Write(source) == pending' = Append(pending, source)

\* File first, then index.  Facts that the index has and the file has not are
\* written again; only somebody who edits the file brings that about.
AppendFacts(s, c) ==
    /\ job[s][c].at = "append" /\ AppendLockFree
    /\ LET source == job[s][c].ids IN
       \/ /\ KnownSource(source)
          /\ index' = index \union {source}
          /\ IF Marked(source) THEN UNCHANGED <<pending, torn>>
             ELSE Write(source) /\ torn' = torn \ {source}
          /\ job' = Appended(s, c)
       \/ /\ ~KnownSource(source)
          /\ Write(source) /\ torn' = torn \ {source}
          /\ job' = Job(s, c, "written")
          /\ UNCHANGED index
    /\ UNCHANGED <<messages, turn, maintenance, held, archived, noted,
                   dropped, failures>>

IndexFacts(s, c) ==
    /\ job[s][c].at = "written"
    /\ index' = index \union {job[s][c].ids}
    /\ job' = Appended(s, c)
    /\ UNCHANGED <<messages, turn, maintenance, held, pending, torn, archived,
                   noted, dropped, failures>>

\* A mutant: the call goes on after an error.
Carries(s, c) ==
    \/ c = "orphan" /\ job' = NoJob(s, c) /\ UNCHANGED <<turn, entry, held>>
    \/ c # "orphan" /\ job' = Job(s, c, "filed") /\ UNCHANGED <<turn, entry, held>>

\* An error ends the thread, and its call when there is one.
Raises(s, c) ==
    \/ c = "orphan" /\ job' = NoJob(s, c) /\ UNCHANGED <<turn, entry, held>>
    \/ c # "orphan" /\ LoopFree /\ Returns(s, c, FALSE, TRUE)

\* The marker is looked for in a tail that begins within a character, the file
\* cannot be written, the transaction of the index fails and is rolled back,
\* or RECENT_CONTEXT.md cannot be written.
DraftFails(s, c) ==
    /\ job[s][c].at \in {"append", "written", "draft", "filed"}
    /\ Failure
    /\ Raises(s, c)
    /\ UNCHANGED <<messages, queue, files>>

\* The write stops behind the marker, as on a full disk.
WriteStops(s, c) ==
    /\ job[s][c].at = "append" /\ AppendLockFree
    /\ LET source == job[s][c].ids IN
       /\ ~KnownSource(source)
       /\ Write(source) /\ torn' = torn \union {source}
    /\ Failure
    /\ Raises(s, c)
    /\ UNCHANGED <<messages, queue, index, archived, noted, dropped>>

\* A mutant: the cursor goes to the end of the session as it is by now.
CursorAtEnd(s, c) == Len(log[s]) - (IF c = "queue" THEN Keep ELSE 0)

\* _commit_markdown_draft: the context with its new compression, then the
\* cursor, to the end of the window that was read.
CursorAfter(s, c) == job[s][c].upto

CommitDraft(s, c) ==
    /\ LoopFree /\ job[s][c].at \in {"draft", "filed"}
    /\ cursor' = [cursor EXCEPT ![s] = CursorAfter(s, c)]
    /\ archived' = archived \union Range(job[s][c].ids)
    /\ noted' = IF job[s][c].at = "filed" THEN noted \union {job[s][c].ids} ELSE noted
    /\ job' = Late(s, c, "emit")
    /\ UNCHANGED <<log, stored, fresh, turn, maintenance, held, notes, dropped,
                   failures>>

\* The handlers of ConsolidationCommitted, whose errors emit passes on.
Emit(s, c) ==
    /\ LoopFree /\ job[s][c].at = "emit"
    /\ \E raised \in BOOLEAN : Returns(s, c, TRUE, raised)
    /\ UNCHANGED <<messages, queue, files, failures>>

------------------------------------------------------------------------------
(* save_async: a thread copies the messages, puts the copy in their place  *)
(* and writes what is new of them.                                         *)

SaveCopies(s, c) ==
    /\ job[s][c].at = "save"
    /\ job' = [job EXCEPT ![s][c].at = "copied", ![s][c].copy = log[s]]
    /\ UNCHANGED <<messages, turn, maintenance, held, files, failures>>

SaveAssigns(s, c) ==
    /\ job[s][c].at = "copied"
    /\ log' = [log EXCEPT ![s] = job[s][c].copy]
    /\ job' = Late(s, c, "txn")
    /\ dropped' = [dropped EXCEPT ![s] =
                     @ \union (Range(log[s]) \ Range(job[s][c].copy))]
    /\ UNCHANGED <<cursor, stored, fresh, turn, maintenance, held, notes,
                   archived, noted, failures>>

\* The transaction, and the return to the caller with its outcome.  A save
\* that is refused ends the task, and fails the turn at its guard.
SaveCommits(s, c) ==
    /\ job[s][c].at = "txn"
    /\ \/ /\ MaySave(s)
          /\ stored' = [stored EXCEPT ![s] = Image(s)]
          /\ job' = IF c = "queue" THEN Job(s, c, "next") ELSE NoJob(s, c)
          /\ turn' = IF c = "turn" THEN AfterGuard(s, TRUE) ELSE turn
          /\ UNCHANGED <<entry, held>>
       \/ /\ ~MaySave(s) /\ c = "queue"
          /\ TaskEnds(s)
          /\ UNCHANGED <<stored, turn>>
       \/ /\ ~MaySave(s) /\ c # "queue"
          /\ job' = NoJob(s, c)
          /\ turn' = IF c = "turn" THEN AfterGuard(s, FALSE) ELSE turn
          /\ UNCHANGED <<stored, entry, held>>
    /\ UNCHANGED <<log, cursor, fresh, queue, files, failures>>

------------------------------------------------------------------------------
\* Only files and sessions.db survive; get_or_create loads the session again.
ProgramDies ==
    /\ Failure
    /\ log' = [s \in SessionKeys |-> stored[s].log]
    /\ cursor' = [s \in SessionKeys |-> stored[s].cursor]
    /\ turn' = [s \in SessionKeys |-> "idle"]
    /\ queue' = [s \in SessionKeys |-> 0]
    /\ entry' = [s \in SessionKeys |-> "none"]
    /\ held' = [s \in SessionKeys |-> Nobody]
    /\ job' = [s \in SessionKeys |-> [c \in Workers |-> IdleJob]]
    /\ UNCHANGED <<stored, fresh, files>>

TurnStep(s) ==
    \/ TurnBegins(s) \/ Guard(s) \/ Compact(s) \/ CallTimesOut(s) \/ TurnSaves(s)
    \/ \E how \in {"saving", "silent"} : TurnAdds(s, how)

MaintenanceStep(s) ==
    TakeEvent(s) \/ QueueEmpty(s)

JobStep(s, c) ==
    \/ Locked(s, c) \/ ModelsAnswer(s, c)
    \/ AppendFacts(s, c) \/ IndexFacts(s, c) \/ CommitDraft(s, c) \/ Emit(s, c)
    \/ DraftFails(s, c) \/ WriteStops(s, c)
    \/ SaveCopies(s, c) \/ SaveAssigns(s, c) \/ SaveCommits(s, c)

MemoryNext ==
    \/ \E s \in SessionKeys :
          \/ TurnStep(s) \/ CancelTurn(s) \/ ControlAsks(s) \/ DoneCallback(s)
          \/ "queue" \in Callers /\ MaintenanceStep(s)
          \/ \E c \in Workers : JobStep(s, c)
    \/ ProgramDies

MemorySpec == MemoryInit /\ [][MemoryNext]_memoryVars

------------------------------------------------------------------------------
(* Properties.                                                             *)

\* A message that the prompt no longer shows was read by a consolidation that
\* committed: the saved cursor never passes one that was not, whoever moved it
\* and whatever was appended while the models worked; unless a save of a stale
\* copy had taken messages out of the session (SavesAreAppends), which leaves
\* its cursor where it was and so before messages that come later.
NothingIsForgotten ==
    \A s \in SessionKeys : dropped[s] = {} =>
        /\ stored[s].cursor <= Len(stored[s].log)
        /\ \A i \in 1 .. stored[s].cursor : stored[s].log[i] \in archived

\* The facts that a committed draft had found are in PENDING.md, whoever wrote
\* them: the call itself, the thread of a call that was cancelled, or an earlier
\* attempt that failed or died before its index or its cursor.  The cursor never
\* passes facts that a failed append left out (append_pending_once), except those
\* whose write stopped behind its marker (MarkersMeanFacts).
FactsAreOnFile == noted \ torn \subseteq Range(pending)

\* No save takes the cursor of a session back, although several callers have
\* read it before they waited for the lock.
CursorNeverRetreats ==
    [][\A s \in SessionKeys : stored'[s].cursor >= stored[s].cursor]_memoryVars

\* Nobody waits for something that nobody will do: a committed turn in the queue
\* has a task, also when it arrives while the task ends or dies of an error;
\* the lock is held by a consolidation that is under way; and a turn at its
\* guard has one of its own (_enqueue_maintenance, _on_maintenance_done).
WaitersAreServed ==
    \A s \in SessionKeys :
        /\ queue[s] > 0 => entry[s] # "none"
        /\ "queue" \in Callers => (entry[s] = "live" <=> job[s]["queue"] # IdleJob)
        /\ held[s] # Nobody => job[s][held[s]] # IdleJob
        /\ turn[s] = "guarding" => InCall(s)

------------------------------------------------------------------------------
(* What the code and its documents say and the code does not keep: none is *)
(* an invariant, and TLC shows how each is broken.                         *)

\* core/memory/store.py:109: appending by source_ref avoids that a restart
\* consolidates again what PENDING.md has.  A window that has grown since has
\* a source of its own, and a marker without index row may have left the tail.
FactsAppendedOnce ==
    \A i, j \in DOMAIN pending : i # j =>
        Range(pending[i]) \intersect Range(pending[j]) = {}

\* core/memory/store.py:286: a marker at the end of the file means that the
\* file was written.  A write that stopped behind its marker leaves one too.
MarkersMeanFacts == index \intersect torn = {}

\* session/manager.py:455, :727: a normal save is append-only, and none is
\* asked to drop what is stored.
SavesAreAppends ==
    \A s \in SessionKeys : turn[s] \in {"saving", "silent"} => MaySave(s)

\* docs/handbook/tools-and-scheduler.md:47: a soft turn of the scheduler keeps
\* out of the memory that is written after a reply.
SoftTurnsLeaveNoMemory ==
    [][\A s \in SessionKeys : turn[s] = "silent" => queue'[s] <= queue[s]]_memoryVars
==============================================================================
