# Kirakira Agent: verification development

This directory is the TLA+ development kept beside the Kirakira sources: modules that model the
concurrent and durable core of the Cloud Agent and of the local program, TLC configurations that check
them on small instances, and TLAPS proofs for every value of the constants. Paths are relative to the
repository root (in `PROJECT.json` they start with `src/`); `store.py` is `cloud/store.py`.

## 1. The system

The repository holds two programs that share an agent core.

**The Cloud Agent** (`cloud/`) is a durable multi-user backend. PostgreSQL holds the truth; processes
share nothing else. An API process admits work in transactions, worker processes claim it
(`FOR UPDATE SKIP LOCKED`), renew a lease while they serve it and settle it; whoever polls next takes
back what a dead worker left. The same claim / lease / heartbeat / settle / recover pattern is written
six times (Runs, scheduled jobs, subagent jobs, automation ticks, channel deliveries, plugin tasks),
each time with other rules about what a stale owner may still do.

**The local program** is one asyncio process for one user (`main.py`, `bootstrap/`): channels put messages
on a bus, a task per message runs a turn under its session's lock, answers go out through a lane per
chat. Plugins are reloaded while turns run (`agent/plugins`), a control plane starts turns over a socket
(`agent/control`), and a turn may ask for a restart of the process by its supervisor
(`agent/restart.py`, `agent/supervisor.py`).

What is hard to get right and to test is where two actors meet: two leases on one row, a turn and a reload,
a restart and the delivery of the answer that asked for it, an interrupt and a commit.

### 1.1 Components that are modelled

| Component | State | Operations | Made correct by | Modules |
|---|---|---|---|---|
| Run lifecycle (`store.py`, `cloud/worker.py`) | `conversations`, `messages`, `runs`, `run_events`; per worker: current Run, where `run_once` is | admit, claim, load, heartbeat, complete, fail, cancel, reap, delete conversation | one running Run per conversation; a stale owner changes nothing; one answer per completed Run; a cancellation wins; every Run settles | `RunLifecycle`, `RunPromise`, `RunLifecycleProofs` |
| Tool checkpoints (`cloud/tool_checkpoints.py`, `agent/tool_hooks`, `agent/core/runtime.py`) | `run_tool_checkpoints`; per execution: slot, arguments before and after the plugins | begin, hooks of plugins, invoke, finish, replay, abort, context retry | at most one side effect per slot; what is replayed is what happened; executions end | `ToolCheckpoint`, `ToolCheckpointProofs` |
| Scheduler (`cloud/scheduler.py`, `store.py`) | `scheduled_jobs`; messages and Runs under a delivery key; per worker: the row as it was claimed | create, cancel, claim with misfires, deliver, finish, postpone, fail, recover | a fire is delivered once and counted once; claims end | `Scheduler`, `SchedulerProofs` |
| Subagents (`cloud/subagents.py`, `store.py`) | `cloud_subagent_jobs`, result messages; per loop and turn: the job in hand | spawn in the background or inline, both claims, heartbeat, cancel, finish, recover | one outcome, one result message; a cancellation wins; every job settles | `Subagents`, `JobPromise`, `SubagentProofs` |
| Automation (`cloud/automation.py`, `cloud/proactive_store.py`, `proactive_v2/loop.py`, `plugins/proactive_flow`) | `agent_automations`, inbox, reservoir, intents, acknowledgements, background messages; row locks of open transactions | ingest, claim, fetch, judge, note intent, append, consume, acknowledge, finish, heartbeat, revoke by user input, change of target | one message per tick and source, only by the owner; leases end; alerts are worked off | `Automation`, `AutomationProofs` |
| Channel gateway (`cloud/channel_gateway.py`, `store.py`) | `channel_deliveries`, `channel_inbound_events`; the poller's offset and batch; per process: loop, delivery in hand | enqueue, claim, send text, send media, finish, unlink; poll, take, look, insert, give up | sent means that its text, up to Telegram's limit, and its files were shown; an event queues one Run; no update is lost by a crash; deliveries end | `ChannelGateway`, `ChannelGatewayProofs` |
| Plugin generations and hot reload (`agent/plugins`, the management tools in `agent/tools/builtins.py`) | the plugin directories and manifest; `reload_journal`; registry of current and retired generations, leases, admission gate, published surfaces; watcher | install, edit, switch, uninstall; lease and release; reconcile (deactivate, activate, build, publish, republish, drain); disable-and-drain; stop, recovery at start | a leased generation is kept; admission is open only on committed surfaces; installs, uninstalls and switches take effect in the end | `PluginReload`, `PluginReloadProofs` |
| Control plane, restart, supervisor (`agent/control`, `infra/control`, `agent/restart.py`, `agent/supervisor.py`, `bootstrap/app.py`) | `control.db` turns; tasks, admission, the pending restart; connections and forwarders; readiness file, commit pipe; supervisor | start, interrupt, end of a turn; stream, deliver, lose a stream; arm, mark, commit, watchdog; serve, stop, exit; spawn, reap, stop signal | a restart cuts off no turn and follows a delivered answer; admission comes back; a stop ends the supervisor | `ControlPlane`, `LocalProofs` |
| Consolidation of the local memory (`core/memory/markdown.py`, `core/memory/store.py`, `agent/core/runtime.py`, `compact` in `agent/tools/builtins.py`, `session/manager.py`) | per session: messages, `last_consolidated`, what `sessions.db` has of both; maintenance queue, task and lock; `PENDING.md` and its index | turn with guard and `compact`, `thread/consolidate/start`, maintenance task with its callback; window, models, append, index, cursor, event, threaded save; interrupt, timeout, crash | the cursor passes only what was extracted and never goes back; the facts of a committed draft are on file; nobody waits for something that nobody will do | `Consolidation`, `LocalProofs` |
| Local turns (`agent/core/runtime.py`, `bus/queue.py`, `session/manager.py`, `message_push` in `agent/tools`, `proactive_v2`) | inbound queue, tasks, session locks, `session_admissions`, transcripts; per chat a lane with two kinds of tickets | publish, consume, enter, push, commit, answer, fail, interrupt, send, notice, shutdown, crash, restart | turns of a session wait for each other; lanes count what is on its way; answers are shown in order; interrupted turns are kept; every turn ends | `LocalTurns`, `LocalProofs` |

### 1.2 How the components interact

- **One conversation, four writers.** Runs, scheduled messages, background ticks and channel messages
  append to one conversation. `RunLifecycle` serializes Runs among themselves. A scheduled instant
  message yields to a passive Run (`busy` in `Scheduler`), a background message yields to it and loses
  its lease to it (`busy` and the revocation in `Automation`), a channel message becomes a Run
  (`Insert` in `ChannelGateway`). Each of these modules has the others as an environment action that
  may happen whenever the code allows it.
- **Hooks.** The checkpoint hook runs in the passive worker and in the executor of subagents.
- **Outbox.** `complete_run`, `deliver_scheduled_job` and `append_automation_message` add delivery rows
  in their own transaction; they are `Enqueue` in `ChannelGateway`.
- **Worker processes.** Five loops share one worker process and one `lease_owner`
  (`cloud/worker_main.py`, a task group): an exception that escapes one loop ends all five. Each
  module with such a loop lets the process go down and be restarted; the gateway's delivery task has no
  task group, so there a loop dies while its process stays up (`"dead"` in `ChannelGateway`).
- **Turns and generations.** Every turn of the local program, and every Proactive tick, holds a lease of the
  generations that were current when it was admitted; `turn` in `PluginReload` is either of them.
- **Three ways into a local turn.** Channels go through the bus (`LocalTurns`), clients through the control
  plane (`ControlPlane`), the Proactive loop speaks beside both (`NoticeBegins` in `LocalTurns`). The first
  two have separate admission (section 5.2).
- **Four consolidators.** The maintenance task, the guard of a turn, the tool `compact` and the control plane move
  one cursor under one lock per session, while turns append to the session and threads go on after their
  callers were cancelled (`Consolidation`).
- **Gateway and supervisor.** The two processes of the local program share a readiness file, a private pipe
  and signals; all three are state of `ControlPlane`.

### 1.3 What is hard here

1. A transaction decides on rows it has not locked: the two claims of one conversation, the deletion
   that counts running Runs, the limits on active jobs, the look-up before the insert of an event.
2. A lease lapses under a live worker, which goes on and reports later; `lease_owner` is the name of a
   process and no fencing token.
3. A process dies between two transactions that belong together: delivery and finish, fence and result,
   append and finish, journal intent and commit, answer and commit frame.
4. The answer of a committed transaction is lost and the caller acts as if it had failed.
5. A cancellation or an interrupt races completion, failure, commit and recovery.
6. Transactions take the same two locks in opposite orders; a push waits for the turn it is called from.
7. Errors in an error handler: `fail_run`, `finish_scheduled_job`, `finish_subagent_job` and
   `finish_channel_delivery` raise for a row that was lost.
8. State compared by value: a revision that comes back is taken for one that was dealt with.
9. Something must end, reopen or be released although nobody is responsible for it any more: leases,
   frozen admission, the publication gate, rows of `session_admissions`.

`PROJECT.json` lists 40 such places with their lines ("hazards") and the properties that watch them.

## 2. Modelling conventions

- In the cloud modules one action is one database transaction, because each takes `FOR UPDATE` on the row
  it changes. Where a transaction reads before it locks, or holds a lock while it waits for another, it is
  two actions with the lock, or the decision taken, visible in the state between them.
- In the modules of the local program one action is what runs between two points where the code may be kept
  waiting (an `await` that can block): one event loop runs everything else without interruption.
- Time is reduced to what the code compares it with: a lease is `"none"`, `"live"` or `"lapsed"`;
  `run_at` is `"early"`, `"due"` or `"late"`; a timeout may come at any moment. A lease under an owner who
  renews it lapses only as a fault; one nobody renews lapses as time passes.
- Faults (crashes, stalls, failed or unheard writes, lost streams) are counted against a bound.
- A deleted row keeps a status `"deleted"`, so that a stale process that comes back for it can be seen.
- Names follow the source. A helper or action whose comment begins with "mutant" or "mutated" is a
  plausible bug in its neighbour; no specification uses it, and `PROJECT.json` names the property that a
  model with it in place violates.
- User ids, texts, scores and telemetry are left out; a text is the event or message it is about.

## 3. The modules

### RunLifecycle, RunPromise
`conversation`, `messages`, `status`, `owner`, `lease`, `attempt`, `cancelRequested` and `events` are
the tables; `pc`, `job` and `turn` are the processes, `turn` the attempt number a worker was handed.
`ClaimSelect` / `ClaimCommit` / `ClaimLose` split `claim_next_run` (store.py:2001) between the choice of a row
under `SKIP LOCKED` and the commit that the partial unique index on running Runs may refuse.
`CheckDelete` / `Delete` split `delete_conversation`. `Heartbeat`, `Complete`, `SettleCancelled`,
`FailOwned`, `FailStale` and `LoseOwnership` are the paths of `run_once` (`cloud/worker.py`), `Reap` is
`requeue_expired_runs`, called by an idle worker. `RunPromise` is what a client may rely on: phases, a
transcript, no leases, no workers. `KeepsPromise` is the refinement: a running Run is `"serving"`, or
`"stopping"` once its cancellation is recorded.

### ToolCheckpoint
One Run; several attempts at it execute concurrently, since a worker that lost its lease may leave its
execution running. A slot is (iteration, call index). `AskTool` is the model's choice and the locked read of
`begin_tool_checkpoint`; `Fence`, `LoseSlot` and `FenceFails` are its insert; `PluginRewrites`,
`PluginStops` and `PluginAborts` are the pre hooks that run behind it; `Invoke` is the moment of the
side effect and `Return` the end of the call, also by timeout; `Finish` is the post hook with the hash of
the final arguments. `RetryContext` starts the loop again from iteration 0.

### Scheduler
`Claim` is the whole of `claim_next_scheduled_job`: leases taken back, misfires on the way to the
first claimable row skipped or missed, that row leased under a token that is minted or, if the fire was
attempted before, kept. `Delivered`, `DeliverUnheard` and `FindBusy` are the delivery with its key
`schedule:<job>:<token>`; `Finish`, `FinishUnheard`, `Postpone` and `Fail` the second transaction, computed
from the row as it was claimed (`seen`); `DieOfLostFire` the exception in the handlers of `run_once`.
`heartbeat_scheduled_job` has no caller and is absent.

### Subagents, JobPromise
A process is a loop and a turn with one `lease_owner`. `CountActive` / `Create` split
`create_subagent_job`; `ClaimInline` and `ClaimNext` are the two claims, and the second also takes jobs an
inline turn is about to claim or abandoned. Only the loop heartbeats, reports failures and writes result
messages; only the turn can abandon its job. `LoseJob` ends a loop's process.
`JobPromise` is what the user may rely on, without leases and processes: a job is accepted, given out and
taken back any number of times, settled once, and spoken of in the step that settles it or never; one
that was asked to stop can only be cancelled; a failure is never silent. `JobsKeepTheirPromise` is the
refinement: a row that waits or runs is `"stopping"` once its cancellation is recorded, a counted one is
still absent.

### Automation
`rowLock`, `convLock` and `targets` are the locks of open transactions, because the append locks the
automation row and then the conversation while user input and `configure_automation` lock them the other
way round. `BreakDeadlock` and `BreakSwitch` are the server's choice of a victim. A tick is
`Claim`, `Fetch`, `Store`, `Judge`, `MarkIntent`, `AppendBegins`, `AppendCommits`, `Consume`,
`FlushAcknowledgements`, `Finish`, each a step of `run_once` with the transactions between it and the
next. `said` holds (delivery key, event). Only alerts are modelled: content adds scores and a cooldown,
Drift appears as a message of its own source.

`enabled` is the row's switch as a whole, `modes` which of Proactive and Drift it has, `change` what an open
`configure_automation` read of its row before it locked anything: `SwitchCommits` writes the columns in which that
differs from the wish, and resets the lease and the token when the target changes. A tick of a row with Drift alone
goes from `Claim` to `"drifting"` and never looks at the inbox (cloud/automation.py:267); `Serves` says whether a row's
ticks do. `cut` holds the alerts whose append was refused behind the intent it had noted (`Cut`): a later tick
consumes them unsaid. `Wishes` are the settings of the switches that users ask for.

### ChannelGateway
Outbound: `Claim`, `SendText`, `SendMedia`, `Finish`; a send may be shown in the chat and still be
answered with an error, and the lease of 60 seconds is never renewed. `Content` says what a delivery
consists of: a text, the tail of it that goes beyond 4096 characters, a file; `Text(d)` is what `_send` offers of
the text, which for Telegram leaves the tail out (channel_gateway.py:422), and `Media(d)` the file. `Provider` is the
chat service. Inbound: `Poll`, `TakeUpdate`,
`Insert`, `HandlingFails` are Telegram's loop with its offset in memory, which a poll confirms to
Telegram; `Post` / `Insert` is an event posted by another chat, perhaps twice at a time.

### PluginReload
A plugin's directory holds a revision (0: not installed); what loads is an instance; a generation is the
revision found on disk with the instance that is loaded, which is how `build_generation` computes it, so
the two may disagree. `Begin` closes the gate and deactivates, `Activate`, `Build` (with `Publish`, the
journal's transaction), `RepublishMcp`, `RepublishServices`, `TakeQuiescible`, `FinishDrain` and `EndReconcile`
are `reconcile_changed` in its order, one step per plugin or generation; `RepublishFails`, `TerminateFails`
and `CancelControl` leave it by `Abort`, with the gate left closed if something is unpublished. `Scan` is
the watcher reading the fingerprint before it waits for the lock, `Wake` the flag the tools set.
`Settled` is what the user's switches and installations have asked for, served by instances that are loaded; it says
nothing of the revision a loaded instance is of, because nothing loads a plugin again that stays (section 5.2).
`DisableAndDrain` / `AwaitDrained` are the control plane's operation. `Stop` and `StopInPublish` end the
process, the latter after any of the journal's phases; `Boot`, `BootRefused` and `BootFails` are `load_all`
with `pending_recovery`.

### ControlPlane
`status` is `control.db`; `task`, `thread`, `cancelled` and `interrupts` the runtime's tables; `admission` the
three fields that decide `turn/start`; `restart` the `RestartCoordinator`. `Arm` is `agent_restart` with
`quiesce_for_restart`; `MarkTerminal`, `MarkDelivered` and `MarkDeliveryFailed` are the evidence that arrives
from the runtime and the forwarder in any order; `Watchdog` runs from the arming. `StartTurn`, `Begin`,
`Complete`, `Fail`, `EndCancelled`, `LoseTerminal` and `InterruptTurn` are a turn; `SendTerminal`,
`WriteFrame`, `NotifyDelivered` and `LoseStream` its last event. `Ready` to `Exit` is `runtime_serve` with
`stop_background`; `Spawn`, `SeeReady`, `Reap`, `StopRequested`, `SignalKills` and `ReadinessTimeout` are the supervisor.
`WaitsForClients` is the one difference between Python versions that matters (section 5.2).

### LocalTurns
`Consume` is one round of `AgentLoop.run` up to where the new task first waits (a task that shutdown cancels before its
first step, and that never runs its `finally`, runtime.py:1624 and 1707, is left out: its process is about to end);
`Enter` the insert of the admission row under the session's lock, or the refusal; `EndTask` with `Unlock` and `CompleteInbound` the
ways out of `_process_item`, with the lock's entry kept as long as another task of the session is alive. A lock is
named by the task that made it, so that two locks of one session could be told apart. `Push`, `PushStarts`
and `PushEnds` are `message_push` in the lane of the chat it names, `SendStarts` / `SendEnds` the passive
sends in ticket order, `SkipCancelled` the tickets of pushes that gave up. `Interrupt` and `Persist` are an
interrupted turn with the duplicate check on the last two messages. `Stop`, `ProgramExits`,
`ProgramCrashes` and `Restart` are the process: nothing of `sessions.db` is cleaned up.

### Consolidation
A message is an id, a window a sequence of ids, which is also its `source_ref`; `archived` remembers what a
committed draft was made of, `noted` the sources of committed drafts that had facts, and `dropped` what a save took out
of each session, for the properties only.
`TurnBegins`, `Guard`, `TurnAdds`, `TurnSaves` and `CancelTurn` are a turn as far as it touches the session; `Guard`
and `Compact` start a job of the caller `"turn"`, `ControlAsks` one of `"control"`, `TakeEvent` one of
`"queue"`, the maintenance task, whose end and callback are `TaskEnds` and `DoneCallback`. A job is `Locked`,
`ModelsAnswer`, `AppendFacts`, `IndexFacts`, `CommitDraft`, `Emit` (`"filed"` is the stage at which the append has
returned), then `SaveCopies`, `SaveAssigns` and
`SaveCommits`: what runs on the loop is kept out while a turn is in its part without an `await`
(`LoopFree`), what runs in a thread is not. `AbandonCall` is a cancelled call: its lock is free, and its
thread goes on as the job of `"orphan"` (one at a time for each session).

`PENDING.md` is the sequence of the sources whose markers it has. Without a row in the index the marker is looked for
only among the last `TailSources` of them (`InTail`, the 1 MiB of store.py:17 counted in sources); with one, facts
that are missing from the file are written again, which happens only when somebody edits the file. `torn` holds the
sources whose write stopped behind the marker (`WriteStops`); `DraftFails` is every other error of the append, of its
index or of `RECENT_CONTEXT.md`, and `Raises` what becomes of the call. The maintenance task also ends when
`refresh_recent_turns` raises (`TakeEvent`).

## 4. The runs

Every passing run explores its whole bounded state space. Deadlock checking is off where the bounds stop
the system (all work done, all faults spent) and on in `scheduler`, whose passive Runs come and go for
ever.

| Run | Configuration | Bounds | Shows |
|---|---|---|---|
| `run` | `RunLifecycle.cfg` | 1 conversation, 2 workers, 3 Runs, 1 fault, 1 cancel request per Run | serialization, fencing, event stream, refinement of `RunPromise` (with the transcript), every Run settles |
| `tool` | `ToolCheckpoint.cfg` | 2 slots, 2 calls, 2 attempts, 1 context retry each, 1 fault | one side effect per slot, recorded results are real, executions end |
| `scheduler` | `Scheduler.cfg` | 2 workers, an instant job due twice, a soft job for ever, 3 tokens per job, 1 fault | one delivery per fire, counter and deliveries agree, claims end |
| `subagents` | `Subagents.cfg` | 2 processes, 2 jobs, capacity 1, 1 fault | one outcome and one result, refinement of `JobPromise` (which a cancellation wins), every job settles |
| `automation` | `Automation.cfg` | 1 conversation, 2 workers, 1 alert, 6 tokens, 2 user transactions (input; rows switched off, to Drift alone or to both), 1 Drift message, 1 fault | one message per tick and source |
| `automation_liveness` | `AutomationLiveness.cfg` | 2 conversations, 1 worker, 1 alert, 2 user transactions (input; rows switched off or to one of the two modes), 1 fault | leases end; an alert is consumed, and said unless it was cut off behind its intent, as long as its target serves alerts |
| `channel` | `ChannelGateway.cfg` | 2 gateways, 1 delivery on Telegram (a text beyond the limit and a file), 2 updates, 1 posted event, 2 requests at a time, 2 attempts, 1 fault | sent was shown but for the tail that Telegram's limit cuts off, one Run per event, nothing dropped unhandled, updates are handled, deliveries end |
| `plugin_reload` | `PluginReload.cfg` | 1 plugin, 1 turn, revisions 1 to 3 of which 2 is rejected and 3 does not load, 2 changes, 2 failures, 1 stop | leased generations are kept, admission only on committed surfaces, installs and switches take effect |
| `control` | `ControlPlane.cfg` | 2 turns, 2 threads, 1 connection, 2 boots, 2 faults, Python 3.11 | owners are current, a committed restart is quiet, relaunch follows delivery, admission comes back, stops are honoured |
| `local` | `LocalTurns.cfg` | 3 messages of one session (one of a child), 2 chats, 1 push to either, 1 notice in the other session, 1 of interrupt, shutdown and crash | turns wait for each other, lanes are exact, no push is stuck, answers in order, interrupted turns kept, every turn ends |
| `memory` | `Consolidation.cfg` | 1 session, 3 messages, all callers, 2 messages kept, windows from 1, guard at 2, a tail of 1 source, 1 crash or error (4.0 million states) | the cursor passes only what was extracted and never goes back, facts of committed drafts are on file, waiters are served |
| `local_crash` | `LocalCrash.cfg` | as above | **violated**: `RefusedOnlyWhenTaken` |

**Why these bounds are enough to be interesting.** Two owners are what it takes for a stale one to meet
a new one, and one fault is what makes an owner stale; every recovery, every lost answer and every death
of a loop is reached with them. Three Runs let one be served, one wait and one be submitted behind a
cancellation. Two slots and two calls give replay, divergence and a rewritten call. Three tokens are
two fires and one more that must not happen. Capacity 1 with two jobs is the smallest limit that concurrent
spawns pass. Two updates separate the one in hand from the one behind it. Two changes are an edit during a
reconcile and a switch there and back; two failures are a failed publish and a failed retry; a leased
generation can be two swaps old. Two turns are the caller of a restart and the turn it must not cut off, two
boots a restart and what comes after it. Three messages are a turn, one that waits for its lock and one that
comes when the first has gone, which is the least at which a lock's entry could be dropped too early. In
`memory`, three messages are a turn that fills a window and a background turn that lengthens it while the
models work, one crash or error repeats a window or leaves its marker behind, and a tail of one source is left by the
marker of the next; sessions share nothing there but the lock of the append. What
larger numbers could add to the safety properties is covered by the proofs, which have one for each.

`automation_liveness` starts with one target at most, or with two that a race of two switches has left behind and
that only drift (`FewTargetsInit`). `automation` uses symmetry over the two workers, for safety only. Tokens that nothing refers to are drawn
again, and six are enough for one to be free whenever a claim draws one, so the bound never holds a
claim back.

**Fairness.** In every cloud module: processes that are down are started again (the service manager), and a
lease that nobody renews runs out (time). Further:
- `RunLifecycle`: a deletion that holds its lock commits; an idle worker polls and reaps; a worker in
  `run_once` gets on, and an execution ends (tools and model calls have timeouts). No fairness for
  clients or for heartbeats.
- `ToolCheckpoint`: an execution that is alive takes some step. Nothing says which, so that the loop ends
  by its slots and contexts, not by assumption. (With `iteration_limit` 0 or less the code sets no limit,
  runtime.py:374, and nothing ends a model that goes on calling tools.)
- `Scheduler`, `Subagents`: workers poll and what they do after a claim goes on. Nobody is assumed to
  cancel, and `Heartbeat` is not fair.
- `Automation`: strong fairness for the commit of a user transaction (a lock that is asked for is granted in
  order although others take it in between) and for the claim of each row (`ORDER BY next_tick_at`
  takes the one that waited longest); Runs settle, which is what `RunLifecycle` shows.
- `ChannelGateway`: the poller polls and handles; a loop delivers. A loop that died is not restarted,
  which is why `DeliveriesEnd` has a second way out: all loops dead.
- `PluginReload`: the watcher scans, a reconcile that is asked for gets the lock and goes on, the wait of
  disable-and-drain polls, and a turn that waits at an open gate is let through (`asyncio` wakes it). Nothing
  is assumed of users, of failures, of when turns end or of when the process is started again. The liveness
  property is conditional: no change brings back a disk the watcher has just seen (section 5.2 says what
  happens if one does), and the watcher's task is alive.
- `ControlPlane`: a queued turn gets the admission lock, a cancelled one ends, forwarders and closing
  connections get on, the 15 s watchdog fires, the process passes through its phases, the supervisor
  works. How long a turn executes, whether clients read or leave and who asks to stop is open; so
  `AdmissionComesBack` rests on the watchdog, as it must.
- `LocalTurns`: the loop runs what is ready; a task takes some step (models and tools have timeouts); a
  stopping process exits. Which step, and that channels succeed, is open.
- `Consolidation` states no fairness: `WaitersAreServed` says as an invariant that whoever waits has somebody
  at work for it.

## 5. Findings and observations

### 5.1 A disagreement between the code and its own text, with a run

**A crash locks a session out for ever** (`local_crash`, `session/manager.py:768`). The admission row of
a turn is durable and only its own turn deletes it. A process killed in a turn leaves it, nothing
cleans the table at start, and every later turn of the session is refused, with a message (line 775)
about another process that does not exist.

### 5.2 Observations without a run

Met while reading and modelling. They are behaviours of the code that a maintainer may want to look at; those
marked (m) are behaviours of a module here and can be seen in its counterexamples.

Cloud:
- (m) While one worker's open claim holds the oldest queued Run, `SKIP LOCKED` lets another take, serve and
  answer the next Run of the same conversation (store.py:2020); docs/cloud-engineering/plan.md:66 gives
  the order of the context as the reason for serial conversations.
- (m) `delete_conversation` counts running Runs without locking run rows (store.py:1420): a claim that commits
  after the count is deleted with its conversation, and its worker ends on `StoreNotFoundError`. `run`
  shows that the system recovers.
- (m) The checkpoint fences the arguments it sees; plugins behind it may change them
  (agent/tool_hooks/__init__.py:113), and the post hook hashes the final ones and is refused. The row stays
  `started`, so a retry aborts at that slot instead of replaying.
- A child's chat id is its job id; the checkpoint hook parses the chat id as a Run's UUID and raises
  (cloud/tool_checkpoints.py:37, cloud/subagents.py:267), so children's tool calls are refused.
- (m) An inline spawn answers with the outcome of its own execution (cloud/subagents.py:143), while the row it has just
  finished may say cancelled (store.py:536): the model is told "completed" of a job the user sees as cancelled.
- (m) A fenced append raises past the failure effects that would remove the delivery intent
  (agent/turns/result.py:160): the next tick takes the same words for delivered and consumes the alert
  unsaid, against docs/architecture/proactive.md:18. `AlertsAreHandled` therefore names the alerts that were cut off in
  this way (`cut`) beside those that were said; it shows that there is no other way to lose one while its
  target serves alerts.
- (m) A row that is configured for Drift alone stays enabled, and its ticks never fetch the inbox
  (cloud/automation.py:267), although its alerts were accepted (store.py:1573): they stay pending until Proactive is
  switched on again. `AlertsAreHandled` promises nothing of such a row (`Serves`).
- (m) `configure_automation` reads its row without a lock (store.py:1525) and writes the columns that differ from
  what it read. Beside a change of target to another conversation it may leave its row disabled although both calls
  ended well, or with Drift on and the row disabled; beside a claim it may leave the new lease in place.
- (m) A stale tick flushes acknowledgements of alerts by their ids; after a purge and a second delivery of the same
  alert that acknowledges one which the new reservoir has not said.
- (m) A text for Telegram is cut to 4096 characters and the delivery is marked sent (channel_gateway.py:422; replies to
  commands are cut likewise, line 208). `SentReachedTheChat` exempts that tail and nothing else.
- (m) A delivery with a file to QQBot is always refused behind its text (channel_gateway.py, `_send_media`), and every
  attempt shows the text again.
- The active jobs are counted without a lock (store.py:400); the busy check of an append comes before the
  lock of the conversation (1817); two `configure_automation` calls lock different rows and may leave both
  conversations enabled (1482); a change of target purges the reservoir between a tick's fetch and its
  ingest (1497); idempotency keys are cut to 128 characters (753); `load_run_input` reads user messages
  queued behind the Run (2055); the event stream reads events and then the status and may stop before the
  last event (cloud/api.py:806); a plugin task runs under a lease nothing renews (cloud/plugins.py:363).

Plugins:
- (m) A failed publish is not always retried (agent/plugins/watcher.py:84). A reconcile that fails after its
  commit leaves admission closed; manager.py:857 says that the watcher retries the revision until it
  succeeds. The watcher compares the disk with the last revision it *accepted*: if the user reacts to the
  failure by putting the old file back, there is nothing to do for it, and every turn waits at the gate until
  the next edit. `FailedPublishIsRetried` states what the comment says; TLC finds it violated under the
  bounds of `plugin_reload`.
- The watcher can be fooled without a failure: it scans A, B is written, the reconcile serves B and accepts A,
  and A is written back: B is served until the next change. `SwitchesTakeEffect` excludes it by
  its premise.
- (m) `UpgradesAreServed` (a property that no run checks, because the code does not keep it; TLC shows how it is broken):
  agent/plugins/manager.py:1549 says of an upgrade that "hot reload will apply it shortly", and
  docs/handbook/plugins.md:48 that the code of an installation is loaded with the next generation. `build_generation`
  (manager.py:630) takes the revision from the disk and the instance that is loaded, and `_activate_plugin` is called only
  for a plugin that was off, so an edited or upgraded `plugin.py` runs as it was until the plugin is switched off
  and on or the process is started again. In the same way a loaded instance whose checks fail stays
  rejected although the file has been put right.
- A generation is labelled with the revision on disk while the loaded code is older; and an instance that was
  loaded once can be terminated while an older generation with the same instance is leased
  (agent/plugins/manager.py, against docs/architecture/snapshot-leases.md:12 and 22). That is why
  `LeasedGenerationsAreKept` speaks of generations.
- A start is refused (`BootRefused`) after chained swaps under a long lease, after a disable with a draining
  transaction, or after an edit while the process was down.
- Errors other than `OSError`, `ValueError`, `RuntimeError` end the watcher's task with the gate closed.
  docs/handbook/plugins.md:114 says that the old generation keeps serving when MCP fails; the code closes
  admission. `terminate` may run twice; disable-and-drain leaves its transaction draining.

Control plane:
- On Python 3.12 and later `wait_closed` waits for connected clients (infra/control/socket.py:102), so a client
  that stays connected holds up a committed restart and a stop; on 3.11, the project's minimum, it does not.
  `WaitsForClients = TRUE` shows it; `control` runs with `FALSE`.
- A crash leaves turns queued or in progress in `control.db`, and nothing recovers them; a slow consumer or a
  late subscriber loses its stream silently; a client that leaves before the arming is noticed only by the
  watchdog; the quiet of a restart does not count passive channel turns.

Local turns:
- `message_push` to the turn's own chat, or two pushes to each other's chats, only end by the tool's timeout
  of 300 s. (m)
- A message whose task is cancelled while it waits for the lock, or that is in the inbox at shutdown, is lost
  without a word; one taken by the stopped loop leaves its admission row. (m)
- An interrupted web turn publishes nothing, so its client waits for the response timeout.
- A notice saved between a commit and an interrupt pushes the turn out of the last two messages, and the
  user's message is saved twice. A crash between save and publish loses the answer for the chat. (m)
- Control turns and channel turns may name the same session; the former take neither `AgentLoop`'s lock nor
  the admission row.

Local memory (`Consolidation` states the first four as properties that no run checks, because the code does
not keep them; TLC shows how each is broken):
- (m) `FactsAppendedOnce`: core/memory/store.py:109 says that appending by `source_ref` avoids consolidating
  again after a restart. The `source_ref` names the whole window; after a crash between the append and the
  save of the cursor one more turn makes the window longer, and the facts of its first messages are appended
  a second time. The marker of an unchanged window that has no row in the index is looked for in the last 1 MiB of the file
  only (store.py:17, 318): behind enough other facts it is not found, and the facts are appended again.
- (m) `MarkersMeanFacts`: store.py:286 takes a marker at the end of the file for a write that was complete. A write that
  stops behind its marker (a full disk) raises, and the next attempt at the same window finds the marker, notes it in
  the index, and moves the cursor past facts that are in no file.
- (m) `SavesAreAppends`: `save_async` copies the messages in a thread and assigns the copy (session/manager.py:721).
  What the loop added in between is taken out of the session, also when it is stored already, and from
  then on every save of the session is refused by line 727, until it is loaded again. The cursor may then
  stand behind the end of the shorter list, so that what comes after the reload takes places the cursor
  has passed and is never extracted: no invariant on the cursor survives such a save, and `NothingIsForgotten` speaks of the
  sessions that had none (`dropped`).
- (m) `SoftTurnsLeaveNoMemory`: docs/handbook/tools-and-scheduler.md:47 says that a soft turn skips the memory
  that is written after the reply. `TurnCommitted.extra` carries nothing but the principal
  (agent/core/runtime.py:1524), so the mark is never seen and the turn is queued like any other.
- (m) A handler of `ConsolidationCommitted` that raises leaves the cursor moved and unsaved; the next save of
  a turn stores it, and the event is not sent again.
- The tail is decoded from the byte where it begins (store.py:328). When that is inside a UTF-8 character, the append
  of every new source raises; since nothing but an append changes the file, it does so for ever, and no session
  gets its facts consolidated until somebody edits the file. In the model this is `DraftFails`, as often as the bound allows.
- `RECENT_CONTEXT.md` is one file for all sessions, read and written in different steps (markdown.py:742 and
  744, 806 and 1249) under locks that are per session: a refresh may write back the compression that
  another session has just replaced.

Local scheduler (read, not modelled):
- `cancel_schedule` (agent/scheduler.py:255) runs in a thread of its own beside the loop. A job that is
  cancelled while `_fire` awaits its turn is marked completed behind it; two `_save` calls may race, so a
  cancellation can be lost on disk; a crash between the publish and the `_save` repeats the fire.

Memory consolidation of the Cloud Agent (read, not modelled, section 7):
- `load_run_input` leaves the Run's own message out of the history, and `last_consolidated` is a position in
  that shorter list. With a user message queued behind the Run, a forced consolidation stores a cursor that
  skips the Run's own input, against docs/architecture/memory.md:46.
- `append_pending_once` (cloud/markdown_memory.py:79): of two first appends of one user, one loses the race
  to create the document; its facts are dropped while its cursor advances.
- The cursor is set before the engines hear of the commit; an engine that fails is not retried.

## 6. The proofs

All theorems are of the form `Spec => []Inv` or `Spec => [][A]_vars`, for every value of the
constants that satisfies the module's named assumption. Each proof states an inductive
invariant (`IInv`, if it is the only one of its module), proves that the initial states satisfy it and that
every action and stuttering preserve it, one lemma or step per action, and concludes with PTL. Every
invariant and every action property that a passing run checks is stated by a theorem.

| Module | Theorems | Assumption |
|---|---|---|
| `RunLifecycleProofs` | `Typing`, `Serialization` (`OneRunningPerConversation`), `Fencing` (`OwnershipFencesAttempts`), `Finality`, `CancellationWins`, `Chronicle` (`EventsTellTheStory`), `Refinement` (`KeepsPromise`) | `RunConstants` |
| `ToolCheckpointProofs` | `Typing`, `AtMostOnce` (`AtMostOncePerSlot`), `RealResults` (`RecordedResultIsReal`) | `CheckpointConstants` |
| `SchedulerProofs` | `Typing`, `OneDelivery` (`OneDeliveryPerFire`), `Accounts` (`FiresAreAccounted`) | `SchedulerConstants` |
| `SubagentProofs` | `Typing`, `OneResult` (`OneResultPerJob`), `Cancellation` (`CancelPrevails`), `Finality`, `Refinement` (`JobsKeepTheirPromise`) | `SubagentConstants` |
| `AutomationProofs` | `Typing`, `OneMessage` (`OneMessagePerTick`), `OwnerSpeaks` (`OnlyTheOwnerSpeaks`) | `AutomationConstants` |
| `ChannelGatewayProofs` | `Typing`, `SentReached` (`SentReachedTheChat`), `Finality`, `OneRun` (`OneRunPerEvent`), `DroppedHandled` (`DroppedWereHandled`) | `ChannelConstants` |
| `PluginReloadProofs` | `Typing`, `Kept` (`LeasedGenerationsAreKept`), `Committed` (`AdmittedOnCommittedSurfaces`) | `ReloadConstants` |
| `LocalProofs`, restarts | `Ownership` (`OwnersAreCurrent`), `Quiet` (`CommittedIsQuiet`), `RelaunchAfterDelivery` (`RelaunchOnlyAfterDelivery`) | `ControlConstants` |
| `LocalProofs`, memory | `FactsFiled` (`FactsAreOnFile`), `NothingForgotten` (`NothingIsForgotten`), `Served` (`WaitersAreServed`), `CursorAdvances` (`CursorNeverRetreats`) | `ConsolidationConstants` |
| `LocalProofs`, turns | `PushesGetTheirTurn` (`PushesAreNotStuck`), `TurnsWait` (`TurnsWaitForEachOther`), `CountsAreExact` (`LaneCountsAreExact`), `InterruptedAreKept` (`InterruptedTurnsAreKept`), `AnswersInOrder` (`AnswersAreShownInOrder`) | `LocalConstants` |

`LocalProofs` extends the three modules of the local program, which is why the specifications of two of them
have names of their own (`MemorySpec`, `TurnsSpec`).

The assumptions say that bounds are natural numbers, that plugins are finitely many, that `None` (or
`NoRow`) is no other value, that job ids are no Run ids, that worker names are no conversation ids, and that a gateway has a front process, a
delivery row and request handlers that are not the poller. An automation's switches are among Proactive and Drift;
a delivery goes to Telegram, QQ or QQBot and has some of the three parts. A consolidation keeps a number of messages, needs
at least one new one, looks at the last source of its file at least, and its callers are among the three the code has;
every message and notice of the
local program has a session, and every session a chat.

Why the invariants are needed:
- **RunLifecycle.** `OwnershipFencesAttempts` alone is not inductive: it needs that a worker inside
  `run_once` has a Run in hand (`JobHeld`), that the row under a claim's lock stays queued and is
  locked once (`LocksQueued`), so that a claim cannot take over a Run its owner is still working on under
  the same name, and that unplaced rows are absent (`RowsPlaced`). `CancelsRun` gives
  `CancellationWins`. For `Chronicle`, a Run that was admitted has events and one that was not has no attempt
  (`Recorded`); every action that touches a Run either leaves its events alone or is one of the chapters
  of its life (`Chapter`), which appends the one event its transition calls for, and the events are counted
  by a lemma on appended sequences (`CountAppend`). `Refinement` shows each action to be a step of `RunPromise` or to leave it
  unchanged; the reaper's step uses `Asked` for the Runs that were asked to stop.
- **ToolCheckpoint.** `AtMostOncePerSlot` follows from `HeldSlots`, the mutual exclusion of holders of a
  slot, whose row says `started` under the holder's own call, and from `CalledByHolder`: nothing was
  called in a slot without a row, nor by a holder that has not called yet.
- **Scheduler.** The row's token names the fire that is open, and every delivered token was minted
  (`RowSound`), so a new token is not among the delivered ones (`FiredOnce`). The second transaction
  computes from the row as it was claimed, so `FiresAreAccounted` needs `WorkerOK`: a worker that
  still holds the row's token under its own name knows the row's counter and whether the fire was delivered.
- **Subagents.** A report is made by the executor the row names; `OnlyRunningOwned` says that such a
  row is running, so it has no result yet and is not settled. Processes share `lease_owner`, and the
  proof shows that this does no harm here: two executors of one process may both pass the check, but the
  first report clears the owner. `Refinement` maps a claim to one job given out while others are taken back,
  and needs besides that nobody asks a job to stop before it is there (`NotAskedYet`).
- **Automation.** An append that has begun holds the automation row (`AppendsHoldTheRow`), so the
  owner, the token and what was said stay as it read them until it commits, whatever inputs, changes of
  target and other ticks do; `TargetsLocked` says that a change of target holds the rows it will reset.
- **ChannelGateway.** The outbound half needs `PartsShown`: what a loop has sent so far is shown, and
  what is shown stays; `PartsOfDelivery` says that text, file and what Telegram cuts off are all of a delivery.
  The inbound half needs `ReadUpTo`: all up to the poller's offset is stored,
  dropped or in its hands, and it polls only with empty hands; and `QueuedIsRecorded`, which the
  deletion of the link, and only it, may end.
- **PluginReload.** `LeasedGenerationsAreKept` needs little more than that a process that is not up has
  nothing in memory (`DownIsEmpty`) and that a current generation is its own plugin's, so that the one a
  deactivation retires is the one it removes. Admission rests on `GateIsClosed` (what is not published,
  and every reconcile, keeps the gate closed) and `PublishedInOrder`: what the surfaces
  offer at each point of a reconcile, and whenever nothing is dirty.
- **ControlPlane.** The arming freezes admission while its caller is the only turn, so that from then on only
  the caller can be in flight (`FrozenIsAlone`). A mark stands for what it says (`MarksAreTrue`), so a commit
  means that the caller has settled as completed and its last frame was written; the frame stays on the
  pipe until the next `Spawn` (`PipeIsTrue`), which happens only when there is no process
  (`SpawnIsOrdered`); a process that does not serve has nothing in memory (`IdleIsEmpty`).
- **Consolidation.** `MemoryInv` says first who has a session's maintenance lock: a caller at a stage between
  the choice of its window and the commit of its draft, and nobody else (`LockMatches`); who waits has
  somebody at work (`NobodyForgotten`). Hence the cursor is where it was when a window was read, and an
  open window ends behind it (`Advances`): that is why no commit, and no save of one, takes it back.
  `Kept` is about what was passed. Up to the cursor, in memory and in `sessions.db`, every message is
  archived; up to the end of an open window it is archived or among the ids in hand; `sessions.db` and
  every copy a thread still holds are beginnings of the session's list, whose ids differ, so that a
  position means the same message in each. The last is what a save of a stale copy destroys, so
  `Kept` is required of the sessions where `dropped` is empty, and a step of the proof shows that whatever
  breaks it makes `dropped` non-empty for good. `FactsAreOnFile` needs `Filed`: the source of
  a job whose write is done, and of every draft that was committed with facts, has its marker in the file, whoever
  wrote it; `PENDING.md` only grows (`PendingGrows`), and an error takes a job out of the stages that lead to a
  commit (`FiledStep`).
- **LocalTurns.** Some forty actions are first reduced to what they have in common: a step moves one task at most
  (`TaskMovement`), posts or sends one envelope at most (`Posting`), concerns one push at most
  (`PushesSteady`, `LeavesPush`) and adds to the transcripts at their end (`TellsTruly`). On these rest
  five invariants. `PushInv`: every ticket of a lane that is still to be served is of a push that is
  there, of one only, or was given up (`TicketsAreHeld`); the skipping of given-up tickets stops at the
  first that is held, which the proof shows by the least number principle. `LockInv`: a live task waits
  for its session's one lock or has it, and one at a time has it, although the entry comes and goes.
  `CountInv`: each envelope has a ticket of its own that its lane has given and not served, the one being
  sent is the one served, and the counts are cardinalities. `KeptInv`: whichever step ends an interrupted
  turn writes its question or finds the pair saved, and no step takes a line out of a transcript. `OrderInv`: what is shown, then
  what is posted by ticket, then the one turn at its commit are in the order of the transcript
  (`ShownInOrder`, `ShownFirst`, `TicketsInOrder`, `CommitsInOrder`); it needs all the others: the
  lock for one commit at a time, the tickets for the order of sends, the transcripts for what stays said.

Only model-checked: the liveness properties (`EveryRunSettles`, `ExecutionsEnd`, `ClaimsEnd`, `EveryJobSettles`,
`LeasesEnd`, `AlertsAreHandled`, `UpdatesAreHandled`, `DeliveriesEnd`, `SwitchesTakeEffect`,
`AdmissionComesBack`, `StopIsHonoured`, `EveryTurnEnds`), which with fairness and `ENABLED` are outside what the
prover handles, and the violated `RefusedOnlyWhenTaken`. The other way round, `OwnerSpeaks`, and
`Cancellation`, and `Finality` and `CancellationWins` of `RunLifecycle`, `ChannelGateway` and `Subagents`, are proved
and have no run of their own; the two refinements, which are run, contain those of Runs and jobs.

Assumptions outside the modules: PostgreSQL in READ COMMITTED behaves as row locks, unique indexes and
`SKIP LOCKED` are documented; two processes never run under one `lease_owner`; clocks of processes
agree with the database to within a lease; one process at a time serves a local workspace
(`bootstrap/workspace_lock.py`); `asyncio.Lock` is fair.

## 7. Not modelled

| Part | Why |
|---|---|
| API, event stream, authentication (`cloud/api.py`, `cloud/run_stream.py`, `cloud/security.py`) | Handlers call one store operation each, and those that matter are actions above. |
| Rate limiter | One transaction on one locked row; nothing interleaves. |
| Plugin tasks and remote plugins (`cloud/plugins.py`) | The lease pattern of `Scheduler` with less: no token, no heartbeat; its weakness is listed in 5.2. |
| MCP, credentials, skills, workspace, transcripts of the cloud | Single statements per operation. |
| Memory engines (`memory2`, `plugins/akasha`, `plugins/default_memory`, the rest of `core/memory`), cloud memory | Retrieval and scoring over embeddings, model prompts and heuristics on text: data. Their control, when the local program consolidates and what the cursor passes, is `Consolidation`; what the cloud's cursor can lose is listed in 5.2. |
| Local scheduler (`agent/scheduler.py`), `agent/tools/unified_exec` | One list of jobs in one file, and processes behind pipes; the races that were met are listed in 5.2, and the durable scheduler, with leases and recovery, is `Scheduler`. |
| Prompting, model choice, parsing, builtin tools | Data and I/O. Only the order of hooks, tool and retries is control, and that is in `ToolCheckpoint`. |
| Channel adapters, TUI, web front end | Protocol adapters and rendering; what they publish is the input of `LocalTurns` and `ChannelGateway`. |
| Sandbox service, migrations, deployment, evaluation | Process isolation and I/O, steps that run once before the services (read for the constraints the modules rely on), benchmarks. |

Inside modelled components: `delete_user` and `worker_instances` (runs); content, cooldown, feedback and
Drift's journal (automation); pairing, attachments and the QQBot socket (channels); discovery, manifests and
the contents of semantic checks (plugins); `thread/*` and consolidation operations, tasks that were not
started yet, second stop signals and the compare-and-set of the store (control plane); deletion of sessions
or messages during a turn, failing saves, search, the child agents of the local program,
a task cancelled by shutdown before its first step (local turns); deletion of sessions or messages,
`archive_all`, the snapshot of `PENDING.md`, which nothing calls, the administration of the memory files while the program is down,
and `RECENT_CONTEXT.md` (consolidation).

This is also why the map covers a small share of the implementation: most of its lines are adapters,
retrieval, prompts, tools and rendering, where a model would restate the code without a state to explore.
