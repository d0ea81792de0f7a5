----------------------------- MODULE Automation -----------------------------
(***************************************************************************)
(* Background ticks of one user (agent_automations in src/cloud/store.py,  *)
(* src/cloud/automation.py, and the alert path of proactive_v2/loop.py     *)
(* they run; content, its cooldown and its feedback are left out).  A      *)
(* worker leases a conversation, fetches alerts from its inbox into the    *)
(* user's reservoir, lets a judge word one, and says it.  User messages    *)
(* take the lease away; the conversation ticks speak in can be switched.   *)
(*                                                                         *)
(* Transactions that hold row locks while they wait for another row are    *)
(* split: a message that revokes a lease, a change of target, and the      *)
(* append of a background message, which takes the two locks the other     *)
(* way round.                                                              *)
(***************************************************************************)
EXTENDS Naturals, Sequences, Functions

CONSTANTS
    Conversations,  \* conversations of the user
    Workers,        \* worker processes, by lease_owner
    Alerts,         \* ids of external events of kind alert
    Home,           \* alert -> the conversation it was sent to
    Tokens,         \* bound: tick tokens; uuid4 draws one that is not in use
    Wishes,         \* bound: settings of a row's switches that are asked for
    MaxInputs,      \* bound: transactions of users and administrators
    MaxDrifts,      \* bound: messages of Drift
    MaxFaults,      \* bound: crashes, failed heartbeats, stalled processes
    None            \* SQL NULL

ASSUME AutomationConstants ==
    /\ Home \in [Alerts -> Conversations]
    /\ Wishes \subseteq SUBSET {"proactive", "drift"}
    /\ {MaxInputs, MaxDrifts, MaxFaults} \subseteq Nat
    /\ None \notin Workers \cup Conversations \cup Tokens \cup Alerts
    /\ Workers \cap Conversations = {}

VARIABLES
    enabled,   \* conversation -> automation row exists and is enabled
    modes,     \* conversation -> its switches: proactive_enabled, drift_enabled
    owner,     \* conversation -> lease_owner
    lease,     \* conversation -> "none", "live" or "lapsed"
    token,     \* conversation -> tick_token
    rowLock,   \* conversation -> who holds the automation row FOR UPDATE
    convLock,  \* conversation -> transaction that holds the conversation row
    targets,   \* conversation -> rows a change of target to it has locked
    change,    \* conversation -> what that change wants, and the row as it read it
    busy,      \* conversation -> a Run is queued or running
    said,      \* conversation -> background messages, by delivery key and event
    cut,       \* auxiliary: events a tick noted as delivered and did not say
    inbox,     \* event -> "absent", "pending" or "acked" in automation_inbox_events
    record,    \* event -> "none", "unread" or "consumed" in proactive_events
    toAck,     \* proactive_pending_acknowledgements
    intents,   \* proactive_deliveries, by the event their text is about
    pc,        \* worker -> where run_once is
    conv,      \* worker -> the conversation it ticks
    doing,     \* worker -> switches of the row as claimed
    held,      \* worker -> tick_token as claimed
    batch,     \* worker -> alerts fetched
    pick,      \* worker -> the event it is saying, None for Drift
    inputs, faults   \* bounded counts

rowVars == <<enabled, modes, owner, lease, token>>
lockVars == <<rowLock, convLock, targets, change>>
words == <<said, cut>>
eventVars == <<inbox, record, toAck, intents>>
tickVars == <<conv, doing, held, batch, pick>>
counts == <<inputs, faults>>
vars == <<rowVars, lockVars, busy, words, eventVars, pc, tickVars, counts>>

Places == {"idle", "gate", "fetched", "judging", "picked", "drifting", "sending", "appending",
           "sent", "acking", "done", "failed", "down"}
UserTransactions == {"input", "revocation", "switch"}
Modes == {"proactive", "drift"}
NoChange == [wish |-> {}, enabled |-> FALSE, modes |-> {}, leased |-> FALSE, ticking |-> FALSE]

Init ==
    /\ modes \in [Conversations -> Wishes]
    /\ enabled = [c \in Conversations |-> modes[c] # {}]
    /\ owner = [c \in Conversations |-> None]
    /\ lease = [c \in Conversations |-> "none"]
    /\ token = [c \in Conversations |-> None]
    /\ rowLock = [c \in Conversations |-> None]
    /\ convLock = [c \in Conversations |-> None]
    /\ targets = [c \in Conversations |-> {}]
    /\ change = [c \in Conversations |-> NoChange]
    /\ busy = [c \in Conversations |-> FALSE]
    /\ said = [c \in Conversations |-> <<>>]
    /\ cut = {}
    /\ inbox = [e \in Alerts |-> "absent"]
    /\ record = [e \in Alerts |-> "none"]
    /\ toAck = {}
    /\ intents = {}
    /\ pc = [w \in Workers |-> "idle"]
    /\ conv = [w \in Workers |-> None]
    /\ doing = [w \in Workers |-> {}]
    /\ held = [w \in Workers |-> None]
    /\ batch = [w \in Workers |-> {}]
    /\ pick = [w \in Workers |-> None]
    /\ inputs = 0 /\ faults = 0
-----------------------------------------------------------------------------
(* Helpers *)

Goto(w, place) == pc' = [pc EXCEPT ![w] = place]

Input == inputs < MaxInputs /\ inputs' = inputs + 1 /\ UNCHANGED faults
Fault == faults < MaxFaults /\ faults' = faults + 1 /\ UNCHANGED inputs

\* "automation delivery has no matching lease" is the negation of this.
Owns(w) == owner[conv[w]] = w /\ token[conv[w]] = held[w]

\* delivery_key: the source and the token.
Key(w) == [source |-> IF pick[w] = None THEN "drift" ELSE "proactive", tick |-> held[w]]
NotSaid(w) == FALSE    \* mutated: the delivery key is not looked up
Said(w) == \E i \in DOMAIN said[conv[w]] : said[conv[w]][i].key = Key(w)

\* uuid4: a token no row, tick or message refers to.
InUse ==
    {token[c] : c \in Conversations} \cup {held[w] : w \in Workers}
        \cup UNION {{m.key.tick : m \in Range(said[c])} : c \in Conversations}
Fresh == IF Tokens \subseteq InUse THEN None ELSE CHOOSE t \in Tokens \ InUse : TRUE

\* The inbox after the events of a queue were acknowledged in one conversation;
\* ids of another conversation, or of rows that are gone, match nothing.
Acknowledge(w, queue) ==
    inbox' = [e \in Alerts |->
        IF e \in queue /\ Home[e] = conv[w] /\ inbox[e] = "pending" THEN "acked" ELSE inbox[e]]

MayDrift ==
    \A c \in Conversations :
        Len(SelectSeq(said[c], LAMBDA m : m.key.source = "drift")) < MaxDrifts

Unread == {e \in Alerts : record[e] = "unread"}

\* A tick that noted its event before the words were sent does not send them.
Cut(w) == cut' = cut \cup ({pick[w]} \ {None})

\* A row whose alerts are accepted and fetched.
Serves(c) == enabled[c] /\ "proactive" \in modes[c]

\* Row locks of a worker that is gone are released by the server.
Unlocked(w) == [c \in Conversations |-> IF rowLock[c] = w THEN None ELSE rowLock[c]]
-----------------------------------------------------------------------------
(* Users, administrators and event sources *)

\* ingest_proactive_event.
Ingest(e) ==
    /\ Serves(Home[e])
    /\ inbox[e] = "absent"
    /\ inbox' = [inbox EXCEPT ![e] = "pending"]
    /\ UNCHANGED <<rowVars, lockVars, busy, words, record, toAck, intents, pc, tickVars, counts>>

\* A transaction that adds a message and a Run has locked the conversation.
\* The one of the API reads the automation row, without a lock, and will take
\* the lease it sees; those of channels and schedules do not look.
InputBegins(c) ==
    /\ Input
    /\ convLock[c] = None
    /\ \/ convLock' = [convLock EXCEPT ![c] = "input"]
       \/ owner[c] # None /\ convLock' = [convLock EXCEPT ![c] = "revocation"]
    /\ UNCHANGED <<rowVars, rowLock, targets, change, busy, words, eventVars, pc, tickVars>>

\* It commits; the update of the automation row waits for its lock.
TakenLease(c) ==
    /\ owner' = [owner EXCEPT ![c] = None]
    /\ lease' = [lease EXCEPT ![c] = "none"]

InputCommits(c) ==
    /\ \/ convLock[c] = "input" /\ UNCHANGED <<owner, lease>>
       \/ convLock[c] = "revocation" /\ rowLock[c] = None /\ TakenLease(c)
    /\ convLock' = [convLock EXCEPT ![c] = None]
    /\ busy' = [busy EXCEPT ![c] = TRUE]
    /\ UNCHANGED <<enabled, modes, token, rowLock, targets, change, words, eventVars, pc, tickVars,
                   counts>>

\* The passive worker settles the Runs of the conversation.
RunsSettle(c) ==
    /\ busy[c]
    /\ busy' = [busy EXCEPT ![c] = FALSE]
    /\ UNCHANGED <<rowVars, lockVars, words, eventVars, pc, tickVars, counts>>

\* configure_automation has locked the conversation and the other enabled rows,
\* and read its own row, without a lock.
SwitchBegins(c) ==
    /\ Input
    /\ convLock[c] = None
    /\ \E wish \in Wishes :
          LET others == IF wish = {} THEN {} ELSE {o \in Conversations \ {c} : enabled[o]} IN
          /\ \A o \in others : rowLock[o] = None
          /\ convLock' = [convLock EXCEPT ![c] = "switch"]
          /\ targets' = [targets EXCEPT ![c] = others]
          /\ rowLock' = [o \in Conversations |-> IF o \in others THEN c ELSE rowLock[o]]
          /\ change' = [change EXCEPT ![c] =
                [wish |-> wish, enabled |-> enabled[c], modes |-> modes[c],
                 leased |-> owner[c] # None, ticking |-> token[c] # None]]
    /\ UNCHANGED <<rowVars, busy, words, eventVars, pc, tickVars>>

\* It is over: its locks are given up.
SwitchEnds(c) ==
    /\ convLock' = [convLock EXCEPT ![c] = None]
    /\ targets' = [targets EXCEPT ![c] = {}]
    /\ rowLock' = [o \in Conversations |-> IF o \in targets[c] THEN None ELSE rowLock[o]]
    /\ change' = [change EXCEPT ![c] = NoChange]

\* It resets the others and deletes what the user's algorithms remember if there
\* were any.  Of its own row it writes the columns that differ from what it read.
SwitchCommits(c) ==
    LET seen == change[c]
        freed == targets[c] \cup {o \in {c} : seen.leased}
        renewed == targets[c] \cup {o \in {c} : seen.ticking}
    IN
    /\ convLock[c] = "switch"
    /\ rowLock[c] = None
    /\ enabled' = [o \in Conversations |->
          IF o = c /\ seen.enabled # (seen.wish # {}) THEN seen.wish # {}
          ELSE enabled[o] /\ o \notin targets[c]]
    /\ modes' = [o \in Conversations |->
          IF o = c THEN (modes[c] \ (seen.modes \ seen.wish)) \cup (seen.wish \ seen.modes)
          ELSE IF o \in targets[c] THEN {} ELSE modes[o]]
    /\ owner' = [o \in Conversations |-> IF o \in freed THEN None ELSE owner[o]]
    /\ lease' = [o \in Conversations |-> IF o \in freed THEN "none" ELSE lease[o]]
    /\ token' = [o \in Conversations |-> IF o \in renewed THEN None ELSE token[o]]
    /\ IF targets[c] = {}
       THEN UNCHANGED eventVars
       ELSE /\ inbox' = [e \in Alerts |-> "absent"]
            /\ record' = [e \in Alerts |-> "none"]
            /\ toAck' = {}
            /\ intents' = {}
    /\ SwitchEnds(c)
    /\ UNCHANGED <<busy, words, pc, tickVars, counts>>
-----------------------------------------------------------------------------
(* run_once *)

DueIfFree(c) == enabled[c] /\ ~busy[c] /\ lease[c] = "none"    \* mutated: no expired leases
Due(c) == enabled[c] /\ ~busy[c] /\ lease[c] # "live"

\* _execute_tick: a row with Drift alone does not touch inbox and reservoir.
FirstPlace(c) == IF "proactive" \in modes[c] THEN "gate" ELSE "drifting"

\* claim_next_automation, with SKIP LOCKED.  The tick goes by the row as claimed.
Claim(w, c) ==
    /\ pc[w] = "idle"
    /\ Due(c)
    /\ rowLock[c] = None
    /\ \E t \in Tokens :
          /\ t = IF token[c] = None THEN Fresh ELSE token[c]
          /\ token' = [token EXCEPT ![c] = t]
          /\ held' = [held EXCEPT ![w] = t]
    /\ owner' = [owner EXCEPT ![c] = w]
    /\ lease' = [lease EXCEPT ![c] = "live"]
    /\ conv' = [conv EXCEPT ![w] = c]
    /\ doing' = [doing EXCEPT ![w] = modes[c]]
    /\ Goto(w, FirstPlace(c))
    /\ UNCHANGED <<enabled, modes, lockVars, busy, words, eventVars, batch, pick, counts>>

\* The gate flushes acknowledgements, the inbox is fetched.
Fetch(w) ==
    /\ pc[w] = "gate"
    /\ Acknowledge(w, toAck)
    /\ toAck' = {}
    /\ batch' = [batch EXCEPT ![w] = {e \in Alerts : Home[e] = conv[w] /\ inbox'[e] = "pending"}]
    /\ Goto(w, "fetched")
    /\ UNCHANGED <<rowVars, lockVars, busy, words, record, intents, conv, doing, held, pick,
                   counts>>

\* Alerts the reservoir does not know become unread; acknowledgements are
\* flushed once more.
Store(w) ==
    /\ pc[w] = "fetched"
    /\ Acknowledge(w, toAck)
    /\ toAck' = {}
    /\ record' = [e \in Alerts |->
          IF e \in batch[w] /\ record[e] = "none" THEN "unread" ELSE record[e]]
    /\ batch' = [batch EXCEPT ![w] = {}]
    /\ Goto(w, "judging")
    /\ UNCHANGED <<rowVars, lockVars, busy, words, intents, conv, doing, held, pick, counts>>

\* An unread alert is worded; without one it is Drift's turn.
Judge(w) ==
    /\ pc[w] = "judging"
    /\ \/ \E e \in Unread : pick' = [pick EXCEPT ![w] = e] /\ Goto(w, "picked")
       \/ Unread = {} /\ Goto(w, "drifting") /\ UNCHANGED pick
    /\ UNCHANGED <<rowVars, lockVars, busy, words, eventVars, conv, doing, held, batch, counts>>

\* Drift is not due, says nothing, or drafts a message; an error of its model
\* ends it silently.
Drift(w) ==
    /\ pc[w] = "drifting"
    /\ \/ Goto(w, "done")
       \/ "drift" \in doing[w] /\ MayDrift /\ Goto(w, "sending")
    /\ UNCHANGED <<rowVars, lockVars, busy, words, eventVars, tickVars, counts>>

\* The model call of the judge fails, or a query of Drift; run_once keeps the error.
TickFails(w) ==
    /\ pc[w] \in {"judging", "drifting"}
    /\ Fault
    /\ Goto(w, "failed")
    /\ UNCHANGED <<rowVars, lockVars, busy, words, eventVars, tickVars>>

\* _deliver: the words are looked up among those delivered lately, or noted
\* there before they are sent.  The judge may word an event differently.
MarkIntent(w) ==
    /\ pc[w] = "picked"
    /\ \/ pick[w] \in intents /\ Goto(w, "sent") /\ UNCHANGED intents
       \/ intents' = intents \cup {pick[w]} /\ Goto(w, "sending")
    /\ UNCHANGED <<rowVars, lockVars, busy, words, inbox, record, toAck, tickVars, counts>>

\* append_automation_message up to the lock of the conversation.  A refusal
\* raises through commit_turn_result, whose failure effects do not run.
AppendBegins(w) ==
    /\ pc[w] = "sending"
    /\ rowLock[conv[w]] = None
    /\ IF Owns(w) /\ ~Said(w) /\ ~busy[conv[w]]
       THEN Goto(w, "appending") /\ rowLock' = [rowLock EXCEPT ![conv[w]] = w] /\ UNCHANGED cut
       ELSE Goto(w, IF Owns(w) /\ Said(w) THEN "sent" ELSE "failed") /\ UNCHANGED rowLock /\ Cut(w)
    /\ UNCHANGED <<rowVars, convLock, targets, change, busy, said, eventVars, tickVars, counts>>

AppendCommits(w) ==
    /\ pc[w] = "appending"
    /\ convLock[conv[w]] = None
    /\ said' = [said EXCEPT ![conv[w]] = Append(@, [key |-> Key(w), event |-> pick[w]])]
    /\ rowLock' = Unlocked(w)
    /\ Goto(w, "sent")
    /\ UNCHANGED <<rowVars, convLock, targets, change, busy, cut, eventVars, tickVars, counts>>

\* The alert is consumed and queued for acknowledgement.
Consume(w) ==
    LET e == pick[w] IN
    /\ pc[w] = "sent"
    /\ IF e = None
       THEN Goto(w, "done") /\ UNCHANGED <<record, toAck>>
       ELSE /\ record' = [record EXCEPT ![e] = IF @ = "none" THEN @ ELSE "consumed"]
            /\ toAck' = toAck \cup {e}
            /\ Goto(w, "acking")
    /\ UNCHANGED <<rowVars, lockVars, busy, words, inbox, intents, tickVars, counts>>

FlushAcknowledgements(w) ==
    /\ pc[w] = "acking"
    /\ Acknowledge(w, toAck)
    /\ toAck' = {}
    /\ Goto(w, "done")
    /\ UNCHANGED <<rowVars, lockVars, busy, words, record, intents, tickVars, counts>>

Return(w) ==
    /\ Goto(w, "idle")
    /\ conv' = [conv EXCEPT ![w] = None]
    /\ held' = [held EXCEPT ![w] = None]
    /\ doing' = [doing EXCEPT ![w] = {}]
    /\ pick' = [pick EXCEPT ![w] = None]
    /\ UNCHANGED batch

\* finish_automation; a row that was lost is left alone.
Finish(w) ==
    LET c == conv[w] IN
    /\ pc[w] \in {"done", "failed"}
    /\ IF owner[c] = w
       THEN /\ rowLock[c] = None
            /\ owner' = [owner EXCEPT ![c] = None]
            /\ lease' = [lease EXCEPT ![c] = "none"]
            /\ token' = [token EXCEPT ![c] = IF pc[w] = "done" THEN None ELSE @]
       ELSE UNCHANGED <<owner, lease, token>>
    /\ Return(w)
    /\ UNCHANGED <<enabled, modes, lockVars, busy, words, eventVars, counts>>

\* A heartbeat that met an error of the database raises in front of the finish.
SkipFinish(w) ==
    /\ pc[w] \in {"done", "failed"}
    /\ Fault
    /\ Return(w)
    /\ UNCHANGED <<rowVars, lockVars, busy, words, eventVars>>

\* heartbeat_automation; it only raises for a lease that was lost.
Heartbeat(w) ==
    /\ conv[w] # None
    /\ Owns(w)
    /\ rowLock[conv[w]] = None
    /\ lease' = [lease EXCEPT ![conv[w]] = "live"]
    /\ UNCHANGED <<enabled, modes, owner, token, lockVars, busy, words, eventVars, pc, tickVars, counts>>
-----------------------------------------------------------------------------
(* Environment *)

\* An append waits for the conversation, whose holder waits for the row: the
\* server aborts one of the two.
BreakDeadlock(w) ==
    LET c == conv[w] IN
    /\ pc[w] = "appending"
    /\ convLock[c] \in UserTransactions \ {"input"}
    /\ \/ /\ Goto(w, "failed")
          /\ rowLock' = Unlocked(w)
          /\ Cut(w)
          /\ UNCHANGED <<convLock, targets, change>>
       \/ SwitchEnds(c) /\ UNCHANGED <<pc, cut>>
    /\ UNCHANGED <<rowVars, busy, said, eventVars, tickVars, counts>>

\* Two changes of target hold the row the other one needs.
BreakSwitch(c) ==
    /\ convLock[c] = "switch"
    /\ rowLock[c] \in Conversations
    /\ rowLock[rowLock[c]] = c
    /\ SwitchEnds(c)
    /\ UNCHANGED <<rowVars, busy, words, eventVars, pc, tickVars, counts>>

\* lease_expires_at passes: in time if nobody renews, else a stalled process.
StillRenewed(c) == owner[c] # None    \* mutated: the heartbeat outlives its tick
Renewed(c) == \E w \in Workers : conv[w] = c /\ Owns(w)
LeaseLapses(c) ==
    /\ lease[c] = "live"
    /\ IF Renewed(c) THEN Fault ELSE UNCHANGED counts
    /\ lease' = [lease EXCEPT ![c] = "lapsed"]
    /\ UNCHANGED <<enabled, modes, owner, token, lockVars, busy, words, eventVars, pc, tickVars>>

Crash(w) ==
    /\ pc[w] # "down"
    /\ Fault
    /\ Goto(w, "down")
    /\ conv' = [conv EXCEPT ![w] = None]
    /\ doing' = [doing EXCEPT ![w] = {}]
    /\ held' = [held EXCEPT ![w] = None]
    /\ batch' = [batch EXCEPT ![w] = {}]
    /\ pick' = [pick EXCEPT ![w] = None]
    /\ IF pc[w] \in {"sending", "appending"} THEN Cut(w) ELSE UNCHANGED cut
    /\ rowLock' = Unlocked(w)
    /\ UNCHANGED <<rowVars, convLock, targets, change, busy, said, eventVars>>

Restart(w) ==
    /\ pc[w] = "down"
    /\ Goto(w, "idle")
    /\ UNCHANGED <<rowVars, lockVars, busy, words, eventVars, tickVars, counts>>
-----------------------------------------------------------------------------
Ticking(w) ==
    \/ Fetch(w) \/ Store(w) \/ Judge(w) \/ Drift(w) \/ MarkIntent(w) \/ AppendBegins(w)
    \/ AppendCommits(w) \/ Consume(w) \/ FlushAcknowledgements(w) \/ Finish(w) \/ BreakDeadlock(w)

UserCommits(c) == InputCommits(c) \/ SwitchCommits(c) \/ BreakSwitch(c)

Next ==
    \/ \E e \in Alerts : Ingest(e)
    \/ \E c \in Conversations :
          InputBegins(c) \/ SwitchBegins(c) \/ UserCommits(c) \/ RunsSettle(c) \/ LeaseLapses(c)
    \/ \E w \in Workers :
          (\E c \in Conversations : Claim(w, c)) \/ Ticking(w) \/ Heartbeat(w)
          \/ TickFails(w) \/ SkipFinish(w) \/ Crash(w) \/ Restart(w)

Spec == Init /\ [][Next]_vars

\* Transactions end, also those that wait for a lock again and again (it is
\* granted in order), Runs settle, run_once goes on (every model call has a
\* timeout), abandoned leases run out, processes are restarted.  Loops poll, and
\* take the row that has waited longest (ORDER BY next_tick_at).
Fairness ==
    /\ \A c \in Conversations :
          SF_vars(UserCommits(c)) /\ WF_vars(RunsSettle(c)) /\ WF_vars(LeaseLapses(c) /\ ~Renewed(c))
    /\ \A c \in Conversations : SF_vars(\E w \in Workers : Claim(w, c))
    /\ \A w \in Workers : WF_vars(Ticking(w)) /\ WF_vars(Restart(w))

FairSpec == Spec /\ Fairness
-----------------------------------------------------------------------------
(* Properties *)

\* A tick that was revoked, or whose lease lapsed, is run again under its old
\* token: it says at most one message per source (append_automation_message).
OneMessagePerTick ==
    \A c \in Conversations : \A h, i \in DOMAIN said[c] : said[c][h].key = said[c][i].key => h = i

\* A background message is committed by the worker that owns the lease and
\* under the token of the row, whatever happened since it was judged.
OnlyTheOwnerSpeaks ==
    [][\A c \in Conversations : said'[c] # said[c] =>
          /\ owner[c] # None /\ pc[owner[c]] = "appending" /\ conv[owner[c]] = c
          /\ said'[c][Len(said'[c])].key.tick = token[c]]_vars

\* Every lease is given back, taken or runs out (finish_automation,
\* append_user_message_and_run, claim_next_automation).
LeasesEnd == \A c \in Conversations : lease[c] = "live" ~> lease[c] # "live"

\* An alert that was accepted is consumed in the end, and by then was said, or its
\* words were cut off behind the note that they were delivered: the append was
\* refused, aborted, or took the message of an earlier tick for it, or the
\* process died.  Not so if its target is given up or ceases to serve alerts
\* (claim_next_automation, AlertModule, configure_automation).
WasSaid(e) == \E c \in Conversations : \E i \in DOMAIN said[c] : said[c][i].event = e
AlertsAreHandled ==
    \A e \in Alerts : inbox[e] = "pending" ~>
        \/ (record[e] = "consumed" \/ inbox[e] = "acked") /\ (WasSaid(e) \/ e \in cut)
        \/ inbox[e] = "absent" \/ ~Serves(Home[e])
=============================================================================
