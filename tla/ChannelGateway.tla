--------------------------- MODULE ChannelGateway ---------------------------
(***************************************************************************)
(* The gateway between conversations and external chats                    *)
(* (src/cloud/channel_gateway.py, channel_deliveries and                   *)
(* channel_inbound_events in src/cloud/store.py) for one linked chat.      *)
(*                                                                         *)
(* Outbound: a message of the agent is a delivery row, which the loop of a *)
(* gateway process leases, sends as text and then media, and settles.      *)
(* Inbound: Telegram updates are polled, other chats post events; each     *)
(* becomes a Run.  Pairing, downloads and attachments are left out.        *)
(***************************************************************************)
EXTENDS Naturals

CONSTANTS
    Gateways,     \* gateway processes, by lease_owner
    Front,        \* the gateway that polls Telegram and is posted to
    Provider,     \* what the deliveries go to: "telegram", "qq" or "qqbot"
    Deliveries,   \* rows that may be added for the chat
    Content,      \* delivery -> its parts: the first 4096 characters, the rest, files
    Posted,       \* ids of events posted to the gateway
    Requests,     \* bound: requests handled at the same time
    MaxUpdates,   \* bound: Telegram updates, numbered from 1
    MaxAttempts,  \* attempts after which a refused delivery fails, 5 in the code
    MaxFaults,    \* bound: crashes, errors of the database
    None          \* SQL NULL

ASSUME ChannelConstants ==
    /\ Front \in Gateways
    /\ Deliveries # {}
    /\ Provider \in {"telegram", "qq", "qqbot"}
    /\ Content \in [Deliveries -> SUBSET {"head", "tail", "media"}]
    /\ "poller" \notin Requests
    /\ None \notin Gateways \cup Deliveries
    /\ {MaxUpdates, MaxAttempts, MaxFaults} \subseteq Nat
    /\ Posted \cap Nat = {}

VARIABLES
    status,     \* delivery -> status, or "absent", "deleted"
    attempt,    \* delivery -> attempts, counted up to MaxAttempts
    owner,      \* delivery -> lease_owner
    lapsed,     \* deliveries that run on an expired lease
    shown,      \* delivery -> its parts that reached the chat
    loop,       \* gateway -> where its delivery loop is
    job,        \* gateway -> the delivery in its hands
    arrived,    \* updates users have sent so far
    confirmed,  \* updates Telegram has dropped
    offset,     \* updates the poller asks no more for, in its memory
    fetched,    \* updates of the batch in its hands
    reader,     \* handler -> where ingest_channel_message is
    event,      \* handler -> the event it handles
    runs,       \* event -> Runs queued for it
    recorded,   \* channel_inbound_events
    dropped,    \* updates whose handling raised
    faults      \* faults so far

outbound == <<status, attempt, owner, lapsed, shown, loop, job>>
polling == <<arrived, confirmed, offset, fetched>>
inbound == <<polling, reader, event, runs, recorded, dropped>>
vars == <<outbound, inbound, faults>>

Updates == 1 .. MaxUpdates
Events == Updates \cup Posted
Handlers == {"poller"} \cup Requests
Places == {"idle", "text", "media", "sent", "refused", "dead", "down"}
Active == {"pending", "running"}
Settled == {"sent", "failed"}

Init ==
    /\ status = [d \in Deliveries |-> "absent"]
    /\ attempt = [d \in Deliveries |-> 0]
    /\ owner = [d \in Deliveries |-> None]
    /\ lapsed = {}
    /\ shown = [d \in Deliveries |-> {}]
    /\ loop = [w \in Gateways |-> "idle"]
    /\ job = [w \in Gateways |-> None]
    /\ arrived = 0 /\ confirmed = 0 /\ offset = 0 /\ fetched = 0
    /\ reader = [h \in Handlers |-> "idle"]
    /\ event = [h \in Handlers |-> None]
    /\ runs = [e \in Events |-> 0]
    /\ recorded = {}
    /\ dropped = {}
    /\ faults = 0
-----------------------------------------------------------------------------
(* Helpers *)

Goto(w, place) == loop' = [loop EXCEPT ![w] = place]
Later(i, j) == IF i > j THEN i ELSE j
Sooner(i, j) == IF i < j THEN i ELSE j
Fault == faults < MaxFaults /\ faults' = faults + 1

\* The chat is still linked to the conversation.
Linked == \A d \in Deliveries : status[d] # "deleted"

\* "channel worker does not own delivery" is the negation of this.
Owns(w) == owner[job[w]] = w

\* Rows a claim takes back.
NeverExpired == {}    \* mutated: rows are not taken back
Expired == {d \in lapsed : status[d] = "running"}

\* What is sent of a text: Telegram gets content[:4096].
Text(d) == (Content[d] \cap {"head", "tail"}) \ (IF Provider = "telegram" THEN {"tail"} ELSE {})
Media(d) == Content[d] \cap {"media"}

\* What a send of text leads to; a chat may have shown what it answers badly.
Unchecked(ok) == "media"    \* mutated: the answer is not looked at
AfterText(ok) == IF ok THEN "media" ELSE "refused"

Outcome(d, ok) == IF ok THEN "sent"
                  ELSE IF attempt[d] < MaxAttempts THEN "pending" ELSE "failed"

\* getUpdates drops what lies before the offset it is given.
ConfirmBatch == arrived    \* mutated: a batch is confirmed when it is fetched
Confirm == Later(confirmed, offset)

\* The update the poller takes next.
SkipOne == Later(confirmed, offset) + 2    \* mutated: off by one
NextUpdate == Later(confirmed, offset) + 1

\* The unique constraint on provider and external_event_id.
AlwaysNew(e) == TRUE    \* mutated: no constraint
IsNew(e) == e \notin recorded
-----------------------------------------------------------------------------
(* Outbound *)

\* _enqueue_channel_deliveries, enqueue_channel_push.
Enqueue(d) ==
    /\ status[d] = "absent"
    /\ status' = [status EXCEPT ![d] = "pending"]
    /\ UNCHANGED <<attempt, owner, lapsed, shown, loop, job, inbound, faults>>

\* delete_channel_link takes deliveries and events with it, whatever happens to
\* them.
DeleteLink ==
    /\ Linked
    /\ status' = [d \in Deliveries |-> "deleted"]
    /\ owner' = [d \in Deliveries |-> None]
    /\ lapsed' = {}
    /\ recorded' = {}
    /\ UNCHANGED <<attempt, shown, loop, job, polling, reader, event, runs, dropped, faults>>

\* claim_channel_delivery; rows that others have locked are skipped, so any
\* pending row may be the oldest one.
Claim(w) ==
    /\ loop[w] = "idle"
    /\ \E d \in {p \in Deliveries : status[p] = "pending"} \cup Expired :
          /\ status' = [p \in Deliveries |->
                IF p = d THEN "running" ELSE IF p \in Expired THEN "pending" ELSE status[p]]
          /\ owner' = [p \in Deliveries |->
                IF p = d THEN w ELSE IF p \in Expired THEN None ELSE owner[p]]
          /\ attempt' = [attempt EXCEPT ![d] = Sooner(@ + 1, MaxAttempts)]
          /\ job' = [job EXCEPT ![w] = d]
    /\ lapsed' = lapsed \ Expired
    /\ Goto(w, "text")
    /\ UNCHANGED <<shown, inbound, faults>>

\* _send.
SendText(w) ==
    /\ loop[w] = "text"
    /\ \E ok, seen \in BOOLEAN :
          /\ ok => seen
          /\ shown' = [shown EXCEPT ![job[w]] = IF seen THEN @ \cup Text(job[w]) ELSE @]
          /\ Goto(w, AfterText(ok))
    /\ UNCHANGED <<status, attempt, owner, lapsed, job, inbound, faults>>

\* _send_media; without files it calls nobody, and to QQBot it sends none.
SendMedia(w) ==
    /\ loop[w] = "media"
    /\ \E ok, seen \in BOOLEAN :
          /\ ok => seen
          /\ IF Media(job[w]) = {} THEN ok ELSE seen => Provider # "qqbot"
          /\ shown' = [shown EXCEPT ![job[w]] = IF seen THEN @ \cup Media(job[w]) ELSE @]
          /\ Goto(w, IF ok THEN "sent" ELSE "refused")
    /\ UNCHANGED <<status, attempt, owner, lapsed, job, inbound, faults>>

\* finish_channel_delivery; for a row that is another's, or gone, it raises and
\* nothing catches it: the task ends while the process stays up.
Finish(w) ==
    LET d == job[w] IN
    /\ loop[w] \in {"sent", "refused"}
    /\ IF Owns(w)
       THEN /\ status' = [status EXCEPT ![d] = Outcome(d, loop[w] = "sent")]
            /\ owner' = [owner EXCEPT ![d] = None]
            /\ lapsed' = lapsed \ {d}
            /\ Goto(w, "idle")
       ELSE Goto(w, "dead") /\ UNCHANGED <<status, owner, lapsed>>
    /\ job' = [job EXCEPT ![w] = None]
    /\ UNCHANGED <<attempt, shown, inbound, faults>>

\* The lease of 60 seconds is never renewed, and a call may take 30.
LeaseLapses(d) ==
    /\ status[d] = "running"
    /\ d \notin lapsed
    /\ lapsed' = lapsed \cup {d}
    /\ UNCHANGED <<status, attempt, owner, shown, loop, job, inbound, faults>>
-----------------------------------------------------------------------------
(* Inbound *)

Arrive ==
    /\ arrived < MaxUpdates
    /\ arrived' = arrived + 1
    /\ UNCHANGED <<outbound, confirmed, offset, fetched, reader, event, runs, recorded, dropped, faults>>

Up(h) == loop[Front] # "down" /\ reader[h] = "idle"

\* getUpdates.
Poll ==
    /\ Up("poller")
    /\ fetched <= Later(confirmed, offset)
    /\ confirmed' = Confirm
    /\ fetched' = arrived
    /\ UNCHANGED <<outbound, arrived, offset, reader, event, runs, recorded, dropped, faults>>

\* ingest_channel_message looks for the event, and goes on if it is new.  A
\* chat without a link is told to pair.
Look(h, e) ==
    IF e \in recorded \/ ~Linked
    THEN UNCHANGED <<reader, event>>
    ELSE reader' = [reader EXCEPT ![h] = "looked"] /\ event' = [event EXCEPT ![h] = e]

\* The next update of the batch; the offset moves before it is handled.
TakeUpdate ==
    /\ Up("poller")
    /\ NextUpdate <= fetched
    /\ offset' = NextUpdate
    /\ Look("poller", NextUpdate)
    /\ UNCHANGED <<outbound, arrived, confirmed, fetched, runs, recorded, dropped, faults>>

\* A chat posts an event, perhaps for the second time.
Post(r, e) ==
    /\ Up(r)
    /\ Look(r, e)
    /\ UNCHANGED <<outbound, polling, runs, recorded, dropped, faults>>

Free(h) ==
    /\ reader' = [reader EXCEPT ![h] = "idle"]
    /\ event' = [event EXCEPT ![h] = None]

\* An exception: a request is answered with an error, the poller drops the
\* rest of the batch and polls again.
GiveUp(h) ==
    /\ IF h = "poller"
       THEN dropped' = dropped \cup {event[h]} /\ fetched' = 0
       ELSE UNCHANGED <<dropped, fetched>>
    /\ Free(h)
    /\ UNCHANGED <<outbound, arrived, confirmed, offset, runs, recorded>>

\* The message, the Run and the event are inserted together, or not at all.
Insert(h) ==
    LET e == event[h] IN
    /\ reader[h] = "looked"
    /\ \/ /\ Linked
          /\ IF IsNew(e)
             THEN recorded' = recorded \cup {e} /\ runs' = [runs EXCEPT ![e] = @ + 1]
             ELSE UNCHANGED <<recorded, runs>>
          /\ Free(h)
          /\ UNCHANGED <<outbound, polling, dropped>>
       \/ ~Linked /\ GiveUp(h)
    /\ UNCHANGED faults

\* The database or a download fails.
HandlingFails(h) == reader[h] = "looked" /\ Fault /\ GiveUp(h)
-----------------------------------------------------------------------------
(* Environment *)

\* A claim or a finish meets an error of the database.
LoopDies(w) ==
    /\ loop[w] \in {"idle", "sent", "refused"}
    /\ Fault
    /\ Goto(w, "dead")
    /\ job' = [job EXCEPT ![w] = None]
    /\ UNCHANGED <<status, attempt, owner, lapsed, shown, inbound>>

Crash(w) ==
    /\ loop[w] # "down"
    /\ Fault
    /\ Goto(w, "down")
    /\ job' = [job EXCEPT ![w] = None]
    /\ IF w = Front
       THEN /\ offset' = 0 /\ fetched' = 0
            /\ reader' = [h \in Handlers |-> "idle"]
            /\ event' = [h \in Handlers |-> None]
       ELSE UNCHANGED <<offset, fetched, reader, event>>
    /\ UNCHANGED <<status, attempt, owner, lapsed, shown, arrived, confirmed, runs, recorded, dropped>>

Restart(w) ==
    /\ loop[w] = "down"
    /\ Goto(w, "idle")
    /\ UNCHANGED <<status, attempt, owner, lapsed, shown, job, inbound, faults>>
-----------------------------------------------------------------------------
Delivering(w) == SendText(w) \/ SendMedia(w) \/ Finish(w)
Reading == Poll \/ TakeUpdate \/ Insert("poller")

Next ==
    \/ DeleteLink \/ Arrive \/ Reading
    \/ \E d \in Deliveries : Enqueue(d) \/ LeaseLapses(d)
    \/ \E w \in Gateways :
          Claim(w) \/ Delivering(w) \/ LoopDies(w) \/ Crash(w) \/ Restart(w)
    \/ \E r \in Requests : Insert(r) \/ \E e \in Posted : Post(r, e)
    \/ \E h \in Handlers : HandlingFails(h)

Spec == Init /\ [][Next]_vars

\* Loops poll, calls have timeouts, leases run out, processes are restarted.
\* A loop that died is not.
FairSpec ==
    /\ Spec
    /\ WF_vars(Reading)
    /\ \A d \in Deliveries : WF_vars(LeaseLapses(d))
    /\ \A w \in Gateways : WF_vars(Claim(w)) /\ WF_vars(Delivering(w)) /\ WF_vars(Restart(w))
-----------------------------------------------------------------------------
(* Properties *)

\* Rows, loops and handlers have the shape the tables and the code give them.
TypeOK ==
    /\ status \in [Deliveries -> {"absent", "deleted"} \cup Active \cup Settled]
    /\ attempt \in [Deliveries -> 0 .. MaxAttempts]
    /\ owner \in [Deliveries -> Gateways \cup {None}]
    /\ \A d \in Deliveries : status[d] = "running" <=> owner[d] # None
    /\ lapsed \subseteq Deliveries
    /\ shown \in [Deliveries -> SUBSET {"head", "tail", "media"}]
    /\ loop \in [Gateways -> Places]
    /\ job \in [Gateways -> Deliveries \cup {None}]
    /\ {arrived, confirmed, offset, fetched} \subseteq 0 .. MaxUpdates
    /\ reader \in [Handlers -> {"idle", "looked"}]
    /\ event \in [Handlers -> Events \cup {None}]
    /\ runs \in [Events -> Nat]
    /\ recorded \subseteq Events /\ dropped \subseteq Updates
    /\ faults \in 0 .. MaxFaults

\* A message counts as sent only after its text and its files reached the chat,
\* whoever else was sending it; of a text for Telegram all but what is behind
\* its first 4096 characters, which nobody sends (ChannelDeliveryWorker.run_once).
SentReachedTheChat ==
    \A d \in Deliveries : status[d] = "sent" =>
        Content[d] \ shown[d] \subseteq (IF Provider = "telegram" THEN {"tail"} ELSE {})

\* A settled delivery is not taken up again, nor settled otherwise by a loop
\* that lost it (finish_channel_delivery, claim_channel_delivery).
SettledIsFinal ==
    [][\A d \in Deliveries : status[d] \in Settled => status'[d] \in {status[d], "deleted"}]_vars

\* Updates that are polled again after a crash and events that are posted
\* twice at a time queue one Run (ingest_channel_message).
OneRunPerEvent == \A e \in Events : runs[e] <= 1

\* Telegram drops an update only after it was stored, or its handling raised:
\* a crash loses none (TelegramPollingAdapter.run_forever).
DroppedWereHandled ==
    Linked => \A u \in Updates : u <= confirmed => u \in recorded \cup dropped

\* Every update is handled while the link is there (TelegramPollingAdapter.run_forever).
UpdatesAreHandled ==
    \A u \in Updates : arrived >= u ~> u \in recorded \cup dropped \/ ~Linked

\* A delivery is settled, or goes with its link, as long as a loop is left
\* (ChannelDeliveryWorker.run_forever).
DeliveriesEnd ==
    \A d \in Deliveries : status[d] \in Active ~>
        status[d] \notin Active \/ \A w \in Gateways : loop[w] = "dead"
=============================================================================
