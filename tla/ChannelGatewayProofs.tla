------------------------ MODULE ChannelGatewayProofs ------------------------
(***************************************************************************)
(* The safety of ChannelGateway for any number of gateways, deliveries,    *)
(* events and faults.  The two directions meet in the link only, so the    *)
(* invariant has a part for each.                                          *)
(***************************************************************************)
EXTENDS ChannelGateway, TLAPS

TypeOut ==
    /\ status \in [Deliveries -> {"absent", "deleted"} \cup Active \cup Settled]
    /\ attempt \in [Deliveries -> 0 .. MaxAttempts]
    /\ owner \in [Deliveries -> Gateways \cup {None}]
    /\ \A d \in Deliveries : status[d] = "running" <=> owner[d] # None
    /\ lapsed \subseteq Deliveries
    /\ shown \in [Deliveries -> SUBSET {"head", "tail", "media"}]
    /\ loop \in [Gateways -> Places]
    /\ job \in [Gateways -> Deliveries \cup {None}]

TypeIn ==
    /\ {arrived, confirmed, offset, fetched} \subseteq 0 .. MaxUpdates
    /\ reader \in [Handlers -> {"idle", "looked"}]
    /\ event \in [Handlers -> Events \cup {None}]
    /\ runs \in [Events -> Nat]
    /\ recorded \subseteq Events
    /\ dropped \subseteq Updates

\* A loop that is busy has a delivery in its hands.
InHand ==
    \A w \in Gateways :
        loop[w] \in {"text", "media", "sent", "refused"} => job[w] \in Deliveries

\* A loop goes on to the media, and to the report, with what was sent shown.
PartsShown ==
    \A w \in Gateways :
        /\ loop[w] = "media" => Text(job[w]) \subseteq shown[job[w]]
        /\ loop[w] = "sent" => Text(job[w]) \cup Media(job[w]) \subseteq shown[job[w]]

OutInv == TypeOut /\ InHand /\ PartsShown /\ SentReachedTheChat

\* A handler that looked has an event, and the poller one of Telegram's.
EventInHand ==
    /\ \A h \in Handlers : reader[h] = "looked" => event[h] \in Events
    /\ reader["poller"] = "looked" => event["poller"] \in Updates

\* While the link is there, an event a Run was queued for is recorded.
QueuedIsRecorded ==
    \A e \in Events : runs[e] <= 1 /\ (Linked /\ runs[e] = 1 => e \in recorded)

\* What the poller is past is handled, or in its hands.
ReadUpTo ==
    Linked => \A u \in Updates : u <= confirmed \/ u <= offset =>
        u \in recorded \cup dropped \/ (reader["poller"] = "looked" /\ event["poller"] = u)

InInv == TypeIn /\ EventInHand /\ QueuedIsRecorded /\ ReadUpTo /\ DroppedWereHandled

IInv == OutInv /\ InInv /\ faults \in 0 .. MaxFaults

\* What a step may do to deliveries that are settled.
SettledStay ==
    \A d \in Deliveries : status[d] \in Settled => status'[d] \in {status[d], "deleted"}

\* A delivery is what is sent of it, and what Telegram is not given.
LEMMA PartsOfDelivery ==
    ASSUME NEW d \in Deliveries
    PROVE  /\ Text(d) \cup Media(d) \subseteq {"head", "tail", "media"}
           /\ Content[d] \ (Text(d) \cup Media(d))
                 \subseteq (IF Provider = "telegram" THEN {"tail"} ELSE {})
  BY ChannelConstants DEF Text, Media

LEMMA Shape == IInv => TypeOK
  BY DEF IInv, OutInv, InInv, TypeOut, TypeIn, TypeOK

LEMMA Starts == Init => IInv
<1> SUFFICES ASSUME Init PROVE IInv
  OBVIOUS
<1>1. OutInv
  BY ChannelConstants DEF Init, OutInv, TypeOut, InHand, PartsShown, SentReachedTheChat, Places
<1>2. InInv
  <2>1. TypeIn
    BY ChannelConstants DEF Init, TypeIn
  <2>2. EventInHand
    BY DEF Init, EventInHand, Handlers
  <2>3. QueuedIsRecorded /\ ReadUpTo /\ DroppedWereHandled
    BY ChannelConstants DEF Init, QueuedIsRecorded, ReadUpTo, DroppedWereHandled, Updates
  <2> QED
    BY <2>1, <2>2, <2>3 DEF InInv
<1> QED
  BY <1>1, <1>2, ChannelConstants DEF Init, IInv
-----------------------------------------------------------------------------
(* Outbound *)

\* The inbound half does not notice what a delivery does, but for a deletion.
LEMMA InKept == ASSUME InInv, UNCHANGED inbound, Linked' => Linked PROVE InInv'
<1>1. TypeIn' /\ EventInHand'
  BY DEF InInv, inbound, polling, TypeIn, EventInHand
<1>2. QueuedIsRecorded' /\ ReadUpTo' /\ DroppedWereHandled'
  BY DEF InInv, inbound, polling, QueuedIsRecorded, ReadUpTo, DroppedWereHandled
<1> QED
  BY <1>1, <1>2 DEF InInv

LEMMA EnqueueStep == ASSUME IInv, NEW d \in Deliveries, Enqueue(d) PROVE IInv' /\ SettledStay
<1>1. TypeOut'
  BY DEF IInv, OutInv, TypeOut, Enqueue, Active
<1>2. InHand' /\ PartsShown' /\ SentReachedTheChat'
  BY DEF IInv, OutInv, TypeOut, Enqueue, InHand, PartsShown, SentReachedTheChat
<1>3. SettledStay /\ (Linked' => Linked)
  BY DEF IInv, OutInv, TypeOut, Enqueue, SettledStay, Settled, Linked
<1> QED
  BY <1>1, <1>2, <1>3, InKept DEF IInv, OutInv, Enqueue

LEMMA ClaimStep == ASSUME IInv, NEW w \in Gateways, Claim(w) PROVE IInv' /\ SettledStay
<1>1. PICK d \in Deliveries :
          /\ status[d] = "pending" \/ d \in Expired
          /\ status' = [p \in Deliveries |->
                IF p = d THEN "running" ELSE IF p \in Expired THEN "pending" ELSE status[p]]
          /\ owner' = [p \in Deliveries |->
                IF p = d THEN w ELSE IF p \in Expired THEN None ELSE owner[p]]
          /\ attempt' = [attempt EXCEPT ![d] = Sooner(@ + 1, MaxAttempts)]
          /\ job' = [job EXCEPT ![w] = d]
  BY DEF Claim, Expired, IInv, OutInv, TypeOut
<1>2. \A p \in Expired : p \in Deliveries /\ status[p] = "running"
  BY DEF Expired, IInv, OutInv, TypeOut
<1>3. TypeOut'
  <2>1. status' \in [Deliveries -> {"absent", "deleted"} \cup Active \cup Settled]
    BY <1>1 DEF IInv, OutInv, TypeOut, Active
  <2>2. attempt' \in [Deliveries -> 0 .. MaxAttempts]
    BY <1>1, ChannelConstants DEF IInv, OutInv, TypeOut, Sooner
  <2>3. /\ owner' \in [Deliveries -> Gateways \cup {None}]
        /\ \A p \in Deliveries : status'[p] = "running" <=> owner'[p] # None
    BY <1>1, <1>2, ChannelConstants DEF IInv, OutInv, TypeOut
  <2>4. loop' \in [Gateways -> Places] /\ job' \in [Gateways -> Deliveries \cup {None}]
    BY <1>1 DEF Claim, Goto, Places, IInv, OutInv, TypeOut
  <2> QED
    BY <2>1, <2>2, <2>3, <2>4 DEF Claim, IInv, OutInv, TypeOut
<1>4. InHand' /\ PartsShown'
  BY <1>1 DEF Claim, Goto, IInv, OutInv, TypeOut, InHand, PartsShown
<1>5. SentReachedTheChat' /\ SettledStay /\ (Linked' => Linked)
  BY <1>1, <1>2 DEF Claim, IInv, OutInv, TypeOut, SentReachedTheChat, SettledStay, Settled, Linked
<1> QED
  BY <1>3, <1>4, <1>5, InKept DEF IInv, OutInv, Claim

\* A send changes what the chat shows and where the loop is.
LEMMA SendStep ==
    ASSUME IInv, NEW w \in Gateways, SendText(w) \/ SendMedia(w) PROVE IInv' /\ SettledStay
<1>1. /\ loop[w] \in {"text", "media"}
      /\ UNCHANGED <<status, attempt, owner, lapsed, job, inbound, faults>>
      /\ job[w] \in Deliveries
  BY DEF SendText, SendMedia, IInv, OutInv, InHand
<1>2. PICK parts \in SUBSET {"head", "tail", "media"}, seen \in BOOLEAN,
           place \in {"media", "sent", "refused"} :
          /\ shown' = [shown EXCEPT ![job[w]] = IF seen THEN @ \cup parts ELSE @]
          /\ loop' = [loop EXCEPT ![w] = place]
          /\ place = "media" => seen /\ parts = Text(job[w])
          /\ place = "sent" => seen /\ parts = Media(job[w]) /\ loop[w] = "media"
  <2>1. Text(job[w]) \in SUBSET {"head", "tail", "media"}
        /\ Media(job[w]) \in SUBSET {"head", "tail", "media"}
    BY <1>1, PartsOfDelivery
  <2>2. CASE SendText(w)
    BY <2>1, <2>2 DEF SendText, AfterText, Goto
  <2>3. CASE SendMedia(w)
    BY <2>1, <2>3 DEF SendMedia, Goto
  <2> QED
    BY <2>2, <2>3
<1>3. TypeOut'
  BY <1>1, <1>2 DEF IInv, OutInv, TypeOut, Places
<1>4. InHand'
  BY <1>1, <1>2 DEF IInv, OutInv, TypeOut, InHand
<1>5. PartsShown'
  BY <1>1, <1>2 DEF IInv, OutInv, TypeOut, InHand, PartsShown
<1>6. SentReachedTheChat'
  BY <1>1, <1>2 DEF IInv, OutInv, TypeOut, SentReachedTheChat
<1>7. SettledStay /\ (Linked' => Linked)
  BY <1>1 DEF SettledStay, Linked
<1> QED
  BY <1>1, <1>3, <1>4, <1>5, <1>6, <1>7, InKept DEF IInv, OutInv

LEMMA FinishStep == ASSUME IInv, NEW w \in Gateways, Finish(w) PROVE IInv' /\ SettledStay
<1> DEFINE d == job[w]
<1>1. d \in Deliveries
  BY DEF Finish, IInv, OutInv, InHand
<1>2. CASE Owns(w)
  <2>1. status[d] = "running"
    BY <1>1, <1>2, ChannelConstants DEF Owns, IInv, OutInv, TypeOut
  <2>2. /\ status' = [status EXCEPT ![d] = Outcome(d, loop[w] = "sent")]
        /\ owner' = [owner EXCEPT ![d] = None]
        /\ lapsed' = lapsed \ {d}
        /\ loop' = [loop EXCEPT ![w] = "idle"]
        /\ job' = [job EXCEPT ![w] = None]
        /\ UNCHANGED <<attempt, shown, inbound, faults>>
    BY <1>2 DEF Finish, Goto
  <2>3. /\ Outcome(d, loop[w] = "sent") \in {"sent", "pending", "failed"}
        /\ Outcome(d, loop[w] = "sent") = "sent" => loop[w] = "sent"
    BY DEF Outcome
  <2>4. TypeOut'
    BY <1>1, <2>2, <2>3 DEF IInv, OutInv, TypeOut, Places, Active, Settled
  <2>5. InHand' /\ PartsShown'
    BY <2>2 DEF IInv, OutInv, TypeOut, InHand, PartsShown
  <2>6. SentReachedTheChat'
    <3>1. loop[w] = "sent" => Text(d) \cup Media(d) \subseteq shown[d]
      BY <1>1 DEF IInv, OutInv, TypeOut, PartsShown
    <3>2. loop[w] = "sent" =>
            Content[d] \ shown[d] \subseteq (IF Provider = "telegram" THEN {"tail"} ELSE {})
      BY <1>1, <3>1, PartsOfDelivery
    <3> QED
      BY <1>1, <2>2, <2>3, <3>2 DEF IInv, OutInv, TypeOut, SentReachedTheChat
  <2>7. SettledStay /\ (Linked' => Linked)
    BY <1>1, <2>1, <2>2 DEF IInv, OutInv, TypeOut, SettledStay, Settled, Linked
  <2> QED
    BY <2>2, <2>4, <2>5, <2>6, <2>7, InKept DEF IInv, OutInv
<1>3. CASE ~Owns(w)
  <2>1. /\ loop' = [loop EXCEPT ![w] = "dead"]
        /\ job' = [job EXCEPT ![w] = None]
        /\ UNCHANGED <<status, attempt, owner, lapsed, shown, inbound, faults>>
    BY <1>3 DEF Finish, Goto
  <2>2. TypeOut' /\ InHand' /\ PartsShown'
    BY <2>1 DEF IInv, OutInv, TypeOut, Places, InHand, PartsShown
  <2>3. SentReachedTheChat' /\ SettledStay /\ (Linked' => Linked)
    BY <2>1 DEF IInv, OutInv, SentReachedTheChat, SettledStay, Linked
  <2> QED
    BY <2>1, <2>2, <2>3, InKept DEF IInv, OutInv
<1> QED
  BY <1>2, <1>3

LEMMA LeaseLapsesStep ==
    ASSUME IInv, NEW d \in Deliveries, LeaseLapses(d) PROVE IInv' /\ SettledStay
<1>1. OutInv'
  BY DEF LeaseLapses, IInv, OutInv, TypeOut, InHand, PartsShown, SentReachedTheChat
<1>2. SettledStay /\ (Linked' => Linked)
  BY DEF LeaseLapses, SettledStay, Linked
<1> QED
  BY <1>1, <1>2, InKept DEF IInv, LeaseLapses

\* The link goes, and what is said of a linked chat with it.
LEMMA DeleteLinkStep == ASSUME IInv, DeleteLink PROVE IInv' /\ SettledStay
<1>1. ~Linked'
  BY ChannelConstants DEF DeleteLink, Linked
<1>2. TypeOut' /\ InHand' /\ PartsShown'
  BY DEF DeleteLink, IInv, OutInv, TypeOut, InHand, PartsShown
<1>3. SentReachedTheChat' /\ SettledStay
  BY DEF DeleteLink, SentReachedTheChat, SettledStay
<1>4. TypeIn' /\ EventInHand'
  BY DEF DeleteLink, polling, IInv, InInv, TypeIn, EventInHand
<1>5. QueuedIsRecorded'
  BY <1>1 DEF DeleteLink, IInv, InInv, QueuedIsRecorded
<1>6. ReadUpTo' /\ DroppedWereHandled'
  BY <1>1 DEF ReadUpTo, DroppedWereHandled
<1> QED
  BY <1>2, <1>3, <1>4, <1>5, <1>6 DEF IInv, OutInv, InInv, DeleteLink
-----------------------------------------------------------------------------
(* Inbound *)

\* The outbound half does not notice what is read.
LEMMA OutKept == ASSUME OutInv, UNCHANGED outbound PROVE OutInv' /\ SettledStay /\ Linked' = Linked
<1>1. TypeOut' /\ InHand'
  BY DEF OutInv, outbound, TypeOut, InHand
<1>2. PartsShown' /\ SentReachedTheChat' /\ SettledStay /\ Linked' = Linked
  BY DEF OutInv, outbound, PartsShown, SentReachedTheChat, SettledStay, Linked
<1> QED
  BY <1>1, <1>2 DEF OutInv

LEMMA Bounds ==
    ASSUME TypeIn
    PROVE  /\ arrived \in 0 .. MaxUpdates /\ confirmed \in 0 .. MaxUpdates
           /\ offset \in 0 .. MaxUpdates /\ fetched \in 0 .. MaxUpdates
           /\ Later(confirmed, offset) \in 0 .. MaxUpdates
           /\ \A u \in Nat : u <= Later(confirmed, offset) <=> u <= confirmed \/ u <= offset
           /\ Updates \subseteq Nat
  BY ChannelConstants DEF TypeIn, Later, Updates

LEMMA ArriveStep == ASSUME IInv, Arrive PROVE IInv' /\ SettledStay
<1>1. InInv'
  <2>1. TypeIn'
    BY Bounds, ChannelConstants DEF Arrive, IInv, InInv, TypeIn
  <2>2. EventInHand' /\ QueuedIsRecorded' /\ ReadUpTo' /\ DroppedWereHandled'
    BY OutKept DEF Arrive, IInv, InInv, EventInHand, QueuedIsRecorded, ReadUpTo, DroppedWereHandled
  <2> QED
    BY <2>1, <2>2 DEF InInv
<1> QED
  BY <1>1, OutKept DEF IInv, Arrive

\* Telegram is told of updates that are handled: the poller holds none.
LEMMA PollStep == ASSUME IInv, Poll PROVE IInv' /\ SettledStay
<1>1. /\ reader["poller"] = "idle"
      /\ confirmed' = Later(confirmed, offset)
      /\ fetched' = arrived
      /\ UNCHANGED <<outbound, arrived, offset, reader, event, runs, recorded, dropped, faults>>
  BY DEF Poll, Up, Confirm
<1>2. TypeIn' /\ EventInHand'
  BY <1>1, Bounds DEF IInv, InInv, TypeIn, EventInHand
<1>3. QueuedIsRecorded'
  BY <1>1, OutKept DEF IInv, InInv, QueuedIsRecorded
<1>4. Linked => \A u \in Updates : u <= Later(confirmed, offset) => u \in recorded \cup dropped
  BY <1>1, Bounds DEF IInv, InInv, ReadUpTo
<1>5. DroppedWereHandled'
  BY <1>1, <1>4, OutKept DEF IInv, DroppedWereHandled
<1>6. ReadUpTo'
  BY <1>1, <1>4, Bounds, OutKept DEF IInv, InInv, ReadUpTo
<1> QED
  BY <1>1, <1>2, <1>3, <1>5, <1>6, OutKept DEF IInv, InInv

LEMMA TakeUpdateStep == ASSUME IInv, TakeUpdate PROVE IInv' /\ SettledStay
<1> DEFINE n == Later(confirmed, offset) + 1
<1>1. /\ reader["poller"] = "idle"
      /\ n <= fetched
      /\ offset' = n
      /\ Look("poller", n)
      /\ UNCHANGED <<outbound, arrived, confirmed, fetched, runs, recorded, dropped, faults>>
  BY DEF TakeUpdate, Up, NextUpdate
<1>2. n \in Updates /\ n \in 0 .. MaxUpdates
  BY <1>1, Bounds, ChannelConstants DEF IInv, InInv, Updates
<1>3. TypeIn' /\ EventInHand'
  BY <1>1, <1>2, Bounds DEF IInv, InInv, TypeIn, EventInHand, Look, Events, Handlers
<1>4. QueuedIsRecorded' /\ DroppedWereHandled'
  BY <1>1, OutKept DEF IInv, InInv, QueuedIsRecorded, DroppedWereHandled
<1>5. ReadUpTo'
  <2> SUFFICES ASSUME Linked', NEW u \in Updates, u <= confirmed \/ u <= n
               PROVE  u \in recorded \cup dropped
                      \/ (reader'["poller"] = "looked" /\ event'["poller"] = u)
    BY <1>1 DEF ReadUpTo
  <2>1. Linked
    BY <1>1, OutKept DEF IInv
  <2>2. CASE u = n
    BY <1>1, <2>1, <2>2 DEF Look, IInv, InInv, TypeIn, Handlers
  <2>3. CASE u # n
    <3>1. u <= confirmed \/ u <= offset
      BY <2>3, Bounds DEF IInv, InInv
    <3> QED
      BY <1>1, <2>1, <3>1 DEF IInv, InInv, ReadUpTo
  <2> QED
    BY <2>2, <2>3
<1> QED
  BY <1>1, <1>3, <1>4, <1>5, OutKept DEF IInv, InInv

LEMMA PostStep ==
    ASSUME IInv, NEW r \in Requests, NEW e \in Posted, Post(r, e) PROVE IInv' /\ SettledStay
<1>1. /\ UNCHANGED <<outbound, polling, runs, recorded, dropped, faults>>
      /\ r # "poller" /\ r \in Handlers /\ e \in Events
  BY ChannelConstants DEF Post, Handlers, Events
<1>2. \/ UNCHANGED <<reader, event>>
      \/ reader' = [reader EXCEPT ![r] = "looked"] /\ event' = [event EXCEPT ![r] = e]
  BY DEF Post, Look
<1>3. TypeIn' /\ EventInHand'
  BY <1>1, <1>2 DEF polling, IInv, InInv, TypeIn, EventInHand, Handlers
<1>4. reader'["poller"] = reader["poller"] /\ event'["poller"] = event["poller"]
  BY <1>1, <1>2 DEF IInv, InInv, TypeIn, Handlers
<1>5. QueuedIsRecorded' /\ ReadUpTo' /\ DroppedWereHandled'
  BY <1>1, <1>4, OutKept DEF polling, IInv, InInv, QueuedIsRecorded, ReadUpTo, DroppedWereHandled
<1> QED
  BY <1>1, <1>3, <1>5, OutKept DEF IInv, InInv

\* An exception leaves the update of the poller dropped, an event posted to
\* be posted again.
LEMMA GivesUp ==
    ASSUME IInv, NEW h \in Handlers, reader[h] = "looked", GiveUp(h), faults' \in 0 .. MaxFaults
    PROVE  IInv' /\ SettledStay
<1>1. /\ reader' = [reader EXCEPT ![h] = "idle"]
      /\ event' = [event EXCEPT ![h] = None]
      /\ UNCHANGED <<outbound, arrived, confirmed, offset, runs, recorded>>
      /\ h = "poller" => dropped' = dropped \cup {event[h]} /\ fetched' = 0
      /\ h # "poller" => UNCHANGED <<dropped, fetched>>
  BY DEF GiveUp, Free
<1>2. TypeIn'
  <2>1. dropped' \subseteq Updates
    BY <1>1 DEF IInv, InInv, TypeIn, EventInHand
  <2>2. fetched' \in 0 .. MaxUpdates
    BY <1>1, Bounds, ChannelConstants DEF IInv, InInv
  <2>3. reader' \in [Handlers -> {"idle", "looked"}] /\ event' \in [Handlers -> Events \cup {None}]
    BY <1>1 DEF IInv, InInv, TypeIn
  <2> QED
    BY <1>1, <2>1, <2>2, <2>3, Bounds DEF IInv, InInv, TypeIn
<1>3. EventInHand'
  BY <1>1 DEF IInv, InInv, TypeIn, EventInHand, Handlers
<1>4. QueuedIsRecorded'
  BY <1>1, OutKept DEF IInv, InInv, QueuedIsRecorded
<1>5. DroppedWereHandled'
  BY <1>1, OutKept DEF IInv, InInv, DroppedWereHandled
<1>6. ReadUpTo'
  BY <1>1, OutKept DEF IInv, InInv, TypeIn, ReadUpTo, Handlers
<1> QED
  BY <1>1, <1>2, <1>3, <1>4, <1>5, <1>6, OutKept DEF IInv, InInv

\* The unique constraint decides between handlers of one event.
LEMMA InsertStep == ASSUME IInv, NEW h \in Handlers, Insert(h) PROVE IInv' /\ SettledStay
<1> DEFINE e == event[h]
<1>1. reader[h] = "looked" /\ e \in Events /\ (h = "poller" => e \in Updates)
  BY DEF Insert, IInv, InInv, EventInHand
<1>2. CASE ~Linked /\ GiveUp(h)
  BY <1>1, <1>2, GivesUp DEF Insert, IInv
<1>3. CASE /\ Linked
           /\ IF IsNew(e)
              THEN recorded' = recorded \cup {e} /\ runs' = [runs EXCEPT ![e] = @ + 1]
              ELSE UNCHANGED <<recorded, runs>>
           /\ Free(h)
           /\ UNCHANGED <<outbound, polling, dropped>>
  <2>1. e \in recorded'
    BY <1>3 DEF IsNew
  <2>2. TypeIn'
    BY <1>1, <1>3 DEF polling, Free, IInv, InInv, TypeIn
  <2>3. EventInHand'
    BY <1>3 DEF Free, IInv, InInv, TypeIn, EventInHand, Handlers
  <2>4. QueuedIsRecorded'
    <3>1. CASE IsNew(e)
      <4>1. runs[e] = 0
        BY <1>1, <1>3, <3>1 DEF IsNew, IInv, InInv, TypeIn, QueuedIsRecorded
      <4> QED
        BY <1>1, <1>3, <3>1, <4>1, OutKept DEF IInv, InInv, TypeIn, QueuedIsRecorded
    <3>2. CASE ~IsNew(e)
      BY <1>3, <3>2, OutKept DEF IInv, InInv, QueuedIsRecorded
    <3> QED
      BY <3>1, <3>2
  <2>5. recorded \subseteq recorded'
    BY <1>3
  <2>6. DroppedWereHandled'
    BY <1>3, <2>5, OutKept DEF polling, IInv, InInv, DroppedWereHandled
  <2>7. ReadUpTo'
    BY <1>3, <2>1, <2>5, OutKept DEF polling, Free, IInv, InInv, TypeIn, ReadUpTo, Handlers
  <2> QED
    BY <1>3, <2>2, <2>3, <2>4, <2>6, <2>7, OutKept DEF Insert, IInv, InInv
<1> QED
  BY <1>2, <1>3 DEF Insert

LEMMA HandlingFailsStep ==
    ASSUME IInv, NEW h \in Handlers, HandlingFails(h) PROVE IInv' /\ SettledStay
<1>1. faults' \in 0 .. MaxFaults
  BY ChannelConstants DEF HandlingFails, Fault, IInv
<1> QED
  BY <1>1, GivesUp DEF HandlingFails
-----------------------------------------------------------------------------
(* Environment *)

\* A loop stops or starts, with nothing in its hands.
LEMMA LoopStops ==
    ASSUME OutInv, NEW w \in Gateways, NEW p \in {"dead", "down", "idle"},
           loop' = [loop EXCEPT ![w] = p], job' = [job EXCEPT ![w] = None] \/ UNCHANGED job,
           UNCHANGED <<status, attempt, owner, lapsed, shown>>
    PROVE  OutInv' /\ SettledStay /\ Linked' = Linked
<1>1. TypeOut'
  BY DEF OutInv, TypeOut, Places
<1>2. InHand' /\ PartsShown'
  BY DEF OutInv, TypeOut, InHand, PartsShown
<1>3. SentReachedTheChat' /\ SettledStay /\ Linked' = Linked
  BY DEF OutInv, SentReachedTheChat, SettledStay, Linked
<1> QED
  BY <1>1, <1>2, <1>3 DEF OutInv

LEMMA LoopDiesStep == ASSUME IInv, NEW w \in Gateways, LoopDies(w) PROVE IInv' /\ SettledStay
<1>1. faults' \in 0 .. MaxFaults /\ UNCHANGED inbound
  BY ChannelConstants DEF LoopDies, Fault, IInv
<1>2. OutInv' /\ SettledStay /\ Linked' = Linked
  BY LoopStops DEF LoopDies, Goto, IInv
<1> QED
  BY <1>1, <1>2, InKept DEF IInv

LEMMA RestartStep == ASSUME IInv, NEW w \in Gateways, Restart(w) PROVE IInv' /\ SettledStay
<1>1. UNCHANGED <<inbound, faults>>
  BY DEF Restart
<1>2. OutInv' /\ SettledStay /\ Linked' = Linked
  BY LoopStops DEF Restart, Goto, IInv
<1> QED
  BY <1>1, <1>2, InKept DEF IInv

\* After a crash the poller asks from what Telegram has dropped.
LEMMA CrashStep == ASSUME IInv, NEW w \in Gateways, Crash(w) PROVE IInv' /\ SettledStay
<1>1. faults' \in 0 .. MaxFaults
  BY ChannelConstants DEF Crash, Fault, IInv
<1>2. OutInv' /\ SettledStay /\ Linked' = Linked
  BY LoopStops DEF Crash, Goto, IInv
<1>3. CASE w # Front
  <2>1. UNCHANGED inbound
    BY <1>3 DEF Crash, inbound, polling
  <2> QED
    BY <1>1, <1>2, <2>1, InKept DEF IInv
<1>4. CASE w = Front
  <2>1. /\ offset' = 0 /\ fetched' = 0
        /\ reader' = [h \in Handlers |-> "idle"]
        /\ event' = [h \in Handlers |-> None]
        /\ UNCHANGED <<arrived, confirmed, runs, recorded, dropped>>
    BY <1>4 DEF Crash
  <2>2. TypeIn' /\ EventInHand'
    BY <2>1, ChannelConstants DEF IInv, InInv, TypeIn, EventInHand, Handlers
  <2>3. QueuedIsRecorded' /\ DroppedWereHandled'
    BY <1>2, <2>1 DEF IInv, InInv, QueuedIsRecorded, DroppedWereHandled
  <2>4. ReadUpTo'
    BY <1>2, <2>1 DEF IInv, InInv, ReadUpTo, DroppedWereHandled, Updates
  <2> QED
    BY <1>1, <1>2, <2>2, <2>3, <2>4 DEF IInv, InInv
<1> QED
  BY <1>3, <1>4
-----------------------------------------------------------------------------
LEMMA Steps == IInv /\ Next => IInv' /\ SettledStay
<1>1. Requests \subseteq Handlers /\ "poller" \in Handlers
  BY DEF Handlers
<1> QED
  BY <1>1, DeleteLinkStep, ArriveStep, PollStep, TakeUpdateStep, InsertStep, EnqueueStep,
     LeaseLapsesStep, ClaimStep, SendStep, FinishStep, LoopDiesStep, CrashStep, RestartStep,
     PostStep, HandlingFailsStep DEF Next, Reading, Delivering

LEMMA Stutters == IInv /\ UNCHANGED vars => IInv' /\ SettledStay
<1> SUFFICES ASSUME IInv, UNCHANGED vars PROVE IInv' /\ SettledStay
  OBVIOUS
<1>1. UNCHANGED <<outbound, inbound, faults>>
  BY DEF vars
<1> QED
  BY <1>1, OutKept, InKept DEF IInv

LEMMA Inductive == Spec => []IInv
  BY Starts, Steps, Stutters, PTL DEF Spec

\* Rows, loops and handlers keep their shape (channel_gateway.py, store.py).
THEOREM Typing == Spec => []TypeOK
  BY Inductive, Shape, PTL

\* Sent means that all of the message reached the chat
\* (ChannelDeliveryWorker.run_once).
THEOREM SentReached == Spec => []SentReachedTheChat
  BY Inductive, PTL DEF IInv, OutInv

\* A settled delivery is never taken up or settled again
\* (finish_channel_delivery).
THEOREM Finality == Spec => SettledIsFinal
<1>1. IInv /\ [Next]_vars => [SettledStay]_vars
  BY Steps
<1> QED
  BY <1>1, Inductive, PTL DEF Spec, SettledIsFinal, SettledStay

\* An event queues one Run at most, however often it is delivered
\* (ingest_channel_message).
THEOREM OneRun == Spec => []OneRunPerEvent
<1>1. IInv => OneRunPerEvent
  BY DEF IInv, InInv, QueuedIsRecorded, OneRunPerEvent
<1> QED
  BY <1>1, Inductive, PTL

\* No crash loses an update: Telegram drops it after it was handled
\* (TelegramPollingAdapter.run_forever).
THEOREM DroppedHandled == Spec => []DroppedWereHandled
  BY Inductive, PTL DEF IInv, InInv
=============================================================================
