-------------------------- MODULE AutomationProofs --------------------------
(***************************************************************************)
(* Background messages are said once per tick and by the owner of the      *)
(* lease, for any number of conversations, workers, alerts and faults: an  *)
(* open append holds the automation row, so the owner, the token and what  *)
(* was said stay as it read them.                                          *)
(***************************************************************************)
EXTENDS Automation, TLAPS

Keys == [source : {"drift", "proactive"}, tick : Tokens \cup {None}]
Changes == [wish : SUBSET Modes, enabled : BOOLEAN, modes : SUBSET Modes,
            leased : BOOLEAN, ticking : BOOLEAN]
BackgroundMessages == [key : Keys, event : Alerts \cup {None}]

\* Rows, locks and processes have the shape the tables and run_once give them.
TypeOK ==
    /\ enabled \in [Conversations -> BOOLEAN]
    /\ modes \in [Conversations -> SUBSET Modes]
    /\ owner \in [Conversations -> Workers \cup {None}]
    /\ lease \in [Conversations -> {"none", "live", "lapsed"}]
    /\ token \in [Conversations -> Tokens \cup {None}]
    /\ rowLock \in [Conversations -> Workers \cup Conversations \cup {None}]
    /\ convLock \in [Conversations -> UserTransactions \cup {None}]
    /\ targets \in [Conversations -> SUBSET Conversations]
    /\ change \in [Conversations -> Changes]
    /\ busy \in [Conversations -> BOOLEAN]
    /\ said \in [Conversations -> Seq(BackgroundMessages)]
    /\ cut \in SUBSET Alerts
    /\ inbox \in [Alerts -> {"absent", "pending", "acked"}]
    /\ record \in [Alerts -> {"none", "unread", "consumed"}]
    /\ toAck \in SUBSET Alerts
    /\ intents \in SUBSET Alerts
    /\ pc \in [Workers -> Places]
    /\ conv \in [Workers -> Conversations \cup {None}]
    /\ doing \in [Workers -> SUBSET Modes]
    /\ held \in [Workers -> Tokens \cup {None}]
    /\ batch \in [Workers -> SUBSET Alerts]
    /\ pick \in [Workers -> Alerts \cup {None}]
    /\ inputs \in Nat /\ faults \in Nat

\* A worker in a tick has a conversation, and an event in hand if it is past
\* the judge with an alert.
InTick ==
    \A w \in Workers :
        /\ pc[w] \notin {"idle", "down"} => conv[w] \in Conversations
        /\ pc[w] = "picked" => pick[w] \in Alerts

\* A change of target holds the rows it will reset.
TargetsLocked == \A c \in Conversations : \A o \in targets[c] : rowLock[o] = c

\* An append that has begun holds the row it read.
AppendsHoldTheRow ==
    \A w \in Workers : pc[w] = "appending" => rowLock[conv[w]] = w /\ Owns(w) /\ ~Said(w)

IInv == TypeOK /\ InTick /\ TargetsLocked /\ AppendsHoldTheRow /\ OneMessagePerTick

-----------------------------------------------------------------------------
LEMMA Starts == Init => IInv
<1> SUFFICES ASSUME Init PROVE IInv
  OBVIOUS
<1>1. TypeOK
  <2>1. said \in [Conversations -> Seq(BackgroundMessages)]
    BY DEF Init
  <2>2. /\ modes \in [Conversations -> SUBSET Modes]
        /\ change \in [Conversations -> Changes]
    BY AutomationConstants DEF Init, Modes, NoChange, Changes
  <2> QED
    BY <2>1, <2>2 DEF Init, TypeOK, Places
<1>2. InTick /\ TargetsLocked /\ AppendsHoldTheRow
  BY DEF Init, InTick, TargetsLocked, AppendsHoldTheRow
<1>3. OneMessagePerTick
  BY DEF Init, OneMessagePerTick
<1> QED
  BY <1>1, <1>2, <1>3 DEF IInv

LEMMA AppendMessage ==
    ASSUME NEW s \in Seq(BackgroundMessages), NEW m \in BackgroundMessages
    PROVE  /\ Append(s, m) \in Seq(BackgroundMessages)
           /\ Len(Append(s, m)) = Len(s) + 1
           /\ DOMAIN Append(s, m) = DOMAIN s \cup {Len(s) + 1}
           /\ \A i \in DOMAIN s : i # Len(s) + 1 /\ Append(s, m)[i] = s[i]
           /\ Append(s, m)[Len(s) + 1] = m
  OBVIOUS

\* Nothing is said, no lock changes hands, and whoever is appending goes on
\* with the row it read.
LEMMA Undisturbed ==
    ASSUME IInv, TypeOK', InTick', UNCHANGED <<rowLock, targets, said>>,
           \A w \in Workers : pc'[w] = "appending" =>
               /\ pc[w] = "appending"
               /\ <<conv[w], held[w], pick[w]>>' = <<conv[w], held[w], pick[w]>>
               /\ <<owner[conv[w]], token[conv[w]]>>' = <<owner[conv[w]], token[conv[w]]>>
    PROVE  IInv'
<1>1. TargetsLocked' /\ OneMessagePerTick'
  BY DEF IInv, TargetsLocked, OneMessagePerTick
<1>2. ASSUME NEW w \in Workers, pc'[w] = "appending"
      PROVE  rowLock'[conv'[w]] = w /\ Owns(w)' /\ ~Said(w)'
  BY <1>2 DEF IInv, AppendsHoldTheRow, Owns, Said, Key
<1> QED
  BY <1>1, <1>2 DEF IInv, AppendsHoldTheRow

\* Rows that nobody holds may change.
LEMMA FreeRow ==
    ASSUME IInv, NEW w \in Workers, pc[w] = "appending", NEW c \in Conversations,
           rowLock[c] # w
    PROVE  conv[w] # c
  BY DEF IInv, AppendsHoldTheRow

LEMMA IngestStep == ASSUME IInv, NEW e \in Alerts, Ingest(e) PROVE IInv'
<1>1. TypeOK'
  BY DEF Ingest, IInv, TypeOK, UserTransactions, rowVars, lockVars, words, eventVars, tickVars, counts
<1> QED
  BY <1>1, Undisturbed DEF Ingest, IInv, InTick, rowVars, lockVars, words, tickVars

LEMMA InputBeginsStep == ASSUME IInv, NEW c \in Conversations, InputBegins(c) PROVE IInv'
<1>1. TypeOK'
  <2>1. convLock' \in [Conversations -> UserTransactions \cup {None}]
    BY DEF InputBegins, IInv, TypeOK, UserTransactions
  <2>2. inputs' \in Nat
    BY DEF InputBegins, Input, IInv, TypeOK
  <2> QED
    BY <2>1, <2>2 DEF InputBegins, Input, IInv, TypeOK, rowVars, words, eventVars, tickVars
<1> QED
  BY <1>1, Undisturbed DEF InputBegins, Input, IInv, InTick, rowVars, lockVars, words, tickVars

LEMMA RunsSettleStep == ASSUME IInv, NEW c \in Conversations, RunsSettle(c) PROVE IInv'
<1>1. TypeOK'
  BY DEF RunsSettle, IInv, TypeOK, UserTransactions, rowVars, lockVars, words, eventVars, tickVars, counts
<1> QED
  BY <1>1, Undisturbed DEF RunsSettle, IInv, InTick, rowVars, lockVars, words, tickVars

LEMMA LeaseLapsesStep == ASSUME IInv, NEW c \in Conversations, LeaseLapses(c) PROVE IInv'
<1>1. TypeOK'
  BY DEF LeaseLapses, Fault, IInv, TypeOK, UserTransactions, rowVars, lockVars, words, eventVars, tickVars, counts
<1> QED
  BY <1>1, Undisturbed DEF LeaseLapses, Fault, IInv, InTick, rowVars, lockVars, words, tickVars

LEMMA InputCommitsStep == ASSUME IInv, NEW c \in Conversations, InputCommits(c) PROVE IInv'
<1>1. TypeOK'
  <2>1. owner' \in [Conversations -> Workers \cup {None}] /\ lease' \in [Conversations -> {"none", "live", "lapsed"}]
    <3>1. CASE UNCHANGED <<owner, lease>>
      BY <3>1 DEF IInv, TypeOK
    <3>2. CASE TakenLease(c)
      BY <3>2 DEF TakenLease, IInv, TypeOK
    <3> QED
      BY <3>1, <3>2 DEF InputCommits
  <2>2. convLock' \in [Conversations -> UserTransactions \cup {None}] /\ busy' \in [Conversations -> BOOLEAN]
    BY DEF InputCommits, IInv, TypeOK
  <2> QED
    BY <2>1, <2>2 DEF InputCommits, IInv, TypeOK, words, eventVars, tickVars, counts
<1>2. ASSUME NEW w \in Workers, pc[w] = "appending"
      PROVE  owner'[conv[w]] = owner[conv[w]]
  <2>1. conv[w] \in Conversations /\ rowLock[conv[w]] = w /\ w # None
    BY <1>2, AutomationConstants DEF IInv, InTick, AppendsHoldTheRow
  <2> QED
    BY <2>1 DEF InputCommits, TakenLease, IInv, TypeOK
<1> QED
  BY <1>1, <1>2, Undisturbed DEF InputCommits, IInv, InTick, words, tickVars

LEMMA SwitchBeginsStep == ASSUME IInv, NEW c \in Conversations, SwitchBegins(c) PROVE IInv'
<1>1. PICK wish \in Wishes, others \in SUBSET Conversations, now \in Changes :
        /\ \A o \in others : rowLock[o] = None
        /\ convLock' = [convLock EXCEPT ![c] = "switch"]
        /\ targets' = [targets EXCEPT ![c] = others]
        /\ rowLock' = [o \in Conversations |-> IF o \in others THEN c ELSE rowLock[o]]
        /\ change' = [change EXCEPT ![c] = now]
  <2>1. PICK wish \in Wishes :
          LET others == IF wish = {} THEN {} ELSE {o \in Conversations \ {c} : enabled[o]} IN
          /\ \A o \in others : rowLock[o] = None
          /\ convLock' = [convLock EXCEPT ![c] = "switch"]
          /\ targets' = [targets EXCEPT ![c] = others]
          /\ rowLock' = [o \in Conversations |-> IF o \in others THEN c ELSE rowLock[o]]
          /\ change' = [change EXCEPT ![c] =
                [wish |-> wish, enabled |-> enabled[c], modes |-> modes[c],
                 leased |-> owner[c] # None, ticking |-> token[c] # None]]
    BY DEF SwitchBegins
  <2>2. PICK others \in SUBSET Conversations :
          others = IF wish = {} THEN {} ELSE {o \in Conversations \ {c} : enabled[o]}
    OBVIOUS
  <2>3. PICK leased \in BOOLEAN, ticking \in BOOLEAN :
          leased = (owner[c] # None) /\ ticking = (token[c] # None)
    OBVIOUS
  <2>4. wish \in SUBSET Modes /\ enabled[c] \in BOOLEAN /\ modes[c] \in SUBSET Modes
    BY AutomationConstants DEF IInv, TypeOK, Modes
  <2>5. PICK now \in Changes :
          now = [wish |-> wish, enabled |-> enabled[c], modes |-> modes[c],
                 leased |-> leased, ticking |-> ticking]
    BY <2>4 DEF Changes
  <2>6. change' = [change EXCEPT ![c] = now]
    BY <2>1, <2>3, <2>5
  <2> QED
    BY <2>1, <2>2, <2>6
<1>2. TypeOK'
  <2>1. /\ convLock' \in [Conversations -> UserTransactions \cup {None}]
        /\ targets' \in [Conversations -> SUBSET Conversations]
        /\ rowLock' \in [Conversations -> Workers \cup Conversations \cup {None}]
        /\ change' \in [Conversations -> Changes]
    BY <1>1 DEF IInv, TypeOK, UserTransactions
  <2> QED
    BY <2>1 DEF SwitchBegins, Input, IInv, TypeOK, rowVars, words, eventVars, tickVars
<1>3. InTick' /\ OneMessagePerTick'
  BY DEF SwitchBegins, IInv, InTick, OneMessagePerTick, words, tickVars
<1>4. TargetsLocked'
  BY <1>1, AutomationConstants DEF IInv, TypeOK, TargetsLocked
<1>5. ASSUME NEW w \in Workers, pc'[w] = "appending"
      PROVE  rowLock'[conv'[w]] = w /\ Owns(w)' /\ ~Said(w)'
  <2>1. /\ pc[w] = "appending" /\ conv[w] \in Conversations /\ rowLock[conv[w]] = w /\ w # None
        /\ Owns(w) /\ ~Said(w)
    BY <1>5, AutomationConstants DEF SwitchBegins, IInv, InTick, AppendsHoldTheRow
  <2>2. UNCHANGED <<owner, token, conv, held, pick, said>>
    BY DEF SwitchBegins, rowVars, words, tickVars
  <2>3. rowLock'[conv[w]] = w
    BY <1>1, <2>1
  <2> QED
    BY <2>1, <2>2, <2>3 DEF Owns, Said, Key
<1> QED
  BY <1>2, <1>3, <1>4, <1>5 DEF IInv, AppendsHoldTheRow

\* A change of target gives up the rows it holds; what it resets is its own.
LEMMA SwitchLetsGo ==
    ASSUME IInv, NEW c \in Conversations, TypeOK', InTick',
           targets' = [targets EXCEPT ![c] = {}],
           rowLock' = [o \in Conversations |-> IF o \in targets[c] THEN None ELSE rowLock[o]],
           UNCHANGED <<said, conv, held, pick>>,
           \A w \in Workers : pc'[w] = "appending" => pc[w] = "appending",
           \A o \in Conversations : rowLock[o] \notin {c, None} =>
               owner'[o] = owner[o] /\ token'[o] = token[o]
    PROVE  IInv'
<1>1. TargetsLocked'
  BY AutomationConstants DEF IInv, TypeOK, TargetsLocked
<1>2. OneMessagePerTick'
  BY DEF IInv, OneMessagePerTick
<1>3. ASSUME NEW w \in Workers, pc'[w] = "appending"
      PROVE  rowLock'[conv'[w]] = w /\ Owns(w)' /\ ~Said(w)'
  <2>1. /\ conv[w] \in Conversations /\ rowLock[conv[w]] = w /\ w \notin {c, None}
        /\ Owns(w) /\ ~Said(w)
    BY <1>3, AutomationConstants DEF IInv, InTick, AppendsHoldTheRow
  <2>2. rowLock'[conv[w]] = w
    BY <2>1 DEF IInv, TargetsLocked
  <2> QED
    BY <2>1, <2>2 DEF Owns, Said, Key
<1> QED
  BY <1>1, <1>2, <1>3 DEF IInv, AppendsHoldTheRow

LEMMA NoChangeTyped == NoChange \in Changes
  BY DEF NoChange, Changes

LEMMA SwitchCommitsStep == ASSUME IInv, NEW c \in Conversations, SwitchCommits(c) PROVE IInv'
<1> DEFINE seen == change[c]
           freed == targets[c] \cup {o \in {c} : seen.leased}
           renewed == targets[c] \cup {o \in {c} : seen.ticking}
<1>1. /\ rowLock[c] = None
      /\ SwitchEnds(c)
      /\ owner' = [o \in Conversations |-> IF o \in freed THEN None ELSE owner[o]]
      /\ lease' = [o \in Conversations |-> IF o \in freed THEN "none" ELSE lease[o]]
      /\ token' = [o \in Conversations |-> IF o \in renewed THEN None ELSE token[o]]
      /\ enabled' = [o \in Conversations |->
            IF o = c /\ seen.enabled # (seen.wish # {}) THEN seen.wish # {}
            ELSE enabled[o] /\ o \notin targets[c]]
      /\ modes' = [o \in Conversations |->
            IF o = c THEN (modes[c] \ (seen.modes \ seen.wish)) \cup (seen.wish \ seen.modes)
            ELSE IF o \in targets[c] THEN {} ELSE modes[o]]
      /\ \/ UNCHANGED eventVars
         \/ /\ inbox' = [e \in Alerts |-> "absent"]
            /\ record' = [e \in Alerts |-> "none"]
            /\ toAck' = {}
            /\ intents' = {}
      /\ UNCHANGED <<busy, words, pc, tickVars, counts>>
  BY DEF SwitchCommits
<1>2. TypeOK'
  <2>1. enabled' \in [Conversations -> BOOLEAN]
    BY <1>1 DEF IInv, TypeOK
  <2>2. /\ owner' \in [Conversations -> Workers \cup {None}]
        /\ lease' \in [Conversations -> {"none", "live", "lapsed"}]
        /\ token' \in [Conversations -> Tokens \cup {None}]
    BY <1>1 DEF IInv, TypeOK
  <2>3. /\ rowLock' \in [Conversations -> Workers \cup Conversations \cup {None}]
        /\ targets' \in [Conversations -> SUBSET Conversations]
        /\ convLock' \in [Conversations -> UserTransactions \cup {None}]
        /\ change' \in [Conversations -> Changes]
    BY <1>1, NoChangeTyped DEF SwitchEnds, IInv, TypeOK
  <2>4. /\ inbox' \in [Alerts -> {"absent", "pending", "acked"}]
        /\ record' \in [Alerts -> {"none", "unread", "consumed"}]
        /\ toAck' \in SUBSET Alerts /\ intents' \in SUBSET Alerts
    BY <1>1 DEF IInv, TypeOK, eventVars
  <2>5. modes' \in [Conversations -> SUBSET Modes]
    <3>1. seen.wish \in SUBSET Modes /\ seen.modes \in SUBSET Modes
      BY DEF IInv, TypeOK, Changes
    <3> HIDE DEF seen
    <3> QED
      BY <1>1, <3>1 DEF IInv, TypeOK
  <2> QED
    BY <1>1, <2>1, <2>2, <2>3, <2>4, <2>5 DEF IInv, TypeOK, words, tickVars, counts
<1>3. \A o \in Conversations : rowLock[o] \notin {c, None} =>
        owner'[o] = owner[o] /\ token'[o] = token[o]
  BY <1>1 DEF IInv, TypeOK, TargetsLocked
<1>4. InTick'
  BY <1>1 DEF IInv, InTick, tickVars
<1> QED
  BY <1>1, <1>2, <1>3, <1>4, SwitchLetsGo DEF SwitchEnds, words, tickVars

LEMMA BreakSwitchStep == ASSUME IInv, NEW c \in Conversations, BreakSwitch(c) PROVE IInv'
<1>1. TypeOK'
  <2>1. /\ rowLock' \in [Conversations -> Workers \cup Conversations \cup {None}]
        /\ targets' \in [Conversations -> SUBSET Conversations]
        /\ convLock' \in [Conversations -> UserTransactions \cup {None}]
        /\ change' \in [Conversations -> Changes]
    BY NoChangeTyped DEF BreakSwitch, SwitchEnds, IInv, TypeOK
  <2> QED
    BY <2>1 DEF BreakSwitch, IInv, TypeOK, rowVars, words, eventVars, tickVars, counts
<1>2. InTick'
  BY DEF BreakSwitch, IInv, InTick, tickVars
<1> QED
  BY <1>1, <1>2, SwitchLetsGo DEF BreakSwitch, SwitchEnds, rowVars, words, tickVars

LEMMA ClaimStep ==
    ASSUME IInv, NEW w \in Workers, NEW c \in Conversations, Claim(w, c) PROVE IInv'
<1>1. PICK t \in Tokens :
        /\ token' = [token EXCEPT ![c] = t]
        /\ held' = [held EXCEPT ![w] = t]
  BY DEF Claim
<1>0. FirstPlace(c) \in {"gate", "drifting"}
  BY DEF FirstPlace
<1>2. TypeOK'
  BY <1>0, <1>1 DEF Claim, Goto, IInv, TypeOK, Places, lockVars, words, eventVars, counts
<1>3. InTick'
  BY <1>0 DEF Claim, Goto, IInv, TypeOK, InTick
<1>4. ASSUME NEW v \in Workers, pc'[v] = "appending"
      PROVE  /\ pc[v] = "appending"
             /\ <<conv[v], held[v], pick[v]>>' = <<conv[v], held[v], pick[v]>>
             /\ <<owner[conv[v]], token[conv[v]]>>' = <<owner[conv[v]], token[conv[v]]>>
  <2>1. v # w /\ pc[v] = "appending"
    BY <1>0, <1>4 DEF Claim, Goto, IInv, TypeOK
  <2>2. conv[v] \in Conversations /\ conv[v] # c
    BY <2>1, FreeRow, AutomationConstants DEF Claim, IInv, InTick
  <2> QED
    BY <1>1, <2>1, <2>2 DEF Claim, IInv, TypeOK
<1> QED
  BY <1>2, <1>3, <1>4, Undisturbed DEF Claim, lockVars, words

LEMMA FetchStep == ASSUME IInv, NEW w \in Workers, Fetch(w) PROVE IInv'
<1>1. TypeOK'
  BY DEF Fetch, Goto, Acknowledge, IInv, TypeOK, Places, rowVars, lockVars, words, eventVars, tickVars, counts
<1>2. InTick'
  BY DEF Fetch, Goto, Acknowledge, IInv, TypeOK, InTick, tickVars
<1> QED
  BY <1>1, <1>2, Undisturbed DEF Fetch, Goto, Acknowledge, IInv, TypeOK, rowVars, lockVars, words, tickVars

LEMMA StoreStep == ASSUME IInv, NEW w \in Workers, Store(w) PROVE IInv'
<1>1. TypeOK'
  BY DEF Store, Goto, Acknowledge, IInv, TypeOK, Places, rowVars, lockVars, words, eventVars, tickVars, counts
<1>2. InTick'
  BY DEF Store, Goto, Acknowledge, IInv, TypeOK, InTick, tickVars
<1> QED
  BY <1>1, <1>2, Undisturbed DEF Store, Goto, Acknowledge, IInv, TypeOK, rowVars, lockVars, words, tickVars

LEMMA JudgeStep == ASSUME IInv, NEW w \in Workers, Judge(w) PROVE IInv'
<1>1. TypeOK'
  BY DEF Judge, Goto, Unread, IInv, TypeOK, Places, rowVars, lockVars, words, eventVars, tickVars, counts
<1>2. InTick'
  BY DEF Judge, Goto, Unread, IInv, TypeOK, InTick, tickVars
<1> QED
  BY <1>1, <1>2, Undisturbed DEF Judge, Goto, Unread, IInv, TypeOK, rowVars, lockVars, words, tickVars

LEMMA DriftStep == ASSUME IInv, NEW w \in Workers, Drift(w) PROVE IInv'
<1>1. TypeOK'
  BY DEF Drift, Goto, IInv, TypeOK, Places, rowVars, lockVars, words, eventVars, tickVars, counts
<1>2. InTick'
  BY DEF Drift, Goto, IInv, TypeOK, InTick, tickVars
<1> QED
  BY <1>1, <1>2, Undisturbed DEF Drift, Goto, IInv, TypeOK, rowVars, lockVars, words, tickVars

LEMMA MarkIntentStep == ASSUME IInv, NEW w \in Workers, MarkIntent(w) PROVE IInv'
<1>1. TypeOK'
  <2>1. pick[w] \in Alerts
    BY DEF MarkIntent, IInv, InTick
  <2>2. intents' \in SUBSET Alerts /\ pc' \in [Workers -> Places]
    BY <2>1 DEF MarkIntent, Goto, IInv, TypeOK, Places
  <2> QED
    BY <2>2 DEF MarkIntent, IInv, TypeOK, rowVars, lockVars, words, tickVars, counts
<1>2. InTick'
  BY DEF MarkIntent, Goto, IInv, TypeOK, InTick, tickVars
<1> QED
  BY <1>1, <1>2, Undisturbed DEF MarkIntent, Goto, IInv, TypeOK, rowVars, lockVars, words, tickVars

LEMMA ConsumeStep == ASSUME IInv, NEW w \in Workers, Consume(w) PROVE IInv'
<1>1. TypeOK'
  <2>1. record' \in [Alerts -> {"none", "unread", "consumed"}] /\ toAck' \in SUBSET Alerts
    <3>1. CASE pick[w] = None
      BY <3>1 DEF Consume, IInv, TypeOK
    <3>2. CASE pick[w] # None
      <4>1. /\ pick[w] \in Alerts /\ record[pick[w]] \in {"none", "unread", "consumed"}
            /\ record' = [record EXCEPT ![pick[w]] =
                   IF record[pick[w]] = "none" THEN record[pick[w]] ELSE "consumed"]
            /\ toAck' = toAck \cup {pick[w]}
        BY <3>2 DEF Consume, IInv, TypeOK
      <4> QED
        BY <4>1 DEF IInv, TypeOK
    <3> QED
      BY <3>1, <3>2
  <2>2. pc' \in [Workers -> Places]
    <3>1. pc' = [pc EXCEPT ![w] = "done"] \/ pc' = [pc EXCEPT ![w] = "acking"]
      BY Zenon DEF Consume, Goto
    <3> QED
      BY <3>1 DEF IInv, TypeOK, Places
  <2> QED
    BY <2>1, <2>2 DEF Consume, IInv, TypeOK, rowVars, lockVars, words, tickVars, counts
<1>2. InTick'
  BY DEF Consume, Goto, IInv, TypeOK, InTick, tickVars
<1> QED
  BY <1>1, <1>2, Undisturbed DEF Consume, Goto, IInv, TypeOK, rowVars, lockVars, words, tickVars

LEMMA FlushAcknowledgementsStep == ASSUME IInv, NEW w \in Workers, FlushAcknowledgements(w) PROVE IInv'
<1>1. TypeOK'
  BY DEF FlushAcknowledgements, Goto, Acknowledge, IInv, TypeOK, Places, rowVars, lockVars, words, eventVars, tickVars, counts
<1>2. InTick'
  BY DEF FlushAcknowledgements, Goto, Acknowledge, IInv, TypeOK, InTick, tickVars
<1> QED
  BY <1>1, <1>2, Undisturbed DEF FlushAcknowledgements, Goto, Acknowledge, IInv, TypeOK, rowVars, lockVars, words, tickVars

LEMMA TickFailsStep == ASSUME IInv, NEW w \in Workers, TickFails(w) PROVE IInv'
<1>1. TypeOK'
  BY DEF TickFails, Goto, Fault, IInv, TypeOK, Places, rowVars, lockVars, words, eventVars, tickVars, counts
<1>2. InTick'
  BY DEF TickFails, Goto, Fault, IInv, TypeOK, InTick, tickVars
<1> QED
  BY <1>1, <1>2, Undisturbed DEF TickFails, Goto, Fault, IInv, TypeOK, rowVars, lockVars, words, tickVars

LEMMA SkipFinishStep == ASSUME IInv, NEW w \in Workers, SkipFinish(w) PROVE IInv'
<1>1. TypeOK'
  BY DEF SkipFinish, Goto, Fault, Return, IInv, TypeOK, Places, rowVars, lockVars, words, eventVars, tickVars, counts
<1>2. InTick'
  BY DEF SkipFinish, Goto, Fault, Return, IInv, TypeOK, InTick, tickVars
<1> QED
  BY <1>1, <1>2, Undisturbed DEF SkipFinish, Goto, Fault, Return, IInv, TypeOK, rowVars, lockVars, words, tickVars

LEMMA HeartbeatStep == ASSUME IInv, NEW w \in Workers, Heartbeat(w) PROVE IInv'
<1>1. TypeOK'
  BY DEF Heartbeat, IInv, TypeOK, Places, rowVars, lockVars, words, eventVars, tickVars, counts
<1>2. InTick'
  BY DEF Heartbeat, IInv, TypeOK, InTick, tickVars
<1> QED
  BY <1>1, <1>2, Undisturbed DEF Heartbeat, IInv, TypeOK, rowVars, lockVars, words, tickVars

LEMMA RestartStep == ASSUME IInv, NEW w \in Workers, Restart(w) PROVE IInv'
<1>1. TypeOK'
  BY DEF Restart, Goto, IInv, TypeOK, Places, rowVars, lockVars, words, eventVars, tickVars, counts
<1>2. InTick'
  BY DEF Restart, Goto, IInv, TypeOK, InTick, tickVars
<1> QED
  BY <1>1, <1>2, Undisturbed DEF Restart, Goto, IInv, TypeOK, rowVars, lockVars, words, tickVars

LEMMA FinishStep == ASSUME IInv, NEW w \in Workers, Finish(w) PROVE IInv'
<1>1. /\ UNCHANGED <<enabled, modes, lockVars, busy, words, eventVars, counts, batch>>
      /\ doing' = [doing EXCEPT ![w] = {}]
      /\ pc' = [pc EXCEPT ![w] = "idle"]
      /\ conv' = [conv EXCEPT ![w] = None]
      /\ held' = [held EXCEPT ![w] = None]
      /\ pick' = [pick EXCEPT ![w] = None]
      /\ pc[w] \in {"done", "failed"}
      /\ \/ UNCHANGED <<owner, lease, token>>
         \/ /\ rowLock[conv[w]] = None
            /\ owner' = [owner EXCEPT ![conv[w]] = None]
            /\ lease' = [lease EXCEPT ![conv[w]] = "none"]
            /\ token' = [token EXCEPT ![conv[w]] = IF pc[w] = "done" THEN None ELSE @]
  BY DEF Finish, Return, Goto
<1>2. TypeOK'
  <2>1. /\ owner' \in [Conversations -> Workers \cup {None}]
        /\ lease' \in [Conversations -> {"none", "live", "lapsed"}]
        /\ token' \in [Conversations -> Tokens \cup {None}]
    <3>1. CASE UNCHANGED <<owner, lease, token>>
      BY <3>1 DEF IInv, TypeOK
    <3>2. CASE ~UNCHANGED <<owner, lease, token>>
      <4>1. PICK c \in Conversations : c = conv[w]
        BY <1>1 DEF IInv, TypeOK, InTick
      <4>2. PICK t \in Tokens \cup {None} : t = IF pc[w] = "done" THEN None ELSE token[c]
        BY <4>1 DEF IInv, TypeOK
      <4>3. owner' = [owner EXCEPT ![c] = None] /\ lease' = [lease EXCEPT ![c] = "none"]
        BY <1>1, <3>2, <4>1
      <4>4. token' = [token EXCEPT ![c] = IF pc[w] = "done" THEN None ELSE token[c]]
        BY <1>1, <3>2, <4>1
      <4>5. token' = [token EXCEPT ![c] = t]
        BY <4>2, <4>4, Zenon
      <4> QED
        BY <4>3, <4>5 DEF IInv, TypeOK
    <3> QED
      BY <3>1, <3>2
  <2> QED
    BY <1>1, <2>1 DEF IInv, TypeOK, Places, lockVars, words, eventVars, counts
<1>3. InTick'
  BY <1>1 DEF IInv, TypeOK, InTick
<1>4. ASSUME NEW v \in Workers, pc'[v] = "appending"
      PROVE  /\ pc[v] = "appending"
             /\ <<conv[v], held[v], pick[v]>>' = <<conv[v], held[v], pick[v]>>
             /\ <<owner[conv[v]], token[conv[v]]>>' = <<owner[conv[v]], token[conv[v]]>>
  <2>1. v # w /\ pc[v] = "appending"
    BY <1>1, <1>4 DEF IInv, TypeOK
  <2>2. conv[v] \in Conversations /\ rowLock[conv[v]] # None
    BY <2>1, AutomationConstants DEF IInv, InTick, AppendsHoldTheRow
  <2> QED
    BY <1>1, <2>1, <2>2 DEF IInv, TypeOK
<1> QED
  BY <1>1, <1>2, <1>3, <1>4, Undisturbed DEF lockVars, words

\* Locks of one worker are given up; the others' stay.
LEMMA WorkerLetsGo ==
    ASSUME IInv, NEW w \in Workers, TypeOK', InTick', rowLock' = Unlocked(w),
           UNCHANGED <<owner, token, targets, said>>, pc'[w] # "appending",
           \A v \in Workers \ {w} :
               <<pc[v], conv[v], held[v], pick[v]>>' = <<pc[v], conv[v], held[v], pick[v]>>
    PROVE  IInv'
<1>1. TargetsLocked'
  BY AutomationConstants DEF IInv, TypeOK, TargetsLocked, Unlocked
<1>2. OneMessagePerTick'
  BY DEF IInv, OneMessagePerTick
<1>3. ASSUME NEW v \in Workers, pc'[v] = "appending"
      PROVE  rowLock'[conv'[v]] = v /\ Owns(v)' /\ ~Said(v)'
  <2>1. /\ v # w /\ pc[v] = "appending" /\ conv[v] \in Conversations
        /\ rowLock[conv[v]] = v /\ Owns(v) /\ ~Said(v)
    BY <1>3 DEF IInv, InTick, AppendsHoldTheRow
  <2>2. rowLock'[conv[v]] = v
    BY <2>1 DEF Unlocked
  <2> QED
    BY <2>1, <2>2 DEF Owns, Said, Key
<1> QED
  BY <1>1, <1>2, <1>3 DEF IInv, AppendsHoldTheRow

LEMMA CutTyped == ASSUME IInv, NEW w \in Workers, Cut(w) PROVE cut' \in SUBSET Alerts
  BY DEF Cut, IInv, TypeOK

LEMMA CrashStep == ASSUME IInv, NEW w \in Workers, Crash(w) PROVE IInv'
<1>1. TypeOK'
  <2>1. cut' \in SUBSET Alerts
    BY CutTyped DEF Crash, IInv, TypeOK
  <2>2. rowLock' \in [Conversations -> Workers \cup Conversations \cup {None}]
    BY DEF Crash, Unlocked, IInv, TypeOK
  <2> QED
    BY <2>1, <2>2 DEF Crash, Goto, Fault, IInv, TypeOK, Places, rowVars, eventVars
<1>2. InTick'
  BY DEF Crash, Goto, IInv, TypeOK, InTick
<1> QED
  BY <1>1, <1>2, WorkerLetsGo DEF Crash, Goto, IInv, TypeOK, rowVars

LEMMA BreakDeadlockStep == ASSUME IInv, NEW w \in Workers, BreakDeadlock(w) PROVE IInv'
<1>0. conv[w] \in Conversations /\ pc[w] = "appending"
  BY DEF BreakDeadlock, IInv, InTick
<1>1. CASE Goto(w, "failed") /\ rowLock' = Unlocked(w) /\ Cut(w) /\ UNCHANGED <<convLock, targets, change>>
  <2>1. TypeOK'
    <3>1. cut' \in SUBSET Alerts
      BY <1>1, CutTyped
    <3>2. rowLock' \in [Conversations -> Workers \cup Conversations \cup {None}]
      BY <1>1 DEF Unlocked, IInv, TypeOK
    <3> QED
      BY <1>1, <3>1, <3>2 DEF BreakDeadlock, Goto, IInv, TypeOK, Places, rowVars, eventVars, tickVars, counts
  <2>2. InTick'
    BY <1>0, <1>1 DEF BreakDeadlock, Goto, IInv, TypeOK, InTick, tickVars
  <2> QED
    <3>1. UNCHANGED <<owner, token, targets, said, conv, held, pick>>
      BY <1>1 DEF BreakDeadlock, rowVars, tickVars
    <3>2. pc'[w] # "appending" /\ \A v \in Workers \ {w} : pc'[v] = pc[v]
      BY <1>1 DEF Goto, IInv, TypeOK
    <3> QED
      BY <1>1, <2>1, <2>2, <3>1, <3>2, WorkerLetsGo
<1>2. ASSUME NEW c \in Conversations, SwitchEnds(c), UNCHANGED <<pc, cut>> PROVE IInv'
  <2>1. TypeOK'
    <3>1. /\ rowLock' \in [Conversations -> Workers \cup Conversations \cup {None}]
          /\ targets' \in [Conversations -> SUBSET Conversations]
          /\ convLock' \in [Conversations -> UserTransactions \cup {None}]
          /\ change' \in [Conversations -> Changes]
      BY <1>2, NoChangeTyped DEF SwitchEnds, IInv, TypeOK
    <3> QED
      BY <1>2, <3>1 DEF BreakDeadlock, IInv, TypeOK, rowVars, eventVars, tickVars, counts
  <2>2. InTick'
    BY <1>2 DEF BreakDeadlock, IInv, InTick, tickVars
  <2> QED
    BY <1>2, <2>1, <2>2, SwitchLetsGo DEF BreakDeadlock, SwitchEnds, rowVars, tickVars
<1> QED
  BY <1>0, <1>1, <1>2 DEF BreakDeadlock

LEMMA AppendBeginsStep == ASSUME IInv, NEW w \in Workers, AppendBegins(w) PROVE IInv'
<1>0. pc[w] = "sending" /\ conv[w] \in Conversations /\ rowLock[conv[w]] = None
  BY DEF AppendBegins, IInv, InTick
<1>1. UNCHANGED <<rowVars, convLock, targets, change, busy, said, eventVars, tickVars, counts>>
  BY DEF AppendBegins
<1>2. CASE /\ Owns(w) /\ ~Said(w) /\ Goto(w, "appending")
           /\ rowLock' = [rowLock EXCEPT ![conv[w]] = w] /\ UNCHANGED cut
  <2>1. TypeOK'
    BY <1>0, <1>1, <1>2 DEF Goto, IInv, TypeOK, Places, rowVars, words, eventVars, tickVars, counts
  <2>2. InTick' /\ OneMessagePerTick'
    BY <1>0, <1>1, <1>2 DEF Goto, IInv, TypeOK, InTick, OneMessagePerTick, tickVars
  <2>3. TargetsLocked'
    BY <1>0, <1>1, <1>2, AutomationConstants DEF IInv, TypeOK, TargetsLocked
  <2>4. ASSUME NEW v \in Workers, pc'[v] = "appending"
        PROVE  rowLock'[conv'[v]] = v /\ Owns(v)' /\ ~Said(v)'
    <3>1. UNCHANGED <<owner, token, said, conv, held, pick>>
      BY <1>1 DEF rowVars, words, tickVars
    <3>2. CASE v = w
      BY <1>0, <1>2, <3>1, <3>2 DEF IInv, TypeOK, Owns, Said, Key
    <3>3. CASE v # w
      <4>1. /\ pc[v] = "appending" /\ rowLock[conv[v]] = v /\ conv[v] \in Conversations
            /\ Owns(v) /\ ~Said(v) /\ v # None
        <5>1. pc[v] = "appending"
          BY <1>2, <2>4, <3>3 DEF Goto, IInv, TypeOK
        <5> QED
          BY <5>1, AutomationConstants DEF IInv, InTick, AppendsHoldTheRow
      <4>2. rowLock'[conv[v]] = v
        BY <1>0, <1>2, <4>1 DEF IInv, TypeOK
      <4> QED
        BY <3>1, <4>1, <4>2 DEF Owns, Said, Key
    <3> QED
      BY <3>2, <3>3
  <2> QED
    BY <2>1, <2>2, <2>3, <2>4 DEF IInv, AppendsHoldTheRow
<1>3. ASSUME NEW place \in {"sent", "failed"}, Goto(w, place), UNCHANGED rowLock, Cut(w) PROVE IInv'
  <2>1. TypeOK'
    BY <1>1, <1>3, CutTyped DEF Goto, IInv, TypeOK, Places, rowVars, words, eventVars, tickVars, counts
  <2>2. InTick'
    BY <1>0, <1>1, <1>3 DEF Goto, IInv, TypeOK, InTick, tickVars
  <2> QED
    BY <1>1, <1>3, <2>1, <2>2, Undisturbed DEF Goto, IInv, TypeOK, rowVars, words, tickVars
<1> QED
  BY <1>2, <1>3 DEF AppendBegins

\* What an append writes: the owner's message, under the token of the row.
LEMMA AppendWrites ==
    ASSUME IInv, NEW w \in Workers, AppendCommits(w)
    PROVE  \E c \in Conversations :
             /\ c = conv[w] /\ pc[w] = "appending" /\ rowLock[c] = w /\ Owns(w) /\ ~Said(w)
             /\ [key |-> Key(w), event |-> pick[w]] \in BackgroundMessages
             /\ said' = [said EXCEPT ![c] = Append(@, [key |-> Key(w), event |-> pick[w]])]
             /\ said[c] \in Seq(BackgroundMessages)
<1>1. conv[w] \in Conversations /\ rowLock[conv[w]] = w /\ Owns(w) /\ ~Said(w)
  BY DEF AppendCommits, IInv, InTick, AppendsHoldTheRow
<1>2. [key |-> Key(w), event |-> pick[w]] \in BackgroundMessages
  BY DEF BackgroundMessages, Keys, Key, IInv, TypeOK
<1> QED
  BY <1>1, <1>2 DEF AppendCommits, IInv, TypeOK

LEMMA AppendCommitsStep == ASSUME IInv, NEW w \in Workers, AppendCommits(w) PROVE IInv'
<1>1. PICK c \in Conversations :
        /\ c = conv[w] /\ pc[w] = "appending" /\ rowLock[c] = w /\ Owns(w) /\ ~Said(w)
        /\ [key |-> Key(w), event |-> pick[w]] \in BackgroundMessages
        /\ said' = [said EXCEPT ![c] = Append(@, [key |-> Key(w), event |-> pick[w]])]
        /\ said[c] \in Seq(BackgroundMessages)
  BY AppendWrites
<1>2. PICK m \in BackgroundMessages :
        m = [key |-> Key(w), event |-> pick[w]] /\ said' = [said EXCEPT ![c] = Append(@, m)]
  BY <1>1
<1>3. /\ Append(said[c], m) \in Seq(BackgroundMessages)
      /\ DOMAIN Append(said[c], m) = DOMAIN said[c] \cup {Len(said[c]) + 1}
      /\ \A i \in DOMAIN said[c] :
            i # Len(said[c]) + 1 /\ Append(said[c], m)[i] = said[c][i]
      /\ Append(said[c], m)[Len(said[c]) + 1] = m
  BY <1>1, AppendMessage
<1>4. /\ UNCHANGED <<rowVars, convLock, targets, change, busy, cut, eventVars, tickVars, counts>>
      /\ rowLock' = Unlocked(w)
      /\ pc' = [pc EXCEPT ![w] = "sent"]
  BY DEF AppendCommits, Goto
<1>5. TypeOK'
  <2>1. said' \in [Conversations -> Seq(BackgroundMessages)]
    BY <1>2, <1>3 DEF IInv, TypeOK
  <2>2. rowLock' \in [Conversations -> Workers \cup Conversations \cup {None}]
    BY <1>4 DEF Unlocked, IInv, TypeOK
  <2> QED
    BY <1>4, <2>1, <2>2 DEF IInv, TypeOK, Places, rowVars, words, eventVars, tickVars, counts
<1>6. InTick'
  BY <1>1, <1>4 DEF IInv, TypeOK, InTick, tickVars
<1>7. TargetsLocked'
  BY <1>4, AutomationConstants DEF IInv, TypeOK, TargetsLocked, Unlocked
<1>8. ASSUME NEW v \in Workers, pc'[v] = "appending"
      PROVE  rowLock'[conv'[v]] = v /\ Owns(v)' /\ ~Said(v)'
  <2>1. /\ v # w /\ pc[v] = "appending" /\ conv[v] \in Conversations
        /\ rowLock[conv[v]] = v /\ Owns(v) /\ ~Said(v)
    BY <1>4, <1>8 DEF IInv, TypeOK, InTick, AppendsHoldTheRow
  <2>2. rowLock'[conv[v]] = v
    BY <1>4, <2>1 DEF Unlocked
  <2>3. said'[conv[v]] = said[conv[v]]
    BY <1>1, <1>2, <2>1 DEF IInv, TypeOK
  <2>4. UNCHANGED <<owner, token, conv, held, pick>>
    BY <1>4 DEF rowVars, words, tickVars
  <2> QED
    BY <2>1, <2>2, <2>3, <2>4 DEF Owns, Said, Key
<1>9. OneMessagePerTick'
  <2>1. ASSUME NEW d \in Conversations, NEW h \in DOMAIN said'[d], NEW i \in DOMAIN said'[d],
               said'[d][h].key = said'[d][i].key
        PROVE  h = i
    <3>1. CASE d # c
      BY <1>2, <2>1, <3>1 DEF IInv, TypeOK, OneMessagePerTick
    <3>2. CASE d = c
      <4>1. said'[d] = Append(said[c], m)
        BY <1>2, <3>2 DEF IInv, TypeOK
      <4>2. m.key = Key(w) /\ \A k \in DOMAIN said[c] : said[c][k].key # Key(w)
        BY <1>1, <1>2 DEF Said
      <4> QED
        BY <1>3, <2>1, <4>1, <4>2 DEF IInv, OneMessagePerTick
    <3> QED
      BY <3>1, <3>2
  <2> QED
    BY <2>1 DEF OneMessagePerTick
<1> QED
  BY <1>5, <1>6, <1>7, <1>8, <1>9 DEF IInv, AppendsHoldTheRow

LEMMA NextStep == ASSUME IInv, Next PROVE IInv'
<1>1. ASSUME NEW e \in Alerts, Ingest(e) PROVE IInv'
  BY <1>1, IngestStep
<1>2. ASSUME NEW c \in Conversations,
             InputBegins(c) \/ SwitchBegins(c) \/ UserCommits(c) \/ RunsSettle(c) \/ LeaseLapses(c)
      PROVE  IInv'
  BY <1>2, InputBeginsStep, SwitchBeginsStep, InputCommitsStep, SwitchCommitsStep,
     BreakSwitchStep, RunsSettleStep, LeaseLapsesStep DEF UserCommits
<1>3. ASSUME NEW w \in Workers, NEW c \in Conversations, Claim(w, c) PROVE IInv'
  BY <1>3, ClaimStep
<1>4. ASSUME NEW w \in Workers, Ticking(w) PROVE IInv'
  BY <1>4, FetchStep, StoreStep, JudgeStep, DriftStep, MarkIntentStep, AppendBeginsStep, AppendCommitsStep,
     ConsumeStep, FlushAcknowledgementsStep, FinishStep, BreakDeadlockStep DEF Ticking
<1>5. ASSUME NEW w \in Workers,
             Heartbeat(w) \/ TickFails(w) \/ SkipFinish(w) \/ Crash(w) \/ Restart(w)
      PROVE  IInv'
  BY <1>5, HeartbeatStep, TickFailsStep, SkipFinishStep, CrashStep, RestartStep
<1> QED
  BY <1>1, <1>2, <1>3, <1>4, <1>5 DEF Next

LEMMA StutterStep == ASSUME IInv, UNCHANGED vars PROVE IInv'
<1>1. TypeOK' /\ InTick'
  BY DEF vars, rowVars, lockVars, words, eventVars, tickVars, counts, IInv, TypeOK, InTick
<1> QED
  BY <1>1, Undisturbed DEF vars, rowVars, lockVars, words, tickVars

LEMMA Inductive == Spec => []IInv
<1>1. IInv /\ [Next]_vars => IInv'
  BY NextStep, StutterStep
<1> QED
  BY Starts, <1>1, PTL DEF Spec

\* The tables and the processes have the shape models.py and run_once give
\* them.
THEOREM Typing == Spec => []TypeOK
<1>1. IInv => TypeOK
  BY DEF IInv
<1> QED
  BY Inductive, <1>1, PTL

\* For any number of workers and revoked leases, a tick says at most one message
\* per source (append_automation_message).
THEOREM OneMessage == Spec => []OneMessagePerTick
<1>1. IInv => OneMessagePerTick
  BY DEF IInv
<1> QED
  BY Inductive, <1>1, PTL

\* Only AppendCommits says anything.
LEMMA OthersAreSilent ==
    ASSUME [Next]_vars
    PROVE  UNCHANGED said \/ \E w \in Workers : AppendCommits(w)
<1>1. ASSUME NEW e \in Alerts, Ingest(e) PROVE UNCHANGED said
  BY <1>1 DEF Ingest, words
<1>2. ASSUME NEW c \in Conversations,
             InputBegins(c) \/ SwitchBegins(c) \/ UserCommits(c) \/ RunsSettle(c) \/ LeaseLapses(c)
      PROVE  UNCHANGED said
  BY <1>2 DEF InputBegins, SwitchBegins, UserCommits, InputCommits, SwitchCommits, BreakSwitch,
     RunsSettle, LeaseLapses, words
<1>3. ASSUME NEW w \in Workers, NEW c \in Conversations, Claim(w, c) PROVE UNCHANGED said
  BY <1>3 DEF Claim, words
<1>4. ASSUME NEW w \in Workers, Ticking(w) PROVE UNCHANGED said \/ AppendCommits(w)
  BY <1>4 DEF Ticking, Fetch, Store, Judge, Drift, MarkIntent, AppendBegins, Consume,
     FlushAcknowledgements, Finish, BreakDeadlock, words
<1>5. ASSUME NEW w \in Workers,
             Heartbeat(w) \/ TickFails(w) \/ SkipFinish(w) \/ Crash(w) \/ Restart(w)
      PROVE  UNCHANGED said
  BY <1>5 DEF Heartbeat, TickFails, SkipFinish, Crash, Restart, words
<1>6. CASE UNCHANGED vars
  BY <1>6 DEF vars, words
<1> QED
  BY <1>1, <1>2, <1>3, <1>4, <1>5, <1>6 DEF Next

\* Whatever was revoked since it was judged, a background message is committed
\* by the worker that owns the lease, under the token of the row
\* (append_automation_message).
THEOREM OwnerSpeaks == Spec => OnlyTheOwnerSpeaks
<1>1. ASSUME IInv, [Next]_vars, NEW c \in Conversations, said'[c] # said[c]
      PROVE  /\ owner[c] # None /\ pc[owner[c]] = "appending" /\ conv[owner[c]] = c
             /\ said'[c][Len(said'[c])].key.tick = token[c]
  <2>1. PICK w \in Workers : AppendCommits(w)
    BY <1>1, OthersAreSilent
  <2>2. PICK d \in Conversations :
          /\ d = conv[w] /\ pc[w] = "appending" /\ rowLock[d] = w /\ Owns(w)
          /\ [key |-> Key(w), event |-> pick[w]] \in BackgroundMessages
          /\ said' = [said EXCEPT ![d] = Append(@, [key |-> Key(w), event |-> pick[w]])]
          /\ said[d] \in Seq(BackgroundMessages)
    BY <1>1, <2>1, AppendWrites
  <2>3. d = c /\ said'[c] = Append(said[c], [key |-> Key(w), event |-> pick[w]])
    BY <1>1, <2>2 DEF IInv, TypeOK
  <2>4. said'[c][Len(said'[c])] = [key |-> Key(w), event |-> pick[w]]
    BY <2>2, <2>3, AppendMessage
  <2>5. owner[c] = w /\ w # None /\ token[c] = held[w]
    BY <2>2, <2>3, AutomationConstants DEF Owns
  <2>6. owner[c] # None /\ pc[owner[c]] = "appending" /\ conv[owner[c]] = c
    BY <2>2, <2>3, <2>5
  <2>7. Key(w).tick = held[w]
    BY DEF Key
  <2>8. said'[c][Len(said'[c])].key = Key(w)
    BY <2>4
  <2> QED
    BY <2>5, <2>6, <2>7, <2>8
<1>2. IInv /\ [Next]_vars =>
        \A c \in Conversations : said'[c] # said[c] =>
          /\ owner[c] # None /\ pc[owner[c]] = "appending" /\ conv[owner[c]] = c
          /\ said'[c][Len(said'[c])].key.tick = token[c]
  BY <1>1
<1> QED
  BY Inductive, <1>2, PTL DEF Spec, OnlyTheOwnerSpeaks
=============================================================================
