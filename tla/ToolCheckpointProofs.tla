------------------------ MODULE ToolCheckpointProofs ------------------------
(***************************************************************************)
(* The fence of ToolCheckpoint holds for any number of attempts, slots,    *)
(* retries and faults: the execution whose insert committed is the only    *)
(* one that ever calls the tool of the slot.                               *)
(***************************************************************************)
EXTENDS ToolCheckpoint, TLAPS

Holds(e) == place[e] \in {"fenced", "calling", "returned"}

\* Asking for a slot or holding it means standing at a real one, with a call.
Standing ==
    \A e \in Attempts : place[e] = "inserting" \/ Holds(e) =>
        at[e] \in Slots /\ call[e] \in Calls /\ args[e] \in Calls

\* The holder's row is started, and nobody else holds the slot.
HeldSlots ==
    \A e \in Attempts : Holds(e) =>
        /\ row[at[e]] = [call |-> call[e], status |-> "started"]
        /\ \A d \in Attempts : Holds(d) /\ at[d] = at[e] => d = e

\* A tool is called once, by the holder, after the insert.
CalledByHolder ==
    /\ \A s \in Slots : row[s] = NoRow => invoked[s] = <<>>
    /\ \A e \in Attempts : place[e] = "fenced" => invoked[at[e]] = <<>>
    /\ \A e \in Attempts : place[e] \in {"calling", "returned"} =>
          \E o \in Outcomes : invoked[at[e]] = <<[call |-> args[e], outcome |-> o]>>

IInv ==
    /\ TypeOK
    /\ Standing
    /\ HeldSlots
    /\ CalledByHolder
    /\ AtMostOncePerSlot
    /\ RecordedResultIsReal

LEMMA Starts == Init => IInv
  BY CheckpointConstants DEF Init, IInv, TypeOK, Standing, HeldSlots, CalledByHolder, Holds,
     AtMostOncePerSlot, RecordedResultIsReal, Places, Attempts, Slots

\* An execution stops, or starts to think, without a slot in hand.
LEMMA Rests ==
    ASSUME IInv, NEW e \in Attempts, NEW p \in {"thinking", "answered", "aborted", "dead"},
           place' = [place EXCEPT ![e] = p],
           UNCHANGED <<row, invoked, at, call, args, retries>>, faults' \in Nat
    PROVE  IInv'
<1>1. TypeOK'
  BY DEF IInv, TypeOK, Places
<1>2. Standing' /\ HeldSlots'
  BY DEF IInv, TypeOK, Standing, HeldSlots, Holds
<1>3. CalledByHolder' /\ AtMostOncePerSlot' /\ RecordedResultIsReal'
  BY DEF IInv, TypeOK, CalledByHolder, AtMostOncePerSlot, RecordedResultIsReal
<1> QED
  BY <1>1, <1>2, <1>3 DEF IInv

\* An execution leaves its slot, or is answered from it, and goes on.
LEMMA Advances ==
    ASSUME IInv, NEW e \in Attempts, NEW p, NextSlot(e, p),
           UNCHANGED <<row, invoked, retries>>, faults' \in Nat
    PROVE  IInv'
<1>1. TypeOK'
  <2>1. place' \in [Attempts -> Places]
    BY DEF IInv, TypeOK, Places, NextSlot, Move
  <2>2. at' \in [Attempts -> Nat]
    BY DEF IInv, TypeOK, NextSlot
  <2> QED
    BY <2>1, <2>2 DEF IInv, TypeOK, NextSlot
<1>2. Standing' /\ HeldSlots'
  BY DEF IInv, TypeOK, Standing, HeldSlots, Holds, NextSlot, Move
<1>3. CalledByHolder' /\ AtMostOncePerSlot' /\ RecordedResultIsReal'
  BY DEF IInv, TypeOK, CalledByHolder, AtMostOncePerSlot, RecordedResultIsReal, NextSlot, Move
<1> QED
  BY <1>1, <1>2, <1>3 DEF IInv

LEMMA AskToolStep == ASSUME IInv, NEW e \in Attempts, AskTool(e) PROVE IInv'
<1>1. faults \in Nat
  BY DEF IInv, TypeOK
<1>2. PICK c \in Calls :
          \/ /\ Lookup(e, c) = "new"
             /\ Move(e, "thinking", "inserting")
             /\ call' = [call EXCEPT ![e] = c]
             /\ args' = [args EXCEPT ![e] = c]
             /\ UNCHANGED at
          \/ NextSlot(e, "thinking")
          \/ /\ Move(e, "thinking", "aborted")
             /\ UNCHANGED <<at, call, args>>
  BY DEF AskTool
<1>3. CASE /\ Move(e, "thinking", "inserting")
           /\ call' = [call EXCEPT ![e] = c]
           /\ args' = [args EXCEPT ![e] = c]
           /\ UNCHANGED at
  <2>1. UNCHANGED <<row, invoked, retries, faults>> /\ at[e] \in Slots
    BY DEF AskTool
  <2>2. TypeOK' /\ Standing'
    BY <1>3, <2>1 DEF IInv, TypeOK, Places, Standing, Holds, Move
  <2>3. HeldSlots'
    BY <1>3, <2>1 DEF IInv, TypeOK, HeldSlots, Holds, Move
  <2>4. CalledByHolder' /\ AtMostOncePerSlot' /\ RecordedResultIsReal'
    BY <1>3, <2>1
       DEF IInv, TypeOK, CalledByHolder, AtMostOncePerSlot, RecordedResultIsReal, Move
  <2> QED
    BY <2>2, <2>3, <2>4 DEF IInv
<1>4. CASE NextSlot(e, "thinking")
  BY <1>1, <1>4, Advances DEF AskTool
<1>5. CASE Move(e, "thinking", "aborted") /\ UNCHANGED <<at, call, args>>
  BY <1>1, <1>5, Rests DEF AskTool, Move
<1> QED
  BY <1>2, <1>3, <1>4, <1>5

LEMMA RetryContextStep == ASSUME IInv, NEW e \in Attempts, RetryContext(e) PROVE IInv'
<1>1. TypeOK'
  <2>1. at' \in [Attempts -> Nat] /\ retries' \in [Attempts -> Nat]
    BY DEF IInv, TypeOK, RetryContext
  <2> QED
    BY <2>1 DEF IInv, TypeOK, RetryContext
<1>2. Standing' /\ HeldSlots'
  BY DEF IInv, TypeOK, Standing, HeldSlots, Holds, RetryContext
<1>3. CalledByHolder' /\ AtMostOncePerSlot' /\ RecordedResultIsReal'
  BY DEF IInv, TypeOK, CalledByHolder, AtMostOncePerSlot, RecordedResultIsReal, RetryContext
<1> QED
  BY <1>1, <1>2, <1>3 DEF IInv

LEMMA FenceStep == ASSUME IInv, NEW e \in Attempts, Fence(e) PROVE IInv'
<1>1. at[e] \in Slots /\ call[e] \in Calls /\ row[at[e]] = NoRow /\ place[e] = "inserting"
  BY DEF IInv, Standing, Fence, SlotFree, Move
<1>2. /\ place' = [place EXCEPT ![e] = "fenced"]
      /\ row' = [row EXCEPT ![at[e]] = [call |-> call[e], status |-> "started"]]
      /\ UNCHANGED <<invoked, at, call, args, retries, faults>>
  BY DEF Fence, Move
<1>3. \A d \in Attempts : Holds(d) => at[d] # at[e]
  <2> SUFFICES ASSUME NEW d \in Attempts, Holds(d) PROVE row[at[d]] # NoRow
    BY <1>1
  <2>1. call[d] \in Calls /\ row[at[d]] = [call |-> call[d], status |-> "started"]
    BY DEF IInv, Standing, HeldSlots
  <2> QED
    BY <2>1, CheckpointConstants
<1>4. TypeOK' /\ Standing'
  BY <1>1, <1>2 DEF IInv, TypeOK, Rows, Places, Standing, Holds
<1>5. HeldSlots'
  BY <1>1, <1>2, <1>3 DEF IInv, TypeOK, Standing, HeldSlots, Holds
<1>6. CalledByHolder'
  BY <1>1, <1>2, CheckpointConstants DEF IInv, TypeOK, CalledByHolder
<1>7. AtMostOncePerSlot' /\ RecordedResultIsReal'
  BY <1>1, <1>2 DEF IInv, TypeOK, AtMostOncePerSlot, RecordedResultIsReal
<1> QED
  BY <1>4, <1>5, <1>6, <1>7 DEF IInv

LEMMA PluginRewritesStep == ASSUME IInv, NEW e \in Attempts, PluginRewrites(e) PROVE IInv'
<1>1. TypeOK' /\ Standing' /\ HeldSlots'
  BY DEF IInv, TypeOK, Standing, HeldSlots, Holds, PluginRewrites
<1>2. CalledByHolder'
  <2>1. \A d \in Attempts : place[d] \in {"calling", "returned"} => args'[d] = args[d]
    BY DEF IInv, TypeOK, PluginRewrites
  <2> QED
    BY <2>1 DEF IInv, CalledByHolder, PluginRewrites
<1>3. AtMostOncePerSlot' /\ RecordedResultIsReal'
  BY DEF IInv, AtMostOncePerSlot, RecordedResultIsReal, PluginRewrites
<1> QED
  BY <1>1, <1>2, <1>3 DEF IInv

LEMMA InvokeStep == ASSUME IInv, NEW e \in Attempts, Invoke(e) PROVE IInv'
<1>1. PICK o \in Outcomes :
          invoked' = [invoked EXCEPT ![at[e]] = Append(@, [call |-> args[e], outcome |-> o])]
  BY DEF Invoke
<1>2. at[e] \in Slots /\ args[e] \in Calls /\ place[e] = "fenced" /\ Holds(e)
  BY DEF IInv, Standing, Invoke, Move, Holds
<1>3. invoked[at[e]] = <<>> /\ row[at[e]] = [call |-> call[e], status |-> "started"]
  BY <1>2 DEF IInv, CalledByHolder, HeldSlots
<1>4. invoked' = [invoked EXCEPT ![at[e]] = <<[call |-> args[e], outcome |-> o]>>]
  <2>1. Append(invoked[at[e]], [call |-> args[e], outcome |-> o])
          = <<[call |-> args[e], outcome |-> o]>>
    BY <1>3
  <2> QED
    BY <1>1, <2>1
<1>5. /\ place' = [place EXCEPT ![e] = "calling"]
      /\ UNCHANGED <<row, at, call, args, retries, faults>>
  BY DEF Invoke, Move
<1>6. TypeOK'
  <2>1. <<[call |-> args[e], outcome |-> o]>> \in Seq([call : Calls, outcome : Outcomes])
    BY <1>2
  <2> QED
    BY <1>4, <1>5, <2>1 DEF IInv, TypeOK, Places
<1>7. Standing' /\ HeldSlots'
  BY <1>5, <1>2 DEF IInv, TypeOK, Standing, HeldSlots, Holds
<1>8. CalledByHolder'
  <2>0. row[at[e]] # NoRow
    BY <1>2, <1>3, CheckpointConstants DEF IInv, Standing
  <2>1. \A d \in Attempts : d # e /\ Holds(d) => at[d] # at[e]
    BY <1>2 DEF IInv, HeldSlots
  <2>2. \A s \in Slots : row'[s] = NoRow => invoked'[s] = <<>>
    BY <1>2, <1>4, <1>5, <2>0 DEF IInv, TypeOK, CalledByHolder
  <2>3. \A d \in Attempts : place'[d] = "fenced" => invoked'[at'[d]] = <<>>
    BY <1>4, <1>5, <2>1 DEF IInv, TypeOK, CalledByHolder, Holds
  <2>4. \A d \in Attempts \ {e} : place'[d] \in {"calling", "returned"} =>
            \E r \in Outcomes : invoked'[at'[d]] = <<[call |-> args'[d], outcome |-> r]>>
    <3> SUFFICES ASSUME NEW d \in Attempts \ {e}, place'[d] \in {"calling", "returned"}
                 PROVE  \E r \in Outcomes :
                            invoked'[at'[d]] = <<[call |-> args'[d], outcome |-> r]>>
      OBVIOUS
    <3>1. place[d] \in {"calling", "returned"} /\ at'[d] = at[d] /\ args'[d] = args[d]
      BY <1>5 DEF IInv, TypeOK
    <3>2. at[d] # at[e]
      BY <2>1, <3>1 DEF Holds
    <3>3. PICK r \in Outcomes : invoked[at[d]] = <<[call |-> args[d], outcome |-> r]>>
      BY <3>1 DEF IInv, CalledByHolder
    <3>4. invoked'[at[d]] = invoked[at[d]]
      BY <1>4, <3>2, <3>1 DEF IInv, TypeOK, Standing, Holds
    <3>5. invoked'[at'[d]] = <<[call |-> args'[d], outcome |-> r]>>
      BY <3>1, <3>3, <3>4
    <3> QED
      BY <3>5
  <2>5. invoked'[at'[e]] = <<[call |-> args'[e], outcome |-> o]>>
    BY <1>2, <1>4, <1>5 DEF IInv, TypeOK
  <2> QED
    BY <2>2, <2>3, <2>4, <2>5 DEF CalledByHolder
<1>9. AtMostOncePerSlot' /\ RecordedResultIsReal'
  BY <1>2, <1>3, <1>4, <1>5 DEF IInv, TypeOK, AtMostOncePerSlot, RecordedResultIsReal
<1> QED
  BY <1>6, <1>7, <1>8, <1>9 DEF IInv

LEMMA ReturnStep == ASSUME IInv, NEW e \in Attempts, Return(e) PROVE IInv'
<1>1. TypeOK' /\ Standing' /\ HeldSlots'
  BY DEF IInv, TypeOK, Places, Standing, HeldSlots, Holds, Return, Move
<1>2. CalledByHolder' /\ AtMostOncePerSlot' /\ RecordedResultIsReal'
  BY DEF IInv, TypeOK, CalledByHolder, AtMostOncePerSlot, RecordedResultIsReal, Return, Move
<1> QED
  BY <1>1, <1>2 DEF IInv

LEMMA FinishStep == ASSUME IInv, NEW e \in Attempts, Finish(e) PROVE IInv'
<1>1. PICK o \in Outcomes : invoked[at[e]] = <<[call |-> args[e], outcome |-> o]>>
  BY DEF IInv, CalledByHolder, Finish, NextSlot, Move
<1>2. at[e] \in Slots /\ Holds(e) /\ Recorded(e) = o /\ faults \in Nat
  BY <1>1 DEF IInv, TypeOK, Standing, Finish, NextSlot, Move, Holds, Recorded
<1>3. CASE row[at[e]] # NoRow /\ row[at[e]].call = args[e]
  <2>1. /\ row' = [row EXCEPT ![at[e]].status = o]
        /\ place' = [place EXCEPT ![e] = "thinking"]
        /\ at' = [at EXCEPT ![e] = @ + 1]
        /\ call' = [call EXCEPT ![e] = NoRow]
        /\ args' = [args EXCEPT ![e] = NoRow]
        /\ UNCHANGED <<invoked, retries, faults>>
    BY <1>2, <1>3 DEF Finish, NextSlot, Move
  <2>2. row[at[e]] = [call |-> call[e], status |-> "started"]
    BY <1>2 DEF IInv, HeldSlots
  <2>3. row' = [row EXCEPT ![at[e]] = [call |-> args[e], status |-> o]]
    <3>1. args[e] = call[e]
      BY <2>2, <1>3
    <3>2. [row[at[e]] EXCEPT !.status = o] = [call |-> args[e], status |-> o]
      BY <2>2, <3>1
    <3> QED
      BY <2>1, <3>2
  <2>4. \A d \in Attempts : d # e /\ Holds(d) => at[d] # at[e]
    BY <1>2 DEF IInv, HeldSlots
  <2>5. [call |-> args[e], status |-> o] \in Rows
    BY <1>2 DEF IInv, Standing, Rows
  <2>6. TypeOK'
    <3>1. place' \in [Attempts -> Places]
      BY <2>1 DEF IInv, TypeOK, Places
    <3>2. at' \in [Attempts -> Nat]
      BY <2>1 DEF IInv, TypeOK
    <3> QED
      BY <2>1, <2>3, <2>5, <3>1, <3>2 DEF IInv, TypeOK
  <2>7. Standing' /\ HeldSlots'
    BY <2>1, <2>3, <2>4 DEF IInv, TypeOK, Standing, HeldSlots, Holds
  <2>8. CalledByHolder'
    <3>1. \A s \in Slots : row'[s] = NoRow => row[s] = NoRow
      <4> SUFFICES ASSUME NEW s \in Slots, row'[s] = NoRow, row[s] # NoRow PROVE FALSE
        OBVIOUS
      <4>1. CASE s = at[e]
        BY <4>1, <1>2, <2>3, <2>5, CheckpointConstants DEF IInv, TypeOK, Rows, Outcomes
      <4>2. CASE s # at[e]
        BY <4>2, <2>3 DEF IInv, TypeOK
      <4> QED
        BY <4>1, <4>2
    <3>2. \A s \in Slots : row'[s] = NoRow => invoked'[s] = <<>>
      BY <2>1, <3>1 DEF IInv, CalledByHolder
    <3>3. \A d \in Attempts : place'[d] \in {"fenced", "calling", "returned"} =>
              place'[d] = place[d] /\ at'[d] = at[d] /\ args'[d] = args[d]
      BY <2>1 DEF IInv, TypeOK
    <3>4. \A d \in Attempts : place'[d] = "fenced" => invoked'[at'[d]] = <<>>
      BY <2>1, <3>3 DEF IInv, CalledByHolder
    <3>5. ASSUME NEW d \in Attempts, place'[d] \in {"calling", "returned"}
          PROVE  \E r \in Outcomes : invoked'[at'[d]] = <<[call |-> args'[d], outcome |-> r]>>
      <4>1. place[d] \in {"calling", "returned"} /\ at'[d] = at[d] /\ args'[d] = args[d]
        BY <3>3, <3>5
      <4>2. PICK r \in Outcomes : invoked[at[d]] = <<[call |-> args[d], outcome |-> r]>>
        BY <4>1 DEF IInv, CalledByHolder
      <4>3. invoked'[at'[d]] = <<[call |-> args'[d], outcome |-> r]>>
        BY <2>1, <4>1, <4>2
      <4> QED
        BY <4>3
    <3> QED
      BY <3>2, <3>4, <3>5 DEF CalledByHolder
  <2>9. AtMostOncePerSlot' /\ RecordedResultIsReal'
    BY <1>1, <2>1, <2>3 DEF IInv, TypeOK, AtMostOncePerSlot, RecordedResultIsReal
  <2> QED
    BY <2>6, <2>7, <2>8, <2>9 DEF IInv
<1>4. CASE ~(row[at[e]] # NoRow /\ row[at[e]].call = args[e])
  BY <1>2, <1>4, Advances DEF Finish
<1> QED
  BY <1>3, <1>4

LEMMA Steps == IInv /\ Next => IInv'
<1> SUFFICES ASSUME IInv, NEW e \in Attempts, StartAttempt(e) \/ Step(e) \/ Die(e) PROVE IInv'
  BY DEF Next
<1>1. faults \in Nat
  BY DEF IInv, TypeOK
<1>2. CASE StartAttempt(e) \/ Answer(e) \/ PluginAborts(e)
  BY <1>1, <1>2, Rests DEF StartAttempt, Answer, PluginAborts, Move
<1>3. CASE Die(e)
  <2>1. /\ place' = [place EXCEPT ![e] = "dead"]
        /\ UNCHANGED <<row, invoked, at, call, args, retries>>
        /\ faults' \in Nat
    BY <1>1, <1>3 DEF Die, Fault
  <2> QED
    BY <2>1, Rests
<1>4. CASE LoseSlot(e) \/ PluginStops(e) \/ SkipSlot(e)
  BY <1>1, <1>4, Advances DEF LoseSlot, PluginStops, SkipSlot
<1>5. CASE FenceFails(e) \/ FinishFails(e)
  BY <1>1, <1>5, Advances DEF FenceFails, FinishFails, Fault
<1> QED
  BY <1>2, <1>3, <1>4, <1>5, AskToolStep, RetryContextStep, FenceStep, PluginRewritesStep,
     InvokeStep, ReturnStep, FinishStep DEF Step

LEMMA Inductive == Spec => []IInv
<1>1. IInv /\ UNCHANGED vars => IInv'
  <2> SUFFICES ASSUME IInv, UNCHANGED vars PROVE IInv'
    OBVIOUS
  <2>1. TypeOK' /\ Standing' /\ HeldSlots'
    BY DEF IInv, vars, TypeOK, Standing, HeldSlots, Holds
  <2>2. CalledByHolder'
    BY DEF IInv, vars, CalledByHolder
  <2>3. AtMostOncePerSlot'
    BY DEF IInv, vars, AtMostOncePerSlot
  <2>4. RecordedResultIsReal'
    BY DEF IInv, vars, RecordedResultIsReal
  <2> QED
    BY <2>1, <2>2, <2>3, <2>4 DEF IInv
<1> QED
  BY <1>1, Starts, Steps, PTL DEF Spec

\* Rows, slots and executions keep their shape (begin_tool_checkpoint,
\* finish_tool_checkpoint, the ReAct loop).
THEOREM Typing == Spec => []TypeOK
  BY Inductive, PTL DEF IInv

\* The side effect of a slot happens at most once, whatever stale or retried
\* executions do (begin_tool_checkpoint).
THEOREM AtMostOnce == Spec => []AtMostOncePerSlot
  BY Inductive, PTL DEF IInv

\* What a later attempt replays is the outcome of the call that was made
\* (finish_tool_checkpoint).
THEOREM RealResults == Spec => []RecordedResultIsReal
  BY Inductive, PTL DEF IInv
=============================================================================
