--------------------------- MODULE ToolCheckpoint ---------------------------
(***************************************************************************)
(* The tool calls of one Run and the checkpoints that fence their side     *)
(* effects.  An attempt at the Run is an execution of the ReAct loop       *)
(* (src/agent/core/runtime.py) in some worker; it calls tools one after    *)
(* the other, each in the slot (iteration, call_index), through the hooks  *)
(* of src/agent/tool_hooks: first the checkpoint's pre hook                *)
(* (src/cloud/tool_checkpoints.py), then the pre hooks of the user's       *)
(* plugins, the tool, and the checkpoint's post hook.                      *)
(*                                                                         *)
(* A new attempt starts when the Run was taken back and claimed again.     *)
(* The execution of the old one may be dead, or may go on: a worker that   *)
(* lost its lease leaves its execution task running.  So executions of     *)
(* several attempts race for the same slots.                               *)
(***************************************************************************)
EXTENDS Naturals, Sequences

CONSTANTS
    Calls,        \* (tool name, arguments) pairs, what _signature hashes
    MaxSlots,     \* bound: slots of one ReAct loop (max_iterations)
    MaxAttempts,  \* bound: times the Run is claimed
    MaxRetries,   \* bound: smaller contexts tried by one execution
    MaxFaults,    \* bound: crashes and failed checkpoint transactions
    NoRow         \* no row for a slot, no call in hand

ASSUME CheckpointConstants ==
    /\ MaxSlots \in Nat
    /\ MaxAttempts \in Nat
    /\ MaxRetries \in Nat
    /\ MaxFaults \in Nat
    /\ NoRow \notin Calls
    /\ NoRow \notin [call : Calls, status : {"started", "success", "error"}]

Slots == 1 .. MaxSlots
Attempts == 1 .. MaxAttempts

VARIABLES
    row,      \* slot -> run_tool_checkpoints row: signature and status
    invoked,  \* slot -> calls the tool really received, with their outcomes
    place,    \* attempt -> where its execution is
    at,       \* attempt -> slot of its current tool call
    call,     \* attempt -> the call the model asked for (request.arguments)
    args,     \* attempt -> the call after the plugins' updated_input
    retries,  \* attempt -> contexts given up
    faults    \* faults so far

vars == <<row, invoked, place, at, call, args, retries, faults>>

Outcomes == {"success", "error"}
Rows == [call : Calls, status : {"started"} \cup Outcomes]
Places == {"waiting", "thinking", "inserting", "fenced", "calling", "returned",
           "answered", "aborted", "dead"}

\* An execution that may still do something.
Active(e) == place[e] \notin {"waiting", "answered", "aborted", "dead"}

Init ==
    /\ row = [s \in Slots |-> NoRow]
    /\ invoked = [s \in Slots |-> <<>>]
    /\ place = [e \in Attempts |-> "waiting"]
    /\ at = [e \in Attempts |-> 1]
    /\ call = [e \in Attempts |-> NoRow]
    /\ args = [e \in Attempts |-> NoRow]
    /\ retries = [e \in Attempts |-> 0]
    /\ faults = 0

Move(e, from, to) ==
    /\ place[e] = from
    /\ place' = [place EXCEPT ![e] = to]

\* The model gets a tool result: the loop goes on behind the slot.
NextSlot(e, from) ==
    /\ Move(e, from, "thinking")
    /\ at' = [at EXCEPT ![e] = @ + 1]
    /\ call' = [call EXCEPT ![e] = NoRow]
    /\ args' = [args EXCEPT ![e] = NoRow]

Fault == faults < MaxFaults /\ faults' = faults + 1

\* The Run is claimed once more; nothing waits for the old execution, which
\* may even have answered or aborted after its lease was taken back.
StartAttempt(e) ==
    /\ \A d \in Attempts : d < e => place[d] # "waiting"
    /\ Move(e, "waiting", "thinking")
    /\ UNCHANGED <<row, invoked, at, call, args, retries, faults>>

\* The model answers without a tool call, or the iterations are used up.
Answer(e) ==
    /\ Move(e, "thinking", "answered")
    /\ UNCHANGED <<row, invoked, at, call, args, retries, faults>>

\* mutated: the list of smaller contexts never ends.
RetryForever(e) ==
    /\ place[e] = "thinking"
    /\ at' = [at EXCEPT ![e] = 1]
    /\ UNCHANGED <<row, invoked, place, call, args, retries, faults>>

\* run_turn catches a context overflow and runs the loop again on a smaller
\* context: iteration starts from zero in the same attempt.
RetryContext(e) ==
    /\ place[e] = "thinking"
    /\ retries[e] < MaxRetries
    /\ retries' = [retries EXCEPT ![e] = @ + 1]
    /\ at' = [at EXCEPT ![e] = 1]
    /\ UNCHANGED <<row, invoked, place, call, args, faults>>

\* begin_tool_checkpoint, the answer of its locked read.
Lookup(e, c) == IF row[at[e]] = NoRow THEN "new"
                ELSE IF row[at[e]].call # c THEN "diverged"
                ELSE IF row[at[e]].status = "started" THEN "ambiguous" ELSE "replay"

\* The model asks for a tool and the pre hook of the checkpoint reads the slot.
AskTool(e) ==
    /\ at[e] \in Slots
    /\ \E c \in Calls :
          \/ /\ Lookup(e, c) = "new"
             /\ Move(e, "thinking", "inserting")
             /\ call' = [call EXCEPT ![e] = c]
             /\ args' = [args EXCEPT ![e] = c]
             /\ UNCHANGED at
          \/ Lookup(e, c) = "replay" /\ NextSlot(e, "thinking")
          \/ /\ Lookup(e, c) \in {"ambiguous", "diverged"}
             /\ Move(e, "thinking", "aborted")
             /\ UNCHANGED <<at, call, args>>
    /\ UNCHANGED <<row, invoked, retries, faults>>

\* The loop denies the call before any hook (disabled, deferred or repeated
\* tool), or the response has fewer calls: the slot is passed over.
SkipSlot(e) ==
    /\ at[e] \in Slots
    /\ NextSlot(e, "thinking")
    /\ UNCHANGED <<row, invoked, retries, faults>>

\* mutated: no unique constraint, the later insert overwrites.
SlotFreeAlways(s) == TRUE

\* The unique constraint on (run, iteration, call_index) admits the insert.
SlotFree(s) == row[s] = NoRow

\* The insert commits: this execution, and no other ever, may call the tool.
Fence(e) ==
    /\ Move(e, "inserting", "fenced")
    /\ SlotFree(at[e])
    /\ row' = [row EXCEPT ![at[e]] = [call |-> call[e], status |-> "started"]]
    /\ UNCHANGED <<invoked, at, call, args, retries, faults>>

\* The insert loses the race: IntegrityError in the pre hook becomes an error
\* result, the tool is not called.
LoseSlot(e) ==
    /\ NextSlot(e, "inserting")
    /\ ~SlotFree(at[e])
    /\ UNCHANGED <<row, invoked, retries, faults>>

\* The pre hook's transaction fails otherwise, with the same consequence.
FenceFails(e) ==
    /\ Fault
    /\ NextSlot(e, "inserting")
    /\ UNCHANGED <<row, invoked, retries>>

\* A plugin's pre hook rewrites the arguments (updated_input).
PluginRewrites(e) ==
    /\ place[e] = "fenced"
    /\ args[e] = call[e]
    /\ \E c \in Calls \ {call[e]} : args' = [args EXCEPT ![e] = c]
    /\ UNCHANGED <<row, invoked, place, at, call, retries, faults>>

\* A plugin's pre hook denies the call, answers it by replay, or raises.
PluginStops(e) ==
    /\ NextSlot(e, "fenced")
    /\ UNCHANGED <<row, invoked, retries, faults>>

\* A plugin's pre hook aborts the Run.
PluginAborts(e) ==
    /\ Move(e, "fenced", "aborted")
    /\ UNCHANGED <<row, invoked, at, call, args, retries, faults>>

\* The tool is called, and from here its side effect is in the world.
Invoke(e) ==
    /\ Move(e, "fenced", "calling")
    /\ \E o \in Outcomes :
          invoked' = [invoked EXCEPT ![at[e]] = Append(@, [call |-> args[e], outcome |-> o])]
    /\ UNCHANGED <<row, at, call, args, retries, faults>>

\* The tool returns, raises or is cut off by asyncio.timeout, which counts as
\* an error whatever it did.
Return(e) ==
    /\ Move(e, "calling", "returned")
    /\ UNCHANGED <<row, invoked, at, call, args, retries, faults>>

\* mutated: the post hook always records success.
RecordedAlways(e) == "success"

\* The status the post hooks pass: post_tool_use or post_tool_error.
Recorded(e) == invoked[at[e]][Len(invoked[at[e]])].outcome

\* finish_tool_checkpoint: a slot whose signature is not that of the final
\* arguments is left alone (StoreStateError is logged and swallowed).
Finish(e) ==
    /\ NextSlot(e, "returned")
    /\ row' = IF row[at[e]] # NoRow /\ row[at[e]].call = args[e]
              THEN [row EXCEPT ![at[e]].status = Recorded(e)]
              ELSE row
    /\ UNCHANGED <<invoked, retries, faults>>

\* The post hook's transaction fails: swallowed too.
FinishFails(e) ==
    /\ Fault
    /\ NextSlot(e, "returned")
    /\ UNCHANGED <<row, invoked, retries>>

\* The process dies, or the worker cancels the execution.
Die(e) ==
    /\ Active(e)
    /\ Fault
    /\ place' = [place EXCEPT ![e] = "dead"]
    /\ UNCHANGED <<row, invoked, at, call, args, retries>>

Step(e) ==
    \/ Answer(e) \/ AskTool(e) \/ SkipSlot(e) \/ RetryContext(e)
    \/ Fence(e) \/ LoseSlot(e) \/ FenceFails(e)
    \/ PluginRewrites(e) \/ PluginStops(e) \/ PluginAborts(e)
    \/ Invoke(e) \/ Return(e) \/ Finish(e) \/ FinishFails(e)

Next == \E e \in Attempts : StartAttempt(e) \/ Step(e) \/ Die(e)

Spec == Init /\ [][Next]_vars

\* An execution that is alive goes on: its model and tool calls have timeouts.
FairSpec == Spec /\ \A e \in Attempts : WF_vars(Step(e))
-----------------------------------------------------------------------------
(* Properties *)

\* Rows, slots and executions have the shape the table and the loop give them.
TypeOK ==
    /\ row \in [Slots -> Rows \cup {NoRow}]
    /\ invoked \in [Slots -> Seq([call : Calls, outcome : Outcomes])]
    /\ place \in [Attempts -> Places]
    /\ at \in [Attempts -> Nat]
    /\ call \in [Attempts -> Calls \cup {NoRow}]
    /\ args \in [Attempts -> Calls \cup {NoRow}]
    /\ retries \in [Attempts -> Nat]
    /\ faults \in Nat

\* However many attempts race, crash or go on without their lease, the tool of
\* a slot is called at most once (begin_tool_checkpoint).
AtMostOncePerSlot == \A s \in Slots : Len(invoked[s]) <= 1

\* A recorded result is what a later attempt replays instead of calling, so it
\* is the outcome of a call that was made, and of that very call
\* (finish_tool_checkpoint).
RecordedResultIsReal ==
    \A s \in Slots : row[s] # NoRow /\ row[s].status # "started" =>
        invoked[s] = <<[call |-> row[s].call, outcome |-> row[s].status]>>

\* Every execution that stays alive ends: replays, lost slots and retries of
\* the context lead nowhere round in circles.
ExecutionsEnd == \A e \in Attempts : Active(e) ~> ~Active(e)
=============================================================================
