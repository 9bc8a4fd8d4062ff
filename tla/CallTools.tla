------------------------------ MODULE CallTools ------------------------------
(***************************************************************************)
(* call_tools of modular-agent-core: the tool calls of one message, run in *)
(* order.  Consecutive calls to Parallel tools are gathered and run        *)
(* together (flush_parallel_batch over buffer_unordered); a Sequential     *)
(* call flushes what was gathered and then runs alone.  Everything is      *)
(* raced against the token of the flow, which is read first in each poll.  *)
(*                                                                         *)
(* The mode of a call is read from the registry once, when the loop comes  *)
(* to it: it is chosen in Init, which covers a registry that changes.  A   *)
(* tool ends, fails or hangs as it likes; the futures of this task make    *)
(* progress only when the task polls them.                                 *)
(***************************************************************************)
EXTENDS Naturals, Sequences, FiniteSets

CONSTANTS MaxCalls, MaxLimit    \* bounds: calls of a message, max_concurrency

ASSUME CallToolsAssumption == MaxCalls \in Nat /\ MaxLimit \in Nat \ {0}

VARIABLES
    mode, maxConcurrency,
    fired,         \* the token of the flow was cancelled
    at,            \* where the task is
    next,          \* the call the loop is at
    batch,         \* parallel_batch: calls gathered, in order
    polling,       \* inside a poll that found the token unfired
    call,          \* of each call: its future
    result,        \* what the future will return, when "ready"
    slots,         \* the results the stream has yielded
    out            \* resp_messages

batchVars == <<mode, maxConcurrency, fired, at, next, batch, polling, call, result, slots, out>>

Calls    == DOMAIN mode
Gathered == {batch[k] : k \in DOMAIN batch}
Limit    == IF maxConcurrency < 1 THEN 1 ELSE maxConcurrency
Results  == {"ok", "error", "cancelled"}
NoResult     == "none"

BatchInit ==
    /\ mode \in UNION {[1 .. n -> {"Parallel", "Sequential"}] : n \in 1 .. MaxCalls}
    /\ maxConcurrency \in 0 .. MaxLimit
    /\ fired = FALSE
    /\ at = "scan"
    /\ next = 1
    /\ batch = <<>>
    /\ polling = FALSE
    /\ call = [i \in Calls |-> "waiting"]
    /\ result = [i \in Calls |-> NoResult]
    /\ slots = [i \in Calls |-> NoResult]
    /\ out = <<>>

unmoved == <<mode, maxConcurrency, fired>>

-----------------------------------------------------------------------------
(* The futures: execute_tool_call.                                          *)

InFlight == {i \in Gathered : call[i] # "waiting" /\ slots[i] = NoResult}

\* The first poll of a call: arguments that do not parse or validate, and a
\* tool that is gone, end it at once; so does a flow that is aborted.
BeginCall(i) ==
    \/ /\ call' = [call EXCEPT ![i] = "ready"]
       /\ \E r \in {"error"} \cup (IF fired THEN {"cancelled"} ELSE {"ok"}) :
             result' = [result EXCEPT ![i] = r]
    \/ /\ ~fired
       /\ call' = [call EXCEPT ![i] = "running"]
       /\ UNCHANGED result

\* A running tool has its answer, or saw the token itself.
FinishCall(i) ==
    /\ at # "returned" /\ call[i] = "running"
    /\ call' = [call EXCEPT ![i] = "ready"]
    /\ \E r \in {"ok", "error"} \cup (IF fired THEN {"cancelled"} ELSE {}) :
          result' = [result EXCEPT ![i] = r]
    /\ UNCHANGED <<unmoved, at, next, batch, polling, slots, out>>

\* abort_context, at any time.
Fire ==
    /\ ~fired /\ at # "returned"
    /\ fired' = TRUE
    /\ UNCHANGED <<mode, maxConcurrency, at, next, batch, polling, call, result, slots, out>>

-----------------------------------------------------------------------------
(* The loop over the calls.                                                 *)

Gather ==
    /\ at = "scan" /\ next <= Len(mode) /\ mode[next] = "Parallel"
    /\ batch' = Append(batch, next)
    /\ next' = next + 1
    /\ UNCHANGED <<unmoved, at, polling, call, result, slots, out>>

Barrier ==
    /\ at = "scan"
    /\ next <= Len(mode) => mode[next] = "Sequential"
    /\ at' = "flush"
    /\ UNCHANGED <<unmoved, next, batch, polling, call, result, slots, out>>

\* A poll of run_unless_cancelled (biased) that finds the token unfired; the
\* task is polled because a future was never polled or has become ready.
Poll ==
    /\ ~polling /\ ~fired
    /\ \/ /\ at = "flush"
          /\ \E i \in Gathered : slots[i] = NoResult /\
                (call[i] = "ready" \/ (call[i] = "waiting" /\ Cardinality(InFlight) < Limit))
       \/ at = "alone" /\ call[next] \in {"waiting", "ready"}
    /\ polling' = TRUE
    /\ UNCHANGED <<unmoved, at, next, batch, call, result, slots, out>>

-----------------------------------------------------------------------------
(* flush_parallel_batch.                                                    *)

FirstWaiting(i) ==
    i \in Gathered /\ call[i] = "waiting" /\ \A j \in Gathered : j < i => call[j] # "waiting"

\* buffer_unordered starts calls in order while fewer than the limit are out.
StartParallel(i) ==
    /\ at = "flush" /\ polling
    /\ FirstWaiting(i) /\ Cardinality(InFlight) < Limit
    /\ BeginCall(i)
    /\ UNCHANGED <<unmoved, at, next, batch, polling, slots, out>>

\* The stream yields one result and the loop polls again.
Yield(i) ==
    /\ at = "flush" /\ polling
    /\ i \in Gathered /\ call[i] = "ready" /\ slots[i] = NoResult
    /\ slots' = [slots EXCEPT ![i] = result[i]]
    /\ polling' = FALSE
    /\ UNCHANGED <<unmoved, at, next, batch, call, result, out>>

\* Nothing to start and nothing ready.
Pend ==
    /\ polling
    /\ \/ /\ at = "flush"
          /\ ~\E i \in Gathered : call[i] = "ready" /\ slots[i] = NoResult
          /\ \E i \in Gathered : slots[i] = NoResult
          /\ ~\E i \in Gathered : FirstWaiting(i) /\ Cardinality(InFlight) < Limit
       \/ at = "alone" /\ call[next] = "running"
    /\ polling' = FALSE
    /\ UNCHANGED <<unmoved, at, next, batch, call, result, slots, out>>

\* The answers of the calls of the batch, in their order.
Answers(a) == [k \in 1 .. Len(batch) |-> a[batch[k]]]

\* Every call of the batch has yielded: its results are appended in order.
Flushed ==
    /\ at = "flush" /\ ~polling
    /\ \A i \in Gathered : slots[i] # NoResult
    /\ out' = out \o Answers(slots)
    /\ batch' = <<>>
    /\ at' = IF next <= Len(mode) THEN "alone" ELSE "returned"
    /\ UNCHANGED <<unmoved, next, polling, call, result, slots>>

\* The final fill of call_tools: a result for every call that has none.
Fill(so) == so \o [k \in 1 .. Len(mode) - Len(so) |-> "aborted"]

\* Mutant: a cancelled batch drops what its stream had not yielded.
NoSalvage(i) == IF slots[i] # NoResult THEN slots[i] ELSE "aborted"

\* What a call of a cancelled batch is answered.  Results that are ready are
\* salvaged, which lets the stream start further calls while fewer than the
\* limit hang: these find the flow aborted.  The others are dropped.
Salvage(i) ==
    CASE slots[i] # NoResult    -> slots[i]
      [] call[i] = "ready"  -> result[i]
      [] call[i] = "waiting" /\ Cardinality({j \in Gathered : call[j] = "running"}) < Limit
                            -> "cancelled"
      [] OTHER              -> "aborted"

AbortFlush ==
    /\ at = "flush" /\ ~polling /\ fired
    /\ \E i \in Gathered : slots[i] = NoResult
    /\ out' = Fill(out \o Answers([i \in Calls |-> Salvage(i)]))
    /\ batch' = <<>>
    /\ at' = "returned"
    /\ UNCHANGED <<unmoved, next, polling, call, result, slots>>

-----------------------------------------------------------------------------
(* A sequential call.                                                       *)

StartAlone ==
    /\ at = "alone" /\ polling
    /\ call[next] = "waiting"
    /\ BeginCall(next)
    /\ UNCHANGED <<unmoved, at, next, batch, polling, slots, out>>

AloneDone ==
    /\ at = "alone" /\ polling /\ call[next] = "ready"
    /\ out' = Append(out, result[next])
    /\ next' = next + 1
    /\ at' = "scan"
    /\ polling' = FALSE
    /\ UNCHANGED <<unmoved, batch, call, result, slots>>

\* Mutant: the wait for a sequential call is not raced against the token.
WaitAlone ==
    /\ at = "alone" /\ ~polling /\ fired /\ call[next] # "running"
    /\ out' = Fill(out)
    /\ at' = "returned"
    /\ UNCHANGED <<unmoved, next, batch, polling, call, result, slots>>

\* The token is read first: the future is dropped, even one that is ready.
AbortAlone ==
    /\ at = "alone" /\ ~polling /\ fired
    /\ out' = Fill(out)
    /\ at' = "returned"
    /\ UNCHANGED <<unmoved, next, batch, polling, call, result, slots>>

Task ==
    \/ Gather \/ Barrier \/ Poll \/ Pend
    \/ \E i \in Calls : StartParallel(i) \/ Yield(i)
    \/ Flushed \/ AbortFlush
    \/ StartAlone \/ AloneDone \/ AbortAlone

Returned == at = "returned" /\ UNCHANGED batchVars

BatchNext == Task \/ Fire \/ (\E i \in Calls : FinishCall(i)) \/ Returned

BatchSpec == BatchInit /\ [][BatchNext]_batchVars

-----------------------------------------------------------------------------
(* What call_tools promises.                                                *)

\* A call is open while its future runs.
Stage == [i \in Calls |-> CASE call[i] = "waiting" -> "waiting"
                            [] call[i] = "running" -> "open"
                            [] call[i] = "ready"   -> "ended"]

\* Its own result or a word that it was aborted, once the task has returned.
Told == IF at = "returned"
        THEN [i \in Calls |-> IF out[i] = "aborted" THEN "aborted" ELSE "own"]
        ELSE <<>>

Promise == INSTANCE ToolBatch WITH limit <- Limit, stage <- Stage, answers <- Told

\* call_tools keeps this promise: results in the order of the calls, one for
\* each; sequential calls alone, parallel ones within the limit; after an abort
\* a call that ended keeps its result, all but the last to run when it is
\* Sequential (AbortAlone).  The doc (tool.rs:768-771) makes no exception for it:
\* "calls that already completed keep their real result".
KeepsPromise == Promise!Spec

\* An abort ends the batch, however long its tools hang.
AbortReturns == fired ~> at = "returned"

=============================================================================
