------------------------------ MODULE ToolBatch ------------------------------
(***************************************************************************)
(* What call_tools promises: a result for every call the model issued, in  *)
(* the order of the calls.  Parallel calls may overlap, `limit' at most at *)
(* a time; a Sequential call starts when every earlier call has ended and  *)
(* nothing starts beside it.  When the flow is aborted a call that has     *)
(* ended keeps its own result, but for a Sequential one that was the last  *)
(* to run: it may be told "aborted", as may all that had not ended.        *)
(***************************************************************************)
EXTENDS Naturals, Sequences, FiniteSets

CONSTANTS MaxCalls, MaxLimit    \* bounds: calls of a message, max_concurrency

VARIABLES
    mode,      \* the execution mode of each call
    limit,     \* calls that may overlap
    fired,     \* the flow was aborted
    stage,     \* of each call: "waiting", "open", "ended"
    answers    \* what call_tools returned: <<>> before it did

vars == <<mode, limit, fired, stage, answers>>

Calls == DOMAIN mode
Open  == {i \in Calls : stage[i] = "open"}

Init ==
    /\ mode \in UNION {[1 .. n -> {"Parallel", "Sequential"}] : n \in 1 .. MaxCalls}
    /\ limit \in 1 .. MaxLimit
    /\ fired = FALSE
    /\ stage = [i \in Calls |-> "waiting"]
    /\ answers = <<>>

Fire ==
    /\ fired' = TRUE
    /\ UNCHANGED <<mode, limit, stage, answers>>

\* i may start: no call it must not overlap is open, or still to run before it.
MayStart(i) ==
    /\ answers = <<>>
    /\ Cardinality(Open) < limit
    /\ \A j \in Calls \ {i} :
          "Sequential" \in {mode[i], mode[j]} =>
             /\ stage[j] # "open"
             /\ j < i => stage[j] = "ended"

Start(i) ==
    /\ stage[i] = "waiting" /\ MayStart(i)
    /\ stage' = [stage EXCEPT ![i] = "open"]
    /\ UNCHANGED <<mode, limit, fired, answers>>

\* A call whose arguments or tool are no good ends without running.
Refuse(i) ==
    /\ stage[i] = "waiting" /\ MayStart(i)
    /\ stage' = [stage EXCEPT ![i] = "ended"]
    /\ UNCHANGED <<mode, limit, fired, answers>>

End(i) ==
    /\ stage[i] = "open" /\ answers = <<>>
    /\ stage' = [stage EXCEPT ![i] = "ended"]
    /\ UNCHANGED <<mode, limit, fired, answers>>

\* A Sequential call after which none has started.
LastAlone(i) == mode[i] = "Sequential" /\ \A j \in Calls : j > i => stage[j] = "waiting"

\* "own": the call's own result, be it an error.  A call that did not start
\* before the abort may be refused for it, which is an own result too.
\* The one exception to the doc of call_tools, which has every call that ended
\* keep its result, is the last to run when it is Sequential.
MayAnswer(i, a) ==
    CASE a = "own"     -> stage[i] = "ended" \/ (fired /\ stage[i] = "waiting")
      [] a = "aborted" -> fired /\ (stage[i] = "ended" => LastAlone(i))

Return ==
    /\ answers = <<>>
    /\ answers' \in [Calls -> {"own", "aborted"}]
    /\ \A i \in Calls : MayAnswer(i, answers'[i])
    /\ UNCHANGED <<mode, limit, fired, stage>>

Next ==
    \/ Fire
    \/ \E i \in Calls : Start(i) \/ Refuse(i) \/ End(i)
    \/ Return

Spec == Init /\ [][Next]_vars
=============================================================================
