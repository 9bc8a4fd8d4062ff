---------------------------- MODULE MCCallTools ----------------------------
(***************************************************************************)
(* The two places where tool calls wait for others, call_tools and the     *)
(* pool of MCP connections, for TLC: a behaviour is of one of the two, and *)
(* the other rests in one of its initial states.                           *)
(***************************************************************************)
EXTENDS CallTools, McpPool, TLC

VARIABLE part

toolVars == <<part, batchVars, vars>>

BatchIdle == BatchInit /\ mode = <<"Parallel">> /\ maxConcurrency = 0

ToolInit ==
    \/ part = "batch" /\ BatchInit /\ Init
    \/ part = "pool" /\ BatchIdle /\ Init

BatchStep == part = "batch" /\ BatchNext /\ UNCHANGED <<part, vars>>
PoolStep  == part = "pool" /\ Next /\ UNCHANGED <<part, batchVars>>

ToolSpec ==
    /\ ToolInit /\ [][BatchStep \/ PoolStep]_toolVars
    /\ WF_batchVars(part = "batch" /\ Task)
    /\ PoolFairness
=============================================================================
