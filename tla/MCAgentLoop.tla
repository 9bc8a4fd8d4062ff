---------------------------- MODULE MCAgentLoop ----------------------------
(***************************************************************************)
(* AgentLoop, and the custom tools it may call, for TLC: a behaviour is of *)
(* one of the two.  The agent runs with every provider and setting and one *)
(* message from the user, retries where every message is shown; or         *)
(* with streamed Responses turns and two inputs, or one and a repetition.  *)
(* The two flows may be exchanged.                                         *)
(***************************************************************************)
EXTENDS AgentLoop, CustomTool, TLC

CONSTANTS alice, bob, f, g

VARIABLE part

\* A flow of its own for each caller, and one that fans out to both.
FanOut == (alice :> {f, g}) @@ (bob :> {g})

AgentInit ==
    /\ LoopInit
    /\ \/ /\ budget = [inputs |-> 1, repeats |-> 0]
          /\ maxRetries > 0 => emitPartials
       \/ /\ budget.inputs + budget.repeats = 2
          /\ provider = "responses" /\ stream /\ ~emitPartials /\ maxRetries = 0

AgentIdle ==
    /\ AgentInit
    /\ provider = "claude" /\ ~stream /\ maxRetries = 0
    /\ budget = [inputs |-> 1, repeats |-> 0]

ToolIdle == Init /\ \E n \in Names : name = [t \in Tools |-> n]

BothInit ==
    \/ part = "agent" /\ AgentInit /\ ToolIdle
    \/ part = "tool" /\ Init /\ AgentIdle

BothNext ==
    /\ UNCHANGED part
    /\ \/ part = "agent" /\ LoopNext /\ UNCHANGED vars
       \/ part = "tool" /\ Next /\ UNCHANGED agentVars

BothSpec == BothInit /\ [][BothNext]_<<part, vars, agentVars>>

ToolsAlone == BothInit /\ part = "tool" /\ [][BothNext]_<<part, vars, agentVars>>

\* Tools are alike, and so are names and the agent's flows.
EitherFlow == Permutations(Tools) \cup Permutations(Names) \cup Permutations(LoopFlows)
=============================================================================
