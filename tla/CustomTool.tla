----------------------------- MODULE CustomTool -----------------------------
(***************************************************************************)
(* CustomToolModule of modular-agent-core: a workflow offered as a tool.   *)
(* A call registers a sender under the id of its flow, emits tool_in and   *)
(* waits; the workflow's tool_out reaches process(), which hands the value *)
(* to whatever sender is registered under the flow's id.  A wait also ends *)
(* by its timeout, by the flow's cancellation or when the sender is        *)
(* dropped, and the guard of the call then clears the flow's entry.        *)
(*                                                                         *)
(* The module lock is never held across an await here, so what happens     *)
(* under it is one step; the guard takes the pending map alone.            *)
(***************************************************************************)
EXTENDS Naturals, FiniteSets

CONSTANTS
    Tools,       \* the CustomToolModule instances
    Names,       \* tool names
    Flows,       \* context ids
    Callers,     \* modules that call tools, one call at a time each
    Reach,       \* the flows that reach each caller
    MaxCalls     \* bound: tool calls in a behaviour

NoTool   == "no tool"
NoCaller == "no caller"
NoFlow   == "no flow"
None   == 0
Calls  == 1 .. MaxCalls
Open   == 0                 \* a oneshot channel: still open, its sender
Closed == MaxCalls + 1      \* dropped, or the call whose result it carries

ASSUME CustomToolAssumption ==
    /\ MaxCalls \in Nat
    /\ NoTool \notin Tools
    /\ NoFlow \notin Flows
    /\ NoCaller \notin Callers
    /\ Reach \in [Callers -> SUBSET Flows]

VARIABLES
    registry,    \* the process-wide tool registry: the module behind a name
    name,        \* the name a module is configured with
    started,     \* the modules in status Start
    pending,     \* the senders a module holds, by flow
    stage,       \* of a call
    by, flow, tool,   \* its caller, its flow, and the module it found
    channel,     \* what its receiver gets
    work,        \* calls the workflow has yet to answer, perhaps again
    aborted,     \* flows whose token fired
    routing,     \* the router still takes outputs
    nextCall

moduleVars == <<registry, name, started>>
callVars   == <<by, flow, tool, nextCall>>
vars == <<moduleVars, pending, stage, callVars, channel, work, aborted, routing>>

Stages == {"none", "asked", "waiting", "leaving", "done"}

TypeOK ==
    /\ registry \in [Names -> Tools \cup {NoTool}]
    /\ name \in [Tools -> Names]
    /\ started \in SUBSET Tools
    /\ pending \in [Tools -> [Flows -> Calls \cup {None}]]
    /\ stage \in [Calls -> Stages]
    /\ by \in [Calls -> Callers \cup {NoCaller}]
    /\ flow \in [Calls -> Flows \cup {NoFlow}]
    /\ tool \in [Calls -> Tools \cup {NoTool}]
    /\ work \cup {k \in Calls : stage[k] # "none"} \subseteq 1 .. nextCall - 1
    /\ \A k \in 1 .. nextCall - 1 : flow[k] \in Flows /\ tool[k] \in Tools
    /\ channel \in [Calls -> Calls \cup {Open, Closed}]
    /\ work \in SUBSET Calls
    /\ aborted \in SUBSET Flows
    /\ routing \in BOOLEAN
    /\ nextCall \in 1 .. MaxCalls + 1

Init ==
    /\ registry = [n \in Names |-> NoTool]
    /\ name \in [Tools -> Names]
    /\ started = {}
    /\ pending = [t \in Tools |-> [f \in Flows |-> None]]
    /\ stage = [k \in Calls |-> "none"]
    /\ by = [k \in Calls |-> NoCaller]
    /\ flow = [k \in Calls |-> NoFlow]
    /\ tool = [k \in Calls |-> NoTool]
    /\ channel = [k \in Calls |-> Open]
    /\ work = {}
    /\ aborted = {}
    /\ routing = TRUE
    /\ nextCall = 1

Move(k, s) == stage' = [stage EXCEPT ![k] = s]

-----------------------------------------------------------------------------
(* The module: start(), stop(), configs_changed().                          *)

\* The entry of flow f in module t becomes k: the sender it held is dropped,
\* which closes the channel of the call that waits on it.
Entry(t, f, k) ==
    /\ pending' = [pending EXCEPT ![t][f] = k]
    /\ channel' = [j \in Calls |->
                      IF j = pending[t][f] /\ channel[j] = Open THEN Closed
                                                                ELSE channel[j]]

Start(t) ==
    /\ t \notin started
    /\ started' = started \cup {t}
    /\ registry' = [registry EXCEPT ![name[t]] = t]
    /\ UNCHANGED <<name, pending, stage, callVars, channel, work, aborted, routing>>

\* stop() unregisters whatever the name leads to and drops every sender.
Stop(t) ==
    /\ t \in started
    /\ started' = started \ {t}
    /\ registry' = [registry EXCEPT ![name[t]] = NoTool]
    /\ pending' = [pending EXCEPT ![t] = [f \in Flows |-> None]]
    /\ channel' = [j \in Calls |->
                      IF channel[j] = Open /\ \E f \in Flows : pending[t][f] = j
                          THEN Closed ELSE channel[j]]
    /\ UNCHANGED <<name, stage, callVars, work, aborted, routing>>

\* configs_changed() registers the new name first, then removes the old one,
\* whoever is registered under it.
Rename(t, n) ==
    /\ n # name[t]
    /\ name' = [name EXCEPT ![t] = n]
    /\ registry' = IF t \in started
                       THEN [registry EXCEPT ![n] = t, ![name[t]] = NoTool]
                       ELSE registry
    /\ UNCHANGED <<started, pending, stage, callVars, channel, work, aborted, routing>>

-----------------------------------------------------------------------------
(* A call.                                                                  *)

Busy(c) == \E k \in Calls : by[k] = c /\ stage[k] \notin {"none", "done"}

\* A caller looks the tool up and is not cancelled yet; from here on it keeps
\* the module, whatever happens to the registry.
Ask(c, f, n) ==
    /\ nextCall \in Calls /\ ~Busy(c)
    /\ f \in Reach[c] /\ f \notin aborted
    /\ registry[n] # NoTool
    /\ by' = [by EXCEPT ![nextCall] = c]
    /\ flow' = [flow EXCEPT ![nextCall] = f]
    /\ tool' = [tool EXCEPT ![nextCall] = registry[n]]
    /\ nextCall' = nextCall + 1
    /\ Move(nextCall, "asked")
    /\ UNCHANGED <<moduleVars, pending, channel, work, aborted, routing>>

\* The flow was cancelled while the call waited for the module lock.
Refuse(k) ==
    /\ stage[k] = "asked" /\ flow[k] \in aborted
    /\ Move(k, "done")
    /\ UNCHANGED <<moduleVars, pending, callVars, channel, work, aborted, routing>>

\* start_tool_call: the sender is registered, then tool_in is emitted.
Register(k) ==
    /\ stage[k] = "asked" /\ flow[k] \notin aborted /\ routing
    /\ Entry(tool[k], flow[k], k)
    /\ work' = work \cup {k}
    /\ Move(k, "waiting")
    /\ UNCHANGED <<moduleVars, callVars, aborted, routing>>

\* tool_in cannot be emitted any more: the entry just made is removed again.
EmitFails(k) ==
    /\ stage[k] = "asked" /\ flow[k] \notin aborted /\ ~routing
    /\ Entry(tool[k], flow[k], None)
    /\ Move(k, "done")
    /\ UNCHANGED <<moduleVars, callVars, work, aborted, routing>>

\* Mutant: process() wakes some call of the module, whatever its flow.
AnswerAny(k) ==
    /\ k \in work /\ tool[k] \in started
    /\ work' \in {work, work \ {k}}
    /\ \E f \in Flows :
          LET j == pending[tool[k]][f] IN
          /\ j # None
          /\ pending' = [pending EXCEPT ![tool[k]][f] = None]
          /\ channel' = IF stage[j] = "waiting" THEN [channel EXCEPT ![j] = k]
                                                ELSE channel
    /\ UNCHANGED <<moduleVars, stage, callVars, aborted, routing>>

\* process(): the workflow's value for call k goes to whatever call has a
\* sender under k's flow, if its receiver is still there.  A workflow may
\* answer more than once.
Answer(k) ==
    /\ k \in work /\ tool[k] \in started
    /\ work' \in {work, work \ {k}}
    /\ LET j == pending[tool[k]][flow[k]] IN
       IF j = None
       THEN UNCHANGED <<pending, channel>>
       ELSE /\ pending' = [pending EXCEPT ![tool[k]][flow[k]] = None]
            /\ channel' = IF stage[j] = "waiting" THEN [channel EXCEPT ![j] = k]
                                                  ELSE channel
    /\ UNCHANGED <<moduleVars, stage, callVars, aborted, routing>>

\* A value for a module that does not run is lost.
AnswerLost(k) ==
    /\ k \in work /\ tool[k] \notin started
    /\ work' = work \ {k}
    /\ UNCHANGED <<moduleVars, pending, stage, callVars, channel, aborted, routing>>

\* The receiver is ready: with a value, or because its sender was dropped.
Received(k) ==
    /\ stage[k] = "waiting" /\ channel[k] # Open /\ flow[k] \notin aborted
    /\ Move(k, "leaving")
    /\ UNCHANGED <<moduleVars, pending, callVars, channel, work, aborted, routing>>

TimedOut(k) ==
    /\ stage[k] = "waiting" /\ channel[k] = Open /\ flow[k] \notin aborted
    /\ Move(k, "leaving")
    /\ UNCHANGED <<moduleVars, pending, callVars, channel, work, aborted, routing>>

\* The token wins over a result that is ready: the wait is biased to it, and
\* so is the race of the whole call in call_tools, which drops the call.
WaitCancelled(k) ==
    /\ stage[k] = "waiting" /\ flow[k] \in aborted
    /\ Move(k, "leaving")
    /\ UNCHANGED <<moduleVars, pending, callVars, channel, work, aborted, routing>>

\* Mutant: no guard.
LeaveEntry(k) ==
    /\ stage[k] = "leaving"
    /\ Move(k, "done")
    /\ UNCHANGED <<moduleVars, pending, callVars, channel, work, aborted, routing>>

\* The guard removes the entry of the flow, whose ever it is.
Leave(k) ==
    /\ stage[k] = "leaving"
    /\ Entry(tool[k], flow[k], None)
    /\ Move(k, "done")
    /\ UNCHANGED <<moduleVars, callVars, work, aborted, routing>>

-----------------------------------------------------------------------------
(* The host.                                                                *)

Abort(f) ==
    /\ f \notin aborted
    /\ aborted' = aborted \cup {f}
    /\ UNCHANGED <<moduleVars, pending, stage, callVars, channel, work, routing>>

Quit ==
    /\ routing
    /\ routing' = FALSE
    /\ UNCHANGED <<moduleVars, pending, stage, callVars, channel, work, aborted>>

Host ==
    \/ \E t \in Tools : Start(t) \/ Stop(t) \/ \E n \in Names : Rename(t, n)
    \/ \E f \in Flows : Abort(f)
    \/ Quit

Call(k) ==
    \/ Refuse(k) \/ Register(k) \/ EmitFails(k)
    \/ Received(k) \/ TimedOut(k) \/ WaitCancelled(k) \/ Leave(k)

Next ==
    \/ Host
    \/ \E c \in Callers, f \in Flows, n \in Names : Ask(c, f, n)
    \/ \E k \in Calls : Call(k) \/ Answer(k) \/ AnswerLost(k)

Spec == Init /\ [][Next]_vars

-----------------------------------------------------------------------------
(* Properties *)

\* A sender in the pending map is that of a call still in progress: none is
\* left behind for a late tool_out, however the call ended.
NoLeftoverSender ==
    \A t \in Tools, f \in Flows :
        pending[t][f] # None =>
            LET k == pending[t][f] IN
            stage[k] \in {"waiting", "leaving"} /\ tool[k] = t /\ flow[k] = f

\* A tool that can be looked up is one that runs under that name, however
\* modules that share names are started, renamed and stopped.
FoundToolRuns ==
    \A n \in Names :
        registry[n] # NoTool => registry[n] \in started /\ name[registry[n]] = n

\* The result a call gets was computed by its own module in its own flow.
ResultStaysInFlow ==
    \A k \in Calls :
        channel[k] \in Calls =>
            flow[channel[k]] = flow[k] /\ tool[channel[k]] = tool[k]

\* A call reaches the tool that now has the name it asks for, and gets its
\* answer from that tool and its own flow, whatever is renamed or called meanwhile.
CallsReachTheirTool == FoundToolRuns /\ ResultStaysInFlow

\* When a call ends, its guard does not remove a newer call's sender: what the
\* comment at tool.rs:1159 concludes from callers being sequential.
GuardRemovesOwn ==
    [][\A k \in Calls :
          stage[k] = "leaving" /\ stage'[k] = "done" =>
              pending[tool[k]][flow[k]] \in {k, None}]_vars
=============================================================================
