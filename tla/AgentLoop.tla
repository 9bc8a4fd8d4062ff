----------------------------- MODULE AgentLoop -----------------------------
(***************************************************************************)
(* The cycle of an agent: Chat sends the message of a turn, Loop Control   *)
(* counts it, Call Tool Message runs its tool calls, and the results start *)
(* the next turn of the flow.  The message history that gathers the        *)
(* results is left out: the results of a message start one turn.           *)
(*                                                                         *)
(* A message of a turn has the id of the turn, and a call the id           *)
(* <<turn, k>>.  A connection can be doubled, so a message may come again. *)
(***************************************************************************)
EXTENDS ChatTurn, Functions

CONSTANTS
    MaxIterations,   \* max_iterations of Loop Control
    MaxTracked,      \* MAX_TRACKED_CTX_KEYS
    MaxInputs,       \* bound: messages from the user
    MaxRepeats       \* bound: messages delivered again, modules stopped and started

ASSUME LoopAssumption ==
    /\ MaxIterations \in Nat /\ MaxTracked \in Nat \ {0}
    /\ MaxInputs \in Nat /\ MaxRepeats \in Nat

VARIABLES
    inbox,         \* of Chat: the flows whose turn is to come
    loopAt,        \* of Loop Control: it has seen out up to here
    counts, loopOrder,
    gate,          \* of Call Tool Message: messages, as positions in out
    executed, toolOrder,
    running,       \* the round it is executing
    runs,          \* of each call: how often its tool was run
    rounds,        \* turns with tool calls that were forwarded
    forgot,        \* flows a table was emptied of
    budget         \* of inputs, and of repeats and stops

loopVars == <<loopAt, counts, loopOrder>>
toolVars == <<gate, executed, toolOrder, running, runs>>
agentVars == <<chatVars, inbox, loopVars, toolVars, rounds, forgot, budget>>

AllCalls   == (1 .. MaxTurns) \X (1 .. MaxEvents)
Idle    == [flow |-> "none", calls |-> {}]
Nothing == [f \in {} |-> {}]

LoopInit ==
    /\ ChatInit
    /\ inbox = <<>>
    /\ loopAt = 0 /\ counts = Nothing /\ loopOrder = <<>>
    /\ gate = <<>> /\ executed = Nothing /\ toolOrder = <<>>
    /\ running = Idle
    /\ runs = [c \in AllCalls |-> 0]
    /\ rounds = {} /\ forgot = {}
    /\ budget \in [inputs : 1 .. MaxInputs, repeats : 0 .. MaxRepeats]

Spend(what) == budget[what] > 0 /\ budget' = [budget EXCEPT ![what] = @ - 1]

UserMessage(f) ==
    /\ Spend("inputs")
    /\ inbox' = Append(inbox, f)
    /\ UNCHANGED <<chatVars, loopVars, toolVars, rounds, forgot>>

ChatBegin ==
    /\ inbox # <<>>
    /\ Begin(Head(inbox))
    /\ inbox' = Tail(inbox)
    /\ UNCHANGED <<loopVars, toolVars, rounds, forgot, budget>>

AbortFlow(f) == FireToken(f) /\ UNCHANGED <<inbox, loopVars, toolVars, rounds, forgot, budget>>

-----------------------------------------------------------------------------
(* The tables kept per flow: a new flow evicts the oldest one.              *)

Full(order)       == Len(order) >= MaxTracked
Evicted(order, f) == IF f \notin Range(order) /\ Full(order) THEN {Head(order)} ELSE {}

Order(order, f) ==
    IF f \in Range(order) THEN order
    ELSE Append(IF Full(order) THEN Tail(order) ELSE order, f)

Entered(table, order, f, e) ==
    [g \in Range(Order(order, f)) |-> IF g = f THEN e ELSE table[g]]

-----------------------------------------------------------------------------
(* Loop Control.                                                            *)

Countable(m) == ~m.streaming /\ m.calls > 0
Exceeds(n)   == MaxIterations > 0 /\ n > MaxIterations

Forward(i) ==
    /\ gate' = Append(gate, i)
    /\ rounds' = IF Countable(out[i]) THEN rounds \cup {out[i].turn} ELSE rounds

Cut == UNCHANGED <<gate, rounds>>

\* process: a message that comes again under the last id is not counted again,
\* and is forwarded if it was the first time.
LoopControl(i) ==
    LET m == out[i]
        known == m.flow \in DOMAIN counts
        again == known /\ counts[m.flow].last = m.turn
        count == IF ~known THEN 1 ELSE counts[m.flow].count + (IF again THEN 0 ELSE 1)
    IN /\ IF Countable(m) /\ Exceeds(count) THEN Cut ELSE Forward(i)
       /\ IF Countable(m) /\ ~again
          THEN /\ counts' = Entered(counts, loopOrder, m.flow, [count |-> count, last |-> m.turn])
               /\ loopOrder' = Order(loopOrder, m.flow)
               /\ forgot' = forgot \cup Evicted(loopOrder, m.flow)
          ELSE UNCHANGED <<counts, loopOrder, forgot>>

LoopStep ==
    /\ loopAt < Len(out)
    /\ LoopControl(loopAt + 1)
    /\ loopAt' = loopAt + 1
    /\ UNCHANGED <<chatVars, inbox, executed, toolOrder, running, runs, budget>>

\* A second connection delivers a message again, later.
LoopRepeat(i) ==
    /\ i <= loopAt /\ ~out[i].streaming
    /\ Spend("repeats")
    /\ LoopControl(i)
    /\ UNCHANGED <<chatVars, inbox, loopAt, executed, toolOrder, running, runs>>

LoopStop ==
    /\ loopOrder # <<>>
    /\ Spend("repeats")
    /\ counts' = Nothing /\ loopOrder' = <<>>
    /\ forgot' = forgot \cup Range(loopOrder)
    /\ UNCHANGED <<chatVars, inbox, loopAt, toolVars, rounds>>

-----------------------------------------------------------------------------
(* Call Tool Message.                                                       *)

CallsOf(m) == {m.turn} \X (1 .. m.calls)
Done(f)    == IF f \in DOMAIN executed THEN executed[f] ELSE {}

\* Mutant: partial messages are looked at as well.
TodoOfPartials(m) == CallsOf(m) \ Done(m.flow)

Todo(m) == IF m.streaming THEN {} ELSE CallsOf(m) \ Done(m.flow)

\* Mutant: the ids are recorded once the calls have run.
MarkLate(m, todo) == UNCHANGED <<executed, toolOrder, forgot>>

Mark(m, todo) ==
    IF todo = {} THEN UNCHANGED <<executed, toolOrder, forgot>>
    ELSE /\ executed' = Entered(executed, toolOrder, m.flow, Done(m.flow) \cup todo)
         /\ toolOrder' = Order(toolOrder, m.flow)
         /\ forgot' = forgot \cup Evicted(toolOrder, m.flow)

\* process up to call_tools: partial messages and calls already executed are
\* skipped; the rest is marked and then run, or refused when the message was
\* cut short.  Of an aborted flow no tool is started.
ToolBegin ==
    /\ gate # <<>> /\ running = Idle
    /\ LET m == out[Head(gate)]
           todo == Todo(m)
           started == IF m.reason = "length" \/ m.flow \in fired THEN {} ELSE todo
       IN /\ Mark(m, todo)
          /\ running' = IF todo = {} THEN Idle ELSE [flow |-> m.flow, calls |-> todo]
          /\ runs' = [c \in AllCalls |-> runs[c] + (IF c \in started THEN 1 ELSE 0)]
    /\ gate' = Tail(gate)
    /\ UNCHANGED <<chatVars, inbox, loopVars, rounds, budget>>

\* The results start the next turn.
ToolResults ==
    /\ running # Idle
    /\ inbox' = Append(inbox, running.flow)
    /\ running' = Idle
    /\ UNCHANGED <<chatVars, loopVars, gate, executed, toolOrder, runs, rounds, forgot, budget>>

\* stop() forgets the ids; the loop drops the round it is in and its inbox.
ToolStop ==
    /\ toolOrder # <<>>
    /\ Spend("repeats")
    /\ executed' = Nothing /\ toolOrder' = <<>>
    /\ forgot' = forgot \cup Range(toolOrder)
    /\ gate' = <<>> /\ running' = Idle
    /\ UNCHANGED <<chatVars, inbox, loopVars, runs, rounds>>

-----------------------------------------------------------------------------

ChatNext == (ChatStep \/ Reset) /\ UNCHANGED <<inbox, loopVars, toolVars, rounds, forgot, budget>>

LoopNext ==
    \/ \E f \in LoopFlows : UserMessage(f) \/ AbortFlow(f)
    \/ ChatBegin \/ ChatNext
    \/ LoopStep \/ (\E i \in DOMAIN out : LoopRepeat(i)) \/ LoopStop
    \/ ToolBegin \/ ToolResults \/ ToolStop

LoopSpec == LoopInit /\ [][LoopNext]_agentVars

-----------------------------------------------------------------------------

\* A tool call runs once, however its message is repeated, delivered or
\* followed by partials, as long as the module has not forgotten its flow.
RunOnce == \A f \in LoopFlows \ forgot :
    \A t \in {out[i].turn : i \in {j \in DOMAIN out : out[j].flow = f}} :
       \A k \in 1 .. MaxEvents : runs[<<t, k>>] <= 1

\* A flow that Loop Control has not forgotten gets through with tool calls at
\* most max_iterations times; once cut it stays cut.
LoopBounded == \A f \in LoopFlows \ forgot :
    MaxIterations > 0 =>
       Cardinality({t \in rounds : \E i \in DOMAIN out : out[i].turn = t /\ out[i].flow = f})
          <= MaxIterations

\* The calls that run are calls of a final message that was neither cut
\* short nor aborted.
WholeCallsRun == \A c \in AllCalls : runs[c] > 0 =>
    \E i \in DOMAIN out : /\ out[i].turn = c[1] /\ c[2] <= out[i].calls
                          /\ ~out[i].streaming
                          /\ out[i].reason \notin {"length", "aborted"}

\* However messages are repeated, delivered again, cut or stopped under way,
\* what runs are calls of whole messages, each at most once, and no flow goes
\* round more often than max_iterations.
CallsRunOnce == RunOnce /\ LoopBounded /\ WholeCallsRun

\* After an abort the cycle of the flow runs down: no request is sent and no
\* tool is started for it any more.
NothingStarts(f) ==
    /\ ~(pc = "idle" /\ pc' = "asking" /\ ofFlow' = f)
    /\ \A c \in AllCalls : runs'[c] # runs[c] =>
          \E i \in DOMAIN out : out[i].turn = c[1] /\ out[i].flow # f

\* An abort ends what the module is at, and the cycle of the flow with it.
AbortEnds == [][AbortedIsLast /\ \A f \in fired : NothingStarts(f)]_agentVars
=============================================================================
