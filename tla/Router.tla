------------------------------- MODULE Router -------------------------------
(***************************************************************************)
(* The message loop: one task takes outputs and channel writes off the hub *)
(* queue and delivers each over the connections and registrations as it    *)
(* finds them, target by target, while the loops of the modules, the host  *)
(* and the cancellation of flows go on beside it.                          *)
(*                                                                         *)
(* Starting and stopping a module is here what ModuleLifecycle shows it to *)
(* come to: the inbox appears before start() runs; a stop takes the inbox, *)
(* drops the process() under way, and leaves a loop behind that drains     *)
(* what was queued.  A value is a channel name, the only one that can      *)
(* matter to a config; sends are numbered so that copies can be followed.  *)
(***************************************************************************)
EXTENDS Integers, FiniteSetsExt, SequencesExt, Functions, Optional, Retain

CONSTANTS Modules,
          ModuleKind,        \* "ExternalInput", "LocalInput", "ExternalOutput", ... of each
          PatchOf,     \* the patch each is in
          Writes,      \* what hosts write: the channel, the value
          NameEdits,       \* what they rename: the module, the name
          RouterSetups,      \* the connections, the names, and what the host may do
          PruneAt      \* CONTEXT_TOKEN_PRUNE_THRESHOLD

\* A list of connections has none twice (ConnectionAlreadyExists), and a module
\* is of one of the kinds below.
ASSUME RouterAssumption ==
    /\ IsFiniteSet(Modules)
    /\ ModuleKind \in [Modules -> {"ExternalInput", "LocalInput", "ExternalOutput", "LocalOutput",
                                   "Relay", "Failing"}]
    /\ \A e \in NameEdits : e[1] \in Modules
    /\ \A s \in RouterSetups :
          /\ s.running \subseteq Modules
          /\ s.names \in [Modules -> Range(s.names)] /\ s.wires \in [Modules -> Range(s.wires)]
          /\ \A m \in Modules : s.wires[m] \in Seq(Range(s.wires[m])) /\ IsInjective(s.wires[m])

VARIABLES hub, hubOpen,   \* the queue behind tx, and whether tx is there
          route,          \* the message the loop is delivering, and where to
          wires,          \* connections: per module, <<target, port, target port>>
          inbox, started, chan,      \* module_txs, status, the name configured
          working,        \* the input whose process() runs
          old,            \* the queues of loops that were stopped
          registered,     \* external_input_modules
          external,       \* external_values
          flowTokens,         \* context_tokens, by flow
          cancelled,
          flows, minted, posted, budget,
          heard,          \* the ExternalOutput events
          seen            \* per module, the inputs it was handed: wire and number

routerVars == <<hub, hubOpen, route, wires, inbox, started, chan, working, old, registered,
                external, flowTokens, cancelled, flows, minted, posted, budget, heard, seen>>

IsInput(m)  == ModuleKind[m] \in {"ExternalInput", "LocalInput"}
IsLocal(m)  == ModuleKind[m] \in {"LocalInput", "LocalOutput"}

\* channel_name_for_local: a local variable is a channel of its patch.
ChannelOf(m, n) == IF IsLocal(m) THEN <<PatchOf[m], n>> ELSE <<n>>

Spend(what) == budget[what] > 0 /\ budget' = [budget EXCEPT ![what] = @ - 1]

-----------------------------------------------------------------------------
(* Flows and their tokens.                                                  *)

\* A message carries its flow, the token attached to it if any, its value, and
\* the channel writes it goes back to.
Message(flow, token, value, after) ==
    [n |-> posted + 1, flow |-> flow, token |-> token, value |-> value, after |-> after]

Queued(q) == {q[i].msg : i \in {i \in DOMAIN q : q[i].type = "input"}}

\* Every context there is: on the hub, under way, in an inbox, in the queue of a
\* loop that was stopped, at work.
OnHub(h)   == {h[i].msg : i \in DOMAIN h}
OnRoute(r) == IF r = None THEN {} ELSE {r[1].msg}
Waiting(b) == UNION {IF b[m] = None THEN {} ELSE Queued(b[m][1]) : m \in Modules}
Behind(o)  == UNION {UNION {Queued(o[m][i]) : i \in DOMAIN o[m]} : m \in Modules}
AtWork(w)  == {w[m][1] : m \in {m \in Modules : w[m] # None}}
Contexts   == OnHub(hub) \cup OnRoute(route) \cup Waiting(inbox) \cup Behind(old) \cup AtWork(working)

LiveContexts(t) == \E c \in Contexts : c.token = Some(t)

\* context_token: the flow's token while a context holds it, else a new one;
\* a registry that has grown is rid of the entries nothing holds.
PruneOldest(ts) == [f \in DOMAIN ts \ {CHOOSE f \in DOMAIN ts : \A g \in DOMAIN ts : f <= g} |-> ts[f]]
Prune(ts) == [f \in {f \in DOMAIN ts : LiveContexts(ts[f])} |-> ts[f]]

Tracked(flow) == flow \in DOMAIN flowTokens /\ LiveContexts(flowTokens[flow])
TokenFor(flow) == IF Tracked(flow) THEN flowTokens[flow] ELSE minted + 1
ContextToken(flow) ==
    IF Tracked(flow) THEN UNCHANGED <<flowTokens, minted>>
    ELSE LET kept == IF Cardinality(DOMAIN flowTokens) >= PruneAt THEN Prune(flowTokens) ELSE flowTokens
         IN flowTokens' = [f \in DOMAIN kept \cup {flow} |-> IF f = flow THEN minted + 1 ELSE kept[f]]
            /\ minted' = minted + 1

-----------------------------------------------------------------------------
(* Sending to the hub, and to a channel.                                    *)

Post(event) == hub' = Append(hub, event) /\ posted' = posted + 1

ModuleOut(m, port, msg) == [type |-> "out", module |-> m, port |-> port, msg |-> msg]
ChannelWrite(c, msg)    == [type |-> "external", channel |-> c, msg |-> msg]

\* write_external_input and write_local_input: a flow of its own.
Write(c, value) ==
    /\ hubOpen
    /\ Spend("writes")
    /\ flows' = flows + 1
    /\ Post(ChannelWrite(c, Message(flows', None, value, {})))
    /\ UNCHANGED <<hubOpen, route, wires, inbox, started, chan, working, old, registered,
                   external, flowTokens, cancelled, minted, heard, seen>>

\* quit: the loop delivers what is queued and ends.
Quit ==
    /\ hubOpen
    /\ Spend("quits")
    /\ hubOpen' = FALSE
    /\ UNCHANGED <<hub, route, wires, inbox, started, chan, working, old, registered, external,
                   flowTokens, cancelled, flows, minted, posted, heard, seen>>

\* abort_context, of a flow whose token something still holds.
Abort(flow) ==
    /\ Tracked(flow)
    /\ Spend("aborts")
    /\ cancelled' = cancelled \cup {flowTokens[flow]}
    /\ UNCHANGED <<hub, hubOpen, route, wires, inbox, started, chan, working, old, registered,
                   external, flowTokens, flows, minted, posted, heard, seen>>

-----------------------------------------------------------------------------
(* The registrations.                                                       *)

Listening(r, c)  == IF c \in DOMAIN r THEN r[c] ELSE <<>>
Listen(r, m, c)  == [d \in DOMAIN r \cup {c} |-> IF d = c THEN Append(Listening(r, c), m) ELSE r[d]]
Leave(r, m, c)   == [d \in DOMAIN r |-> IF d = c THEN Within(r[d], Modules \ {m}) ELSE r[d]]

\* configs_changed of an input that is running moves its registration; one that
\* is not is left to start(), or every write would reach it twice.
MovedAlways(m, n) ==
    IF ~IsInput(m) \/ chan[m] = n THEN registered
    ELSE Listen(Leave(registered, m, ChannelOf(m, chan[m])), m, ChannelOf(m, n))

Moved(m, n) ==
    IF ~IsInput(m) \/ chan[m] = n \/ ~started[m] THEN registered
    ELSE Listen(Leave(registered, m, ChannelOf(m, chan[m])), m, ChannelOf(m, n))

SetConfig(m, n) ==
    /\ chan' = [chan EXCEPT ![m] = n]
    /\ registered' = Moved(m, n)

\* create_module_slot: messages queue up from here on.
StartModule(m) ==
    /\ inbox[m] = None
    /\ ~started[m]
    /\ Spend("starts")
    /\ inbox' = [inbox EXCEPT ![m] = Some(<<>>)]
    /\ UNCHANGED <<hub, hubOpen, route, wires, started, chan, working, old, registered, external,
                   flowTokens, cancelled, flows, minted, posted, heard, seen>>

\* The loop runs start(); an input then listens to its channel.
Started(m) ==
    /\ inbox[m] # None
    /\ ~started[m]
    /\ started' = [started EXCEPT ![m] = TRUE]
    /\ registered' = IF IsInput(m) THEN Listen(registered, m, ChannelOf(m, chan[m])) ELSE registered
    /\ UNCHANGED <<hub, hubOpen, route, wires, inbox, chan, working, old, external, flowTokens,
                   cancelled, flows, minted, posted, budget, heard, seen>>

\* stop_module: what process() had under way is dropped, what was queued is
\* left to the loop, which was cancelled, or gone if it had not got to start().
StopModule(m) ==
    /\ inbox[m] # None
    /\ Spend("stops")
    /\ inbox' = [inbox EXCEPT ![m] = None]
    /\ started' = [started EXCEPT ![m] = FALSE]
    /\ working' = [working EXCEPT ![m] = None]
    /\ old' = IF started[m] /\ inbox[m][1] # <<>> THEN [old EXCEPT ![m] = Append(@, inbox[m][1])] ELSE old
    /\ registered' = IF IsInput(m) /\ started[m]
                     THEN Leave(registered, m, ChannelOf(m, chan[m])) ELSE registered
    /\ UNCHANGED <<hub, hubOpen, route, wires, chan, external, flowTokens, cancelled, flows, minted,
                   posted, heard, seen>>

\* A connection list replaced while a message may be on its way over it.
Rewire(m, edges) ==
    /\ Spend("rewires")
    /\ wires' = [wires EXCEPT ![m] = edges]
    /\ UNCHANGED <<hub, hubOpen, route, inbox, started, chan, working, old, registered, external,
                   flowTokens, cancelled, flows, minted, posted, heard, seen>>

-----------------------------------------------------------------------------
(* The loop.                                                                *)

\* module_out: the connections of the source as they are now; only those of
\* the port, and of targets there are, are followed.
TakeOut ==
    /\ route = None
    /\ hub # <<>>
    /\ Head(hub).type = "out"
    /\ LET e == Head(hub)
           own      == wires[e.module]
           matching == Within(own, {w \in Range(own) : w[2] = e.port})
       IN route' = Some([msg |-> e.msg, channel |-> None, nodes |-> <<>>,
                         edges |-> [i \in DOMAIN matching |-> <<e.module, matching[i]>>]])
    /\ hub' = Tail(hub)
    /\ UNCHANGED <<hubOpen, wires, inbox, started, chan, working, old, registered, external,
                   flowTokens, cancelled, flows, minted, posted, budget, heard, seen>>

\* external_input: the value is stored, then goes to the inputs listening now.
TakeExternal ==
    /\ route = None
    /\ hub # <<>>
    /\ Head(hub).type = "external"
    /\ LET e == Head(hub)
       IN /\ external' = [c \in DOMAIN external \cup {e.channel} |->
                            IF c = e.channel THEN e.msg.n ELSE external[c]]
          /\ route' = Some([msg |-> e.msg, channel |-> Some(e.channel),
                            nodes |-> Listening(registered, e.channel), edges |-> <<>>])
    /\ hub' = Tail(hub)
    /\ UNCHANGED <<hubOpen, wires, inbox, started, chan, working, old, registered, flowTokens,
                   cancelled, flows, minted, posted, budget, heard, seen>>

\* The next input that listens, over the connections it has now, all of them.
NextNode ==
    /\ route # None
    /\ route[1].edges = <<>>
    /\ route[1].nodes # <<>>
    /\ LET m == Head(route[1].nodes)
       IN route' = Some([route[1] EXCEPT !.nodes = Tail(@),
                                         !.edges = [i \in DOMAIN wires[m] |-> <<m, wires[m][i]>>]])
    /\ UNCHANGED <<hub, hubOpen, wires, inbox, started, chan, working, old, registered, external,
                   flowTokens, cancelled, flows, minted, posted, budget, heard, seen>>

ToConfig(edge) == edge[2][3] = "config:name"
Item(edge, msg) == IF ToConfig(edge) THEN [type |-> "config", chan |-> msg.value]
                   ELSE [type |-> "input", msg |-> msg]

\* module_input: an inbox takes anything; without one a config is set on the
\* module itself and an input is gone.
Deliver ==
    /\ route # None
    /\ route[1].edges # <<>>
    /\ LET edge == Head(route[1].edges)
           m    == edge[2][1]
           msg  == [route[1].msg EXCEPT !.after = IF route[1].channel = None THEN @ ELSE @ \cup {route[1].msg.n}]
       IN /\ route' = Some([route[1] EXCEPT !.edges = Tail(@)])
          /\ IF m \in Modules /\ inbox[m] # None
             THEN /\ inbox' = [inbox EXCEPT ![m] = Some(Append(@[1], Item(edge, msg)))]
                  /\ seen' = IF ToConfig(edge) THEN seen
                             ELSE [seen EXCEPT ![m] = Append(@, <<edge, msg.n>>)]
                  /\ UNCHANGED <<chan, registered>>
             ELSE /\ IF m \in Modules /\ ToConfig(edge) THEN SetConfig(m, msg.value)
                                                        ELSE UNCHANGED <<chan, registered>>
                  /\ UNCHANGED <<inbox, seen>>
    /\ UNCHANGED <<hub, hubOpen, wires, started, working, old, external, flowTokens, cancelled, flows,
                   minted, posted, budget, heard>>

Announce(r) == r.channel # None

EndRoute ==
    /\ route # None
    /\ route[1].edges = <<>>
    /\ route[1].nodes = <<>>
    /\ heard' = IF Announce(route[1])
                THEN Append(heard, [n |-> route[1].msg.n, after |-> route[1].msg.after,
                                    channel |-> route[1].channel[1]])
                ELSE heard
    /\ route' = None
    /\ UNCHANGED <<hub, hubOpen, wires, inbox, started, chan, working, old, registered, external,
                   flowTokens, cancelled, flows, minted, posted, budget, seen>>

-----------------------------------------------------------------------------
(* The modules.                                                             *)

\* An input is taken up with its flow's token attached.
BeginProcess(m) ==
    /\ inbox[m] # None
    /\ started[m]
    /\ working[m] = None
    /\ inbox[m][1] # <<>>
    /\ Head(inbox[m][1]).type = "input"
    /\ inbox' = [inbox EXCEPT ![m] = Some(Tail(@[1]))]
    /\ LET msg == Head(inbox[m][1]).msg
       IN IF msg.token # None
          THEN working' = [working EXCEPT ![m] = Some(msg)] /\ UNCHANGED <<flowTokens, minted>>
          ELSE /\ working' = [working EXCEPT ![m] = Some([msg EXCEPT !.token = Some(TokenFor(msg.flow))])]
               /\ ContextToken(msg.flow)
    /\ UNCHANGED <<hub, hubOpen, route, wires, started, chan, old, registered, external, cancelled,
                   flows, posted, budget, heard, seen>>

\* process() of each kind: outputs write their channel unless it has no name, a
\* relay passes its input on, a failure comes out of the err port.
Outcome(m, msg) ==
    LET out == Message(msg.flow, msg.token, msg.value, msg.after)
    IN CASE IsInput(m) -> {}
         [] ModuleKind[m] \in {"ExternalOutput", "LocalOutput"} ->
                IF chan[m] = "" THEN {} ELSE {ChannelWrite(ChannelOf(m, chan[m]), out)}
         [] ModuleKind[m] = "Relay"   -> {ModuleOut(m, "value", out)}
         [] ModuleKind[m] = "Failing" -> {ModuleOut(m, "err", out)}

FinishProcess(m) ==
    /\ working[m] # None
    /\ working' = [working EXCEPT ![m] = None]
    /\ LET events == Outcome(m, working[m][1])
       IN IF hubOpen /\ events # {} THEN \E e \in events : Post(e) ELSE UNCHANGED <<hub, posted>>
    /\ UNCHANGED <<hubOpen, route, wires, inbox, started, chan, old, registered, external, flowTokens,
                   cancelled, flows, minted, budget, heard, seen>>

\* A config from the queue.
Apply(m) ==
    /\ inbox[m] # None
    /\ started[m]
    /\ working[m] = None
    /\ inbox[m][1] # <<>>
    /\ Head(inbox[m][1]).type = "config"
    /\ inbox' = [inbox EXCEPT ![m] = Some(Tail(@[1]))]
    /\ SetConfig(m, Head(inbox[m][1]).chan)
    /\ UNCHANGED <<hub, hubOpen, route, wires, started, working, old, external, flowTokens, cancelled,
                   flows, minted, posted, budget, heard, seen>>

Shortened(queues, i) ==
    IF Len(queues[i]) = 1 THEN RemoveAt(queues, i) ELSE [queues EXCEPT ![i] = Tail(@)]

\* A stopped loop drops the inputs it still finds, and sets the configs.
Drain(m, i) ==
    /\ LET item == Head(old[m][i])
       IN IF item.type = "config"
          THEN working[m] = None /\ SetConfig(m, item.chan) /\ UNCHANGED <<flowTokens, minted>>
          ELSE /\ UNCHANGED <<chan, registered>>
               /\ IF item.msg.token = None THEN ContextToken(item.msg.flow)
                                           ELSE UNCHANGED <<flowTokens, minted>>
    /\ old' = [old EXCEPT ![m] = Shortened(@, i)]
    /\ UNCHANGED <<hub, hubOpen, route, wires, inbox, started, working, external, cancelled, flows,
                   posted, budget, heard, seen>>

\* set_module_configs.
SetNameTo(m, n) ==
    /\ Spend("edits")
    /\ IF inbox[m] = None THEN SetConfig(m, n) /\ UNCHANGED inbox
       ELSE /\ inbox' = [inbox EXCEPT ![m] = Some(Append(@[1], [type |-> "config", chan |-> n]))]
            /\ UNCHANGED <<chan, registered>>
    /\ UNCHANGED <<hub, hubOpen, route, wires, started, working, old, external, flowTokens, cancelled,
                   flows, minted, posted, heard, seen>>

-----------------------------------------------------------------------------

\* Some modules run already, the inputs among them registered.
RouterInit ==
    /\ hub = <<>> /\ hubOpen = TRUE /\ route = None
    /\ \E s \in RouterSetups :
          LET inputs == {m \in s.running : IsInput(m)}
              Channel(m) == ChannelOf(m, s.names[m])
          IN /\ wires = s.wires /\ chan = s.names /\ budget = s.budget
             /\ started = [m \in Modules |-> m \in s.running]
             /\ inbox = [m \in Modules |-> IF m \in s.running THEN Some(<<>>) ELSE None]
             /\ registered = [c \in {Channel(m) : m \in inputs} |->
                                SetToSeq({m \in inputs : Channel(m) = c})]
    /\ working = [m \in Modules |-> None] /\ old = [m \in Modules |-> <<>>]
    /\ external = [c \in {} |-> 0]
    /\ flowTokens = [f \in {} |-> 0] /\ cancelled = {}
    /\ flows = 0 /\ minted = 0 /\ posted = 0
    /\ heard = <<>> /\ seen = [m \in Modules |-> <<>>]

RouterNext ==
    \/ \E w \in Writes : Write(w[1], w[2])
    \/ \E e \in NameEdits : SetNameTo(e[1], e[2])
    \/ Quit
    \/ \E f \in 1 .. flows : Abort(f)
    \/ \E m \in Modules :
          \/ StartModule(m) \/ Started(m) \/ StopModule(m)
          \/ Rewire(m, <<>>)
          \/ BeginProcess(m) \/ FinishProcess(m) \/ Apply(m)
          \/ \E i \in DOMAIN old[m] : Drain(m, i)
    \/ TakeOut \/ TakeExternal \/ NextNode \/ Deliver \/ EndRoute

RouterSpec == RouterInit /\ [][RouterNext]_routerVars

-----------------------------------------------------------------------------
(* Properties.                                                              *)

\* However its contexts were spread over queues and modules, a flow has one
\* token, and it is the one abort_context finds.
OneToken ==
    \A c \in Contexts :
        c.token # None => c.flow \in DOMAIN flowTokens /\ Some(flowTokens[c.flow]) = c.token

\* What is sent over a connection arrives in the order it was sent, once, even
\* as registrations, connections and modules come and go under it.
InOrder ==
    \A m \in Modules : \A i, j \in DOMAIN seen[m] :
        i < j /\ seen[m][i][1] = seen[m][j][1] => seen[m][i][2] < seen[m][j][2]

\* A host never hears of a consequence before its cause: every channel write a
\* written value goes back to has been announced before it.
CausesHeard ==
    \A j \in DOMAIN heard : \A n \in heard[j].after :
        \E i \in 1 .. j - 1 : heard[i].n = n

\* What is sent in an order arrives, and is heard of, in that order.
RoutedInOrder == InOrder /\ CausesHeard

=============================================================================
