----------------------------- MODULE MCRuntime -----------------------------
(***************************************************************************)
(* The runtime and its standard modules for TLC.  A behaviour is of one of *)
(* the parts, chosen at the start; the others rest.                        *)
(***************************************************************************)
EXTENDS StdModules, Flows, RunningModules, Definitions, Router, McpServer

VARIABLE part

-----------------------------------------------------------------------------
(* StdModules. *)

Lit(l)         == [key |-> <<>>, op |-> "==", lit |-> l]
Cond(key, op, l) == [key |-> key, op |-> op, lit |-> l]
NoLit          == <<"blank">>
NoCond         == Cond(<<>>, "", NoLit)

Scalars == {Unit, Bool(TRUE), Bool(FALSE), Int_(0), Int_(1), Num(0), Num(1), Num(3),
            Str(""), Str("0"), Str("1"), Str("x"), Str("xy"), Str("0.5"), Str("true")}
Others  == {Error, Image, Str(ImageUri), Str(BadUri), <<"tensor", <<1, 2>>>>}
Objects == {Obj(EmptyObj), Obj("a" :> Int_(1)), Obj("a" :> Str("x")),
            Obj("a" :> Obj("b" :> Num(1))), Obj(("a" :> Arr(<<Int_(0)>>)) @@ ("b" :> Unit)),
            Obj("a" :> Image), Obj("a" :> Error)}
ArrayValues  == {Arr(<<>>), Arr(<<Int_(1)>>), Arr(<<Int_(0), Str("1")>>), Arr(<<Bool(TRUE), Bool(FALSE)>>),
            Arr(<<Obj("a" :> Int_(1)), Obj("b" :> Unit)>>), Arr(<<Arr(<<Int_(1)>>), Unit>>),
            Arr(<<Num(2), Num(1), Error>>)}
All     == Scalars \cup Others \cup Objects \cup ArrayValues
Sized(S, n) == UNION {[1 .. k -> S] : k \in 0 .. n}
Paths   == Sized({"a", "b", "0"}, 2)

Conds   == {Cond(k, op, l) : k \in {<<>>, <<"a">>, <<"a", "">>}, op \in Ops \cup {"="},
                             l \in {Null, Bool(TRUE), Int_(1), Num(1), Str("x"), <<"regex", "x">>,
                                    <<"regex", "x)|(y">>, NoLit}}
SomeConds == {Cond(<<"a">>, "==", Int_(1)), Cond(<<>>, "!=", Str("x")), Cond(<<>>, "<", Num(1)),
              Cond(<<"a">>, "==", Null), Cond(<<>>, "=", Int_(1))}
SomeLits  == {Int_(1), Str("x"), Null, <<"regex", ".*">>, <<"array">>}

NoConfig == [x \in {} |-> 0]

MCConfigs ==
    [k \in {"IsArray", "IsEmptyArray", "ArrayLength", "ArrayFirst", "ArrayRest", "ArrayLast",
            "ToJson", "FromJson", "ToYaml", "FromYaml", "IsString", "IsEmptyString",
            "TemplateString", "TemplateText", "TemplateArray", "Router"} |-> {NoConfig}]
    @@ ("ArrayNth" :> {[n |-> n] : n \in -1 .. 2})
    @@ ("ArrayTake" :> {[n |-> n] : n \in -1 .. 2})
    @@ ("GetValue" :> {[key |-> p] : p \in Paths})
    @@ ("SetValue" :> {[key |-> p, value |-> Int_(2)] : p \in Paths})
    @@ ("ToObject" :> {[key |-> p] : p \in Paths})
    @@ ("StringJoin" :> {[sep |-> s] : s \in {<<>>, <<"\\n">>}})
    @@ ("StringLengthSplit" :> {[len |-> n, overlap |-> o] : n \in -1 .. 5, o \in -1 .. 4})
    @@ [k \in RegexModules |-> {[regex |-> r] : r \in Patterns \cup {""}}]
    @@ ("If" :> {[cond |-> c] : c \in Conds})
    @@ ("Switch" :> {[n |-> n, c |-> NoConfig, aside |-> a, blank |-> NoCond] :
                       n \in {0, 2}, a \in Sized(SomeConds, 2)})
    @@ ("Match" :> {[n |-> n, c |-> NoConfig, aside |-> a, blank |-> NoLit, key |-> p] :
                       n \in {0, 2}, a \in Sized(SomeLits, 2), p \in {<<>>, <<"a">>, <<"a", "">>}})
    @@ ("DisplayValue" :> {[save |-> b] : b \in BOOLEAN})

MCEdits ==
    [k \in DOMAIN MCConfigs |->
        CASE k = "If" -> {[cond |-> c] : c \in SomeConds}
          [] k \in RegexModules -> MCConfigs[k]
          [] k = "Switch" -> {[n |-> n] : n \in {1, 2, 3}} \cup {[c |-> 2 :> c] : c \in SomeConds}
          [] k = "Match"  -> {[n |-> n] : n \in {1, 2, 3}} \cup {[c |-> 2 :> l] : l \in SomeLits}
          [] OTHER -> {}]

MCInputs ==
    [k \in DOMAIN MCConfigs |->
        CASE k = "StringJoin" ->
                {Unit} \cup {Arr(s) : s \in Sized({<<"words", <<"a">>>>, <<"words", <<"\\n">>>>, Unit}, 3)}
          [] k = "StringLengthSplit" -> {Unit} \cup {<<"widths", w>> : w \in Sized(1 .. 4, 4)}
          [] k \in {"FromJson", "FromYaml"} -> {Unit} \cup {<<"text", ToJson(v)>> : v \in All}
          [] OTHER -> All]

-----------------------------------------------------------------------------
(* Flows. *)

Elem(x) == <<"item", x>>
Pair(x, y) == Array(<<x, y>>)
MCArrays == << {Array(<<>>), Pair(Elem("a"), Elem("b")), Elem("c")},
               {Pair(Pair(Elem("a"), Elem("b")), Pair(Elem("c"), Elem("d"))), Pair(Elem("e"), Array(<<>>)), Elem("c")} >>
RECURSIVE AllItems(_)
AllItems(v) == {v} \cup IF IsItems(v) THEN UNION {AllItems(w) : w \in Range(v[2])} ELSE {}
MCCarried == UNION {AllItems(v) : v \in UNION Range(MCArrays)}
MCMaxLost == <<1, 0>>
Setup(joiner, use_ctx, n, keys) == [kind |-> joiner, use_ctx |-> use_ctx, n |-> n, keys |-> keys]
MCJoins == {Setup("array", FALSE, 2, <<>>), Setup("array", TRUE, 2, <<>>), Setup("array", TRUE, 1, <<>>),
             Setup("object", FALSE, 2, <<"k", "k">>), Setup("object", TRUE, 2, <<"0", "1">>),
             Setup("sync", FALSE, 2, <<>>), Setup("sync", TRUE, 2, <<>>)}

-----------------------------------------------------------------------------
(* RunningModules. *)

Time(n, unit) == [n |-> n, unit |-> unit]
MCRunConfigs ==
    ("Interval" :> {[every |-> d] : d \in {Time(1, "s"), Time(1000, "ms"), Time(2, "m"), Time(1, "fortnight")}})
    @@ ("Schedule" :> {[schedule |-> s] : s \in {"", "bad", "hourly", "daily"}})
    @@ ("OnStart" :> {[delay |-> 1]})
    @@ ("Watch" :> {[path |-> p, debounce |-> d] : p \in {"", "here", "missing"}, d \in {Time(1, "ms"), Time(1, "fortnight")}})
    @@ ("Throttle" :> {[every |-> Time(1, ""), capacity |-> c] : c \in {-1, 0, 1, 2}})
    @@ ("Delay" :> {[capacity |-> 1]})
    @@ ("Input" :> {[value |-> v] : v \in 1 .. 2}) @@ ("Slider" :> {[value |-> v] : v \in 1 .. 2})
    @@ ("Counter" :> {[value |-> 0]})

-----------------------------------------------------------------------------
(* Definitions. *)

Numbered_(statics) == WithDefault(WithConfig(NewDefinition(TRUE), <<"n">>, ConfigSpec("integer", Int_(2))), statics, "string")
MCBuilds == ("first" :> Some(Numbered_(<<"key">>))) @@ ("second" :> Some(Numbered_(<<"path">>)))
            @@ ("plain" :> Some([WithDefault(NewDefinition(FALSE), <<"key">>, "text") EXCEPT !.outputs = Some(<<"out">>)]))
            @@ ("bare" :> Some(NewDefinition(FALSE))) @@ ("none" :> None)
MCSpecEdits == {<<"key">> :> Str("x"), <<"path">> :> Str("y"), <<"n">> :> Int_(3), <<"n">> :> Int_(1),
                (<<"c", "0">> :> Str("p")) @@ (<<"c", "1">> :> Str("q")), <<"c", "2">> :> Str("r")}
MCWirings == {<< <<"key">>, Str("w")>>, << <<"c", "1">>, Str("v")>>}
MCPatches == {<<"left">>}

-----------------------------------------------------------------------------
(* Router. *)

MCModules == {"in", "twin", "relay", "out", "set", "get", "bad"}
MCModuleKind == ("in" :> "ExternalInput") @@ ("twin" :> "ExternalInput") @@ ("relay" :> "Relay") @@ ("out" :> "ExternalOutput")
          @@ ("set" :> "LocalOutput") @@ ("get" :> "LocalInput") @@ ("bad" :> "Failing")
MCPatchOf == [m \in MCModules |-> "p"]
MCWrites == {<< <<"a">>, "b">>}
MCNameEdits == {<<"twin", "a">>, <<"twin", "">>}
NoBudget == [writes |-> 0, quits |-> 0, aborts |-> 0, starts |-> 0, stops |-> 0, rewires |-> 0, edits |-> 0]
Wiring(w) == [m \in MCModules |-> IF m \in DOMAIN w THEN w[m] ELSE <<>>]
Called(n) == [m \in MCModules |-> IF m \in DOMAIN n THEN n[m] ELSE "a"]
To(m) == <<m, "value", "value">>
MCRouterSetups == {
    \* A channel feeds a second one: consequences, aborts, quitting.
    [wires |-> Wiring(("in" :> <<To("relay"), To("gone"), To("out")>>) @@ ("get" :> <<To("out")>>)
                      @@ ("relay" :> <<To("set"), <<"out", "other", "value">> >>)),
     names |-> Called("out" :> "b"), running |-> {"in", "relay", "out", "set", "get"},
     budget |-> [NoBudget EXCEPT !.writes = 2, !.aborts = 1]],
    \* Inputs restarted and renamed under the writes.
    [wires |-> Wiring(("in" :> <<To("relay")>>) @@ ("twin" :> <<To("relay")>>)),
     names |-> Called("twin" :> "b"), running |-> {"in", "twin", "relay"},
     budget |-> [NoBudget EXCEPT !.writes = 2, !.starts = 1, !.stops = 1, !.edits = 1]],
    \* A failure renames a module, through an output local to the patch.
    [wires |-> Wiring(("in" :> <<To("bad"), <<"twin", "value", "config:name">> >>) @@ ("bad" :> << <<"twin", "err", "config:name">> >>)
                      @@ ("twin" :> <<To("bad")>>)),
     names |-> Called(<<>>), running |-> {"in", "bad"},
     budget |-> [NoBudget EXCEPT !.writes = 1, !.starts = 1, !.stops = 1, !.rewires = 1, !.quits = 1]]
    }

-----------------------------------------------------------------------------
(* McpServer: the sessions s and t edit one module, save and create patches *)
(* under the same names, or poll while events come and modules go; s        *)
(* filters by a patch, t does not.                                          *)

MCDeclared == ("numbered" :> {"n", "key"}) @@ ("plain" :> {"key"})
MCGlobal == ("numbered" :> {"token"}) @@ ("plain" :> {"token"})
MCAsked == {"key" :> 2, "n" :> 2, "n" :> 1, "c1" :> 2, "c2" :> 2, ("n" :> 2) @@ ("c2" :> 2), "token" :> 2}
MCMenus == {("s" :> {"add", "set", "remove"}) @@ ("t" :> {"set", "update", "remove"}),
            ("s" :> {"save"}) @@ ("t" :> {"create", "add"}),
            ("s" :> {"poll", "remove"}) @@ ("t" :> {"poll", "report"})}
MCFilter == ("s" :> 1) @@ ("t" :> 0)

-----------------------------------------------------------------------------

StdIdle  == kind = "IsArray" /\ cfg = NoConfig /\ made = NoConfig /\ input = Unit /\ output = Quiet
FlowIdle == /\ levels = 0 /\ ordered = FALSE /\ sent = <<>> /\ lanes = <<>> /\ joined = <<>> /\ lost = 0
            /\ join = ResetState(Setup("array", FALSE, 0, <<>>)) /\ collects = <<>> /\ collected = <<>>
RunIdle  == /\ module = "Input" /\ status = "Init" /\ config = NoConfig /\ inUse = NoConfig
            /\ handle = None /\ timers = <<>> /\ work = AtRest /\ waiting = <<>> /\ count = 0
            /\ arrivals = 0 /\ stops = 0 /\ edits = 0 /\ stranded = FALSE /\ given = <<>>
SpecIdle == build = "none" /\ spec = NoConfig /\ edited = NoConfigs /\ loads = 0 /\ specEdits = 0
RouterIdle ==
    /\ hub = <<>> /\ hubOpen = FALSE /\ route = None /\ wires = <<>> /\ started = <<>> /\ chan = <<>>
    /\ inbox = [m \in Modules |-> None] /\ working = [m \in Modules |-> None]
    /\ old = [m \in Modules |-> <<>>] /\ seen = [m \in Modules |-> <<>>]
    /\ registered = <<>> /\ external = <<>> /\ flowTokens = <<>> /\ cancelled = {}
    /\ flows = 0 /\ minted = 0 /\ posted = 0 /\ budget = NoBudget /\ heard = <<>>
McpIdle ==
    /\ menu = <<>> /\ patches = <<>> /\ modules = <<>> /\ files = <<>> /\ call = <<>>
    /\ lastAsked = <<>> /\ undone = {} /\ failures = 0 /\ writes = 0
    /\ stream = <<>> /\ missed = 0 /\ errors = <<>> /\ outputs = <<>> /\ seq = 0 /\ dropped = 0
    /\ cursor = [s \in Sessions |-> [b \in Buffers |-> 0]]
    /\ got = [s \in Sessions |-> [b \in Buffers |-> <<>>]]
    /\ emitted = 0

Init ==
    \/ /\ part = "standard" /\ StdInit
       /\ FlowIdle /\ RunIdle /\ SpecIdle /\ RouterIdle /\ McpIdle
    \/ /\ part = "flows" /\ FlowInit
       /\ StdIdle /\ RunIdle /\ SpecIdle /\ RouterIdle /\ McpIdle
    \/ /\ part = "running" /\ RunInit
       /\ StdIdle /\ FlowIdle /\ SpecIdle /\ RouterIdle /\ McpIdle
    \/ /\ part = "specs" /\ SpecInit
       /\ StdIdle /\ FlowIdle /\ RunIdle /\ RouterIdle /\ McpIdle
    \/ /\ part = "router" /\ RouterInit
       /\ StdIdle /\ FlowIdle /\ RunIdle /\ SpecIdle /\ McpIdle
    \/ /\ part = "server" /\ McpInit
       /\ StdIdle /\ FlowIdle /\ RunIdle /\ SpecIdle /\ RouterIdle

Next ==
    /\ UNCHANGED part
    /\ \/ /\ part = "standard" /\ StdNext
          /\ UNCHANGED <<flowVars, runVars, specVars, routerVars, mcpVars>>
       \/ /\ part = "flows" /\ FlowNext
          /\ UNCHANGED <<stdVars, runVars, specVars, routerVars, mcpVars>>
       \/ /\ part = "running" /\ RunNext
          /\ UNCHANGED <<stdVars, flowVars, specVars, routerVars, mcpVars>>
       \/ /\ part = "specs" /\ SpecNext
          /\ UNCHANGED <<stdVars, flowVars, runVars, routerVars, mcpVars>>
       \/ /\ part = "router" /\ RouterNext
          /\ UNCHANGED <<stdVars, flowVars, runVars, specVars, mcpVars>>
       \/ /\ part = "server" /\ McpNext
          /\ UNCHANGED <<stdVars, flowVars, runVars, specVars, routerVars>>

vars == <<part, stdVars, flowVars, runVars, specVars, routerVars, mcpVars>>
RuntimeSpec == Init /\ [][Next]_vars

\* The server alone.
ServerAlone == Init /\ part = "server" /\ [][Next]_vars
=============================================================================
