--------------------------- MODULE MCConversation ---------------------------
(***************************************************************************)
(* What a conversation goes through, for TLC: the log of a session, the    *)
(* preparation of a history, the requests made of it, the answers that     *)
(* come as streams, and the modules around them.  A behaviour is of one of *)
(* them, chosen at the start.                                              *)
(***************************************************************************)
EXTENDS AnswerStream, LlmModules, SessionLog

VARIABLE part

Msg(m) == <<"msg", m>>
Result(id, name) == Msg([NewMessage("tool", Text("r")) EXCEPT !.id = id, !.tool_name = name])
Turn(ids) ==
    Msg([NewMessage("assistant", Text("")) EXCEPT
         !.tool_calls = Some([i \in DOMAIN ids |-> Call(ids[i], <<"f", "g">>[i], <<Plainly, Obj(EmptyObj)>>[i])])])

X       == Some(<<"x">>)
XDot    == Some(<<"x", ".">>)
XBar    == Some(<<"x", "_">>)
Long(s) == Some(<<"x", "x", "x", "x", s, "x">>)
Zero    == Some(<<"call", "0", "0">>)
Picture == [NewMessage("developer", Blocks(<<TextBlock("t"), ImageBlock("d")>>)) EXCEPT !.image = Some(Image)]

MCSays == {Msg(Picture), Int_(1), Turn(<<X, None>>), Turn(<<XDot, XBar>>),
           Turn(<<Long("x"), Long("y")>>), Turn(<<Zero, Some(<<>>)>>), Result(None, Some("f")),
           Result(X, Some("g")), Result(XDot, None), Result(Long("y"), Some("f"))}

-----------------------------------------------------------------------------

\* What Claude answered, what another provider did, and what was typed.
Claude(blocks) == Msg(FromClaude([content |-> blocks, stop_reason |-> Some("tool_use"),
    usage |-> [input_tokens |-> 1, output_tokens |-> 1, cache_read |-> None, cache_creation |-> None]]))
Use(id)      == [type |-> "tool_use", id |-> id, name |-> "f", input |-> Plainly]
Thought(sig) == [type |-> "thinking", thinking |-> "hm", signature |-> sig]
Answer(m)    == Msg(FromChat([role |-> "assistant", content |-> Some("a"), reasoning_content |-> Some("hm"),
    reasoning |-> None, refusal |-> None,
    tool_calls |-> Some(<< [id |-> <<"x", "x", ".", ".", "x">>, name |-> "f", arguments |-> <<"broken">>] >>)]))
Local        == Msg(FromOllama([role |-> "assistant", content |-> "", thinking |-> None,
    calls |-> << [name |-> "f", arguments |-> Plainly], [name |-> "f", arguments |-> Obj(EmptyObj)] >>],
    <<"u">>))
Hi           == Msg(User("hi"))
Photo        == Msg([User("") EXCEPT !.image = Some(Image)])
Photos       == Msg([NewMessage("user", Blocks(<<ImageBlock("d"), TextBlock("")>>)) EXCEPT !.image = Some(Image)])
System       == Msg(NewMessage("system", Text("be kind")))
Failed(id)   == Msg([NewMessage("tool", Blocks(<<TextBlock(""), ImageBlock("d")>>)) EXCEPT !.id = Some(id)])

MCTalks ==
    {<<Hi>>, <<System, Photo>>, <<Photos, Msg(NewMessage("assistant", Text(""))), Hi>>,
     <<Hi, Claude(<<Thought("s"), TextBlock("a"), Redacted("z"), Use(<<"a">>), Use(<<"b">>)>>),
       Result(Some(<<"b">>), None), Failed(<<"a">>)>>,
     <<System, Hi, Claude(<<Thought(""), Use(<<"a">>)>>), Hi>>,
     <<Hi, Claude(<<Thought("s")>>), Hi, Answer("a"), Result(Some(<<"x", "x", ".", ".", "x">>), Some("f"))>>,
     <<Photo, Local, Result(None, Some("f")), Result(None, Some("f")), Result(None, None)>>,
     <<Hi, Msg(NewMessage("assistant", Text("no one asked")))>>}

Model(provider, name) == [provider |-> provider, name |-> name]
MCModels == {Model("Claude", <<"sonnet", "4-5", "latest">>), Model("Claude", <<"sonnet", "5">>),
             Model("Claude", <<"other">>), Model("OpenAI", <<"gpt-5", "mini">>), Model("OpenAI", <<"other">>),
             Model("Ollama", <<"llama">>)}

Limit(max)  == [Unlisted EXCEPT !.max_tokens = Some(max)]
MCTables    == {<<>> :> [Limit(n) EXCEPT !.levels = Some(BudgetLevels)] : n \in {1, 2, 3, 9}}
               \cup {(<<"sonnet">> :> Limit(4)) @@ (<<"llama">> :> [Unlisted EXCEPT !.image_input = Some(TRUE)]),
                     <<"gpt-5">> :> [Unlisted EXCEPT !.image_input = Some(FALSE), !.levels = Some({<<0, None>>, <<2, Some(2)>>})]}

Probe(sees, thinks) == [context_length |-> Some(4), vision |-> sees, thinking |-> thinks]
MCShows == {None, Some(Probe(Some(FALSE), Some(TRUE))), Some(Probe(None, None))}

Reply(status, phrases) == [status |-> status, phrases |-> phrases]
Phrases(provider) == {{}, {"rate limit"}, {"exhausted"}, {OverflowPhrase[provider]},
                      {"rate limit", OverflowPhrase[provider]}}
AllReplies(provider) ==
    {<<Reply(status, phrases), second, Reply(503, {})>> :
        status \in {200, 400, 404, 413, 429, 500, 503}, phrases \in Phrases(provider),
        second \in {Reply(200, {}), Reply(429, {}), Reply(429, {"exhausted"})}}

MCReplies == [r \in {"Claude", "OpenAI", "Ollama"} |-> AllReplies(r)] @@ ("fine" :> {<<Reply(200, {})>>})

Plain(model) == [module |-> "Chat", model |-> model, stream |-> FALSE, max_tokens |-> 0, temperature |-> None,
                 top_p |-> None, level |-> None, options |-> Nothing_, nulls |-> {}, retention |-> "short",
                 tools |-> <<>>, use_state |-> FALSE, system |-> "", max_retries |-> 2, replies |-> "fine", turns |-> 1]

Options == {Nothing_, "max_tokens" :> 100, ("temperature" :> 1) @@ ("thinking" :> <<"disabled">>)}
MCSetups ==
    {[Plain(m) EXCEPT !.stream = b, !.max_tokens = n, !.temperature = IF b THEN Some(1) ELSE None, !.level = l, !.options = o,
                      !.tools = IF b THEN <<"f", "g">> ELSE <<>>, !.retention = IF n = 0 THEN "long" ELSE "short"] :
        m \in {m \in MCModels : m.provider = "Claude"}, b \in BOOLEAN, n \in {0, 70},
        l \in {None, Some(0), Some(3)}, o \in Options}
    \cup {[Plain(m) EXCEPT !.stream = b, !.max_tokens = n, !.level = l,
                      !.turns = IF m.provider = "Ollama" /\ ~b /\ n = 0 THEN 2 ELSE 1,
                      !.nulls = IF b THEN {"stream_options"} ELSE {}] :
        m \in {m \in MCModels : m.provider # "Claude"}, b \in BOOLEAN, n \in {0, 70}, l \in {None, Some(2)}}
    \cup {[Plain(m) EXCEPT !.module = o, !.use_state = b, !.turns = 2, !.system = IF b THEN "s" ELSE ""] :
        m \in {m \in MCModels : m.provider # "Claude" /\ m.name # <<"other">>},
        o \in {"Responses", "Completion"}, b \in BOOLEAN}
    \cup {[Plain(m) EXCEPT !.replies = m.provider, !.turns = 1, !.max_retries = r, !.module = "Completion"] :
        m \in {m \in MCModels : m.provider # "Claude"}, r \in {-1, 1}}
    \cup {[Plain(Model("Claude", <<"other">>)) EXCEPT !.replies = "Claude"]}

-----------------------------------------------------------------------------

Node(kind) == [kind |-> kind, preamble |-> Arr(<<Str("be kind")>>), rates |-> None, budget |-> 0,
               model |-> "text-embedding", short |-> 0]

MCNodes == {Node(kind) : kind \in {"Assistant", "System", "User", "Preamble", "Usage", "Embeddings"}}
    \cup {[Node("Usage") EXCEPT !.rates =
             Some([input |-> 1, output |-> 5, cache_read |-> Some(0), cache_write |-> None])],
          [Node("Embeddings") EXCEPT !.short = 1],
          [Node("Preamble") EXCEPT !.preamble = Str("be kind")]}
    \cup {[Node("ForPrompt") EXCEPT !.budget = b] : b \in {0, 2, 4, 6}}
    \cup {[Node("Trim") EXCEPT !.budget = b] : b \in {2, 4, 6, 1204}}

Spent(i, o) == [input_tokens |-> i, output_tokens |-> o, cache_read_tokens |-> o, cache_write_tokens |-> 0]
Said(id, usage, streaming) ==
    Msg([NewMessage("assistant", Text("a")) EXCEPT !.id = id, !.usage = usage, !.streaming = streaming])

FullMessage == [NewMessage("assistant", Blocks(<<Thinking("hm", Some("s"), FALSE), TextBlock("a"), ImageBlock("d")>>))
                EXCEPT !.id = Some("m1"), !.tokens = Some(1), !.stop_reason = Some("tool_use"),
                       !.usage = Some(Spent(1, 2)), !.is_error = Some(FALSE), !.image = Some(Image),
                       !.tool_calls = Some(<<[Call(Some("x"), "f", Obj("a" :> Int_(1))) EXCEPT !.parse_error = Some("bad")],
                                             Call(None, "g", Obj(EmptyObj))>>)]
AsObject == Obj(("role" :> Str("user")) @@ ("content" :> Str("a")) @@ ("thinking" :> Str("hm")))
FormMessages == {Msg(FullMessage), Msg([FullMessage EXCEPT !.streaming = TRUE, !.content = Text("a")]),
                 Msg([FullMessage EXCEPT !.content = Blocks(<<TextBlock("a"), TextBlock("b")>>)]),
                 Msg([ToolResult("f", Blocks(<<Thinking("z", None, TRUE)>>)) EXCEPT !.id = Some("x")]),
                 Msg(User(BadUri))}

Prompts ==
    LET Long_(m) == [m EXCEPT !.content = Text("more than four")]
        Think    == NewMessage("assistant", Blocks(<<Thinking("hmhmhmhm", None, FALSE), TextBlock("a")>>))
        talks    == {<<User("hi"), Think>>, <<User("hi"), Long_(User("")), Think, User("ok")>>,
                     <<Long_(User("")), Think, Think, User("ok"), Think>>, <<Think>>}
        Of(s)    == Arr([i \in DOMAIN s |-> Msg(s[i])])
    IN {Of(s) : s \in talks} \cup {Of(<<NewMessage("system", Text("kind"))>> \o s) : s \in talks}
       \cup {Arr(<<>>), Str("hi"), Int_(1)}

Chunk(i, s) == Arr(<<Int_(i), Str(s)>>)
Doc(s)      == Obj(("text" :> Str(s)) @@ ("id" :> Int_(1)))
Texts       == {<<1, 1, 1>>, [i \in 1 .. 9 |-> 1], [i \in 1 .. 8 |-> 3], <<2, 1, 4, 1, 2, 3, 3, 2>>}
Item(text)  == [text |-> text, other |-> 0, image |-> FALSE]
Beside      == {[text |-> <<>>, other |-> 3, image |-> FALSE], [text |-> <<>>, other |-> 0, image |-> TRUE]}

In(port, values) == {<<port, v>> : v \in values}
MCFeeds ==
    [kind \in {"Assistant", "System", "User", "Preamble"} |->
        In("message", FormMessages \cup {Str("hi"), Image, AsObject, Int_(1), Arr(<<Str("hi"), AsObject>>),
                                         Arr(<<Str("hi"), Int_(1)>>)})
        \cup (IF kind = "Preamble" THEN In("reset", {Unit}) ELSE {})]
    @@ ("Usage" :> (In("message", {Said(id, Some(u), FALSE) : id \in {None, Some("a"), Some("b")},
                                                               u \in {Spent(1, 2), Spent(4, 1)}}
                                  \cup {Said(Some("a"), None, FALSE), Said(Some("a"), Some(Spent(7, 7)), TRUE), Int_(1)})
                    \cup In("reset", {Unit})))
    @@ ("ForPrompt" :> In("messages", Prompts))
    @@ ("Trim" :> In("message", {<<"items", <<Item(s), Item(t)>>>> : s, t \in Texts}
                                \cup {<<"items", <<Item(s), b, Item(t)>>>> : s, t \in Texts, b \in Beside}))
    @@ ("Embeddings" :> (In("string", {Str(""), Str("a"), Int_(1)})
                         \cup In("chunks", {Arr(<<>>), Arr(<<Chunk(0, "a"), Chunk(1, ""), Chunk(2, "b")>>),
                                            Arr(<<Chunk(0, ""), Chunk(2, "b"), Chunk(4, "b")>>), Arr(<<Int_(1)>>)})
                         \cup In("doc", {Doc("a"), Doc(""), Arr(<<>>), Arr(<<Doc("a"), Doc(""), Doc("b")>>),
                                         Arr(<<Doc(""), Doc("")>>), Int_(1)})
                         \cup In("unit", {Unit})))

MCMaxFed == [kind \in DOMAIN MCFeeds |-> IF kind = "Usage" THEN 4 ELSE IF kind = "Preamble" THEN 3 ELSE 1]

-----------------------------------------------------------------------------

MCMaxHeard == ("Claude" :> 9) @@ ("OpenAI" :> 6) @@ ("Responses" :> 8) @@ ("Ollama" :> 3)
MCReasons == ("Claude" :> {"end_turn", "tool_use"}) @@ ("OpenAI" :> {"tool_calls", "content_filter"})
             @@ ("Responses" :> {"completed", "max_output_tokens", "failed"}) @@ ("Ollama" :> {"stop"})

-----------------------------------------------------------------------------

HistoryIdle == history = <<>> /\ target = "Claude" /\ vision = FALSE
RequestIdle ==
    /\ table = Nothing_ /\ probes = Nothing_ /\ setup = Plain(Model("Claude", <<"other">>))
    /\ lastId = None /\ context = None /\ request = None /\ turns = 0
StreamIdle ==
    source = "none" /\ heard = <<>> /\ draft = Draft /\ answer = [User("") EXCEPT !.streaming = TRUE] /\ told = <<>>
NodeIdle == node = Node("User") /\ memo = None /\ fed = <<>> /\ said = <<>>

TalkIdle == HistoryIdle /\ RequestIdle /\ NodeIdle /\ StreamIdle

TalkInit ==
    \/ part = "session" /\ Init /\ TalkIdle
    \/ part = "history" /\ Init /\ HistoryInit /\ (vision <=> target = "Ollama") /\ RequestIdle /\ NodeIdle /\ StreamIdle
    \/ part = "requests" /\ Init /\ RequestInit /\ HistoryIdle /\ NodeIdle /\ StreamIdle
    \/ part = "stream" /\ Init /\ StreamInit /\ HistoryIdle /\ RequestIdle /\ NodeIdle
    \/ part = "nodes" /\ Init /\ NodeInit /\ HistoryIdle /\ RequestIdle /\ StreamIdle

TalkNext ==
    \/ part = "session" /\ Next /\ UNCHANGED <<part, historyVars, requestVars, streamVars, nodeVars>>
    \/ part = "history" /\ HistoryNext /\ UNCHANGED <<part, vars, requestVars, streamVars, nodeVars>>
    \/ part = "requests" /\ RequestNext /\ UNCHANGED <<part, vars, historyVars, streamVars, nodeVars>>
    \/ part = "stream" /\ StreamNext /\ UNCHANGED <<part, vars, historyVars, requestVars, nodeVars>>
    \/ part = "nodes" /\ NodeNext /\ UNCHANGED <<part, vars, historyVars, requestVars, streamVars>>

TalkSpec == TalkInit /\ [][TalkNext]_<<part, vars, historyVars, requestVars, streamVars, nodeVars>>
=============================================================================
