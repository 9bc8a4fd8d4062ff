------------------------------ MODULE Requests ------------------------------
(***************************************************************************)
(* The requests the Chat, Responses and Completion modules make (chat.rs,  *)
(* responses.rs, completion.rs) from the history, the configs, and what is *)
(* known about the model (capabilities.rs).                                *)
(*                                                                         *)
(* A request is a JSON object: a function of the keys it has.  A model     *)
(* name and a prefix are sequences of their parts.  Tokens are counted in  *)
(* 1024s.  A level of thinking is 0 .. 3 for minimal .. high, with the     *)
(* parameter the provider takes for it, if it takes one.                   *)
(***************************************************************************)
EXTENDS Wire

CONSTANTS Tables,      \* what models.json may hold: functions from prefixes to entries
          Showings,       \* what /api/show answers, none where it fails
          Setups,      \* configs of the module that chats
          Talks,       \* histories it is given
          Replies      \* what a provider answers to one request and its retries
                       \* (the bound on requests is setup.turns)

\* What models.json is read into: prefixes of names, numbers of tokens, and
\* levels there are.
Listing(t) ==
    \A p \in DOMAIN t :
        /\ Len(p) \in Nat
        /\ t[p].max_tokens # None => t[p].max_tokens[1] \in Nat
        /\ t[p].levels # None => t[p].levels[1] \subseteq (0 .. 3) \X ({None} \cup {Some(l) : l \in 0 .. 3})

\* Configs with which a request is a request: a max_tokens that options set is a
\* number, as the request is read back once they are merged.
Configured(s) ==
    /\ Len(s.model.name) \in Nat
    /\ s.max_tokens \in Int /\ "max_tokens" \notin s.nulls
    /\ "max_tokens" \in DOMAIN s.options => s.options["max_tokens"] \in Nat
    /\ s.level # None => s.level[1] \in 0 .. 3
    /\ s.max_retries \in Int

\* A provider replies to every request until one need not be made again.
AnyReply == [status : Nat, phrases : SUBSET STRING]
RepliesTo(s, replies) ==
    /\ replies \in Seq(AnyReply)
    /\ \/ Len(replies) > Max({0, s.max_retries})
       \/ \E i \in DOMAIN replies : replies[i].status = 200

ASSUME RequestsAssumption ==
    /\ \A t \in Tables : Listing(t)
    /\ \A s \in Setups : Configured(s) /\ \A replies \in Replies[s.replies] : RepliesTo(s, replies)

VARIABLES table,       \* USER_ENTRIES
          probes,      \* OLLAMA_PROBES
          setup,       \* the configs
          lastId,      \* last_response_id of the Responses module
          context,     \* what Ollama said to go on from, of the Completion module
          request,     \* the last request, with the history and the entry it was made from
          turns

requestVars == <<table, probes, setup, lastId, context, request, turns>>

-----------------------------------------------------------------------------
(* What is known about a model.                                             *)

EntryFields == {"context_window", "max_tokens", "levels", "image_input"}
Unlisted     == [f \in EntryFields |-> None]
Known(window, max, levels) ==
    [context_window |-> Some(window), max_tokens |-> Some(max), levels |-> Some(levels),
     image_input |-> Some(TRUE)]

DefaultMaxTokens == 8
AdaptiveLevels   == {<<l, Some(l)>> : l \in 1 .. 3}
BudgetLevels     == {<<l, None>> : l \in 0 .. 3}
EffortLevels     == {<<l, Some(l)>> : l \in 0 .. 3}

Builtins ==
    [Claude |-> [p \in {<<"sonnet">>, <<"sonnet", "4-5">>} |->
                    IF p = <<"sonnet">> THEN Known(1000, 64, AdaptiveLevels) ELSE Known(200, 64, BudgetLevels)],
     OpenAI |-> [p \in {<<"gpt-5">>, <<"gpt-4">>} |->
                    IF p = <<"gpt-5">> THEN Known(400, 128, EffortLevels) ELSE Known(128, 16, {})],
     Ollama |-> EmptyObj]

Overwrite(entry, other) == [f \in EntryFields |-> IF other[f] # None THEN other[f] ELSE entry[f]]

\* longest_prefix_match.
Match(name, entries) ==
    LET prefixes == {p \in DOMAIN entries : IsPrefix(p, name)}
    IN IF prefixes = {} THEN Unlisted
       ELSE entries[CHOOSE p \in prefixes : \A q \in prefixes : Len(q) <= Len(p)]

Probed(model) ==
    IF model.provider # "Ollama" \/ model.name \notin DOMAIN probes THEN Unlisted
    ELSE LET probe == probes[model.name] IN
         [Unlisted EXCEPT !.context_window = probe.context_length, !.image_input = probe.vision,
                         !.levels = MapOption(LAMBDA t : IF t THEN BudgetLevels ELSE {}, probe.thinking)]

\* resolve_entry: a probe, below the built-in table, below models.json.
Resolve(model) ==
    Overwrite(Overwrite(Probed(model), Match(model.name, Builtins[model.provider])),
              Match(model.name, table))

\* clamp_thinking_level: the nearest level there is, the lower one of two.
ClampLevel(wanted, levels) ==
    LET Far(l) == IF l[1] > wanted[1] THEN l[1] - wanted[1] ELSE wanted[1] - l[1]
        Before(l, k) == Far(l) < Far(k) \/ (Far(l) = Far(k) /\ l[1] <= k[1])
    IN IF wanted = None \/ levels = {} THEN None
       ELSE Some(CHOOSE l \in levels : \A k \in levels : Before(l, k))

\* clamp_max_tokens: none configured at zero and below; no limit where none is known.
ClampMaxTokens(configured, limit) ==
    IF configured <= 0 THEN None
    ELSE Some(IF limit = None THEN configured ELSE Min({configured, limit[1]}))

-----------------------------------------------------------------------------
(* Parts of a request.                                                      *)

Nothing_ == [k \in {} |-> None]

Without(req, keys) == [k \in DOMAIN req \ keys |-> req[k]]

\* merge_options: an option that is null takes its key away.
MergeOptions(req, s) == Without(Over(s.options, req), s.nulls)

\* The configs that override the options.
FirstClass(req, key, s, limit) ==
    Over(Entry(key, ClampMaxTokens(s.max_tokens, limit)),
         Over(Given([temperature |-> s.temperature, top_p |-> s.top_p]), req))

ToolsOf(s) == IF s.tools = <<>> THEN None ELSE Some([i \in DOMAIN s.tools |-> [name |-> s.tools[i]]])

BudgetOf == [l \in 0 .. 3 |-> <<1, 2, 8, 16>>[l + 1]]
MinBudget == 1

\* Mutant: the limit alone decides.
ApplyClaudeThinkingTight(req, level, limit) ==
    IF level = None THEN req
    ELSE LET raised == req["max_tokens"] + BudgetOf[level[1][1]]
             max    == IF limit = None THEN raised ELSE Min({raised, limit[1]})
             think  == IF level[1][2] # None
                       THEN [thinking |-> <<"adaptive">>, output_config |-> level[1][2][1]]
                       ELSE [thinking |-> <<"enabled", BudgetOf[level[1][1]]>>, max_tokens |-> max]
         IN Without(Over(think, req), {"temperature", "top_p"})

\* apply_claude_thinking: an effort, or a budget on top of the tokens for the
\* answer; half of what there is where that does not fit, none where that is too
\* little.  Temperature and top_p do not go with thinking.
ApplyClaudeThinking(req, level, limit) ==
    IF level = None THEN req
    ELSE LET raised == req["max_tokens"] + BudgetOf[level[1][1]]
             max    == IF limit = None THEN raised ELSE Min({raised, limit[1]})
             budget == IF BudgetOf[level[1][1]] < max THEN BudgetOf[level[1][1]] ELSE max \div 2
             think  == IF level[1][2] # None
                       THEN [thinking |-> <<"adaptive">>, output_config |-> level[1][2][1]]
                       ELSE [thinking |-> <<"enabled", budget>>, max_tokens |-> max]
         IN IF level[1][2] = None /\ budget < MinBudget THEN req
            ELSE Without(Over(think, req), {"temperature", "top_p"})

\* attach_marker: on the last block, text made one; an empty text has none.
WithMark(content, retention) ==
    CASE content = Text("")      -> content
      [] content[1] = "text"     -> Blocks(<<("cache" :> retention) @@ TextBlock(content[2])>>)
      [] Last(content[2]).type \in {"text", "image", "tool_result"} ->
            Blocks(Front(content[2]) \o <<("cache" :> retention) @@ Last(content[2])>>)
      [] OTHER                   -> content

\* apply_cache_control: for a conversation, on its system, its last tool and its
\* last message of the user.
CacheControl(req, retention) ==
    LET ms    == req["messages"]
        users == {i \in DOMAIN ms : ms[i].role = "user"}
    IN IF retention = "none" \/ ("tools" \notin DOMAIN req /\ Len(ms) <= 1) THEN req
       ELSE [k \in DOMAIN req |->
               CASE k = "system" -> WithMark(req[k], retention)
                 [] k = "tools"  -> Front(req[k]) \o <<("cache" :> retention) @@ Last(req[k])>>
                 [] k = "messages" /\ users # {} ->
                       [ms EXCEPT ![Max(users)].content = WithMark(@, retention)]
                 [] OTHER        -> req[k]]

Thinks(req) == "thinking" \in DOMAIN req /\ req["thinking"][1] \in {"enabled", "adaptive"}

-----------------------------------------------------------------------------
(* The requests.                                                            *)

\* process_claude.
ClaudeRequest(model, s, h, entry, level) ==
    LET registry == OrElse(entry.max_tokens, DefaultMaxTokens)
        base == Over(Given([system |-> MapOption(Text, ClaudeSystem(h)), tools |-> ToolsOf(s),
                            stream |-> IF s.stream THEN Some(TRUE) ELSE None]),
                     [model |-> model.name, messages |-> ClaudeMessages(h),
                      max_tokens |-> IF s.stream THEN registry ELSE Min({registry, DefaultMaxTokens})])
        set  == FirstClass(MergeOptions(base, s), "max_tokens", s, entry.max_tokens)
        req  == ApplyClaudeThinking(set, level, entry.max_tokens)
        kept == IF Thinks(req) THEN req["messages"]
                ELSE [i \in DOMAIN req["messages"] |-> StripThinking(req["messages"][i])]
    IN CacheControl([req EXCEPT !["messages"] = kept], s.retention)

\* process_openai.
ChatRequest(model, s, h, entry, level) ==
    LET ms   == MessagesIn(h)
        base == Over(Given([tools |-> ToolsOf(s),
                            stream_options |-> IF s.stream THEN Some("include_usage") ELSE None]),
                     [model |-> model.name, messages |-> [i \in DOMAIN ms |-> ToChat(ms[i])], stream |-> s.stream])
    IN Over(Given([prompt_cache_key |-> IF s.retention = "none" THEN None ELSE Some("key"),
                   reasoning_effort |-> IF level = None THEN None ELSE level[1][2]]),
            FirstClass(MergeOptions(base, s), "max_tokens", s, entry.max_tokens))

\* merge_options of ollama_client.rs and the configs that override: all of it
\* goes under one key.
OllamaOptions(s, limit) ==
    LET all == FirstClass(s.options, "num_predict", s, limit)
    IN IF all = Nothing_ THEN None ELSE Some(all)

\* process_ollama.
OllamaRequest(model, s, h, entry, level) ==
    LET ms == MessagesIn(h) IN
    Over(Given([tools |-> ToolsOf(s), options |-> OllamaOptions(s, entry.max_tokens),
                think |-> IF level = None THEN None ELSE Some(TRUE)]),
         [model |-> model.name, messages |-> [i \in DOMAIN ms |-> ToOllama(ms[i])], stream |-> s.stream])

\* process_response.
ResponseRequest(model, s, h, entry) ==
    LET base == Over(Given([previous_response_id |-> IF s.use_state THEN lastId ELSE None, tools |-> ToolsOf(s)]),
                     [model |-> model.name, input |-> ResponseInput(h), stream |-> s.stream])
    IN FirstClass(MergeOptions(base, s), "max_output_tokens", s, entry.max_tokens)

\* process_openai and process_ollama of completion.rs.
CompletionRequest(model, s, prompt, entry) ==
    IF model.provider = "OpenAI"
    THEN FirstClass(MergeOptions([model |-> model.name,
                                  prompt |-> IF s.system = "" THEN prompt ELSE s.system \o "\n\n" \o prompt], s),
                    "max_tokens", s, entry.max_tokens)
    ELSE Over(Given([system |-> IF s.system = "" THEN None ELSE Some(s.system),
                     options |-> OllamaOptions(s, entry.max_tokens),
                     context |-> IF s.use_state THEN context ELSE None]),
              [model |-> model.name, prompt |-> prompt, stream |-> FALSE])

-----------------------------------------------------------------------------

RequestInit ==
    /\ table = Nothing_
    /\ probes = Nothing_
    /\ setup \in Setups
    /\ lastId = None
    /\ context = None
    /\ request = None
    /\ turns = 0

\* load_model_capabilities_json: the table is replaced.
LoadTable(t) ==
    /\ turns < setup.turns
    /\ table' = t
    /\ UNCHANGED <<probes, setup, lastId, context, request, turns>>

\* warm_ollama_context, after the entry was resolved: an answer is kept, a
\* failure is not.
Warm(model, show) ==
    probes' = IF model.provider # "Ollama" \/ model.name \in DOMAIN probes \/ show = None THEN probes
              ELSE (model.name :> show[1]) @@ probes

\* with_retry: what the provider answers is asked for again as long as it is an
\* error that may pass and there are retries left.
Attempts(replies) ==
    LET ends == {i \in DOMAIN replies :
                    ~IsRetryable(HttpError(setup.model.provider, replies[i].status, replies[i].phrases))}
    IN SubSeq(replies, 1, Min({Max({0, setup.max_retries}) + 1, Len(replies)} \cup ends))

AskModel(req, h, entry, replies) ==
    /\ turns < setup.turns
    /\ turns' = turns + 1
    /\ request' = Some([body |-> req, history |-> h, entry |-> entry, sent |-> Attempts(replies)])

Answered(replies) == Last(Attempts(replies)).status = 200

\* The last message is from the user or a tool.
Asks(h) == h # <<>> /\ Last(h)[2].role \in {"user", "tool"}

\* What a model that cannot see is not shown; nothing is hidden from a model
\* nothing is known about.
Sees(entry) == entry.image_input # Some(FALSE)

\* ChatModule::process.
Chat(h, show, replies) ==
    LET model == setup.model
        entry == Resolve(model)
        level == ClampLevel(setup.level, OrElse(entry.levels, {}))
        p     == Prepare(model.provider, Sees(entry), h)
    IN /\ Asks(h)
       /\ AskModel(CASE model.provider = "Claude" -> ClaudeRequest(model, setup, p, entry, level)
                [] model.provider = "OpenAI" -> ChatRequest(model, setup, p, entry, level)
                [] model.provider = "Ollama" -> OllamaRequest(model, setup, p, entry, level),
              h, entry, replies)
       /\ Warm(model, show)
       /\ UNCHANGED <<table, setup, lastId, context>>

\* ResponsesModule::process: the id of a response that came is what the next one
\* goes on from.
Respond(h, id, replies) ==
    LET entry == Resolve(setup.model) IN
    /\ setup.model.provider = "OpenAI"
    /\ Asks(h)
    /\ AskModel(ResponseRequest(setup.model, setup, Prepare("OpenAI", Sees(entry), h), entry), h, entry, replies)
    /\ lastId' = IF setup.use_state /\ id # None /\ Answered(replies) THEN id ELSE lastId
    /\ UNCHANGED <<table, probes, setup, context>>

\* CompletionModule::process; Claude makes no completions.
Complete(prompt, show, answered, replies) ==
    LET entry == Resolve(setup.model) IN
    /\ setup.model.provider # "Claude"
    /\ prompt # ""
    /\ AskModel(CompletionRequest(setup.model, setup, prompt, entry), <<>>, entry, replies)
    /\ Warm(setup.model, show)
    /\ context' = IF setup.model.provider = "Ollama" /\ setup.use_state /\ answered # None
                     /\ Answered(replies)
                  THEN answered ELSE context
    /\ UNCHANGED <<table, setup, lastId>>

\* The reset port of either, and a restart of the module.
Reset ==
    /\ setup.module # "Chat"
    /\ lastId' = None
    /\ context' = None
    /\ UNCHANGED <<table, probes, setup, request, turns>>

RequestNext ==
    \/ \E t \in Tables : LoadTable(t)
    \/ /\ turns < setup.turns
       /\ \E replies \in Replies[setup.replies] :
            \/ setup.module = "Chat" /\ \E h \in Talks, show \in Showings : Chat(h, show, replies)
            \/ setup.module = "Responses" /\ \E h \in Talks, id \in {None, Some(turns)} : Respond(h, id, replies)
            \/ setup.module = "Completion" /\ \E show \in Showings, answered \in {None, Some(turns)} :
                                               Complete("p", show, answered, replies)
    \/ Reset

RequestSpec == RequestInit /\ [][RequestNext]_requestVars

-----------------------------------------------------------------------------

Asked(module, provider) == request # None /\ setup.module = module /\ setup.model.provider = provider

\* The blocks of a Claude request.
BlocksIn(ms) == FlattenSeq([i \in DOMAIN ms |-> BlocksOf(ms[i].content)])

\* The thinking Claude has to be given back.
OwnThinking(h) ==
    LET blocks == BlocksIn(SelectSeq(MessagesIn(h), LAMBDA m : m.role = "assistant"))
        own    == SelectSeq(blocks, LAMBDA b : IsA("thinking", b) /\ ~Unsigned(b))
    IN [i \in DOMAIN own |-> IF own[i].redacted THEN Redacted(own[i].thinking) ELSE Signed(own[i])]

\* A budget for thinking is at least the minimum and below max_tokens, and goes
\* without temperature and top_p; max_tokens is within a limit that is known.
\* What options set is the user's.
LimitsFit ==
    Asked("Chat", "Claude") =>
        LET b     == request[1].body
            limit == request[1].entry.max_tokens
        IN /\ Thinks(b) /\ "thinking" \notin DOMAIN setup.options =>
                 /\ b["thinking"][1] = "enabled" => /\ b["thinking"][2] >= MinBudget
                                                   /\ b["thinking"][2] < b["max_tokens"]
                 /\ {"temperature", "top_p"} \cap DOMAIN b = {}
           /\ "max_tokens" \notin DOMAIN setup.options /\ limit # None => b["max_tokens"] <= limit[1]

\* No block of text is empty; the thinking of earlier turns is all there, as it
\* was, with thinking on, and all gone with it off.
BlocksFit ==
    Asked("Chat", "Claude") =>
        LET b        == request[1].body
            blocks   == BlocksIn(b["messages"])
            thinking == SelectSeq(blocks, IsThinking)
        IN /\ \A i \in DOMAIN blocks : Filled(blocks[i])
           /\ thinking = IF Thinks(b) THEN OwnThinking(request[1].history) ELSE <<>>
           /\ Cardinality({i \in DOMAIN blocks : "cache" \in DOMAIN blocks[i]}) <= 1

\* Claude takes the request whatever the level of thinking, the limits and the
\* history (chat.rs:1478-1529, claude_client.rs).
RequestLegal == LimitsFit /\ BlocksFit

\* What a request says of calls and results, in order; "said" is anything else.
ClaudeEvents(m) ==
    LET bs == BlocksOf(m.content)
    IN IF m.content[1] = "text" THEN << <<"said">> >>
       ELSE [i \in DOMAIN bs |-> CASE bs[i].type = "tool_use"    -> <<"call", bs[i].id>>
                                   [] bs[i].type = "tool_result" -> <<"result", bs[i].tool_use_id>>
                                   [] OTHER                      -> <<"said">>]

ChatEvents(m) ==
    CASE m.tool_call_id # None -> << <<"result", m.tool_call_id[1]>> >>
      [] OTHER -> << <<"said">> >> \o [i \in DOMAIN OrElse(m.calls, <<>>) |-> <<"call", m.calls[1][i].id>>]

OllamaEvents(m) ==
    IF m.role = "tool" THEN << <<"result", "any">> >>
    ELSE << <<"said">> >> \o [i \in DOMAIN m.calls |-> <<"call", "any">>]

ResponseEvents(item) ==
    CASE item.type = "function_call"        -> << <<"call", item.call_id>> >>
      [] item.type = "function_call_output" -> << <<"result", item.call_id>> >>
      [] OTHER                              -> << <<"said">> >>

Events(body) ==
    LET Each(F(_), ms) == FlattenSeq([i \in DOMAIN ms |-> F(ms[i])]) IN
    CASE setup.module = "Responses"         -> Each(ResponseEvents, body["input"])
      [] setup.model.provider = "Claude"    -> Each(ClaudeEvents, body["messages"])
      [] setup.model.provider = "OpenAI"    -> Each(ChatEvents, body["messages"])
      [] OTHER                              -> Each(OllamaEvents, body["messages"])

\* The calls that are open after the events, none where a result has no call or
\* something is said while a call is open.
Open(events) ==
    FoldLeft(LAMBDA open, e :
        CASE open = None -> None
          [] e[1] = "call" -> Some(Append(open[1], e[2]))
          [] e[1] = "said" -> IF open = Some(<<>>) THEN open ELSE None
          [] OTHER -> IF e[2] \in Range(open[1]) THEN Some(RemoveFirst(open[1], e[2])) ELSE None,
        Some(<<>>), events)

Shown(body) ==
    CASE setup.module = "Responses"      -> {i \in DOMAIN body["input"] : body["input"][i].type = "message"
                                                 /\ ImageBlocks(body["input"][i].content) # <<>>}
      [] setup.model.provider = "Ollama" -> {i \in DOMAIN body["messages"] : body["messages"][i].images # <<>>}
      [] OTHER -> {i \in DOMAIN body["messages"] : ImageBlocks(body["messages"][i].content) # <<>>}

\* From what a history was stored as to what is on the wire of any provider:
\* every call is answered, by one result of its id, before anything else is said,
\* and no result is without a call.  An image of the user is shown, unless the
\* model was known not to see when the turn began: then none is.
WireKeeps ==
    request # None /\ setup.module # "Completion" =>
        LET h == request[1].history
            sees == request[1].entry.image_input # Some(FALSE)
        IN /\ Open(Events(request[1].body)) = Some(<<>>)
           /\ (\E i \in DOMAIN h : h[i][2].role = "user" /\ HasImage(h[i][2])) /\ sees
                 => Shown(request[1].body) # {}
           /\ ~sees => Shown(request[1].body) = {}

\* An answer that says the quota is used up or the prompt too long is never asked
\* for again, nor is one that came well; one that only says too fast or too busy
\* is, as often as configured (retry.rs:62-104, http_error.rs).
RetriesFit ==
    request # None =>
        LET sent == request[1].sent
            over == OverflowPhrase[setup.model.provider]
            MayPass(r, busy) ==
                \/ r.status = 429 /\ r.phrases \cap Exhausted = {}
                \/ r.status \in busy /\ (over \notin r.phrases \/ r.phrases \cap Throttling # {})
        IN /\ \A i \in 1 .. Len(sent) - 1 : MayPass(sent[i], 500 .. 599)
           /\ MayPass(Last(sent), {503}) => Len(sent) = Max({0, setup.max_retries}) + 1
=============================================================================
