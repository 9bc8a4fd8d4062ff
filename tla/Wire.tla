-------------------------------- MODULE Wire --------------------------------
(***************************************************************************)
(* The forms of messages the providers take and give, and what is made of  *)
(* their errors (claude_client.rs, openai_client.rs, ollama_client.rs).    *)
(*                                                                         *)
(* A prepared history is converted message by message.  The content of a   *)
(* Claude message is <<"text", s>> or <<"blocks", seq>>; an item for       *)
(* OpenAI and Ollama is a record.  Arguments a provider sends as a text    *)
(* are <<"text", json>> where they parse (repaired or not), <<"blank">>    *)
(* and <<"broken">>.                                                       *)
(***************************************************************************)
EXTENDS History

ImageBlocks(c)  == SelectSeq(BlocksOf(c), LAMBDA b : IsA("image", b))
Filled(b)       == IsA("text", b) => b.text # ""
TextsAndImages(c) == SelectSeq(BlocksOf(c), LAMBDA b : (IsA("text", b) \/ IsA("image", b)) /\ Filled(b))
Attached(m)     == IF m.image = None THEN <<>> ELSE <<ImageBlock("pixels")>>
MessagesIn(h)   == LET ms == SelectSeq(h, IsMsg) IN [i \in DOMAIN ms |-> ms[i][2]]

\* An id for a call or a result that has none.
AnyId(option) == OrElse(option, <<"uuid">>)

ParseArguments(t) ==
    CASE t[1] = "blank"  -> [parameters |-> Obj(EmptyObj), parse_error |-> None]
      [] t[1] = "text" /\ Kind(t[2]) = "obj" -> [parameters |-> t[2], parse_error |-> None]
      [] t[1] = "text"   -> [parameters |-> Obj(EmptyObj), parse_error |-> Some("not an object")]
      [] OTHER           -> [parameters |-> Obj(EmptyObj), parse_error |-> Some("invalid")]

CallWith(id, name, parsed) ==
    [Call(id, name, parsed.parameters) EXCEPT !.parse_error = parsed.parse_error]

CallsOption(calls) == IF calls = <<>> THEN None ELSE Some(calls)

Usage(input, output, read, write) ==
    [input_tokens |-> input, output_tokens |-> output, cache_read_tokens |-> read, cache_write_tokens |-> write]

\* content_with_thinking.
WithPlainThinking(thinking, text) ==
    IF thinking = "" THEN Text(text)
    ELSE Blocks(<<Thinking(thinking, None, FALSE)>> \o (IF text = "" THEN <<>> ELSE <<TextBlock(text)>>))

-----------------------------------------------------------------------------
(* Claude.                                                                  *)

ToolUse(call)    == [type |-> "tool_use", id |-> AnyId(call.id), name |-> call.name, input |-> call.parameters]
Signed(b)        == [type |-> "thinking", thinking |-> b.thinking, signature |-> b.signature[1]]
Redacted(data)   == [type |-> "redacted_thinking", data |-> data]
IsThinking(b)    == b.type \in {"thinking", "redacted_thinking"}

BlocksOr(parts, m) == IF parts = <<>> THEN Text(TextOf(m.content)) ELSE Blocks(parts)

UserContent(m) ==
    LET text == IF m.content[1] = "text" /\ m.content[2] # "" THEN <<TextBlock(m.content[2])>> ELSE <<>>
    IN IF m.content[1] = "text" /\ m.image = None THEN m.content
       ELSE BlocksOr(Attached(m) \o text \o TextsAndImages(m.content), m)

ToolResultContent(m) ==
    IF m.content[1] = "text" THEN m.content ELSE BlocksOr(TextsAndImages(m.content), m)

\* Signed and redacted thinking goes back as it came, in its place; thinking of
\* another provider is left out.
AssistantContent(m) ==
    LET own == IF m.content[1] = "text" THEN <<TextBlock(m.content[2])>> ELSE m.content[2]
        kept == SelectSeq(own, LAMBDA b : \/ IsA("text", b) /\ Filled(b)
                                          \/ IsA("thinking", b) /\ (b.redacted \/ b.signature # None))
        replayed == [i \in DOMAIN kept |->
                        CASE IsA("text", kept[i]) -> kept[i]
                          [] kept[i].redacted     -> Redacted(kept[i].thinking)
                          [] OTHER                -> Signed(kept[i])]
        calls == OrElse(m.tool_calls, <<>>)
    IN IF m.tool_calls = None /\ m.content[1] = "text" THEN m.content
       ELSE BlocksOr(replayed \o [i \in DOMAIN calls |-> ToolUse(calls[i])], m)

ClaudeMessage(m) ==
    CASE m.role = "user"      -> [role |-> "user", content |-> UserContent(m)]
      [] m.role = "assistant" -> [role |-> "assistant", content |-> AssistantContent(m)]
      [] m.role = "tool"      ->
            [role |-> "user",
             content |-> Blocks(<<[type |-> "tool_result", tool_use_id |-> AnyId(m.id),
                                   content |-> ToolResultContent(m), is_error |-> m.is_error = Some(TRUE)]>>)]
      [] OTHER                -> [role |-> "user", content |-> Text(TextOf(m.content))]

\* messages_to_claude: the texts of system messages go in a field of their own.
ClaudeSystem(h) ==
    LET texts == SelectSeq([i \in DOMAIN MessagesIn(h) |->
                    IF MessagesIn(h)[i].role = "system" THEN TextOf(MessagesIn(h)[i].content) ELSE ""],
                    LAMBDA s : s # "")
    IN IF texts = <<>> THEN None
       ELSE Some(JoinTexts([i \in DOMAIN texts |-> (IF i = 1 THEN "" ELSE "\n\n") \o texts[i]]))

ClaudeMessages(h) ==
    LET others == SelectSeq(MessagesIn(h), LAMBDA m : m.role # "system")
    IN [i \in DOMAIN others |-> ClaudeMessage(others[i])]

\* strip_thinking_blocks.
StripThinking(cm) ==
    LET kept == SelectSeq(BlocksOf(cm.content), LAMBDA b : ~IsThinking(b)) IN
    IF cm.content[1] = "text" THEN cm
    ELSE [cm EXCEPT !.content = IF kept = <<>> THEN Text("") ELSE Blocks(kept)]

ClaudeUsage(u) ==
    Usage(u.input_tokens, u.output_tokens, OrElse(u.cache_read, 0), OrElse(u.cache_creation, 0))

StopReason(raw) ==
    CASE raw \in {"end_turn", "stop_sequence"} -> "stop"
      [] raw = "max_tokens" -> "length"
      [] OTHER -> raw

\* content_from_blocks: text alone stays a string.
ContentFromBlocks(bs) == IF AllText(bs) THEN Text(TextOf(Blocks(bs))) ELSE Blocks(bs)

\* message_from_claude_response.
FromClaude(r) ==
    LET uses == SelectSeq(r.content, LAMBDA b : b.type = "tool_use")
        rest == SelectSeq(r.content, LAMBDA b : b.type # "tool_use")
    IN [NewMessage("assistant", ContentFromBlocks([i \in DOMAIN rest |->
            CASE rest[i].type = "text"     -> rest[i]
              [] rest[i].type = "thinking" ->
                    Thinking(rest[i].thinking, IF rest[i].signature = "" THEN None ELSE Some(rest[i].signature), FALSE)
              [] OTHER                     -> Thinking(rest[i].data, None, TRUE)]))
        EXCEPT !.tool_calls = CallsOption([i \in DOMAIN uses |-> Call(Some(uses[i].id), uses[i].name, uses[i].input)]),
               !.stop_reason = MapOption(StopReason, r.stop_reason),
               !.usage = Some(ClaudeUsage(r.usage))]

-----------------------------------------------------------------------------
(* OpenAI, Chat Completions.                                                *)

ChatItem(role, content) == [role |-> role, content |-> content, calls |-> None, tool_call_id |-> None]

FunctionCall(call) == [id |-> AnyId(call.id), name |-> call.name, arguments |-> <<"text", call.parameters>>]

\* message_to_chat_json.
ToChat(m) ==
    LET text == TextOf(m.content) IN
    CASE m.role = "user" /\ m.image # None ->
            ChatItem("user", Blocks(<<TextBlock(text)>> \o Attached(m)))
      [] m.role = "user" /\ ImageBlocks(m.content) # <<>> ->
            ChatItem("user", Blocks(TextsAndImages(m.content)))
      [] m.role = "assistant" ->
            [ChatItem("assistant", Text(text)) EXCEPT !.calls =
                MapOption(LAMBDA calls : [i \in DOMAIN calls |-> FunctionCall(calls[i])], m.tool_calls)]
      [] m.role = "tool" ->
            [ChatItem("tool", Text(FallbackText(m.content))) EXCEPT !.tool_call_id = Some(OrElse(m.id, <<>>))]
      [] OTHER -> ChatItem(IF m.role = "system" THEN "system" ELSE "user", Text(text))

\* prompt_tokens include those read from the cache.
OpenAIUsage(u) ==
    Usage(Max({0, u.prompt_tokens - OrElse(u.cached_tokens, 0)}), u.completion_tokens,
          OrElse(u.cached_tokens, 0), 0)

FinishReason(raw) ==
    CASE raw \in {"tool_calls", "function_call"} -> "tool_use"
      [] raw = "content_filter" -> "error"
      [] OTHER -> raw

\* message_from_chat_response.
FromChat(r) ==
    LET reasoning == OrElse(r.reasoning_content, OrElse(r.reasoning, ""))
        refusal   == IF r.refusal = None THEN "" ELSE "Refusal: " \o r.refusal[1]
        thinking  == IF reasoning # "" /\ refusal # "" THEN reasoning \o "\n" \o refusal ELSE reasoning \o refusal
        calls     == OrElse(r.tool_calls, <<>>)
    IN [NewMessage(r.role, WithPlainThinking(thinking, OrElse(r.content, "")))
        EXCEPT !.tool_calls = CallsOption([i \in DOMAIN calls |->
            CallWith(Some(calls[i].id), calls[i].name, ParseArguments(calls[i].arguments))])]

-----------------------------------------------------------------------------
(* OpenAI, Responses.                                                       *)

MessageItem(role, m) ==
    << [type |-> "message", role |-> role,
        content |-> CASE m.image # None -> Blocks(<<TextBlock(TextOf(m.content))>> \o Attached(m))
                      [] ImageBlocks(m.content) # <<>> -> Blocks(TextsAndImages(m.content))
                      [] OTHER -> Text(TextOf(m.content))] >>

ResponseItems(m) ==
    LET calls == OrElse(m.tool_calls, <<>>) IN
    CASE m.role = "tool" ->
            << [type |-> "function_call_output", call_id |-> AnyId(m.id), output |-> FallbackText(m.content)] >>
      [] m.role = "assistant" /\ m.tool_calls # None ->
            (IF TextOf(m.content) = "" THEN <<>> ELSE MessageItem("assistant", m))
            \o [i \in DOMAIN calls |-> [type |-> "function_call", call_id |-> AnyId(calls[i].id),
                                        name |-> calls[i].name, arguments |-> <<"text", calls[i].parameters>>]]
      [] m.role = "assistant" -> MessageItem("assistant", m)
      [] m.role \in {"system", "developer"} -> MessageItem("developer", m)
      [] OTHER -> MessageItem("user", m)

\* messages_to_response_input.
ResponseInput(h) == FlattenSeq([i \in DOMAIN MessagesIn(h) |-> ResponseItems(MessagesIn(h)[i])])

\* response_output_to_message: the parts of the messages joined, a refusal among
\* them, and the calls.
FromResponse(items) ==
    LET texts(item) == [i \in DOMAIN item.content |->
                          IF item.content[i].type = "refusal" THEN "[Refusal: " \o item.content[i].text \o "]"
                          ELSE item.content[i].text]
        said  == FlattenSeq([i \in DOMAIN items |-> IF items[i].type = "message" THEN texts(items[i]) ELSE <<>>])
        calls == SelectSeq(items, LAMBDA item : item.type = "function_call")
    IN [NewMessage("assistant", Text(JoinTexts(said))) EXCEPT !.tool_calls =
          CallsOption([i \in DOMAIN calls |->
             CallWith(Some(calls[i].call_id), calls[i].name, ParseArguments(calls[i].arguments))])]

-----------------------------------------------------------------------------
(* Ollama: no ids on the wire, a call that comes is given one.              *)

ToOllama(m) ==
    LET calls  == OrElse(m.tool_calls, <<>>)
        images == Attached(m) \o ImageBlocks(m.content)
    IN [role |-> m.role,
        content |-> IF m.role = "tool" THEN FallbackText(m.content) ELSE TextOf(m.content),
        calls |-> [i \in DOMAIN calls |-> [name |-> calls[i].name, arguments |-> calls[i].parameters]],
        images |-> [i \in DOMAIN images |-> images[i].data]]

FromOllama(r, newId) ==
    [NewMessage(r.role, WithPlainThinking(OrElse(r.thinking, ""), r.content))
     EXCEPT !.tool_calls = CallsOption([i \in DOMAIN r.calls |->
                Call(Some(Append(newId, ToString(i))), r.calls[i].name, r.calls[i].arguments)])]

-----------------------------------------------------------------------------
(* Errors: the status and the phrases the body mentions.                    *)

Throttling == {"rate limit", "quota"}         \* "quota" is in each phrase about an exhausted one but billing
Exhausted  == {"exhausted", "billing"}
OverflowPhrase == ("Claude" :> "prompt is too long") @@ ("OpenAI" :> "maximum context length")
                  @@ ("Ollama" :> "exceeds context length")

\* is_context_overflow.
IsOverflow(provider, status, phrases) ==
    \/ provider = "Claude" /\ status = 413
    \/ OverflowPhrase[provider] \in phrases /\ phrases \cap Throttling = {}

\* Mutant: the overflow is looked for before the status.
HttpErrorOverflowFirst(provider, status, phrases) ==
    CASE IsOverflow(provider, status, phrases) -> "ContextOverflow"
      [] status = 429 -> IF phrases \cap Exhausted # {} THEN "InvalidConfig" ELSE "RateLimited"
      [] status \in 500 .. 599 -> "Overloaded"
      [] OTHER -> "IoError"

\* map_http_error.
HttpError(provider, status, phrases) ==
    CASE status = 429 -> IF phrases \cap Exhausted # {} THEN "InvalidConfig" ELSE "RateLimited"
      [] status # 429 /\ IsOverflow(provider, status, phrases) -> "ContextOverflow"
      [] OTHER ->
            CASE status = 400 -> "InvalidValue"
              [] status = 401 -> "InvalidConfig"
              [] status = 404 /\ provider = "Ollama" -> "InvalidConfig"
              [] status \in (IF provider = "Ollama" THEN 502 .. 504 ELSE 500 .. 599) -> "Overloaded"
              [] OTHER -> "IoError"

IsRetryable(error) == error \in {"RateLimited", "Overloaded", "Timeout"}
=============================================================================
