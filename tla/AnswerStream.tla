---------------------------- MODULE AnswerStream ----------------------------
(***************************************************************************)
(* A streamed answer: the loops of chat.rs and responses.rs that put the   *)
(* message of a turn together from what the provider sends, event by       *)
(* event, and tell the event port of the tool calls as they come.  When    *)
(* the turn is asked for, retried, cut short or fails is in ChatTurn.      *)
(*                                                                         *)
(* heard is the stream so far, <<kind, payload>> each; the grammar of each *)
(* provider is the environment; a refusal is left out.  The text of        *)
(* arguments comes in two pieces, "{" and "}", which together parse to an  *)
(* object with one argument; one piece does not parse, and no text is an   *)
(* object with none.  An index of the event port is counted from 0.        *)
(***************************************************************************)
EXTENDS Requests

CONSTANTS Reasons,     \* why an answer ends, by source
          MaxHeard     \* bound: events of a stream, by source

VARIABLES source,      \* "Claude", "OpenAI", "Ollama" or "Responses"
          heard,       \* what the provider has sent
          draft,       \* what the loop holds beside the message
          answer,      \* the message
          told         \* the tool call events sent on the event port

streamVars == <<source, heard, draft, answer, told>>

Draft == [thinking |-> "", content |-> "",            \* OpenAI, Ollama, Responses
          blocks |-> <<>>, at |-> Nothing_,           \* Claude: the blocks, and which one an index is
          pending |-> Nothing_,                       \* OpenAI: calls by their index
          calls |-> <<>>,                             \* the others: calls that are complete,
          id |-> None, name |-> None, arguments |-> "",  \* and the one that comes
          reason |-> None, usage |-> None]

StreamInit ==
    /\ source \in DOMAIN Reasons
    /\ heard = <<>>
    /\ draft = Draft
    /\ answer = [NewMessage("assistant", Text("")) EXCEPT !.streaming = TRUE]
    /\ told = <<>>

StreamOf(kind)   == SelectSeq(heard, LAMBDA e : e[1] = kind)
Heard(kind) == StreamOf(kind) # <<>>
Comes(kind, payload) ==
    /\ Len(heard) < MaxHeard[source]
    /\ heard' = Append(heard, <<kind, payload>>)
    /\ UNCHANGED source

\* What the two pieces of a text of arguments, put together, say.
Plainly == Obj("a" :> Int_(1))

\* parse_tool_arguments of a text.
Parsed(text) ==
    ParseArguments(CASE text = ""   -> <<"blank">>
                     [] text = "{}" -> <<"text", Plainly>>
                     [] OTHER       -> <<"broken">>)

CallStarted(index)       == <<"start", index>>
CallDelta(index, text) == <<"delta", index, text>>
CallEnded(index, call)   == <<"end", index, call>>
Tell(events)       == told' = told \o events

\* The text an event brings: another one each time, so that their order shows.
Piece        == ToString(Len(heard))
Json(before) == IF before = "" THEN "{" ELSE "}"

OptCalls(m, calls) == [m EXCEPT !.tool_calls = IF calls = <<>> THEN @ ELSE Some(calls)]

-----------------------------------------------------------------------------
(* OpenAI, Chat Completions: run_openai_stream.                             *)

ChatMay == source = "OpenAI" /\ answer.streaming /\ ~Heard("reason")

\* A delta of the reasoning or of the text.
ChatDelta(field, text) ==
    /\ ChatMay /\ Comes(field, text)
    /\ draft' = [draft EXCEPT ![field] = @ \o text]
    /\ answer' = [answer EXCEPT !.content = WithPlainThinking(draft'.thinking, draft'.content)]
    /\ UNCHANGED told

\* Mutant: what comes later stands for all.
AccumulateLast(pending, f) ==
    (f.index :> [id |-> f.id, name |-> OrElse(f.name, ""), arguments |-> OrElse(f.arguments, "")]) @@ pending

\* accumulate_tool_call_chunks: an index is a call; names and arguments come in pieces.
Accumulate(pending, f) ==
    LET was == IF f.index \in DOMAIN pending THEN pending[f.index] ELSE [id |-> None, name |-> "", arguments |-> ""]
    IN (f.index :> [id |-> IF f.id # None THEN f.id ELSE was.id,
                    name |-> was.name \o OrElse(f.name, ""),
                    arguments |-> was.arguments \o OrElse(f.arguments, "")]) @@ pending

\* finalize_pending_tool_calls, in the order of the indices.
Finalize(pending) ==
    LET indices == SetToSortSeq(DOMAIN pending, LAMBDA i, j : i < j)
    IN [k \in DOMAIN indices |->
          LET p == pending[indices[k]] IN CallWith(p.id, p.name, Parsed(p.arguments))]

\* A fragment of a call: the port is told the rank of its index.
ChatFragment(f) ==
    /\ ChatMay /\ Comes("fragment", f)
    /\ draft' = [draft EXCEPT !.pending = Accumulate(@, f)]
    /\ LET rank == Cardinality({i \in DOMAIN draft'.pending : i <= f.index}) - 1
       IN Tell((IF f.index \in DOMAIN draft.pending THEN <<>> ELSE <<CallStarted(rank)>>)
               \o (IF OrElse(f.arguments, "") = "" THEN <<>> ELSE <<CallDelta(rank, f.arguments[1])>>))
    /\ UNCHANGED answer

ChatFinish(reason) ==
    /\ ChatMay /\ Comes("reason", reason)
    /\ draft' = [draft EXCEPT !.reason = Some(reason)]
    /\ UNCHANGED <<answer, told>>

ChatUsage(u) ==
    /\ source = "OpenAI" /\ answer.streaming /\ Heard("reason") /\ ~Heard("usage") /\ Comes("usage", u)
    /\ draft' = [draft EXCEPT !.usage = Some(OpenAIUsage(u))]
    /\ UNCHANGED <<answer, told>>

\* The stream is over: the calls are finalized, the message sent as final.
ChatEnd ==
    /\ source = "OpenAI" /\ answer.streaming
    /\ LET calls == Finalize(draft.pending) IN
         /\ Tell([k \in DOMAIN calls |-> CallEnded(k - 1, calls[k])])
         /\ answer' = [OptCalls(answer, calls) EXCEPT
                       !.content = WithPlainThinking(draft.thinking, draft.content),
                       !.streaming = FALSE, !.stop_reason = MapOption(FinishReason, draft.reason),
                       !.usage = draft.usage]
    /\ UNCHANGED <<source, heard, draft>>

\* A call is numbered above those before it; its first fragment has its id and name.
ChatStep ==
    \/ \E field \in {"thinking", "content"} : ChatDelta(field, Piece)
    \/ \E i \in {1, 3}, new \in BOOLEAN, blank \in BOOLEAN :
          /\ i \notin DOMAIN draft.pending => \A j \in DOMAIN draft.pending : j < i
          /\ new = (i \notin DOMAIN draft.pending)
          /\ ChatFragment([index |-> i, id |-> IF new THEN Some(<<"id", ToString(i)>>) ELSE None,
                           name |-> IF new THEN Some("f") ELSE None,
                           arguments |-> IF blank THEN None
                                         ELSE Some(Json(IF new THEN "" ELSE draft.pending[i].arguments))])
    \/ \E reason \in Reasons["OpenAI"] : ChatFinish(reason)
    \/ \E cached \in {None, Some(1)} :
          ChatUsage([prompt_tokens |-> 3, completion_tokens |-> 2, cached_tokens |-> cached])
    \/ ChatEnd

-----------------------------------------------------------------------------
(* Claude: run_claude_stream.                                               *)

ClaudeMay == source = "Claude"

\* Is a block open, of what kind?
OpenBlock == IF Len(StreamOf("block")) > Len(StreamOf("stop")) THEN Some(Last(StreamOf("block"))[2]) ELSE None
Index     == Len(StreamOf("block")) - 1

MessageStart(u) ==
    /\ ClaudeMay /\ heard = <<>> /\ Comes("begin", u)
    /\ draft' = [draft EXCEPT !.usage = Some(ClaudeUsage(u))]
    /\ UNCHANGED <<answer, told>>

\* content_block_start: a call is held apart, anything else is a block.
BlockStart(b) ==
    /\ ClaudeMay /\ Heard("begin") /\ ~Heard("reason") /\ OpenBlock = None /\ Comes("block", b)
    /\ IF b.type = "tool_use"
       THEN /\ draft' = [draft EXCEPT !.id = Some(b.id), !.name = Some(b.name), !.arguments = ""]
            /\ Tell(<<CallStarted(Len(draft.calls))>>)
            /\ UNCHANGED answer
       ELSE /\ draft' = [draft EXCEPT
                !.at = (Index' :> Len(draft.blocks) + 1) @@ @,
                !.blocks = Append(@, CASE b.type = "text"     -> TextBlock(b.text)
                                       [] b.type = "thinking" ->
                                            Thinking(b.thinking, IF b.signature = "" THEN None ELSE Some(b.signature), FALSE)
                                       [] OTHER               -> Thinking(b.data, None, TRUE))]
            /\ answer' = IF b.type = "redacted_thinking"
                         THEN [answer EXCEPT !.content = ContentFromBlocks(draft'.blocks)] ELSE answer
            /\ UNCHANGED told

\* content_block_delta, by the kind of the open block.
BlockDelta(kind, text) ==
    /\ ClaudeMay /\ OpenBlock # None /\ Comes("delta", <<Index, kind, text>>)
    /\ CASE kind = "input" ->
              /\ draft' = [draft EXCEPT !.arguments = @ \o text]
              /\ Tell(<<CallDelta(Len(draft.calls), text)>>)
              /\ UNCHANGED answer
         [] kind = "signature" ->
              /\ draft' = [draft EXCEPT !.blocks[draft.at[Index]].signature = Some(OrElse(@, "") \o text)]
              /\ UNCHANGED <<answer, told>>
         [] kind \in {"text", "thinking"} ->
              /\ draft' = [draft EXCEPT !.blocks[draft.at[Index]][kind] = @ \o text]
              /\ answer' = LET m == [answer EXCEPT !.content = ContentFromBlocks(draft'.blocks)]
                           IN IF kind = "text" THEN OptCalls(m, draft.calls) ELSE m
              /\ UNCHANGED told

\* content_block_stop: the call that comes is complete.
BlockStop ==
    /\ ClaudeMay /\ OpenBlock # None /\ Comes("stop", Index)
    /\ IF draft.name = None THEN UNCHANGED <<draft, answer, told>>
       ELSE LET call == CallWith(draft.id, draft.name[1], Parsed(draft.arguments)) IN
            /\ draft' = [draft EXCEPT !.calls = Append(@, call), !.id = None, !.name = None, !.arguments = ""]
            /\ answer' = OptCalls([answer EXCEPT !.content = ContentFromBlocks(draft.blocks)], draft'.calls)
            /\ Tell(<<CallEnded(Len(draft.calls), call)>>)

MessageDelta(reason, output) ==
    /\ ClaudeMay /\ Heard("begin") /\ ~Heard("reason") /\ OpenBlock = None /\ Comes("reason", <<reason, output>>)
    /\ draft' = [draft EXCEPT !.reason = Some(StopReason(reason)), !.usage = Some([@[1] EXCEPT !.output_tokens = output])]
    /\ UNCHANGED <<answer, told>>

\* message_stop, which may come again.
MessageStop ==
    /\ ClaudeMay /\ Heard("reason") /\ Comes("end", 0)
    /\ answer' = IF ~answer.streaming THEN answer
                 ELSE OptCalls([answer EXCEPT !.content = ContentFromBlocks(draft.blocks), !.streaming = FALSE,
                                              !.stop_reason = draft.reason, !.usage = draft.usage], draft.calls)
    /\ UNCHANGED <<draft, told>>

DeltaKinds == ("text" :> {"text"}) @@ ("thinking" :> {"thinking", "signature"}) @@ ("tool_use" :> {"input"})
              @@ ("redacted_thinking" :> {})
ClaudeStep ==
    \/ MessageStart([input_tokens |-> 3, output_tokens |-> 1, cache_read |-> Some(2), cache_creation |-> None])
    \/ \E b \in {TextBlock(""), [type |-> "tool_use", id |-> <<"id", ToString(Len(heard))>>, name |-> "f"],
                 [type |-> "thinking", thinking |-> "", signature |-> ""],
                 [type |-> "redacted_thinking", data |-> "z"]} : BlockStart(b)
    \/ /\ OpenBlock # None
       /\ \E kind \in DeltaKinds[OpenBlock[1].type] :
            BlockDelta(kind, IF kind = "input" THEN Json(draft.arguments) ELSE Piece)
    \/ BlockStop
    \/ \E reason \in Reasons["Claude"] : MessageDelta(reason, 5)
    \/ MessageStop

-----------------------------------------------------------------------------
(* OpenAI, Responses: run_stream of responses.rs.                           *)

RespondMay == source = "Responses" /\ answer.streaming
OpenItem   == IF Len(StreamOf("item")) > Len(StreamOf("stop")) THEN Some(Last(StreamOf("item"))[2]) ELSE None

OutputText(text) ==
    /\ RespondMay /\ Comes("content", text)
    /\ draft' = [draft EXCEPT !.content = @ \o text]
    /\ answer' = [answer EXCEPT !.content = Text(draft'.content)]
    /\ UNCHANGED told

\* response.output_item.added: only a call has a name.
ItemAdded(item) ==
    /\ RespondMay /\ OpenItem = None /\ ~Heard("reason") /\ Comes("item", item)
    /\ IF item.type = "function_call"
       THEN /\ draft' = [draft EXCEPT !.name = Some(item.name), !.id = Some(item.call_id), !.arguments = ""]
            /\ Tell(<<CallStarted(Len(draft.calls))>>)
       ELSE UNCHANGED <<draft, told>>
    /\ UNCHANGED answer

ArgumentsDelta(text) ==
    /\ RespondMay /\ Comes("arguments", text)
    /\ draft' = [draft EXCEPT !.arguments = @ \o text]
    /\ IF draft.name = None THEN UNCHANGED told ELSE Tell(<<CallDelta(Len(draft.calls), text)>>)
    /\ UNCHANGED answer

ItemDone ==
    /\ RespondMay /\ OpenItem # None /\ Comes("stop", 0)
    /\ IF draft.name = None THEN UNCHANGED <<draft, answer, told>>
       ELSE LET call == CallWith(draft.id, draft.name[1], Parsed(draft.arguments)) IN
            /\ draft' = [draft EXCEPT !.calls = Append(@, call), !.name = None, !.id = None, !.arguments = ""]
            /\ answer' = OptCalls(answer, draft'.calls)
            /\ Tell(<<CallEnded(Len(draft.calls), call)>>)

\* stop_reason_from_response: the status, or why it is incomplete.
ResponseReason(status, hasCalls) ==
    CASE status = "completed"         -> IF hasCalls THEN "tool_use" ELSE "stop"
      [] status = "max_output_tokens" -> "length"
      [] status \in {"content_filter", "failed"} -> "error"
      [] OTHER                        -> status

\* The terminal events: completed sends the final message, the others leave it
\* to the end of the stream.
Terminal(status, u) ==
    /\ RespondMay /\ OpenItem = None /\ ~Heard("reason") /\ Comes("reason", <<status, u>>)
    /\ LET m == [answer EXCEPT !.stop_reason = Some(ResponseReason(status, draft.calls # <<>>)),
                               !.usage = MapOption(OpenAIUsage, u)]
       IN answer' = IF status # "completed" THEN m
                    ELSE OptCalls([m EXCEPT !.content = Text(draft.content), !.streaming = FALSE], draft.calls)
    /\ UNCHANGED <<draft, told>>

RespondEnd ==
    /\ RespondMay /\ Heard("reason")
    /\ answer' = OptCalls([answer EXCEPT !.content = Text(draft.content), !.streaming = FALSE], draft.calls)
    /\ UNCHANGED <<source, heard, draft, told>>

RespondStep ==
    \/ /\ OpenItem # None /\ OpenItem[1].type = "message"
       /\ OutputText(Piece)
    \/ \E item \in {[type |-> "message"], [type |-> "function_call", name |-> "f", call_id |-> <<"id", ToString(Len(heard))>>]} :
          ItemAdded(item)
    \/ /\ OpenItem # None /\ OpenItem[1].type = "function_call"
       /\ ArgumentsDelta(Json(draft.arguments))
    \/ ItemDone
    \/ \E status \in Reasons["Responses"],
          u \in {None, Some([prompt_tokens |-> 3, completion_tokens |-> 2, cached_tokens |-> None])} : Terminal(status, u)
    \/ RespondEnd

-----------------------------------------------------------------------------
(* Ollama: run_ollama_stream.  A call comes whole and is given an id.       *)

GivenId(k) == <<"u", ToString(k)>>

\* Arguments that have "properties" stand for these, in a stream alone.
Unwrapped(arguments) ==
    IF arguments[1] = "obj" /\ "properties" \in DOMAIN arguments[2] THEN arguments[2]["properties"] ELSE arguments

\* Mutant: the arguments are taken as they come.
ChunkCallAsGiven(n, c) == Call(Some(GivenId(n)), c.name, c.arguments)
ChunkCall(n, c) == Call(Some(GivenId(n)), c.name, Unwrapped(c.arguments))

OllamaChunk(c) ==
    /\ source = "Ollama" /\ answer.streaming /\ Comes("chunk", c)
    /\ LET first == Len(draft.calls)
           calls == [k \in DOMAIN c.calls |-> ChunkCall(first + k, c.calls[k])]
           final == c.done # None
       IN /\ draft' = [draft EXCEPT !.content = @ \o c.content, !.thinking = @ \o OrElse(c.thinking, ""),
                                    !.calls = @ \o calls]
          /\ Tell(FlattenSeq([k \in DOMAIN calls |-> <<CallStarted(first + k - 1), CallEnded(first + k - 1, calls[k])>>]))
          /\ answer' = [OptCalls(answer, draft'.calls) EXCEPT
                        !.content = WithPlainThinking(draft'.thinking, draft'.content),
                        !.streaming = ~final,
                        !.stop_reason = IF final THEN c.done ELSE @,
                        !.usage = IF final THEN c.usage ELSE @]

Wrapped == Obj(("type" :> Str("object")) @@ ("properties" :> Plainly))
ChunkCalls(names, arguments) == [k \in DOMAIN names |-> [name |-> names[k], arguments |-> arguments[k]]]

OllamaStep ==
    \E content \in {"", Piece}, thinking \in {None, Some(Piece)},
       calls \in {<<>>, ChunkCalls(<<"f">>, <<Plainly>>), ChunkCalls(<<"f", "g">>, <<Wrapped, Obj(EmptyObj)>>)} :
      \E done \in {None} \cup {Some(r) : r \in Reasons["Ollama"]} :
        OllamaChunk([content |-> content, thinking |-> thinking, done |-> done,
                     calls |-> calls,
                     usage |-> IF done = None THEN None ELSE Some(Usage(1, 1, 0, 0))])

StreamNext == ChatStep \/ ClaudeStep \/ RespondStep \/ OllamaStep

-----------------------------------------------------------------------------
(* The answer as it would have come whole.                                  *)

Joined(kind) == JoinTexts([i \in DOMAIN StreamOf(kind) |-> StreamOf(kind)[i][2]])

WholeChat ==
    LET fragments == [i \in DOMAIN StreamOf("fragment") |-> StreamOf("fragment")[i][2]]
        firsts == SelectSeq(fragments, LAMBDA f : f.id # None)
        Arguments(i) == JoinTexts([k \in DOMAIN fragments |->
                            IF fragments[k].index = i THEN OrElse(fragments[k].arguments, "") ELSE ""])
        calls == [k \in DOMAIN firsts |-> CallWith(firsts[k].id, firsts[k].name[1], Parsed(Arguments(firsts[k].index)))]
        m == FromChat([role |-> "assistant", content |-> Some(Joined("content")), refusal |-> None,
                       reasoning_content |-> Some(Joined("thinking")), reasoning |-> None, tool_calls |-> None])
    IN [OptCalls(m, calls) EXCEPT
        !.stop_reason = IF Heard("reason") THEN Some(FinishReason(StreamOf("reason")[1][2])) ELSE None,
        !.usage = IF Heard("usage") THEN Some(OpenAIUsage(StreamOf("usage")[1][2])) ELSE None]

WholeClaude ==
    LET text(i, kind) == LET ds == SelectSeq(StreamOf("delta"), LAMBDA d : d[2][1] = i - 1 /\ d[2][2] = kind)
                         IN JoinTexts([k \in DOMAIN ds |-> ds[k][2][3]])
        block(i) == LET b == StreamOf("block")[i][2] IN
                    CASE b.type = "text"     -> TextBlock(text(i, "text"))
                      [] b.type = "thinking" -> [b EXCEPT !.thinking = text(i, "thinking"), !.signature = text(i, "signature")]
                      [] b.type = "tool_use" -> [type |-> "tool_use", id |-> b.id, name |-> b.name,
                                                 input |-> Parsed(text(i, "input")).parameters]
                      [] OTHER               -> b
        uses == SelectSeq([i \in DOMAIN StreamOf("block") |-> i], LAMBDA i : StreamOf("block")[i][2].type = "tool_use")
        whole == FromClaude([content |-> [i \in DOMAIN StreamOf("block") |-> block(i)],
                             stop_reason |-> Some(StreamOf("reason")[1][2][1]),
                             usage |-> [StreamOf("begin")[1][2] EXCEPT !.output_tokens = StreamOf("reason")[1][2][2]]])
    IN IF uses = <<>> THEN whole
       ELSE [whole EXCEPT !.tool_calls[1] =
               [k \in DOMAIN uses |-> [@[k] EXCEPT !.parse_error = Parsed(text(uses[k], "input")).parse_error]]]

WholeResponse ==
    LET Before(i, kind) == SelectSeq(SubSeq(heard, 1, i), LAMBDA e : e[1] = kind)
        Mine(k, kind) == JoinTexts([i \in DOMAIN heard |->
                            IF heard[i][1] = kind /\ Len(Before(i, "item")) = k THEN heard[i][2] ELSE ""])
        items == [k \in DOMAIN StreamOf("item") |->
                    LET item == StreamOf("item")[k][2] IN
                    IF item.type = "message"
                    THEN [type |-> "message", content |-> <<[type |-> "output_text", text |-> Mine(k, "content")]>>]
                    ELSE [type |-> "function_call", name |-> item.name, call_id |-> item.call_id,
                          arguments |-> CASE Mine(k, "arguments") = ""   -> <<"blank">>
                                          [] Mine(k, "arguments") = "{}" -> <<"text", Plainly>>
                                          [] OTHER                       -> <<"broken">>]]
        whole == FromResponse(items)
    IN [whole EXCEPT !.stop_reason = Some(ResponseReason(StreamOf("reason")[1][2][1], whole.tool_calls # None)),
                     !.usage = MapOption(OpenAIUsage, StreamOf("reason")[1][2][2])]

WholeOllama ==
    LET chunks == [i \in DOMAIN StreamOf("chunk") |-> StreamOf("chunk")[i][2]]
        calls  == FlattenSeq([i \in DOMAIN chunks |-> chunks[i].calls])
        whole  == FromOllama([role |-> "assistant", content |-> JoinTexts([i \in DOMAIN chunks |-> chunks[i].content]),
                              thinking |-> Some(JoinTexts([i \in DOMAIN chunks |-> OrElse(chunks[i].thinking, "")])),
                              calls |-> [k \in DOMAIN calls |-> [calls[k] EXCEPT !.arguments = Unwrapped(@)]]], <<"u">>)
    IN [whole EXCEPT !.stop_reason = Last(chunks).done, !.usage = Last(chunks).usage]

Whole == CASE source = "OpenAI"    -> WholeChat
           [] source = "Claude"    -> WholeClaude
           [] source = "Responses" -> WholeResponse
           [] OTHER                -> WholeOllama

\* A streamed answer ends as the message the same answer makes when it comes
\* whole, however it was cut and whatever came in between: text, thinking with
\* its signatures, calls with their arguments, the reason and the usage.  One
\* difference is the code's own, and is allowed: a stream of Ollama takes the
\* "properties" of arguments for the arguments (chat.rs:1378-1381), and a whole
\* answer takes them as they are (ollama_client.rs:458).
StreamedIsWhole == ~answer.streaming => answer = Whole

\* What the event port was told of a call bears the place the call has in the
\* final message: it is started once, the deltas add up to its arguments, and
\* its end has it as the message does.
EventsTell ==
    ~answer.streaming =>
        LET calls == OrElse(answer.tool_calls, <<>>)
            About(kind, k) == SelectSeq(told, LAMBDA e : e[1] = kind /\ e[2] = k - 1)
            Text_(k) == JoinTexts([i \in DOMAIN About("delta", k) |-> About("delta", k)[i][3]])
        IN /\ \A i \in DOMAIN told : told[i][2] + 1 \in DOMAIN calls
           /\ \A k \in DOMAIN calls :
                /\ Len(About("start", k)) = 1
                /\ About("end", k) = <<CallEnded(k - 1, calls[k])>>
                /\ source # "Ollama" => Parsed(Text_(k)) = [parameters |-> calls[k].parameters,
                                                           parse_error |-> calls[k].parse_error]

\* Nothing is lost on the wire, on the way out or on the way back.
WireHolds == WireKeeps /\ StreamedIsWhole /\ EventsTell
=============================================================================
