------------------------------ MODULE ChatTurn ------------------------------
(***************************************************************************)
(* One Chat (or Responses) module of modular-agent-llm: a turn asks the    *)
(* provider, retrying what may be retried, then follows the stream and     *)
(* sends the accumulated message again and again on the message port, the  *)
(* last time as final.  Everything is raced against the token of the flow, *)
(* which each poll reads first; a token that fires inside a poll is seen   *)
(* by the next one.                                                        *)
(*                                                                         *)
(* The provider and the settings are chosen in Init.  Text is left out:    *)
(* what a message carries here is its tool calls and its stop_reason.      *)
(***************************************************************************)
EXTENDS Naturals, Sequences, FiniteSets

CONSTANTS
    LoopFlows,
    MaxTurns,      \* bound: turns in a behaviour
    MaxRetries,    \* bound of the max_retries setting
    MaxEvents      \* bound: chunks of one stream

ASSUME ChatAssumption ==
    MaxTurns \in Nat /\ MaxRetries \in Nat /\ MaxEvents \in Nat

VARIABLES
    provider, stream, emitPartials, maxRetries,    \* the settings
    fired,         \* flows that were aborted
    pc, ofFlow, turn, attempt,
    events,        \* chunks of the stream so far
    message,       \* the message being assembled
    unshown,       \* tool calls of the stream that message does not show yet
    reason,        \* the stop_reason the stream has told
    response,      \* last_response_id: the turn of the response to go on from
    out,           \* everything sent on the message port
    ended          \* how the last turn ended

settings == <<provider, stream, emitPartials, maxRetries>>
stream_  == <<events, message, unshown, reason>>
chatVars == <<settings, fired, pc, ofFlow, turn, attempt, stream_, response, out, ended>>

Providers == {"claude", "openai", "ollama", "responses"}

ChatInit ==
    /\ provider \in Providers /\ stream \in BOOLEAN /\ emitPartials \in BOOLEAN
    /\ ~stream => emitPartials
    /\ maxRetries \in 0 .. MaxRetries
    /\ fired = {}
    /\ pc = "idle" /\ ofFlow \in LoopFlows /\ turn = 0 /\ attempt = 0
    /\ events = 0
    /\ message = [streaming |-> FALSE, calls |-> 0, reason |-> "none"]
    /\ unshown = 0 /\ reason = "none"
    /\ response = 0
    /\ out = <<>>
    /\ ended = "ok"

Fired == ofFlow \in fired

\* The message as it goes out on the port.
Port(m) == [turn |-> turn, flow |-> ofFlow, streaming |-> m.streaming,
            calls |-> m.calls, reason |-> m.reason]

Send(m)        == out' = Append(out, Port(m))
SendPartial(m) == out' = IF emitPartials THEN Append(out, Port(m)) ELSE out

Return(how) == pc' = "idle" /\ ended' = how

-----------------------------------------------------------------------------
(* process() up to the first chunk; a turn begins with a message of flow f. *)

\* The turn of a flow; an aborted one is refused, and what is wrong with the
\* settings, the input or the tools ends the turn before it asks anything.
Begin(f) ==
    \/ /\ pc = "idle" /\ f \notin fired /\ turn < MaxTurns
       /\ pc' = "asking"
       /\ ofFlow' = f
       /\ turn' = turn + 1
       /\ attempt' = 0
       /\ events' = 0 /\ unshown' = 0 /\ reason' = "none"
       /\ message' = [streaming |-> stream, calls |-> 0, reason |-> "none"]
       /\ UNCHANGED <<settings, fired, response, out, ended>>
    \/ pc = "idle" /\ UNCHANGED chatVars

\* Mutant: a request that failed is tried again although its flow is aborted.
RetryBlindly ==
    /\ pc = "backoff"
    /\ pc' = "asking" /\ attempt' = attempt + 1
    /\ UNCHANGED <<settings, fired, ofFlow, turn, stream_, response, out, ended>>

\* with_retry: an error that may be retried, a timeout of the attempt included.
AskFails(retryable) ==
    /\ pc = "asking" /\ ~Fired
    /\ IF retryable /\ attempt < maxRetries
       THEN pc' = "backoff" /\ UNCHANGED ended
       ELSE Return("error")
    /\ UNCHANGED <<settings, fired, ofFlow, turn, attempt, stream_, response, out>>

Retry ==
    /\ pc = "backoff" /\ ~Fired
    /\ pc' = "asking" /\ attempt' = attempt + 1
    /\ UNCHANGED <<settings, fired, ofFlow, turn, stream_, response, out, ended>>

\* request_or_cancelled: nothing was sent yet, the request is dropped.
AskAborted ==
    /\ pc \in {"asking", "backoff"} /\ Fired
    /\ Return("cancelled")
    /\ UNCHANGED <<settings, fired, ofFlow, turn, attempt, stream_, response, out>>

\* A response that is not streamed is one final message.
Answered ==
    /\ pc = "asking" /\ ~Fired /\ ~stream
    /\ \E n \in {0, 1}, r \in {"stop", "length"} :
          /\ message' = [streaming |-> FALSE, calls |-> n, reason |-> r]
          /\ Send(message')
    /\ response' = IF provider = "responses" THEN turn ELSE response
    /\ Return("ok")
    /\ UNCHANGED <<settings, fired, ofFlow, turn, attempt, events, unshown, reason>>

Established ==
    /\ pc = "asking" /\ ~Fired /\ stream
    /\ pc' = "streaming"
    /\ UNCHANGED <<settings, fired, ofFlow, turn, attempt, stream_, response, out, ended>>

-----------------------------------------------------------------------------
(* run_claude_stream, run_openai_stream, run_ollama_stream, run_stream.     *)

\* One more chunk of an answer that has not ended.
Chunk ==
    /\ pc = "streaming" /\ ~Fired
    /\ message.streaming /\ events < MaxEvents
    /\ events' = events + 1
    /\ UNCHANGED <<settings, fired, pc, ofFlow, turn, attempt, response, ended>>

\* Text: a partial, which shows the calls assembled so far except for OpenAI.
Text ==
    /\ Chunk
    /\ SendPartial(message)
    /\ UNCHANGED <<message, unshown, reason>>

\* A tool call is complete.  Claude and Responses re-send the message with it,
\* Ollama sends it whole with its chunk; the fragments of Chat Completions
\* become calls only after the stream.
ToolCall ==
    /\ Chunk
    /\ IF provider = "openai"
       THEN unshown' = unshown + 1 /\ UNCHANGED message
       ELSE message' = [message EXCEPT !.calls = @ + 1] /\ UNCHANGED unshown
    /\ SendPartial(message')
    /\ UNCHANGED reason

\* The reason arrives apart: message_delta, finish_reason, and for Responses
\* an incomplete or failed response.
Reason ==
    /\ provider # "ollama"
    /\ Chunk
    /\ \E r \in IF provider = "responses" THEN {"length", "error"} ELSE {"stop", "length"} :
          reason' = r
    /\ IF provider = "openai" THEN SendPartial(message) ELSE UNCHANGED out
    /\ UNCHANGED <<message, unshown>>

\* message_stop, the chunk with done = true, response.completed.  A second
\* terminator of a Claude stream is ignored; Responses completes once.  Ollama
\* leaves its loop.
Terminator ==
    /\ pc = "streaming" /\ ~Fired /\ provider # "openai"
    /\ IF provider = "claude" THEN TRUE ELSE message.streaming
    /\ IF message.streaming
       THEN \E r \in IF provider = "claude" THEN {reason} ELSE {"stop", "length"} :
              /\ message' = [message EXCEPT !.streaming = FALSE, !.reason = r]
              /\ Send(message')
       ELSE UNCHANGED <<message, out>>
    /\ response' = IF provider = "responses" THEN turn ELSE response
    /\ IF provider = "ollama" THEN Return("ok") ELSE UNCHANGED <<pc, ended>>
    /\ UNCHANGED <<settings, fired, ofFlow, turn, attempt, events, unshown, reason>>

\* The stream ends.  Chat Completions and Responses send what has no final
\* yet; a Claude or Ollama stream that ends without its terminator ends the
\* turn as it is.
EndOfStream ==
    /\ pc = "streaming" /\ ~Fired
    /\ IF message.streaming /\ provider \in {"openai", "responses"}
       THEN /\ message' = [streaming |-> FALSE, calls |-> message.calls + unshown,
                           reason |-> reason]
            /\ Send(message')
       ELSE UNCHANGED <<message, out>>
    /\ Return("ok")
    /\ UNCHANGED <<settings, fired, ofFlow, turn, attempt, events, unshown, reason, response>>

\* Mutant: the final of a failed turn is left to whoever reads the partials.
FailSilently(how, why) ==
    /\ Return(how)
    /\ UNCHANGED <<settings, fired, ofFlow, turn, attempt, stream_, response, out>>

\* stream_error_final: a turn that sent no final gets one without tool calls.
Fail(how, why) ==
    /\ IF message.streaming
       THEN /\ message' = [streaming |-> FALSE, calls |-> 0, reason |-> why]
            /\ Send(message')
       ELSE UNCHANGED <<message, out>>
    /\ Return(how)
    /\ UNCHANGED <<settings, fired, ofFlow, turn, attempt, events, unshown, reason, response>>

StreamFails   == pc = "streaming" /\ ~Fired /\ Fail("error", "error")
StreamAborted == pc = "streaming" /\ Fired /\ Fail("cancelled", "aborted")

\* stop(), start() and the reset port of Responses.
Reset ==
    /\ provider = "responses" /\ pc = "idle" /\ response # 0
    /\ response' = 0
    /\ UNCHANGED <<settings, fired, pc, ofFlow, turn, attempt, stream_, out, ended>>

ChatStep ==
    \/ AskFails(TRUE) \/ AskFails(FALSE) \/ Retry \/ AskAborted
    \/ Answered \/ Established
    \/ Text \/ ToolCall \/ Reason \/ Terminator
    \/ EndOfStream \/ StreamFails \/ StreamAborted

FireToken(f) ==
    /\ f \notin fired
    /\ fired' = fired \cup {f}
    /\ UNCHANGED <<settings, pc, ofFlow, turn, attempt, stream_, response, out, ended>>

-----------------------------------------------------------------------------

OfTurn(t) == {i \in DOMAIN out : out[i].turn = t}
Finals(t) == {i \in OfTurn(t) : ~out[i].streaming}

\* Whoever acts on the message port acts once: a turn has at most one final
\* message, nothing of the turn comes after it, and a turn that is over left no
\* partial behind, however it failed or was aborted; only a Claude or Ollama
\* stream that ends without its terminator does, as if it were complete.
OneFinal ==
    /\ \A t \in 1 .. turn :
          /\ Cardinality(Finals(t)) <= 1
          /\ \A i \in Finals(t), j \in OfTurn(t) : j <= i
          /\ (OfTurn(t) # {} /\ Finals(t) = {}) =>
                (t = turn /\ pc = "streaming") \/ provider \in {"claude", "ollama"}
    /\ (pc = "idle" /\ ended # "ok" /\ OfTurn(turn) # {}) => Finals(turn) # {}

\* Once its flow is aborted a turn asks for nothing and sends nothing more than
\* one final message, marked aborted and without tool calls.
AbortedIsLast ==
    (Fired /\ pc # "idle") =>
       /\ pc' \in {pc, "idle"}
       /\ out' # out => /\ ~out'[Len(out')].streaming
                        /\ out'[Len(out')].reason = "aborted"
                        /\ out'[Len(out')].calls = 0
=============================================================================
