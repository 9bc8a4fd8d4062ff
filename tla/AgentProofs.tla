----------------------------- MODULE AgentProofs -----------------------------
(***************************************************************************)
(* Theorems about the cycle of an agent (ChatTurn, AgentLoop), for any     *)
(* flows and number of turns, retries, chunks and iterations, and about    *)
(* the custom tools it may call (CustomTool), for any tools, names, flows, *)
(* callers and number of calls.                                            *)
(*                                                                         *)
(*   AgentInvHolds            the inductive invariant of the cycle         *)
(*   OneFinalHolds            a turn has at most one final message, last   *)
(*   CallsRunOnceHolds        rounds end, and calls run once               *)
(*   WholeCallsRunHolds       cut and aborted messages run nothing         *)
(*   AbortEndsHolds           an aborted flow starts nothing more          *)
(*   CustomToolTypeCorrect    the type invariant of the tools              *)
(*   FoundToolRunsHolds       a registered tool runs under its name        *)
(*   CallInvHolds             the inductive invariant of the calls         *)
(*   NoLeftoverSenderHolds    no sender outlives its call                  *)
(*   ResultStaysInFlowHolds   a result keeps its flow and its module       *)
(*   CallsReachTheirToolHolds a call is answered by the tool of the name   *)
(*                                                                         *)
(* ChatInv says what a turn has put on the message port so far; AgentInv   *)
(* adds what the tables of Loop Control and Call Tool Message know of the  *)
(* messages that passed them.                                              *)
(***************************************************************************)
EXTENDS AgentLoop, CustomTool, FiniteSetTheorems, TLAPS


-----------------------------------------------------------------------------
(* The invariant of the turns.                                              *)

Reasons  == {"none", "stop", "length", "error"}
Messages == [streaming : BOOLEAN, calls : Nat, reason : Reasons \cup {"aborted"}]
Posted   == [turn : 1 .. MaxTurns, flow : LoopFlows, streaming : BOOLEAN,
             calls : Nat, reason : Reasons \cup {"aborted"}]

ChatOK ==
    /\ provider \in Providers /\ stream \in BOOLEAN /\ emitPartials \in BOOLEAN
    /\ fired \subseteq LoopFlows
    /\ pc \in {"idle", "asking", "backoff", "streaming"}
    /\ ofFlow \in LoopFlows /\ turn \in 0 .. MaxTurns
    /\ message \in Messages /\ unshown \in Nat /\ reason \in Reasons
    /\ out \in Seq(Posted)
    /\ pc # "idle" => turn > 0 /\ message.reason # "aborted"

\* The messages of a turn are of one flow, and none is of a turn to come.
TurnsInOrder ==
    \A i \in DOMAIN out :
       /\ out[i].turn <= turn
       /\ out[i].turn = turn => out[i].flow = ofFlow
       /\ \A j \in DOMAIN out : out[j].turn = out[i].turn => out[j].flow = out[i].flow

HasFinal(o, t) == \E i \in DOMAIN o : o[i].turn = t /\ ~o[i].streaming

\* Until its answer begins a turn has sent nothing; while the answer streams
\* the message is final exactly when its final is out.
FinalKnown ==
    /\ pc \in {"asking", "backoff"} =>
          message.streaming = stream /\ \A i \in DOMAIN out : out[i].turn # turn
    /\ pc = "streaming" => (message.streaming <=> ~HasFinal(out, turn))

AbortedIsEmpty == \A i \in DOMAIN out : out[i].reason = "aborted" => out[i].calls = 0

FinalIsLast ==
    \A i, j \in DOMAIN out :
       out[i].turn = out[j].turn /\ ~out[i].streaming => j <= i

NoPartialLeft ==
    \A i \in DOMAIN out :
       \/ HasFinal(out, out[i].turn)
       \/ /\ provider \in {"claude", "ollama"} \/ (out[i].turn = turn /\ pc = "streaming")
          /\ ~(pc = "idle" /\ ended # "ok" /\ out[i].turn = turn)

Sent == TurnsInOrder /\ FinalKnown /\ AbortedIsEmpty /\ FinalIsLast /\ NoPartialLeft

ChatInv == ChatOK /\ Sent

-----------------------------------------------------------------------------
(* Sequences.                                                               *)

\* What Append does, in the form the proofs below use it.
LEMMA AppendFacts ==
    ASSUME NEW S, NEW s \in Seq(S), NEW x \in S
    PROVE  /\ Append(s, x) \in Seq(S)
           /\ Len(s) \in Nat /\ Len(Append(s, x)) = Len(s) + 1
           /\ DOMAIN s = 1 .. Len(s) /\ DOMAIN Append(s, x) = 1 .. Len(s) + 1
           /\ \A i \in DOMAIN s : i \in DOMAIN Append(s, x) /\ Append(s, x)[i] = s[i]
           /\ Append(s, x)[Len(s) + 1] = x
OBVIOUS

\* The head of a sequence and what follows it.
LEMMA TailFacts ==
    ASSUME NEW S, NEW s \in Seq(S), s # <<>>
    PROVE  /\ Head(s) \in S /\ Tail(s) \in Seq(S)
           /\ Head(s) = s[1] /\ 1 \in DOMAIN s
           /\ DOMAIN s = 1 .. Len(s) /\ Len(s) \in Nat \ {0}
           /\ DOMAIN Tail(s) = 1 .. Len(s) - 1
           /\ \A i \in DOMAIN Tail(s) : i + 1 \in DOMAIN s /\ Tail(s)[i] = s[i + 1]
OBVIOUS

-----------------------------------------------------------------------------
(* The steps of a turn, as far as the message port can tell them apart.     *)

\* One that puts a message out, the last or not the last of its turn.
Sends(m) ==
    /\ out' = Append(out, Port(m))
    /\ message' = m /\ (m.reason = "aborted" => m.calls = 0)
    /\ \/ pc = "asking"
       \/ pc = "streaming" /\ message.streaming
    /\ IF m.streaming THEN pc = "streaming" /\ pc' = "streaming"
       ELSE pc' \in {"idle", "streaming"}

\* One that puts none out.
IsSilent ==
    /\ out' = out /\ message'.streaming = message.streaming
    /\ \/ pc' = pc /\ ended' = ended
       \/ pc = "asking" /\ pc' = "backoff"
       \/ pc = "backoff" /\ pc' = "asking"
       \/ pc \in {"asking", "backoff"} /\ pc' = "idle"
       \/ pc = "asking" /\ pc' = "streaming" /\ stream
       \/ /\ pc = "streaming" /\ pc' = "idle"
          /\ \/ ~message.streaming
             \/ ended' = "ok" /\ provider \in {"claude", "ollama"}

SameTurn == UNCHANGED <<settings, ofFlow, turn>>

\* One message more, before the final of its turn, keeps what is said of them.
LEMMA SendKeeps ==
    ASSUME ChatInv, NEW m \in Messages, Sends(m), SameTurn
    PROVE  Sent'
<1> DEFINE n == Len(out) + 1
<1>1. /\ ChatOK /\ out \in Seq(Posted) /\ turn \in 1 .. MaxTurns /\ turn \in Nat
      /\ turn' = turn /\ ofFlow' = ofFlow /\ provider' = provider /\ stream' = stream
      /\ \A i \in DOMAIN out : out[i].turn = turn => out[i].streaming
  <2>1. ~HasFinal(out, turn)
    BY DEF ChatInv, Sent, FinalKnown, Sends, HasFinal
  <2> QED BY <2>1, ChatAssumption DEF ChatInv, ChatOK, Sends, SameTurn, settings, HasFinal
<1>2. /\ Port(m) \in Posted
      /\ Port(m).turn = turn /\ Port(m).flow = ofFlow /\ Port(m).streaming = m.streaming
      /\ Port(m).reason = m.reason /\ Port(m).calls = m.calls
  BY <1>1 DEF Port, Posted, Messages, ChatOK
<1>3. /\ Len(out) \in Nat /\ DOMAIN out = 1 .. Len(out) /\ DOMAIN out' = 1 .. n
      /\ \A i \in DOMAIN out : out'[i] = out[i]
      /\ out'[n] = Port(m)
  BY <1>1, <1>2, AppendFacts DEF Sends
<1>4. \A i \in DOMAIN out' : i \in DOMAIN out \/ i = n
  BY <1>3
<1>5. \A i \in DOMAIN out : i \in DOMAIN out' /\ i < n /\ n \in DOMAIN out'
  BY <1>3
<1>6. n \in DOMAIN out' /\ n \in Nat
  BY <1>3
<1>7. TurnsInOrder'
  <2>1. TurnsInOrder BY DEF ChatInv, Sent
  <2> SUFFICES ASSUME NEW i \in DOMAIN out'
               PROVE  /\ out'[i].turn <= turn /\ (out'[i].turn = turn => out'[i].flow = ofFlow)
                      /\ \A j \in DOMAIN out' : out'[j].turn = out'[i].turn => out'[j].flow = out'[i].flow
    BY <1>1 DEF TurnsInOrder
  <2>2. CASE i \in DOMAIN out
    BY <2>1, <2>2, <1>2, <1>3, <1>4 DEF TurnsInOrder
  <2>3. CASE i = n
    BY <2>1, <2>3, <1>1, <1>2, <1>3, <1>4 DEF TurnsInOrder
  <2> QED BY <2>2, <2>3, <1>4
<1>8. FinalKnown'
  <2>1. pc' \in {"idle", "streaming"} BY DEF Sends
  <2>2. message' = m BY DEF Sends
  <2>3. m.streaming => ~HasFinal(out', turn)
    BY <1>1, <1>2, <1>3, <1>4 DEF HasFinal
  <2>4. ~m.streaming => HasFinal(out', turn)
    BY <1>1, <1>2, <1>3, <1>6 DEF HasFinal
  <2>5. m.streaming \in BOOLEAN BY DEF Messages
  <2> QED BY <1>1, <2>1, <2>2, <2>3, <2>4, <2>5 DEF FinalKnown
<1>9. AbortedIsEmpty'
  BY <1>2, <1>3, <1>4 DEF ChatInv, Sent, AbortedIsEmpty, Sends
<1>10. FinalIsLast'
  <2>1. FinalIsLast BY DEF ChatInv, Sent
  <2> SUFFICES ASSUME NEW i \in DOMAIN out', NEW j \in DOMAIN out',
                      out'[i].turn = out'[j].turn, ~out'[i].streaming
               PROVE  j <= i
    BY DEF FinalIsLast
  <2>2. CASE i \in DOMAIN out /\ j \in DOMAIN out
    BY <2>1, <2>2, <1>3 DEF FinalIsLast
  <2>3. CASE i \in DOMAIN out /\ j = n
    BY <2>3, <1>1, <1>2, <1>3
  <2>4. CASE i = n
    BY <2>4, <1>3
  <2> QED BY <2>2, <2>3, <2>4, <1>4
<1>11. NoPartialLeft'
  <2>1. NoPartialLeft BY DEF ChatInv, Sent
  <2> SUFFICES ASSUME NEW i \in DOMAIN out', ~HasFinal(out', out'[i].turn)
               PROVE  /\ provider \in {"claude", "ollama"} \/ (out'[i].turn = turn /\ pc' = "streaming")
                      /\ ~(pc' = "idle" /\ ended' # "ok" /\ out'[i].turn = turn)
    BY <1>1 DEF NoPartialLeft
  <2>2. CASE out'[i].turn = turn
    <3>1. m.streaming
      BY <2>2, <1>2, <1>3, <1>6 DEF HasFinal
    <3> QED BY <2>2, <3>1 DEF Sends
  <2>3. CASE out'[i].turn # turn
    <3>1. i \in DOMAIN out
      BY <2>3, <1>2, <1>3, <1>4
    <3>2. ~HasFinal(out, out[i].turn)
      BY <3>1, <1>3, <1>5 DEF HasFinal
    <3> QED BY <2>1, <2>3, <3>1, <3>2, <1>3 DEF NoPartialLeft
  <2> QED BY <2>2, <2>3
<1> QED BY <1>7, <1>8, <1>9, <1>10, <1>11 DEF Sent

\* So does a step that puts none out.
LEMMA SilentKeeps ==
    ASSUME ChatInv, IsSilent, SameTurn
    PROVE  Sent'
<1>1. /\ turn' = turn /\ ofFlow' = ofFlow /\ provider' = provider /\ stream' = stream
      /\ out' = out /\ message'.streaming = message.streaming
  BY DEF SameTurn, settings, IsSilent
<1>2. \A t : HasFinal(out', t) <=> HasFinal(out, t)
  BY <1>1 DEF HasFinal
<1>3. TurnsInOrder' /\ AbortedIsEmpty' /\ FinalIsLast'
  BY <1>1 DEF ChatInv, Sent, TurnsInOrder, AbortedIsEmpty, FinalIsLast
<1>4. FinalKnown'
  BY <1>1 DEF ChatInv, Sent, FinalKnown, IsSilent, HasFinal
<1>5. NoPartialLeft'
  <2> SUFFICES ASSUME NEW i \in DOMAIN out, ~HasFinal(out, out[i].turn)
               PROVE  /\ provider \in {"claude", "ollama"} \/ (out[i].turn = turn /\ pc' = "streaming")
                      /\ ~(pc' = "idle" /\ ended' # "ok" /\ out[i].turn = turn)
    BY <1>1, <1>2 DEF NoPartialLeft
  <2>1. /\ provider \in {"claude", "ollama"} \/ (out[i].turn = turn /\ pc = "streaming")
        /\ ~(pc = "idle" /\ ended # "ok" /\ out[i].turn = turn)
    BY DEF ChatInv, Sent, NoPartialLeft
  <2>2. /\ pc \in {"asking", "backoff"} => out[i].turn # turn
        /\ pc = "streaming" /\ out[i].turn = turn => message.streaming
    BY DEF ChatInv, Sent, FinalKnown
  <2> QED BY <2>1, <2>2 DEF IsSilent
<1> QED BY <1>3, <1>4, <1>5 DEF Sent

-----------------------------------------------------------------------------
(* Every step of a turn is one of the two.                                  *)

\* What a step within a turn leaves of the types to show.
LEMMA WithinTurn ==
    ASSUME ChatInv, SameTurn, UNCHANGED fired,
           pc # "idle", pc' \in {"idle", "asking", "backoff", "streaming"},
           unshown' \in Nat, reason' \in Reasons,
           message' \in Messages, pc' # "idle" => message'.reason # "aborted",
           IsSilent \/ Sends(message')
    PROVE  ChatInv'
<1>1. Sent'
  BY SendKeeps, SilentKeeps
<1>2. out' \in Seq(Posted)
  <2>1. CASE IsSilent
    BY <2>1 DEF IsSilent, ChatInv, ChatOK
  <2>2. CASE Sends(message')
    <3>1. Port(message') \in Posted /\ out \in Seq(Posted)
      BY ChatAssumption DEF ChatInv, ChatOK, Port, Posted, Messages
    <3> QED BY <2>2, <3>1, AppendFacts DEF Sends
  <2> QED BY <2>1, <2>2
<1>3. ChatOK'
  BY <1>2 DEF ChatInv, ChatOK, SameTurn, settings
<1> QED BY <1>1, <1>3 DEF ChatInv

\* Errors, retries and aborts before the answer begins.
LEMMA AskingKeeps ==
    ASSUME ChatInv, NEW r \in BOOLEAN,
           AskFails(r) \/ Retry \/ AskAborted \/ Established
    PROVE  ChatInv'
<1>1. /\ SameTurn /\ UNCHANGED <<fired, message, unshown, reason, out>>
      /\ pc \in {"asking", "backoff"}
      /\ pc' \in {"idle", "asking", "backoff", "streaming"}
  BY DEF AskFails, Retry, AskAborted, Established, SameTurn, Return, stream_
<1>2. IsSilent
  <2>1. CASE AskFails(r)
    BY <2>1, <1>1 DEF AskFails, Return, IsSilent
  <2>2. CASE Retry
    BY <2>2, <1>1 DEF Retry, IsSilent
  <2>3. CASE AskAborted
    BY <2>3, <1>1 DEF AskAborted, Return, IsSilent
  <2>4. CASE Established
    BY <2>4, <1>1 DEF Established, IsSilent
  <2> QED BY <2>1, <2>2, <2>3, <2>4
<1>3. /\ message' \in Messages /\ unshown' \in Nat /\ reason' \in Reasons
      /\ message'.reason # "aborted" /\ pc # "idle"
  BY <1>1 DEF ChatInv, ChatOK
<1> QED BY <1>1, <1>2, <1>3, WithinTurn

\* An answer in one message.
LEMMA AnsweredKeeps ==
    ASSUME ChatInv, Answered
    PROVE  ChatInv'
<1>1. /\ SameTurn /\ UNCHANGED <<fired, unshown, reason>>
      /\ pc = "asking" /\ pc' = "idle"
  BY DEF Answered, SameTurn, Return
<1>2. PICK n \in {0, 1}, r \in {"stop", "length"} :
          /\ message' = [streaming |-> FALSE, calls |-> n, reason |-> r]
          /\ out' = Append(out, Port(message'))
  BY DEF Answered, Send
<1>3. /\ message' \in Messages /\ ~message'.streaming /\ message'.reason # "aborted"
  BY <1>2 DEF Messages, Reasons
<1>4. Sends(message')
  BY <1>1, <1>2, <1>3 DEF Sends
<1>5. unshown' \in Nat /\ reason' \in Reasons
  BY <1>1 DEF ChatInv, ChatOK
<1> QED BY <1>1, <1>3, <1>4, <1>5, WithinTurn

\* A chunk of an answer: text, a tool call or the reason.
LEMMA ChunkKeeps ==
    ASSUME ChatInv, Text \/ ToolCall \/ Reason
    PROVE  ChatInv'
<1>1. /\ SameTurn /\ UNCHANGED <<fired, pc, ended>>
      /\ pc = "streaming" /\ message.streaming
      /\ message \in Messages /\ message.reason # "aborted"
      /\ unshown \in Nat /\ reason \in Reasons
  BY DEF Text, ToolCall, Reason, Chunk, SameTurn, ChatInv, ChatOK
<1>2. message' = message \/ message' = [message EXCEPT !.calls = @ + 1]
  BY DEF Text, ToolCall, Reason
<1>3. /\ message' \in Messages /\ message'.streaming /\ message'.reason # "aborted"
  BY <1>1, <1>2 DEF Messages
<1>4. out' = out \/ out' = Append(out, Port(message'))
  BY DEF Text, ToolCall, Reason, SendPartial
<1>5. IsSilent \/ Sends(message')
  BY <1>1, <1>3, <1>4 DEF IsSilent, Sends
<1>6. unshown' \in Nat /\ reason' \in Reasons
  BY <1>1 DEF Text, ToolCall, Reason, Reasons
<1> QED BY <1>1, <1>3, <1>5, <1>6, WithinTurn

\* The ways an answer ends.
LEMMA EndKeeps ==
    ASSUME ChatInv, Terminator \/ EndOfStream \/ StreamFails \/ StreamAborted
    PROVE  ChatInv'
<1>1. /\ SameTurn /\ UNCHANGED <<fired, unshown, reason>>
      /\ pc = "streaming"
      /\ message \in Messages /\ message.reason # "aborted"
      /\ unshown \in Nat /\ reason \in Reasons
      /\ pc' = "idle" \/ (pc' = pc /\ ended' = ended)
  BY DEF Terminator, EndOfStream, StreamFails, StreamAborted, Fail, Return, SameTurn,
         ChatInv, ChatOK
<1>2. CASE out' = out /\ message' = message
  <2>1. \/ pc' = pc /\ ended' = ended
        \/ ~message.streaming
        \/ ended' = "ok" /\ provider \in {"claude", "ollama"}
    <3>1. provider \in {"claude", "openai", "ollama", "responses"}
      BY DEF ChatInv, ChatOK, Providers
    <3>2. CASE Terminator
      BY <3>2, <1>2, <1>1 DEF Terminator, Return
    <3>3. CASE EndOfStream
      BY <3>1, <3>3, <1>2, <1>1 DEF EndOfStream, Return, Messages
    <3>4. CASE StreamFails \/ StreamAborted
      BY <3>4, <1>2, <1>1 DEF StreamFails, StreamAborted, Fail, Messages
    <3> QED BY <3>2, <3>3, <3>4
  <2>2. IsSilent
    BY <1>1, <1>2, <2>1 DEF IsSilent
  <2> QED BY <1>1, <1>2, <2>2, WithinTurn
<1>3. CASE ~(out' = out /\ message' = message)
  <2>1. /\ message.streaming /\ out' = Append(out, Port(message'))
        /\ message' \in Messages /\ ~message'.streaming
        /\ message'.reason = "aborted" => message'.calls = 0
        /\ message'.reason = "aborted" => pc' = "idle"
    <3>1. CASE Terminator
      <4>1. PICK r \in Reasons : message' = [message EXCEPT !.streaming = FALSE, !.reason = r]
        BY <3>1, <1>1, <1>3 DEF Terminator, Reasons
      <4>2. message' \in Messages /\ message'.reason = r /\ ~message'.streaming
        BY <4>1, <1>1 DEF Messages
      <4> QED BY <3>1, <4>2, <1>3 DEF Terminator, Send, Reasons
    <3>2. CASE EndOfStream
      <4>1. message' = [streaming |-> FALSE, calls |-> message.calls + unshown, reason |-> reason]
        BY <3>2, <1>3 DEF EndOfStream
      <4>2. message' \in Messages /\ message'.reason = reason /\ ~message'.streaming
        BY <4>1, <1>1 DEF Messages
      <4> QED BY <3>2, <4>2, <1>3, <1>1 DEF EndOfStream, Send, Reasons
    <3>3. CASE StreamFails \/ StreamAborted
      <4>1. PICK why \in {"error", "aborted"} :
               message' = [streaming |-> FALSE, calls |-> 0, reason |-> why]
        BY <3>3, <1>3 DEF StreamFails, StreamAborted, Fail
      <4>2. message' \in Messages /\ message'.calls = 0 /\ ~message'.streaming
        BY <4>1 DEF Messages, Reasons
      <4> QED BY <3>3, <4>2, <1>3 DEF StreamFails, StreamAborted, Fail, Send, Return
    <3> QED BY <3>1, <3>2, <3>3
  <2>2. Sends(message')
    BY <1>1, <2>1 DEF Sends
  <2>3. pc' # "idle" => message'.reason # "aborted"
    BY <2>1
  <2> QED BY <1>1, <2>1, <2>2, <2>3, WithinTurn
<1> QED BY <1>2, <1>3

\* A turn begins with nothing sent.
LEMMA BeginKeeps ==
    ASSUME ChatInv, NEW f \in LoopFlows, Begin(f)
    PROVE  ChatInv'
<1>1. CASE UNCHANGED chatVars
  BY <1>1 DEF chatVars, settings, stream_, ChatInv, ChatOK, Sent, TurnsInOrder, FinalKnown,
              HasFinal, AbortedIsEmpty, FinalIsLast, NoPartialLeft, Posted, Messages
<1>2. CASE ~UNCHANGED chatVars
  <2>1. /\ pc = "idle" /\ pc' = "asking" /\ turn < MaxTurns
        /\ ofFlow' = f /\ turn' = turn + 1
        /\ unshown' = 0 /\ reason' = "none"
        /\ message' = [streaming |-> stream, calls |-> 0, reason |-> "none"]
        /\ UNCHANGED <<provider, stream, emitPartials, fired, out, ended>>
    BY <1>2 DEF Begin, settings
  <2>2. ChatOK /\ TurnsInOrder /\ FinalIsLast /\ AbortedIsEmpty /\ NoPartialLeft
    BY DEF ChatInv, Sent
  <2>3. ChatOK'
    BY <2>1, <2>2, ChatAssumption DEF ChatOK, Messages, Reasons
  <2>4. /\ turn \in Nat /\ message'.streaming = stream
        /\ \A i \in DOMAIN out : out[i] \in Posted /\ out[i].turn \in Nat
    <3>1. turn \in Nat /\ out \in Seq(Posted)
      BY <2>2, ChatAssumption DEF ChatOK
    <3>2. message'.streaming = stream
      BY <2>1
    <3>3. \A p \in Posted : p.turn \in Nat
      BY ChatAssumption DEF Posted
    <3>4. \A i \in DOMAIN out : out[i] \in Posted
      BY <3>1
    <3> QED BY <3>1, <3>2, <3>3, <3>4
  <2>5. \A i \in DOMAIN out : out[i].turn < turn'
    BY <2>1, <2>2, <2>4 DEF TurnsInOrder
  <2>6. TurnsInOrder' /\ AbortedIsEmpty' /\ FinalIsLast' /\ FinalKnown'
    <3>1. turn' \in Nat /\ \A i \in DOMAIN out : out[i].turn <= turn' /\ out[i].turn # turn'
      BY <2>1, <2>4, <2>5
    <3>2. TurnsInOrder'
      BY <2>1, <2>2, <3>1 DEF TurnsInOrder
    <3>3. AbortedIsEmpty' /\ FinalIsLast'
      BY <2>1, <2>2 DEF AbortedIsEmpty, FinalIsLast
    <3>4. FinalKnown'
      BY <2>1, <2>4, <3>1 DEF FinalKnown
    <3> QED BY <3>2, <3>3, <3>4
  <2>7. NoPartialLeft'
    BY <2>1, <2>2, <2>4, <2>5 DEF NoPartialLeft, HasFinal
  <2> QED BY <2>3, <2>6, <2>7 DEF ChatInv, Sent
<1> QED BY <1>1, <1>2

\* Aborts, resets and everything that is not of Chat leave its messages alone.
LEMMA ElseKeeps ==
    ASSUME ChatInv,
           UNCHANGED <<settings, pc, ofFlow, turn, message, unshown, reason, out, ended>>,
           fired' \subseteq LoopFlows
    PROVE  ChatInv'
BY DEF settings, ChatInv, ChatOK, Sent, TurnsInOrder, FinalKnown,
       HasFinal, AbortedIsEmpty, FinalIsLast, NoPartialLeft, Posted, Messages

\* Any step of a turn.
LEMMA ChatStepKeeps ==
    ASSUME ChatInv, ChatStep \/ Reset
    PROVE  ChatInv'
<1>1. CASE Reset
  BY <1>1, ElseKeeps DEF Reset, stream_, ChatInv, ChatOK
<1>2. CASE ChatStep
  BY <1>2, AskingKeeps, AnsweredKeeps, ChunkKeeps, EndKeeps DEF ChatStep
<1> QED BY <1>1, <1>2

-----------------------------------------------------------------------------
(* The invariant of the cycle.                                              *)

TablesOK ==
    /\ inbox \in Seq(LoopFlows)
    /\ loopAt \in 0 .. Len(out)
    /\ loopOrder \in Seq(LoopFlows) /\ toolOrder \in Seq(LoopFlows)
    /\ counts \in [Range(loopOrder) -> [count : Nat, last : Nat]]
    /\ executed \in [Range(toolOrder) -> SUBSET (Nat \X Nat)]
    /\ gate \in Seq(Nat) /\ \A k \in DOMAIN gate : gate[k] \in DOMAIN out
    /\ running # Idle => running \in [flow : LoopFlows, calls : SUBSET (Nat \X Nat)]
    /\ runs \in [AllCalls -> Nat]
    /\ \A t \in rounds : \E i \in DOMAIN out : out[i].turn = t
    /\ forgot \subseteq LoopFlows

\* What ran of a flow that Call Tool Message remembers ran once and is marked.
Marked(f, c) ==
    f \notin forgot /\ runs[c] > 0 =>
        runs[c] = 1 /\ f \in DOMAIN executed /\ c \in executed[f]

RunsMarked ==
    \A i \in DOMAIN out, k \in 1 .. MaxEvents :
        <<out[i].turn, k>> \in AllCalls => Marked(out[i].flow, <<out[i].turn, k>>)

\* Loop Control has counted the rounds of a flow that it remembers.
RoundsOf(f) == {t \in rounds : \E i \in DOMAIN out : out[i].turn = t /\ out[i].flow = f}

CountedFlow(f) ==
    IF f \notin DOMAIN counts THEN RoundsOf(f) = {}
    ELSE /\ Cardinality(RoundsOf(f)) <= counts[f].count
         /\ Cardinality(RoundsOf(f)) <= MaxIterations
         /\ counts[f].count <= MaxIterations => counts[f].last \in RoundsOf(f)

Counted == MaxIterations > 0 => \A f \in LoopFlows \ forgot : CountedFlow(f)

AgentInv == ChatInv /\ TablesOK /\ RunsMarked /\ Counted /\ WholeCallsRun

-----------------------------------------------------------------------------
(* The messages already sent stay as they are.                              *)

Grows ==
    /\ Len(out) <= Len(out')
    /\ \A i \in DOMAIN out : i \in DOMAIN out' /\ out'[i] = out[i]

\* A step of Chat adds at most one message, at the end.
LEMMA ChatGrows ==
    ASSUME ChatInv, NEW f \in LoopFlows, Begin(f) \/ ChatStep \/ Reset \/ FireToken(f)
    PROVE  Grows
<1>1. out' = out \/ \E m \in Messages : out' = Append(out, Port(m))
  <2>1. CASE ChatStep
    <3>1. CASE AskFails(TRUE) \/ AskFails(FALSE) \/ Retry \/ AskAborted \/ Established
      BY <3>1 DEF AskFails, Retry, AskAborted, Established
    <3>2. CASE Answered
      <4>1. PICK n \in {0, 1}, r \in {"stop", "length"} :
                /\ message' = [streaming |-> FALSE, calls |-> n, reason |-> r]
                /\ out' = Append(out, Port(message'))
        BY <3>2 DEF Answered, Send
      <4>2. message' \in Messages
        BY <4>1 DEF Messages, Reasons
      <4> QED BY <4>1, <4>2
    <3>3. CASE Text \/ ToolCall \/ Reason
      <4>1. message \in Messages
        BY DEF ChatInv, ChatOK
      <4>2. message' = message \/ message' = [message EXCEPT !.calls = @ + 1]
        BY <3>3 DEF Text, ToolCall, Reason
      <4>3. message' \in Messages
        BY <4>1, <4>2 DEF Messages
      <4> QED BY <3>3, <4>3 DEF Text, ToolCall, Reason, SendPartial
    <3>4. CASE Terminator \/ EndOfStream \/ StreamFails \/ StreamAborted
      <4>1. message' \in Messages
        BY <3>4, EndKeeps DEF ChatInv, ChatOK
      <4> QED BY <3>4, <4>1 DEF Terminator, EndOfStream, StreamFails, StreamAborted, Fail, Send
    <3> QED BY <2>1, <3>1, <3>2, <3>3, <3>4 DEF ChatStep
  <2>2. CASE Begin(f) \/ Reset \/ FireToken(f)
    BY <2>2 DEF Begin, Reset, FireToken, chatVars
  <2> QED BY <2>1, <2>2
<1>2. out \in Seq(Posted)
  BY DEF ChatInv, ChatOK
<1>3. CASE out' = out
  BY <1>2, <1>3 DEF Grows
<1>4. ASSUME NEW m \in Messages, out' = Append(out, Port(m))
      PROVE  Grows
  <2>1. Append(out, Port(m)) = out \o <<Port(m)>> /\ Port(m) \in {Port(m)}
    BY <1>2
  <2>2. out \in Seq(Posted \cup {Port(m)})
    BY <1>2
  <2> QED BY <2>1, <2>2, <1>4, AppendFacts DEF Grows
<1> QED BY <1>1, <1>3, <1>4

\* A step that only adds messages to the port.
LEMMA GrowsKeeps ==
    ASSUME AgentInv, ChatInv', Grows,
           UNCHANGED <<loopVars, toolVars, rounds, forgot>>, inbox' \in Seq(LoopFlows)
    PROVE  AgentInv'
<1>1. /\ TurnsInOrder' /\ \A i \in DOMAIN out : i \in DOMAIN out' /\ out'[i] = out[i]
      /\ TablesOK /\ RunsMarked /\ Counted /\ WholeCallsRun
      /\ UNCHANGED <<loopAt, counts, loopOrder, gate, executed, toolOrder, running, runs, rounds, forgot>>
  BY DEF ChatInv, Sent, Grows, AgentInv, loopVars, toolVars
<1>2. TablesOK'
  <2>1. Len(out) \in Nat /\ Len(out') \in Nat
    BY DEF AgentInv, ChatInv, ChatOK
  <2>2. loopAt' \in 0 .. Len(out')
    BY <2>1, <1>1 DEF TablesOK, Grows
  <2>3. (gate \in Seq(Nat) /\ \A k \in DOMAIN gate : gate[k] \in DOMAIN out)'
    BY <1>1 DEF TablesOK
  <2>4. \A t \in rounds' : \E i \in DOMAIN out' : out'[i].turn = t
    BY <1>1 DEF TablesOK
  <2> QED BY <2>2, <2>3, <2>4, <1>1 DEF TablesOK, AllCalls
<1>3. WholeCallsRun'
  BY <1>1 DEF WholeCallsRun, AllCalls
<1>4. RunsMarked'
  <2> SUFFICES ASSUME NEW i \in DOMAIN out', NEW k \in 1 .. MaxEvents,
                      <<out'[i].turn, k>> \in AllCalls, runs[<<out'[i].turn, k>>] > 0
               PROVE  Marked(out'[i].flow, <<out'[i].turn, k>>)
    BY <1>1 DEF RunsMarked, Marked, AllCalls
  <2>1. PICK j \in DOMAIN out : out[j].turn = out'[i].turn
    BY <1>1 DEF WholeCallsRun
  <2>2. out'[i].flow = out[j].flow
    BY <2>1, <1>1 DEF TurnsInOrder
  <2> QED BY <2>1, <2>2, <1>1 DEF RunsMarked
<1>5. Counted'
  <2>1. \A f : RoundsOf(f)' = RoundsOf(f)
    <3> SUFFICES ASSUME NEW f, NEW t \in rounds
                 PROVE  (\E i \in DOMAIN out' : out'[i].turn = t /\ out'[i].flow = f) <=>
                        (\E i \in DOMAIN out : out[i].turn = t /\ out[i].flow = f)
      BY <1>1 DEF RoundsOf
    <3>1. PICK j \in DOMAIN out : out[j].turn = t
      BY <1>1 DEF TablesOK
    <3>2. j \in DOMAIN out' /\ out'[j] = out[j]
      BY <1>1
    <3>3. ASSUME NEW i \in DOMAIN out', out'[i].turn = t PROVE out'[i].flow = out[j].flow
      BY <3>1, <3>2, <3>3, <1>1 DEF TurnsInOrder
    <3> QED BY <3>1, <3>2, <3>3, <1>1
  <2> QED BY <2>1, <1>1 DEF Counted, CountedFlow
<1> QED BY <1>2, <1>3, <1>4, <1>5 DEF AgentInv

-----------------------------------------------------------------------------
(* The tables kept per flow.                                                *)

\* A table keeps every flow but the one it evicts, and gets the new one.
LEMMA OrderFacts ==
    ASSUME NEW S, NEW order \in Seq(S), NEW f \in S
    PROVE  /\ Order(order, f) \in Seq(S)
           /\ f \in Range(Order(order, f))
           /\ Range(Order(order, f)) \subseteq Range(order) \cup {f}
           /\ \A g \in Range(order) \ Evicted(order, f) : g \in Range(Order(order, f))
           /\ Evicted(order, f) \subseteq S
<1>1. CASE f \in Range(order)
  BY <1>1 DEF Order, Evicted
<1>2. CASE f \notin Range(order)
  <2> DEFINE kept == IF Full(order) THEN Tail(order) ELSE order
  <2>1. /\ kept \in Seq(S) /\ Range(kept) \subseteq Range(order)
        /\ \A g \in Range(order) \ Evicted(order, f) : g \in Range(kept)
        /\ Evicted(order, f) \subseteq S
    <3>1. CASE Full(order)
      <4>1. order # <<>> /\ Evicted(order, f) = {Head(order)}
        BY <1>2, <3>1, LoopAssumption DEF Full, Evicted
      <4>2. /\ Head(order) \in S /\ Tail(order) \in Seq(S) /\ Head(order) = order[1]
            /\ DOMAIN order = 1 .. Len(order) /\ Len(order) \in Nat \ {0}
            /\ DOMAIN Tail(order) = 1 .. Len(order) - 1
            /\ \A i \in DOMAIN Tail(order) : i + 1 \in DOMAIN order /\ Tail(order)[i] = order[i + 1]
        BY <4>1, TailFacts
      <4>3. Range(Tail(order)) \subseteq Range(order)
        BY <4>2 DEF Range
      <4>4. ASSUME NEW g \in Range(order), g # Head(order) PROVE g \in Range(Tail(order))
        <5>1. PICK i \in DOMAIN order : order[i] = g
          BY DEF Range
        <5>2. i \in 1 .. Len(order) /\ i # 1
          BY <4>2, <4>4, <5>1
        <5>3. i - 1 \in DOMAIN Tail(order) /\ (i - 1) + 1 = i
          BY <5>2, <4>2
        <5>4. Tail(order)[i - 1] = g
          BY <5>1, <5>3, <4>2
        <5> QED BY <5>3, <5>4 DEF Range
      <4> QED BY <3>1, <4>1, <4>2, <4>3, <4>4
    <3>2. CASE ~Full(order)
      BY <3>2 DEF Evicted
    <3> QED BY <3>1, <3>2
  <2> HIDE DEF kept
  <2>2. Order(order, f) = Append(kept, f)
    BY <1>2 DEF Order, kept
  <2>3. /\ Append(kept, f) \in Seq(S)
        /\ Len(kept) \in Nat /\ DOMAIN kept = 1 .. Len(kept)
        /\ DOMAIN Append(kept, f) = 1 .. Len(kept) + 1
        /\ \A i \in DOMAIN kept : i \in DOMAIN Append(kept, f) /\ Append(kept, f)[i] = kept[i]
        /\ Append(kept, f)[Len(kept) + 1] = f
    BY <2>1, AppendFacts
  <2>4. Range(Append(kept, f)) = Range(kept) \cup {f}
    <3>1. ASSUME NEW g \in Range(Append(kept, f)) PROVE g \in Range(kept) \cup {f}
      <4>1. PICK i \in DOMAIN Append(kept, f) : Append(kept, f)[i] = g
        BY <3>1 DEF Range
      <4>2. i \in DOMAIN kept \/ i = Len(kept) + 1
        BY <4>1, <2>3
      <4> QED BY <4>1, <4>2, <2>3 DEF Range
    <3>2. ASSUME NEW g \in Range(kept) PROVE g \in Range(Append(kept, f))
      BY <3>2, <2>3 DEF Range
    <3>3. Len(kept) + 1 \in DOMAIN Append(kept, f)
      BY <2>3
    <3>4. f \in Range(Append(kept, f))
      BY <3>3, <2>3 DEF Range
    <3> QED BY <3>1, <3>2, <3>4
  <2> QED BY <2>1, <2>2, <2>3, <2>4
<1> QED BY <1>1, <1>2

\* The table with the entry of the flow.
LEMMA EnteredFacts ==
    ASSUME NEW S, NEW T, NEW order \in Seq(S), NEW table \in [Range(order) -> T],
           NEW f \in S, NEW e \in T
    PROVE  /\ Entered(table, order, f, e) \in [Range(Order(order, f)) -> T]
           /\ f \in DOMAIN Entered(table, order, f, e)
<1>1. /\ f \in Range(Order(order, f))
      /\ Range(Order(order, f)) \subseteq Range(order) \cup {f}
  BY OrderFacts
<1> QED BY <1>1 DEF Entered

\* The entries of the other flows stay, but for the one that is evicted.
LEMMA EnteredElse ==
    ASSUME NEW S, NEW order \in Seq(S), NEW table, DOMAIN table = Range(order),
           NEW f \in S, NEW e, NEW g, g # f, g \notin Evicted(order, f)
    PROVE  /\ g \in DOMAIN Entered(table, order, f, e) <=> g \in DOMAIN table
           /\ g \in DOMAIN table => Entered(table, order, f, e)[g] = table[g]
<1>1. /\ f \in Range(Order(order, f))
      /\ Range(Order(order, f)) \subseteq Range(order) \cup {f}
      /\ \A h \in Range(order) \ Evicted(order, f) : h \in Range(Order(order, f))
  BY OrderFacts
<1> QED BY <1>1 DEF Entered

\* The empty table.
LEMMA NothingFacts ==
    ASSUME NEW T
    PROVE  Nothing \in [Range(<<>>) -> T] /\ DOMAIN Nothing = {}
<1>1. Range(<<>>) = {}
  BY DEF Range
<1> QED BY <1>1 DEF Nothing

-----------------------------------------------------------------------------
(* Loop Control.                                                            *)

\* The turns of rounds are finitely many.
LEMMA RoundsFinite ==
    ASSUME ChatInv, TablesOK
    PROVE  \A f : IsFiniteSet(RoundsOf(f)) /\ Cardinality(RoundsOf(f)) \in Nat
<1>1. rounds \subseteq 1 .. MaxTurns
  <2>1. out \in Seq(Posted) /\ \A p \in Posted : p.turn \in 1 .. MaxTurns
    BY DEF ChatInv, ChatOK, Posted
  <2>2. \A i \in DOMAIN out : out[i].turn \in 1 .. MaxTurns
    BY <2>1
  <2> QED BY <2>2 DEF TablesOK
<1>2. IsFiniteSet(rounds)
  <2>1. IsFiniteSet(1 .. MaxTurns)
    BY FS_Interval, ChatAssumption
  <2> QED BY <1>1, <2>1, FS_Subset
<1>3. \A f : RoundsOf(f) \subseteq rounds
  BY DEF RoundsOf
<1> QED BY <1>2, <1>3, FS_Subset, FS_CardinalityType

\* A turn more is one round more for its flow and none for another.
LEMMA RoundsGrow ==
    ASSUME ChatInv, TablesOK, NEW i \in DOMAIN out, UNCHANGED out,
           rounds' = rounds \cup {out[i].turn}
    PROVE  /\ RoundsOf(out[i].flow)' = RoundsOf(out[i].flow) \cup {out[i].turn}
           /\ \A g : g # out[i].flow => RoundsOf(g)' = RoundsOf(g)
<1>1. \A j \in DOMAIN out : out[j].turn = out[i].turn => out[j].flow = out[i].flow
  BY DEF ChatInv, Sent, TurnsInOrder
<1> QED BY <1>1 DEF RoundsOf

\* Loop Control takes a message, one that comes again or a new one.
LEMMA ControlKeeps ==
    ASSUME AgentInv, NEW i \in DOMAIN out, LoopControl(i), loopAt' \in 0 .. Len(out),
           UNCHANGED <<chatVars, inbox, executed, toolOrder, running, runs>>
    PROVE  AgentInv'
<1> DEFINE m == out[i]
           known == m.flow \in DOMAIN counts
           again == known /\ counts[m.flow].last = m.turn
           count == IF ~known THEN 1 ELSE counts[m.flow].count + (IF again THEN 0 ELSE 1)
           new == Countable(m) /\ ~again
           entry == [count |-> count, last |-> m.turn]
<1>1. /\ ChatInv /\ TablesOK /\ RunsMarked /\ Counted /\ WholeCallsRun
      /\ ChatInv'
      /\ UNCHANGED <<out, inbox, executed, toolOrder, running, runs>>
  <2>1. ChatInv'
    BY ElseKeeps DEF AgentInv, ChatInv, ChatOK, chatVars, stream_
  <2> QED BY <2>1 DEF AgentInv, chatVars
<1>2. /\ m.flow \in LoopFlows /\ m.turn \in Nat /\ i \in Nat /\ Len(out) \in Nat
  <2>1. out \in Seq(Posted) /\ \A p \in Posted : p.flow \in LoopFlows /\ p.turn \in Nat
    BY <1>1, ChatAssumption DEF ChatInv, ChatOK, Posted
  <2> QED BY <2>1
<1>3. /\ loopOrder \in Seq(LoopFlows)
      /\ counts \in [Range(loopOrder) -> [count : Nat, last : Nat]]
      /\ known => counts[m.flow].count \in Nat /\ counts[m.flow].last \in Nat
      /\ count \in Nat /\ entry \in [count : Nat, last : Nat]
  BY <1>1, <1>2 DEF TablesOK
<1> DEFINE E == Entered(counts, loopOrder, m.flow, entry)
<1>12. /\ E \in [Range(Order(loopOrder, m.flow)) -> [count : Nat, last : Nat]]
       /\ m.flow \in DOMAIN E /\ E[m.flow] = entry
       /\ \A g : g # m.flow /\ g \notin Evicted(loopOrder, m.flow) =>
             /\ g \in DOMAIN E <=> g \in DOMAIN counts
             /\ g \in DOMAIN counts => E[g] = counts[g]
  <2> DEFINE T == [count : Nat, last : Nat]
  <2>1. /\ m.flow \in LoopFlows /\ entry \in T
        /\ loopOrder \in Seq(LoopFlows) /\ counts \in [Range(loopOrder) -> T]
        /\ DOMAIN counts = Range(loopOrder)
    BY <1>2, <1>3
  <2> HIDE DEF entry, m, known, again, count, new
  <2>2. /\ E \in [Range(Order(loopOrder, m.flow)) -> T]
        /\ m.flow \in DOMAIN E
    <3> HIDE DEF T
    <3> QED BY <2>1, EnteredFacts
  <2>4. E[m.flow] = entry
    BY <2>2 DEF Entered
  <2>3. ASSUME NEW g, g # m.flow, g \notin Evicted(loopOrder, m.flow)
        PROVE  /\ g \in DOMAIN E <=> g \in DOMAIN counts
               /\ g \in DOMAIN counts => E[g] = counts[g]
    BY <2>1, <2>3, EnteredElse
  <2> QED BY <2>2, <2>3, <2>4
<1>13. /\ Order(loopOrder, m.flow) \in Seq(LoopFlows)
       /\ Evicted(loopOrder, m.flow) \subseteq LoopFlows
  BY <1>2, <1>3, OrderFacts
<1> HIDE DEF E
<1>4. IF Countable(m) /\ Exceeds(count) THEN Cut ELSE Forward(i)
  BY DEF LoopControl
<1>5. IF new
      THEN /\ counts' = E
           /\ loopOrder' = Order(loopOrder, m.flow)
           /\ forgot' = forgot \cup Evicted(loopOrder, m.flow)
      ELSE UNCHANGED <<counts, loopOrder, forgot>>
  BY DEF LoopControl, E
<1>6. /\ loopOrder' \in Seq(LoopFlows)
      /\ counts' \in [Range(loopOrder') -> [count : Nat, last : Nat]]
      /\ forgot \subseteq forgot' /\ forgot' \subseteq LoopFlows
  <2>1. CASE new
    BY <2>1, <1>1, <1>5, <1>12, <1>13 DEF TablesOK
  <2>2. CASE ~new
    BY <2>2, <1>1, <1>3, <1>5 DEF TablesOK
  <2> QED BY <2>1, <2>2
<1>7. gate' \in Seq(Nat) /\ \A k \in DOMAIN gate' : gate'[k] \in DOMAIN out
  <2>1. gate \in Seq(Nat) /\ \A k \in DOMAIN gate : gate[k] \in DOMAIN out
    BY <1>1 DEF TablesOK
  <2>2. CASE gate' = Append(gate, i)
    <3>1. /\ gate' \in Seq(Nat) /\ DOMAIN gate = 1 .. Len(gate) /\ Len(gate) \in Nat
          /\ DOMAIN gate' = 1 .. Len(gate) + 1
          /\ \A k \in DOMAIN gate : gate'[k] = gate[k]
          /\ gate'[Len(gate) + 1] = i
      BY <2>1, <2>2, <1>2, AppendFacts
    <3>2. \A k \in DOMAIN gate' : k \in DOMAIN gate \/ k = Len(gate) + 1
      BY <3>1
    <3> QED BY <2>1, <3>1, <3>2
  <2>3. CASE gate' = gate
    BY <2>1, <2>3
  <2> QED BY <2>2, <2>3, <1>4 DEF Forward, Cut
<1>8. /\ rounds' = rounds \/ rounds' = rounds \cup {m.turn}
      /\ Countable(m) /\ Exceeds(count) => rounds' = rounds
      /\ Countable(m) /\ ~Exceeds(count) => rounds' = rounds \cup {m.turn}
      /\ ~Countable(m) => rounds' = rounds
  BY <1>4 DEF Forward, Cut
<1>9. TablesOK'
  BY <1>1, <1>6, <1>7, <1>8 DEF TablesOK, AllCalls
<1>10. RunsMarked' /\ WholeCallsRun'
  BY <1>1, <1>6 DEF RunsMarked, Marked, WholeCallsRun, AllCalls
<1>11. Counted'
  <2> SUFFICES ASSUME MaxIterations > 0, NEW g \in LoopFlows \ forgot'
               PROVE  CountedFlow(g)'
    BY DEF Counted
  <2>1. CountedFlow(g) /\ MaxIterations \in Nat
    BY <1>1, <1>6, LoopAssumption DEF Counted
  <2>2. IsFiniteSet(RoundsOf(g)) /\ Cardinality(RoundsOf(g)) \in Nat
    BY <1>1, RoundsFinite
  <2>3. /\ g # m.flow => RoundsOf(g)' = RoundsOf(g)
        /\ g = m.flow => RoundsOf(g)' = RoundsOf(g) \/ RoundsOf(g)' = RoundsOf(g) \cup {m.turn}
        /\ g = m.flow /\ Countable(m) /\ ~Exceeds(count) => RoundsOf(g)' = RoundsOf(g) \cup {m.turn}
        /\ ~Countable(m) \/ Exceeds(count) => RoundsOf(g)' = RoundsOf(g)
    <3>1. rounds' = rounds => RoundsOf(g)' = RoundsOf(g)
      BY <1>1 DEF RoundsOf
    <3>2. rounds' = rounds \cup {m.turn} =>
             /\ g # m.flow => RoundsOf(g)' = RoundsOf(g)
             /\ g = m.flow => RoundsOf(g)' = RoundsOf(g) \cup {m.turn}
      BY <1>1, RoundsGrow
    <3> QED BY <3>1, <3>2, <1>8
  <2>4. CASE g # m.flow
    <3>1. /\ g \in DOMAIN counts' <=> g \in DOMAIN counts
          /\ g \in DOMAIN counts => counts'[g] = counts[g]
      <4>1. CASE new
        BY <4>1, <2>4, <1>5, <1>12
      <4>2. CASE ~new
        BY <4>2, <1>5
      <4> QED BY <4>1, <4>2
    <3> QED BY <2>1, <2>3, <2>4, <3>1 DEF CountedFlow
  <2>5. CASE g = m.flow /\ new
    <3>1. /\ g \in DOMAIN counts'
          /\ counts'[g].count = count /\ counts'[g].last = m.turn
      BY <2>5, <1>5, <1>12
    <3>2. /\ Cardinality(RoundsOf(g)) <= MaxIterations
          /\ Cardinality(RoundsOf(g)) + 1 <= count
      <4>1. CASE known
        BY <4>1, <2>1, <2>2, <2>5, <1>3 DEF CountedFlow
      <4>2. CASE ~known
        <5>1. RoundsOf(g) = {}
          BY <4>2, <2>1, <2>5 DEF CountedFlow
        <5> QED BY <4>2, <5>1, <2>1, FS_EmptySet
      <4> QED BY <4>1, <4>2
    <3>3. CASE Exceeds(count)
      <4>1. RoundsOf(g)' = RoundsOf(g) /\ count > MaxIterations
        BY <2>3, <3>3 DEF Exceeds
      <4>2. Cardinality(RoundsOf(g)') <= count
        BY <4>1, <3>2, <2>2, <1>3
      <4> QED BY <4>1, <4>2, <3>1, <3>2, <2>1, <1>3 DEF CountedFlow
    <3>4. CASE ~Exceeds(count)
      <4>1. RoundsOf(g)' = RoundsOf(g) \cup {m.turn} /\ count <= MaxIterations
        BY <2>1, <2>3, <2>5, <3>4, <1>3 DEF Exceeds
      <4>2. Cardinality(RoundsOf(g)') <= Cardinality(RoundsOf(g)) + 1
        <5>1. Cardinality(RoundsOf(g) \cup {m.turn}) =
                 IF m.turn \in RoundsOf(g) THEN Cardinality(RoundsOf(g)) ELSE Cardinality(RoundsOf(g)) + 1
          BY <2>2, FS_AddElement
        <5> QED BY <4>1, <5>1, <2>2
      <4>3. Cardinality(RoundsOf(g)') \in Nat
        <5>1. IsFiniteSet(RoundsOf(g) \cup {m.turn})
          BY <2>2, FS_AddElement
        <5> QED BY <4>1, <5>1, FS_CardinalityType
      <4>4. Cardinality(RoundsOf(g)') <= count /\ Cardinality(RoundsOf(g)') <= MaxIterations
        BY <4>1, <4>2, <4>3, <3>2, <2>1, <2>2, <1>3
      <4> QED BY <4>1, <4>4, <3>1 DEF CountedFlow
    <3> QED BY <3>3, <3>4
  <2>6. CASE g = m.flow /\ ~new
    <3>1. counts' = counts
      BY <2>6, <1>5
    <3>2. RoundsOf(g)' = RoundsOf(g)
      <4>1. CASE Countable(m) /\ ~Exceeds(count)
        <5>1. again /\ count = counts[g].count /\ counts[g].last = m.turn /\ g \in DOMAIN counts
          BY <4>1, <2>6, <1>3
        <5>2. count <= MaxIterations
          BY <4>1, <2>1, <1>3 DEF Exceeds
        <5>3. m.turn \in RoundsOf(g)
          BY <5>1, <5>2, <2>1 DEF CountedFlow
        <5> QED BY <4>1, <5>3, <2>3, <2>6
      <4> QED BY <4>1, <2>3
    <3> QED BY <2>1, <3>1, <3>2 DEF CountedFlow
  <2> QED BY <2>4, <2>5, <2>6
<1> QED BY <1>1, <1>9, <1>10, <1>11 DEF AgentInv

\* What a stopped Loop Control counted is of flows it has forgotten.
LEMMA LoopStopKeeps ==
    ASSUME AgentInv, LoopStop
    PROVE  AgentInv'
<1>1. /\ ChatInv /\ TablesOK /\ RunsMarked /\ Counted /\ WholeCallsRun
      /\ UNCHANGED <<out, inbox, loopAt, gate, executed, toolOrder, running, runs, rounds>>
      /\ counts' = Nothing /\ loopOrder' = <<>> /\ forgot' = forgot \cup Range(loopOrder)
  BY DEF AgentInv, LoopStop, chatVars, toolVars
<1>2. ChatInv'
  BY ElseKeeps DEF AgentInv, ChatInv, ChatOK, LoopStop, chatVars, stream_
<1>3. Range(loopOrder) \subseteq LoopFlows
  BY <1>1 DEF TablesOK, Range
<1>4. TablesOK'
  <2>1. counts' \in [Range(loopOrder') -> [count : Nat, last : Nat]]
    BY <1>1, NothingFacts
  <2>2. loopOrder' \in Seq(LoopFlows)
    BY <1>1
  <2> QED BY <2>1, <2>2, <1>1, <1>3 DEF TablesOK, AllCalls
<1>5. RunsMarked' /\ WholeCallsRun'
  BY <1>1 DEF RunsMarked, Marked, WholeCallsRun, AllCalls
<1>6. Counted'
  <2> SUFFICES ASSUME MaxIterations > 0, NEW g \in LoopFlows \ forgot'
               PROVE  CountedFlow(g)'
    BY DEF Counted
  <2>1. g \notin DOMAIN counts /\ g \notin forgot
    BY <1>1 DEF TablesOK
  <2>2. RoundsOf(g) = {}
    BY <2>1, <1>1 DEF Counted, CountedFlow
  <2>3. RoundsOf(g)' = RoundsOf(g) /\ g \notin DOMAIN counts'
    BY <1>1, NothingFacts DEF RoundsOf
  <2> QED BY <2>2, <2>3 DEF CountedFlow
<1> QED BY <1>2, <1>4, <1>5, <1>6 DEF AgentInv

-----------------------------------------------------------------------------
(* Call Tool Message.                                                       *)

\* Who neither counts nor forwards leaves the counts right.
LEMMA CountedSame ==
    ASSUME Counted, UNCHANGED <<out, counts, rounds>>, forgot \subseteq forgot'
    PROVE  Counted'
<1>1. \A f : RoundsOf(f)' = RoundsOf(f)
  BY DEF RoundsOf
<1>2. \A f : CountedFlow(f) => CountedFlow(f)'
  BY <1>1 DEF CountedFlow
<1> QED BY <1>2 DEF Counted

\* A message comes to be executed: what is new of it is marked and started.
LEMMA ToolBeginKeeps ==
    ASSUME AgentInv, ToolBegin
    PROVE  AgentInv'
<1> DEFINE h == Head(gate)
           m == out[h]
           todo == Todo(m)
           launched == IF m.reason = "length" \/ m.flow \in fired THEN {} ELSE todo
<1>1. /\ ChatInv /\ TablesOK /\ RunsMarked /\ Counted /\ WholeCallsRun
      /\ UNCHANGED <<out, inbox, loopAt, counts, loopOrder, rounds>>
      /\ gate # <<>> /\ gate' = Tail(gate)
      /\ Mark(m, todo)
      /\ running' = IF todo = {} THEN Idle ELSE [flow |-> m.flow, calls |-> todo]
      /\ runs' = [c \in AllCalls |-> runs[c] + (IF c \in launched THEN 1 ELSE 0)]
  BY DEF AgentInv, ToolBegin, chatVars, loopVars
<1>2. ChatInv'
  BY ElseKeeps DEF AgentInv, ChatInv, ChatOK, ToolBegin, chatVars, stream_
<1>3. /\ h \in DOMAIN out
      /\ gate' \in Seq(Nat) /\ \A k \in DOMAIN gate' : gate'[k] \in DOMAIN out
  <2>1. gate \in Seq(Nat) /\ \A k \in DOMAIN gate : gate[k] \in DOMAIN out
    BY <1>1 DEF TablesOK
  <2>2. /\ Head(gate) = gate[1] /\ 1 \in DOMAIN gate /\ Tail(gate) \in Seq(Nat)
        /\ \A i \in DOMAIN Tail(gate) : i + 1 \in DOMAIN gate /\ Tail(gate)[i] = gate[i + 1]
    BY <1>1, <2>1, TailFacts
  <2> QED BY <1>1, <2>1, <2>2
<1>4. m.flow \in LoopFlows /\ m.turn \in Nat /\ m.calls \in Nat
  <2>1. out \in Seq(Posted) /\ \A p \in Posted : p.flow \in LoopFlows /\ p.turn \in Nat /\ p.calls \in Nat
    BY <1>1, ChatAssumption DEF ChatInv, ChatOK, Posted
  <2> QED BY <1>3, <2>1
<1>5. /\ todo \subseteq Nat \X Nat /\ Done(m.flow) \subseteq Nat \X Nat
      /\ todo \cap Done(m.flow) = {}
      /\ \A t, k : <<t, k>> \in todo => t = m.turn /\ k \in 1 .. m.calls /\ ~m.streaming
  <2>1. Done(m.flow) \subseteq Nat \X Nat
    BY <1>1 DEF TablesOK, Done
  <2>2. todo \subseteq CallsOf(m) /\ todo \cap Done(m.flow) = {} /\ (m.streaming => todo = {})
    BY DEF Todo
  <2>3. CallsOf(m) \subseteq Nat \X Nat /\ \A t, k : <<t, k>> \in CallsOf(m) => t = m.turn /\ k \in 1 .. m.calls
    BY <1>4 DEF CallsOf
  <2> HIDE DEF todo, m
  <2> QED BY <2>1, <2>2, <2>3
<1> DEFINE marks == Done(m.flow) \cup todo
           E == Entered(executed, toolOrder, m.flow, marks)
<1>6. IF todo = {} THEN UNCHANGED <<executed, toolOrder, forgot>>
      ELSE /\ executed' = E
           /\ toolOrder' = Order(toolOrder, m.flow)
           /\ forgot' = forgot \cup Evicted(toolOrder, m.flow)
  BY <1>1 DEF Mark
<1>7. /\ toolOrder \in Seq(LoopFlows) /\ executed \in [Range(toolOrder) -> SUBSET (Nat \X Nat)]
      /\ marks \in SUBSET (Nat \X Nat) /\ DOMAIN executed = Range(toolOrder)
  BY <1>1, <1>5 DEF TablesOK
<1>8. /\ Order(toolOrder, m.flow) \in Seq(LoopFlows)
      /\ Evicted(toolOrder, m.flow) \subseteq LoopFlows
  BY <1>4, <1>7, OrderFacts
<1>9. /\ E \in [Range(Order(toolOrder, m.flow)) -> SUBSET (Nat \X Nat)]
      /\ m.flow \in DOMAIN E /\ E[m.flow] = marks
      /\ \A g : g # m.flow /\ g \notin Evicted(toolOrder, m.flow) =>
            /\ g \in DOMAIN E <=> g \in DOMAIN executed
            /\ g \in DOMAIN executed => E[g] = executed[g]
  <2> DEFINE T == SUBSET (Nat \X Nat)
  <2> HIDE DEF marks, todo, m
  <2>1. E \in [Range(Order(toolOrder, m.flow)) -> T] /\ m.flow \in DOMAIN E
    <3>1. /\ marks \in T /\ executed \in [Range(toolOrder) -> T]
          /\ toolOrder \in Seq(LoopFlows) /\ m.flow \in LoopFlows
      BY <1>4, <1>7
    <3> HIDE DEF T
    <3> QED BY <3>1, EnteredFacts
  <2>2. E[m.flow] = marks
    BY <2>1 DEF Entered
  <2>3. ASSUME NEW g, g # m.flow, g \notin Evicted(toolOrder, m.flow)
        PROVE  /\ g \in DOMAIN E <=> g \in DOMAIN executed
               /\ g \in DOMAIN executed => E[g] = executed[g]
    BY <1>4, <1>7, <2>3, EnteredElse
  <2> QED BY <2>1, <2>2, <2>3
<1> HIDE DEF E, marks
<1>10. /\ toolOrder' \in Seq(LoopFlows)
       /\ executed' \in [Range(toolOrder') -> SUBSET (Nat \X Nat)]
       /\ forgot \subseteq forgot' /\ forgot' \subseteq LoopFlows
  <2> HIDE DEF todo
  <2> QED BY <1>1, <1>6, <1>7, <1>8, <1>9 DEF TablesOK
<1>11. /\ launched = {} \/ (launched = todo /\ m.reason # "length")
       /\ runs \in [AllCalls -> Nat] /\ runs' \in [AllCalls -> Nat]
       /\ \A c \in AllCalls : runs'[c] = IF c \in launched THEN runs[c] + 1 ELSE runs[c]
  <2>1. runs \in [AllCalls -> Nat]
    BY <1>1 DEF TablesOK
  <2> QED BY <1>1, <2>1
<1>12. TablesOK'
  <2>1. running' # Idle => running' \in [flow : LoopFlows, calls : SUBSET (Nat \X Nat)]
    <3> HIDE DEF todo, m
    <3> QED BY <1>1, <1>4, <1>5
  <2> QED BY <2>1, <1>1, <1>3, <1>10, <1>11 DEF TablesOK
<1> HIDE DEF launched
<1>13. RunsMarked'
  <2> SUFFICES ASSUME NEW i \in DOMAIN out, NEW k \in 1 .. MaxEvents,
                      <<out[i].turn, k>> \in AllCalls, out[i].flow \notin forgot',
                      runs'[<<out[i].turn, k>>] > 0
               PROVE  /\ runs'[<<out[i].turn, k>>] = 1
                      /\ out[i].flow \in DOMAIN executed'
                      /\ <<out[i].turn, k>> \in executed'[out[i].flow]
    BY <1>1 DEF RunsMarked, Marked, AllCalls
  <2> DEFINE c == <<out[i].turn, k>>
             g == out[i].flow
  <2>1. /\ runs[c] \in Nat /\ g \notin forgot
        /\ runs[c] > 0 => runs[c] = 1 /\ g \in DOMAIN executed /\ c \in executed[g]
    BY <1>1, <1>10, <1>11 DEF RunsMarked, Marked
  <2>2. runs[c] > 0 /\ g = m.flow => c \in Done(m.flow)
    BY <2>1 DEF Done
  <2>3. CASE c \in launched
    <3>1. c \in todo /\ todo # {}
      BY <2>3, <1>11
    <3>2. out[i].turn = m.turn
      BY <3>1, <1>5
    <3>3. g = m.flow
      BY <3>2, <1>1, <1>3 DEF ChatInv, Sent, TurnsInOrder
    <3>4. runs[c] = 0
      BY <3>1, <3>3, <2>1, <2>2, <1>5
    <3>5. runs'[c] = 1
      BY <3>4, <2>3, <1>11
    <3>6. c \in marks
      BY <3>1 DEF marks
    <3> HIDE DEF todo, m, c, g
    <3>7. g \in DOMAIN executed' /\ c \in executed'[g]
      BY <3>1, <3>3, <3>6, <1>6, <1>9
    <3> QED BY <3>5, <3>7 DEF c, g
  <2>4. CASE c \notin launched
    <3>1. runs'[c] = runs[c] /\ runs[c] > 0
      BY <2>4, <1>11
    <3>2. g \in DOMAIN executed /\ c \in executed[g] /\ runs'[c] = 1
      BY <2>1, <3>1
    <3>3. g \in DOMAIN executed' /\ c \in executed'[g]
      <4>1. CASE todo = {}
        BY <4>1, <3>2, <1>6
      <4>2. CASE todo # {} /\ g = m.flow
        <5>1. c \in marks
          BY <4>2, <3>1, <2>2 DEF marks
        <5> HIDE DEF todo, m, c, g
        <5> QED BY <5>1, <4>2, <1>6, <1>9
      <4>3. CASE todo # {} /\ g # m.flow
        <5>1. g \notin Evicted(toolOrder, m.flow)
          BY <4>3, <1>6
        <5> HIDE DEF todo, m, c, g
        <5> QED BY <5>1, <4>3, <3>2, <1>6, <1>9
      <4> QED BY <4>1, <4>2, <4>3
    <3> QED BY <3>2, <3>3
  <2> QED BY <2>3, <2>4
<1>14. WholeCallsRun'
  <2> SUFFICES ASSUME NEW c \in AllCalls, runs'[c] > 0
               PROVE  \E i \in DOMAIN out : /\ out[i].turn = c[1] /\ c[2] <= out[i].calls
                                            /\ ~out[i].streaming
                                            /\ out[i].reason \notin {"length", "aborted"}
    BY <1>1 DEF WholeCallsRun
  <2>1. CASE c \in launched
    <3>1. PICK t \in 1 .. MaxTurns, k \in 1 .. MaxEvents : c = <<t, k>>
      BY DEF AllCalls
    <3>2. <<t, k>> \in todo /\ m.reason # "length"
      BY <2>1, <3>1, <1>11
    <3>3. t = m.turn /\ k \in 1 .. m.calls /\ ~m.streaming
      BY <3>2, <1>5
    <3>4. m.reason # "aborted"
      BY <3>3, <1>1, <1>3, <1>4 DEF ChatInv, Sent, AbortedIsEmpty
    <3> QED BY <3>1, <3>2, <3>3, <3>4, <1>3, <1>4
  <2>2. CASE c \notin launched
    BY <2>2, <1>1, <1>11 DEF WholeCallsRun
  <2> QED BY <2>1, <2>2
<1>15. Counted'
  BY <1>1, <1>10, CountedSame
<1> QED BY <1>2, <1>12, <1>13, <1>14, <1>15 DEF AgentInv

\* The results go back to Chat.
LEMMA ToolResultsKeeps ==
    ASSUME AgentInv, ToolResults
    PROVE  AgentInv'
<1>1. ChatInv'
  BY ElseKeeps DEF AgentInv, ChatInv, ChatOK, ToolResults, chatVars, stream_
<1>2. inbox' \in Seq(LoopFlows)
  <2>1. running.flow \in LoopFlows /\ inbox \in Seq(LoopFlows)
    BY DEF AgentInv, TablesOK, ToolResults
  <2> QED BY <2>1 DEF ToolResults
<1>3. TablesOK'
  BY <1>2 DEF AgentInv, TablesOK, ToolResults, loopVars, chatVars, AllCalls
<1>4. RunsMarked' /\ WholeCallsRun'
  BY DEF AgentInv, RunsMarked, Marked, WholeCallsRun, ToolResults, chatVars, AllCalls
<1>5. Counted'
  BY CountedSame DEF AgentInv, ToolResults, loopVars, chatVars
<1> QED BY <1>1, <1>3, <1>4, <1>5 DEF AgentInv

\* What a stopped module has run is of flows it has forgotten.
LEMMA ToolStopKeeps ==
    ASSUME AgentInv, ToolStop
    PROVE  AgentInv'
<1>1. /\ ChatInv /\ TablesOK /\ RunsMarked /\ Counted /\ WholeCallsRun
      /\ UNCHANGED <<out, inbox, loopAt, counts, loopOrder, runs, rounds>>
      /\ executed' = Nothing /\ toolOrder' = <<>> /\ forgot' = forgot \cup Range(toolOrder)
      /\ gate' = <<>> /\ running' = Idle
  BY DEF AgentInv, ToolStop, chatVars, loopVars
<1>2. ChatInv'
  BY ElseKeeps DEF AgentInv, ChatInv, ChatOK, ToolStop, chatVars, stream_
<1>3. Range(toolOrder) \subseteq LoopFlows
  BY <1>1 DEF TablesOK, Range
<1>4. TablesOK'
  <2>1. executed' \in [Range(toolOrder') -> SUBSET (Nat \X Nat)]
    BY <1>1, NothingFacts
  <2>2. toolOrder' \in Seq(LoopFlows) /\ gate' \in Seq(Nat) /\ DOMAIN gate' = {}
    BY <1>1
  <2> QED BY <2>1, <2>2, <1>1, <1>3 DEF TablesOK
<1>5. RunsMarked'
  BY <1>1 DEF RunsMarked, Marked, TablesOK
<1>6. WholeCallsRun' /\ Counted'
  BY <1>1, CountedSame DEF WholeCallsRun
<1> QED BY <1>2, <1>4, <1>5, <1>6 DEF AgentInv

-----------------------------------------------------------------------------
(* The theorems.                                                            *)

\* It holds at first.
LEMMA AgentInvInit == LoopInit => AgentInv
<1> SUFFICES ASSUME LoopInit PROVE AgentInv
  OBVIOUS
<1>1. ChatInv
  BY ChatAssumption DEF LoopInit, ChatInit, ChatInv, ChatOK, Sent, TurnsInOrder, FinalKnown,
     AbortedIsEmpty, FinalIsLast, NoPartialLeft, Messages, Reasons
<1>2. out = <<>> /\ rounds = {} /\ counts = Nothing /\ executed = Nothing /\ forgot = {}
  BY DEF LoopInit, ChatInit
<1>3. TablesOK
  <2>1. /\ counts \in [Range(loopOrder) -> [count : Nat, last : Nat]]
        /\ executed \in [Range(toolOrder) -> SUBSET (Nat \X Nat)]
    BY NothingFacts DEF LoopInit
  <2>2. runs \in [AllCalls -> Nat] /\ loopAt \in 0 .. Len(out)
    BY <1>2 DEF LoopInit
  <2> QED BY <1>2, <2>1, <2>2 DEF LoopInit, TablesOK
<1>4. RunsMarked
  BY <1>2 DEF RunsMarked
<1>5. Counted
  BY <1>2, NothingFacts DEF Counted, CountedFlow, RoundsOf
<1>6. WholeCallsRun
  BY DEF WholeCallsRun, LoopInit
<1> QED BY <1>1, <1>3, <1>4, <1>5, <1>6 DEF AgentInv

\* Every step keeps it.
LEMMA AgentInvNext == AgentInv /\ [LoopNext]_agentVars => AgentInv'
<1> SUFFICES ASSUME AgentInv, [LoopNext]_agentVars PROVE AgentInv'
  OBVIOUS
<1>1. ASSUME NEW f \in LoopFlows, UserMessage(f) PROVE AgentInv'
  <2>1. ChatInv'
    BY <1>1, ElseKeeps DEF AgentInv, ChatInv, ChatOK, UserMessage, chatVars, stream_
  <2>2. out \in Seq(Posted) /\ out' = out
    BY <1>1 DEF AgentInv, ChatInv, ChatOK, UserMessage, chatVars
  <2>3. Grows /\ inbox' \in Seq(LoopFlows)
    BY <1>1, <2>2 DEF Grows, AgentInv, TablesOK, UserMessage
  <2> QED BY <1>1, <2>1, <2>3, GrowsKeeps DEF UserMessage
<1>2. ASSUME NEW f \in LoopFlows, AbortFlow(f) PROVE AgentInv'
  <2>1. ChatInv'
    BY <1>2, ElseKeeps DEF AgentInv, ChatInv, ChatOK, AbortFlow, FireToken, stream_
  <2> QED BY <1>2, <2>1, ChatGrows, GrowsKeeps DEF AgentInv, TablesOK, AbortFlow
<1>3. CASE ChatBegin
  <2>1. Head(inbox) \in LoopFlows /\ inbox' \in Seq(LoopFlows)
    BY <1>3, TailFacts DEF AgentInv, TablesOK, ChatBegin
  <2>2. ChatInv' /\ Grows
    BY <1>3, <2>1, BeginKeeps, ChatGrows DEF AgentInv, ChatBegin
  <2> QED BY <1>3, <2>1, <2>2, GrowsKeeps DEF ChatBegin
<1>4. CASE ChatNext
  <2>1. ChatInv'
    BY <1>4, ChatStepKeeps DEF AgentInv, ChatNext
  <2>2. Grows
    BY <1>4, ChatGrows DEF AgentInv, ChatNext, ChatInv, ChatOK
  <2> QED BY <1>4, <2>1, <2>2, GrowsKeeps DEF AgentInv, TablesOK, ChatNext
<1>5. CASE LoopStep
  <2>1. /\ loopAt + 1 \in DOMAIN out /\ loopAt' \in 0 .. Len(out)
    BY <1>5 DEF LoopStep, AgentInv, TablesOK, ChatInv, ChatOK
  <2> QED BY <1>5, <2>1, ControlKeeps DEF LoopStep
<1>6. ASSUME NEW i \in DOMAIN out, LoopRepeat(i) PROVE AgentInv'
  <2>1. loopAt' \in 0 .. Len(out)
    BY <1>6 DEF LoopRepeat, AgentInv, TablesOK
  <2> QED BY <1>6, <2>1, ControlKeeps DEF LoopRepeat
<1>7. CASE UNCHANGED agentVars
  <2>1. ChatInv'
    BY <1>7, ElseKeeps DEF AgentInv, ChatInv, ChatOK, agentVars, chatVars, stream_
  <2>2. Grows /\ inbox' \in Seq(LoopFlows)
    BY <1>7 DEF Grows, AgentInv, TablesOK, ChatInv, ChatOK, agentVars, chatVars
  <2> QED BY <1>7, <2>1, <2>2, GrowsKeeps DEF agentVars
<1> QED
  BY <1>1, <1>2, <1>3, <1>4, <1>5, <1>6, <1>7,
     LoopStopKeeps, ToolBeginKeeps, ToolResultsKeeps, ToolStopKeeps DEF LoopNext

\* The inductive invariant: what the messages sent so far say of the turns
\* (ChatTurn), and what the tables of Loop Control and Call Tool Message know
\* of the messages that passed them.
THEOREM AgentInvHolds == LoopSpec => []AgentInv
BY AgentInvInit, AgentInvNext, PTL DEF LoopSpec

\* Of messages that are each the last of a turn there is one.
LEMMA OneFinalFollows == ChatInv => OneFinal
<1> SUFFICES ASSUME ChatInv PROVE OneFinal
  OBVIOUS
<1>1. /\ FinalIsLast /\ NoPartialLeft
      /\ out \in Seq(Posted) /\ DOMAIN out \subseteq Nat
  BY DEF ChatInv, Sent, ChatOK
<1>2. ASSUME NEW t \in 1 .. turn
      PROVE  /\ Cardinality(Finals(t)) <= 1
             /\ \A i \in Finals(t), j \in OfTurn(t) : j <= i
             /\ (OfTurn(t) # {} /\ Finals(t) = {}) =>
                   (t = turn /\ pc = "streaming") \/ provider \in {"claude", "ollama"}
  <2>1. \A i \in Finals(t), j \in OfTurn(t) : j <= i
    BY <1>1 DEF Finals, OfTurn, FinalIsLast
  <2>2. Cardinality(Finals(t)) <= 1
    <3>1. CASE Finals(t) = {}
      BY <3>1, FS_EmptySet
    <3>2. ASSUME NEW i \in Finals(t) PROVE Cardinality(Finals(t)) <= 1
      <4>1. \A j \in Finals(t) : j = i
        BY <2>1, <1>1 DEF Finals, OfTurn
      <4>2. Finals(t) = {i}
        BY <4>1
      <4>3. Cardinality({i}) = 1
        BY FS_Singleton
      <4> QED BY <4>2, <4>3
    <3> QED BY <3>1, <3>2
  <2>3. (OfTurn(t) # {} /\ Finals(t) = {}) =>
            (t = turn /\ pc = "streaming") \/ provider \in {"claude", "ollama"}
    BY <1>1 DEF Finals, OfTurn, NoPartialLeft, HasFinal
  <2> QED BY <2>1, <2>2, <2>3
<1>3. (pc = "idle" /\ ended # "ok" /\ OfTurn(turn) # {}) => Finals(turn) # {}
  BY <1>1 DEF Finals, OfTurn, NoPartialLeft, HasFinal
<1> QED BY <1>2, <1>3 DEF OneFinal

\* A turn has at most one final message, which is its last, and a turn that is
\* over left no partial without one: run_claude_stream, run_openai_stream,
\* run_ollama_stream, run_stream and stream_error_final.  A Claude or Ollama
\* stream that ends without its terminator is excepted: it does leave one.
THEOREM OneFinalHolds == LoopSpec => []OneFinal
BY AgentInvHolds, OneFinalFollows, PTL DEF AgentInv

\* Loop Control lets a flow go round at most max_iterations times and Call Tool
\* Message runs a call once, however often a message comes, as long as neither
\* has forgotten the flow, and only a call of a message that is whole.
THEOREM CallsRunOnceHolds == LoopSpec => []CallsRunOnce
<1>1. AgentInv => CallsRunOnce
  <2> SUFFICES ASSUME AgentInv PROVE CallsRunOnce
    OBVIOUS
  <2>1. RunOnce
    <3> SUFFICES ASSUME NEW f \in LoopFlows \ forgot, NEW i \in DOMAIN out, out[i].flow = f,
                        NEW k \in 1 .. MaxEvents
                 PROVE  runs[<<out[i].turn, k>>] <= 1
      BY DEF RunOnce
    <3>1. <<out[i].turn, k>> \in AllCalls
      <4>1. out \in Seq(Posted) /\ \A p \in Posted : p.turn \in 1 .. MaxTurns
        BY DEF AgentInv, ChatInv, ChatOK, Posted
      <4>2. out[i].turn \in 1 .. MaxTurns
        BY <4>1
      <4> QED BY <4>2 DEF AllCalls
    <3>2. runs[<<out[i].turn, k>>] \in Nat
      BY <3>1 DEF AgentInv, TablesOK
    <3>3. runs[<<out[i].turn, k>>] > 0 => runs[<<out[i].turn, k>>] = 1
      BY <3>1 DEF AgentInv, RunsMarked, Marked
    <3> QED BY <3>2, <3>3
  <2>2. LoopBounded
    <3> SUFFICES ASSUME NEW f \in LoopFlows \ forgot, MaxIterations > 0
                 PROVE  Cardinality(RoundsOf(f)) <= MaxIterations
      BY DEF LoopBounded, RoundsOf
    <3>1. CountedFlow(f)
      BY DEF AgentInv, Counted
    <3>2. CASE f \in DOMAIN counts
      BY <3>1, <3>2 DEF CountedFlow
    <3>3. CASE f \notin DOMAIN counts
      <4>1. Cardinality(RoundsOf(f)) = 0
        BY <3>1, <3>3, FS_EmptySet DEF CountedFlow
      <4> QED BY <4>1, LoopAssumption
    <3> QED BY <3>2, <3>3
  <2> QED BY <2>1, <2>2 DEF CallsRunOnce, AgentInv
<1> QED BY <1>1, AgentInvHolds, PTL

\* The calls that run are those of a final message that was neither cut short
\* nor aborted: process of Call Tool Message skips the others.
THEOREM WholeCallsRunHolds == LoopSpec => []WholeCallsRun
BY AgentInvHolds, PTL DEF AgentInv

\* Once its token has fired a turn only ends, with one empty message marked
\* aborted if any, and its flow begins no turn and starts no tool any more.
THEOREM AbortEndsHolds == LoopSpec => AbortEnds
<1>1. AgentInv /\ [LoopNext]_agentVars =>
         [AbortedIsLast /\ \A f \in fired : NothingStarts(f)]_agentVars
  <2> SUFFICES ASSUME AgentInv, LoopNext
               PROVE  AbortedIsLast /\ \A f \in fired : NothingStarts(f)
    OBVIOUS
  <2>1. ChatInv /\ TablesOK
    BY DEF AgentInv
  <2>2. AbortedIsLast
    <3> SUFFICES ASSUME Fired, pc # "idle"
                 PROVE  /\ pc' \in {pc, "idle"}
                        /\ out' # out => /\ ~out'[Len(out')].streaming
                                         /\ out'[Len(out')].reason = "aborted"
                                         /\ out'[Len(out')].calls = 0
      BY DEF AbortedIsLast
    <3>1. CASE ChatNext
      <4>1. AskAborted \/ StreamAborted
        BY <3>1 DEF ChatNext, ChatStep, Reset, AskFails, Retry, Answered, Established, Text,
           ToolCall, Reason, Chunk, Terminator, EndOfStream, StreamFails
      <4>2. CASE AskAborted
        BY <4>2 DEF AskAborted, Return
      <4>3. CASE StreamAborted
        <5>1. pc' = "idle"
          BY <4>3 DEF StreamAborted, Fail, Return
        <5>2. ASSUME out' # out
              PROVE  /\ ~out'[Len(out')].streaming
                     /\ out'[Len(out')].reason = "aborted"
                     /\ out'[Len(out')].calls = 0
          <6>1. /\ message' = [streaming |-> FALSE, calls |-> 0, reason |-> "aborted"]
                /\ out' = Append(out, Port(message'))
            BY <4>3, <5>2 DEF StreamAborted, Fail, Send
          <6>2. /\ ~Port(message').streaming /\ Port(message').reason = "aborted"
                /\ Port(message').calls = 0
            BY <6>1 DEF Port
          <6>3. out \in Seq(Posted \cup {Port(message')})
            BY <2>1 DEF ChatInv, ChatOK
          <6>4. out'[Len(out')] = Port(message')
            BY <6>1, <6>3, AppendFacts
          <6> QED BY <6>2, <6>4
        <5> QED BY <5>1, <5>2
      <4> QED BY <4>1, <4>2, <4>3
    <3>2. CASE ChatBegin
      BY <3>2 DEF ChatBegin, Begin
    <3>3. CASE ~ChatNext /\ ~ChatBegin
      <4>1. pc' = pc /\ out' = out
        BY <3>3 DEF LoopNext, UserMessage, AbortFlow, FireToken, LoopStep, LoopRepeat, LoopStop,
           ToolBegin, ToolResults, ToolStop, chatVars
      <4> QED BY <4>1
    <3> QED BY <3>1, <3>2, <3>3
  <2>3. ASSUME NEW f \in fired PROVE NothingStarts(f)
    <3>1. ~(pc = "idle" /\ pc' = "asking" /\ ofFlow' = f)
      <4>1. CASE ChatBegin
        BY <2>3, <4>1 DEF ChatBegin, Begin, chatVars
      <4>2. CASE ChatNext
        BY <4>2 DEF ChatNext, ChatStep, Reset, AskFails, Retry, AskAborted, Answered, Established,
           Text, ToolCall, Reason, Chunk, Terminator, EndOfStream, StreamFails, StreamAborted
      <4>3. CASE ~ChatNext /\ ~ChatBegin
        BY <4>3 DEF LoopNext, UserMessage, AbortFlow, FireToken, LoopStep, LoopRepeat, LoopStop,
           ToolBegin, ToolResults, ToolStop, chatVars
      <4> QED BY <4>1, <4>2, <4>3
    <3>2. ASSUME NEW c \in AllCalls, runs'[c] # runs[c]
          PROVE  \E i \in DOMAIN out : out[i].turn = c[1] /\ out[i].flow # f
      <4>1. CASE ToolBegin
        <5> DEFINE m == out[Head(gate)]
        <5>1. /\ c \in Todo(m) /\ m.flow \notin fired
          <6>1. runs \in [AllCalls -> Nat]
            BY <2>1 DEF TablesOK
          <6>2. runs'[c] = runs[c] +
                   (IF c \in (IF m.reason = "length" \/ m.flow \in fired THEN {} ELSE Todo(m))
                    THEN 1 ELSE 0)
            BY <4>1 DEF ToolBegin
          <6> HIDE DEF m
          <6> QED BY <6>1, <6>2, <3>2
        <5>2. PICK t \in 1 .. MaxTurns, k \in 1 .. MaxEvents : c = <<t, k>>
          BY DEF AllCalls
        <5>3. m.turn = c[1]
          BY <5>1, <5>2 DEF Todo, CallsOf
        <5>4. Head(gate) \in DOMAIN out
          <6>1. gate \in Seq(Nat) /\ gate # <<>> /\ \A n \in DOMAIN gate : gate[n] \in DOMAIN out
            BY <2>1, <4>1 DEF TablesOK, ToolBegin
          <6>2. Head(gate) = gate[1] /\ 1 \in DOMAIN gate
            BY <6>1, TailFacts
          <6> QED BY <6>1, <6>2
        <5> QED BY <2>3, <5>1, <5>3, <5>4
      <4>2. CASE ~ToolBegin
        BY <3>2, <4>2 DEF LoopNext, UserMessage, AbortFlow, ChatBegin, ChatNext, LoopStep,
           LoopRepeat, LoopStop, ToolResults, ToolStop, toolVars
      <4> QED BY <4>1, <4>2
    <3> QED BY <3>1, <3>2 DEF NothingStarts
  <2> QED BY <2>2, <2>3
<1> QED BY <1>1, AgentInvHolds, PTL DEF LoopSpec, AbortEnds

-----------------------------------------------------------------------------
(* The custom tools.                                                        *)


\* Every variable keeps its type, and a call that was made has a flow and a
\* module.
THEOREM CustomToolTypeCorrect == Spec => []TypeOK
<1> USE CustomToolAssumption DEF Calls, None, Open, Closed, Stages
<1>1. Init => TypeOK
  BY DEF Init, TypeOK
<1>2. TypeOK /\ [Next]_vars => TypeOK'
  <2> SUFFICES ASSUME TypeOK, [Next]_vars
               PROVE  TypeOK'
    OBVIOUS
  <2> USE DEF TypeOK, moduleVars, callVars, Move
  <2>1. ASSUME NEW t \in Tools, Start(t) PROVE TypeOK'
    BY <2>1 DEF Start
  <2>2. ASSUME NEW t \in Tools, Stop(t) PROVE TypeOK'
    BY <2>2 DEF Stop
  <2>3. ASSUME NEW t \in Tools, NEW n \in Names, Rename(t, n) PROVE TypeOK'
    BY <2>3 DEF Rename
  <2>4. ASSUME NEW f \in Flows, Abort(f) PROVE TypeOK'
    BY <2>4 DEF Abort
  <2>5. CASE Quit
    BY <2>5 DEF Quit
  <2>6. ASSUME NEW c \in Callers, NEW f \in Flows, NEW n \in Names, Ask(c, f, n)
        PROVE  TypeOK'
    <3>1. registry[n] \in Tools /\ nextCall \in Calls
      BY <2>6 DEF Ask
    <3>2. \A k \in 1 .. nextCall' - 1 : flow'[k] \in Flows /\ tool'[k] \in Tools
      BY <2>6, <3>1 DEF Ask
    <3>3. work' \cup {k \in Calls : stage'[k] # "none"} \subseteq 1 .. nextCall' - 1
      BY <2>6, <3>1 DEF Ask
    <3>4. /\ by' \in [Calls -> Callers \cup {NoCaller}]
          /\ flow' \in [Calls -> Flows \cup {NoFlow}]
          /\ tool' \in [Calls -> Tools \cup {NoTool}]
          /\ stage' \in [Calls -> Stages]
          /\ nextCall' \in 1 .. MaxCalls + 1
      BY <2>6, <3>1 DEF Ask
    <3>. QED
      BY <2>6, <3>2, <3>3, <3>4 DEF Ask
  <2>7. ASSUME NEW k \in Calls, Call(k) PROVE TypeOK'
    <3>1. stage[k] # "none" => flow[k] \in Flows /\ tool[k] \in Tools
      OBVIOUS
    <3>2. CASE Refuse(k) \/ Received(k) \/ TimedOut(k) \/ WaitCancelled(k)
      BY <3>2 DEF Refuse, Received, TimedOut, WaitCancelled
    <3>3. CASE Register(k)
      <4>1. /\ pending' \in [Tools -> [Flows -> Calls \cup {None}]]
            /\ channel' \in [Calls -> Calls \cup {Open, Closed}]
        BY <3>1, <3>3 DEF Register, Entry
      <4>2. /\ stage' \in [Calls -> Stages] /\ work' \in SUBSET Calls
            /\ work' \cup {j \in Calls : stage'[j] # "none"} \subseteq 1 .. nextCall' - 1
        BY <3>3 DEF Register
      <4>. QED
        BY <3>3, <4>1, <4>2 DEF Register
    <3>4. CASE EmitFails(k)
      <4>1. /\ pending' \in [Tools -> [Flows -> Calls \cup {None}]]
            /\ channel' \in [Calls -> Calls \cup {Open, Closed}]
        BY <3>1, <3>4 DEF EmitFails, Entry
      <4>. QED
        BY <3>4, <4>1 DEF EmitFails
    <3>5. CASE Leave(k)
      <4>1. /\ pending' \in [Tools -> [Flows -> Calls \cup {None}]]
            /\ channel' \in [Calls -> Calls \cup {Open, Closed}]
        BY <3>1, <3>5 DEF Leave, Entry
      <4>. QED
        BY <3>5, <4>1 DEF Leave
    <3>. QED
      BY <2>7, <3>2, <3>3, <3>4, <3>5 DEF Call
  <2>8. ASSUME NEW k \in Calls, Answer(k) PROVE TypeOK'
    <3> DEFINE j == pending[tool[k]][flow[k]]
    <3>1. flow[k] \in Flows /\ tool[k] \in Tools
      BY <2>8 DEF Answer
    <3>2. j \in Calls \cup {None}
      BY <3>1
    <3>3. CASE j = None
      BY <2>8, <3>3 DEF Answer
    <3>4. CASE j # None
      <4>1. pending' \in [Tools -> [Flows -> Calls \cup {None}]]
        <5>1. pending' = [pending EXCEPT ![tool[k]][flow[k]] = None]
          BY <2>8, <3>4 DEF Answer
        <5>. QED
          BY <3>1, <5>1
      <4>2. channel' \in [Calls -> Calls \cup {Open, Closed}]
        <5>1. CASE channel' = channel
          BY <5>1
        <5>2. CASE channel' = [channel EXCEPT ![j] = k]
          BY <5>2
        <5>. QED
          BY <2>8, <3>4, <5>1, <5>2 DEF Answer
      <4>. QED
        BY <2>8, <4>1, <4>2 DEF Answer
    <3>. QED
      BY <3>3, <3>4
  <2>9. ASSUME NEW k \in Calls, AnswerLost(k) PROVE TypeOK'
    BY <2>9 DEF AnswerLost
  <2>10. CASE UNCHANGED vars
    BY <2>10 DEF vars
  <2>. QED
    BY <2>1, <2>2, <2>3, <2>4, <2>5, <2>6, <2>7, <2>8, <2>9, <2>10 DEF Next, Host
<1>. QED
  BY <1>1, <1>2, PTL DEF Spec

-----------------------------------------------------------------------------

\* A rename or a stop may remove another module's entry, but never leaves one
\* that leads to a module that does not run under that name.
THEOREM FoundToolRunsHolds == Spec => []FoundToolRuns
<1> USE CustomToolAssumption
<1>1. Init => FoundToolRuns
  BY DEF Init, FoundToolRuns
<1>2. TypeOK /\ FoundToolRuns /\ [Next]_vars => FoundToolRuns'
  <2> SUFFICES ASSUME TypeOK, FoundToolRuns, [Next]_vars
               PROVE  FoundToolRuns'
    OBVIOUS
  <2> USE DEF FoundToolRuns
  <2>1. ASSUME NEW t \in Tools, Start(t) PROVE FoundToolRuns'
    BY <2>1 DEF Start, TypeOK
  <2>2. ASSUME NEW t \in Tools, Stop(t) PROVE FoundToolRuns'
    BY <2>2 DEF Stop, TypeOK
  <2>3. ASSUME NEW t \in Tools, NEW n \in Names, Rename(t, n) PROVE FoundToolRuns'
    <3>1. CASE t \in started
      BY <2>3, <3>1 DEF Rename, TypeOK
    <3>2. CASE t \notin started
      BY <2>3, <3>2 DEF Rename, TypeOK
    <3>. QED
      BY <3>1, <3>2
  <2>4. CASE UNCHANGED moduleVars
    BY <2>4 DEF moduleVars
  <2>. QED
    BY <2>1, <2>2, <2>3, <2>4 DEF Next, Host, Abort, Quit, Ask, Call, Refuse, Register,
       EmitFails, Received, TimedOut, WaitCancelled, Leave, Answer, AnswerLost, vars
<1>. QED
  BY <1>1, <1>2, CustomToolTypeCorrect, PTL DEF Spec

-----------------------------------------------------------------------------

\* A channel that is no longer open is that of a call that was made, and what
\* it carries came from one.
ResultsOfCalls ==
    \A k \in Calls :
        /\ channel[k] # Open => k \in 1 .. nextCall - 1
        /\ channel[k] \in Calls => channel[k] \in 1 .. nextCall - 1

\* The senders and the results keep to the flow and the module of their call.
CallInv ==
    /\ NoLeftoverSender
    /\ ResultsOfCalls
    /\ ResultStaysInFlow

\* What the steps that only move calls, or only close channels, preserve.
LEMMA ClosingKeepsResults ==
    ASSUME TypeOK, CallInv, UNCHANGED callVars,
           \A k \in Calls : \/ channel'[k] = channel[k]
                            \/ (channel'[k] = Closed /\ k \in 1 .. nextCall - 1)
    PROVE  ResultsOfCalls' /\ ResultStaysInFlow'
<1> USE CustomToolAssumption DEF Calls, Open, Closed
<1>1. ASSUME NEW k \in Calls, channel'[k] \in Calls PROVE channel'[k] = channel[k]
  BY <1>1
<1>2. ResultsOfCalls'
  BY <1>1 DEF CallInv, ResultsOfCalls, callVars, TypeOK
<1>3. ResultStaysInFlow'
  BY <1>1 DEF CallInv, ResultStaysInFlow, callVars, TypeOK
<1>. QED
  BY <1>2, <1>3

\* An entry that changes closes at most the channel of the sender it held.
LEMMA EntryCloses ==
    ASSUME TypeOK, CallInv, NEW t \in Tools, NEW f \in Flows, NEW j \in Calls \cup {None},
           Entry(t, f, j), UNCHANGED callVars
    PROVE  ResultsOfCalls' /\ ResultStaysInFlow'
<1> USE CustomToolAssumption DEF Calls, None
<1>1. ASSUME NEW k \in Calls
      PROVE  channel'[k] = channel[k] \/ (channel'[k] = Closed /\ k \in 1 .. nextCall - 1)
  <2>1. CASE k = pending[t][f]
    <3>1. stage[k] # "none"
      BY <2>1 DEF CallInv, NoLeftoverSender
    <3>. QED
      BY <3>1 DEF Entry, TypeOK
  <2>2. CASE k # pending[t][f]
    BY <2>2 DEF Entry
  <2>. QED
    BY <2>1, <2>2
<1>. QED
  BY <1>1, ClosingKeepsResults

\* The inductive invariant of the calls.
THEOREM CallInvHolds == Spec => []CallInv
<1> USE CustomToolAssumption DEF Calls, None, Open, Closed
<1>1. Init => CallInv
  BY DEF Init, CallInv, NoLeftoverSender, ResultsOfCalls, ResultStaysInFlow
<1>2. TypeOK /\ CallInv /\ [Next]_vars => CallInv'
  <2> SUFFICES ASSUME TypeOK, CallInv, [Next]_vars
               PROVE  CallInv'
    OBVIOUS
  <2> USE DEF moduleVars, Move
  <2>1. CASE UNCHANGED <<pending, stage, callVars, channel>>
    BY <2>1 DEF CallInv, NoLeftoverSender, ResultsOfCalls, ResultStaysInFlow, callVars
  <2>2. ASSUME NEW t \in Tools, Stop(t) PROVE CallInv'
    <3>1. NoLeftoverSender'
      BY <2>2 DEF Stop, CallInv, NoLeftoverSender, TypeOK, callVars
    <3>2. ASSUME NEW k \in Calls
          PROVE  channel'[k] = channel[k] \/ (channel'[k] = Closed /\ k \in 1 .. nextCall - 1)
      <4>1. CASE \E f \in Flows : pending[t][f] = k
        <5>1. stage[k] # "none"
          BY <4>1 DEF CallInv, NoLeftoverSender
        <5>. QED
          BY <2>2, <5>1 DEF Stop, TypeOK
      <4>2. CASE ~ \E f \in Flows : pending[t][f] = k
        BY <2>2, <4>2 DEF Stop
      <4>. QED
        BY <4>1, <4>2
    <3>3. UNCHANGED callVars
      BY <2>2 DEF Stop
    <3>. QED
      BY <3>1, <3>2, <3>3, ClosingKeepsResults DEF CallInv
  <2>3. ASSUME NEW c \in Callers, NEW f \in Flows, NEW n \in Names, Ask(c, f, n)
        PROVE  CallInv'
    <3>0. nextCall \in Calls
      BY <2>3 DEF Ask
    <3>1. \A k \in 1 .. nextCall - 1 : flow'[k] = flow[k] /\ tool'[k] = tool[k]
      <4>1. /\ flow' = [flow EXCEPT ![nextCall] = f]
            /\ tool' = [tool EXCEPT ![nextCall] = registry[n]]
        BY <2>3 DEF Ask
      <4>2. \A k \in 1 .. nextCall - 1 : k \in Calls /\ k # nextCall
        BY <3>0
      <4>. QED
        BY <4>1, <4>2 DEF TypeOK
    <3>2. NoLeftoverSender'
      <4>1. \A k \in Calls : stage[k] # "none" => k \in 1 .. nextCall - 1
        BY DEF TypeOK
      <4>2. \A k \in Calls : stage[k] # "none" => stage'[k] = stage[k]
        BY <2>3, <3>0, <4>1 DEF Ask, TypeOK
      <4>3. UNCHANGED pending
        BY <2>3 DEF Ask
      <4>4. ASSUME NEW t \in Tools, NEW g \in Flows, pending[t][g] # None
            PROVE  LET k == pending[t][g] IN
                   stage'[k] \in {"waiting", "leaving"} /\ tool'[k] = t /\ flow'[k] = g
        <5> DEFINE k == pending[t][g]
        <5>1. stage[k] \in {"waiting", "leaving"} /\ tool[k] = t /\ flow[k] = g
          BY <4>4 DEF CallInv, NoLeftoverSender
        <5>2. k \in Calls
          BY <4>4 DEF TypeOK
        <5>. QED
          BY <3>1, <4>1, <4>2, <5>1, <5>2
      <4>. QED
        BY <4>3, <4>4 DEF NoLeftoverSender
    <3>3. ResultsOfCalls'
      BY <2>3 DEF Ask, CallInv, ResultsOfCalls, TypeOK
    <3>4. ResultStaysInFlow'
      BY <2>3, <3>1 DEF Ask, CallInv, ResultsOfCalls, ResultStaysInFlow, TypeOK
    <3>. QED
      BY <3>2, <3>3, <3>4 DEF CallInv
  <2>4. ASSUME NEW k \in Calls, Call(k) PROVE CallInv'
    <3> DEFINE t == tool[k]
               f == flow[k]
    <3>1. stage[k] # "none" => f \in Flows /\ t \in Tools
      BY DEF TypeOK
    <3>2. CASE Refuse(k) \/ Received(k) \/ TimedOut(k) \/ WaitCancelled(k)
      <4>1. UNCHANGED <<pending, callVars, channel>>
        BY <3>2 DEF Refuse, Received, TimedOut, WaitCancelled
      <4>2. \/ stage[k] = "asked" /\ stage' = [stage EXCEPT ![k] = "done"]
            \/ stage[k] = "waiting" /\ stage' = [stage EXCEPT ![k] = "leaving"]
        BY <3>2 DEF Refuse, Received, TimedOut, WaitCancelled
      <4>3. \A i \in Calls : stage[i] \in {"waiting", "leaving"}
                                 => stage'[i] \in {"waiting", "leaving"}
        BY <4>2 DEF TypeOK
      <4>4. NoLeftoverSender'
        BY <4>1, <4>3 DEF CallInv, NoLeftoverSender, TypeOK, callVars
      <4>. QED
        BY <4>1, <4>4 DEF CallInv, ResultsOfCalls, ResultStaysInFlow, callVars
    <3>3. CASE Register(k)
      <4>1. NoLeftoverSender'
        BY <3>1, <3>3 DEF Register, Entry, CallInv, NoLeftoverSender, TypeOK, callVars
      <4>2. Entry(t, f, k) /\ UNCHANGED callVars
        BY <3>3 DEF Register
      <4>. QED
        BY <3>1, <3>3, <4>1, <4>2, EntryCloses DEF Register, CallInv
    <3>4. CASE EmitFails(k)
      <4>1. NoLeftoverSender'
        BY <3>1, <3>4 DEF EmitFails, Entry, CallInv, NoLeftoverSender, TypeOK, callVars
      <4>2. Entry(t, f, None) /\ UNCHANGED callVars
        BY <3>4 DEF EmitFails
      <4>. QED
        BY <3>1, <3>4, <4>1, <4>2, EntryCloses DEF EmitFails, CallInv
    <3>5. CASE Leave(k)
      <4>1. NoLeftoverSender'
        BY <3>1, <3>5 DEF Leave, Entry, CallInv, NoLeftoverSender, TypeOK, callVars
      <4>2. Entry(t, f, None) /\ UNCHANGED callVars
        BY <3>5 DEF Leave
      <4>. QED
        BY <3>1, <3>5, <4>1, <4>2, EntryCloses DEF Leave, CallInv
    <3>. QED
      BY <2>4, <3>2, <3>3, <3>4, <3>5 DEF Call
  <2>5. ASSUME NEW k \in Calls, Answer(k) PROVE CallInv'
    <3> DEFINE j == pending[tool[k]][flow[k]]
    <3>1. k \in 1 .. nextCall - 1 /\ flow[k] \in Flows /\ tool[k] \in Tools
      BY <2>5 DEF Answer, TypeOK
    <3>2. CASE j = None
      BY <2>1, <2>5, <3>2 DEF Answer
    <3>3. CASE j # None
      <4>0. j \in Calls
        BY <3>1, <3>3 DEF TypeOK
      <4>1. j \in 1 .. nextCall - 1 /\ tool[j] = tool[k] /\ flow[j] = flow[k]
        <5>1. /\ stage[j] \in {"waiting", "leaving"}
              /\ tool[j] = tool[k] /\ flow[j] = flow[k]
          BY <3>1, <3>3 DEF CallInv, NoLeftoverSender
        <5>. QED
          BY <4>0, <5>1 DEF TypeOK
      <4>2. \/ channel' = channel
            \/ channel' = [channel EXCEPT ![j] = k]
        BY <2>5, <3>3 DEF Answer
      <4>3. NoLeftoverSender'
        <5>1. /\ pending' = [pending EXCEPT ![tool[k]][flow[k]] = None]
              /\ UNCHANGED <<stage, tool, flow>>
          BY <2>5, <3>3 DEF Answer, callVars
        <5>. QED
          BY <3>1, <5>1 DEF CallInv, NoLeftoverSender, TypeOK
      <4>4. ResultsOfCalls'
        BY <2>5, <3>1, <4>0, <4>1, <4>2 DEF Answer, CallInv, ResultsOfCalls, TypeOK, callVars
      <4>5. ResultStaysInFlow'
        BY <2>5, <3>1, <4>0, <4>1, <4>2 DEF Answer, CallInv, ResultStaysInFlow, TypeOK, callVars
      <4>. QED
        BY <4>3, <4>4, <4>5 DEF CallInv
    <3>. QED
      BY <3>2, <3>3
  <2>. QED
    BY <2>1, <2>2, <2>3, <2>4, <2>5 DEF Next, Host, Start, Rename, Abort, Quit,
       AnswerLost, vars
<1>. QED
  BY <1>1, <1>2, CustomToolTypeCorrect, PTL DEF Spec

\* No sender is left behind, however a call ended.
THEOREM NoLeftoverSenderHolds == Spec => []NoLeftoverSender
<1>1. CallInv => NoLeftoverSender
  BY DEF CallInv
<1>. QED
  BY <1>1, CallInvHolds, PTL

\* A result comes from the flow and the module of the call that gets it.
THEOREM ResultStaysInFlowHolds == Spec => []ResultStaysInFlow
<1>1. CallInv => ResultStaysInFlow
  BY DEF CallInv
<1>. QED
  BY <1>1, CallInvHolds, PTL

\* A call reaches the tool that has the name and is answered by it.
THEOREM CallsReachTheirToolHolds == Spec => []CallsReachTheirTool
<1>1. FoundToolRuns /\ ResultStaysInFlow => CallsReachTheirTool
  BY DEF CallsReachTheirTool
<1>. QED
  BY <1>1, FoundToolRunsHolds, ResultStaysInFlowHolds, PTL
=============================================================================
