------------------------------ MODULE Message -------------------------------
(***************************************************************************)
(* A message of a conversation (Message of modular-agent-core).            *)
(*                                                                         *)
(* Its content is <<"text", s>> or <<"blocks", seq>>, a block a record     *)
(* with its type.  Optional fields are sequences of at most one.           *)
(***************************************************************************)
EXTENDS Kinds

MapOption(F(_), option) == IF option = None THEN None ELSE Some(F(option[1]))

\* The entry of an optional field, which is left out when there is none.
Entry(key, option) == IF option = None THEN [k \in {} |-> Unit] ELSE [k \in {key} |-> option[1]]

\* The optional fields that there are.
Given(options) == [k \in {k \in DOMAIN options : options[k] # None} |-> options[k][1]]

TextBlock(s)  == [type |-> "text", text |-> s]
Thinking(s, signature, redacted) ==
    [type |-> "thinking", thinking |-> s, signature |-> signature, redacted |-> redacted]
ImageBlock(data) == [type |-> "image", data |-> data, mime_type |-> "image/png"]

Text(s)      == <<"text", s>>
Blocks(bs)   == <<"blocks", bs>>
BlocksOf(c)  == IF c[1] = "blocks" THEN c[2] ELSE <<>>
IsA(type, b) == b.type = type
AllText(bs)  == \A i \in DOMAIN bs : IsA("text", bs[i])

JoinTexts(s) == FoldLeft(LAMBDA acc, x : acc \o x, "", s)

\* MessageContent::text
TextOf(c) ==
    IF c[1] = "text" THEN c[2]
    ELSE LET texts == SelectSeq(c[2], LAMBDA b : IsA("text", b))
         IN JoinTexts([i \in DOMAIN texts |-> texts[i].text])

\* flat_text: the content as one text, where nothing is lost by that.
FlatText(c) == IF c[1] = "text" \/ AllText(c[2]) THEN Some(TextOf(c)) ELSE None

\* Thinking that was kept beside the content leads the blocks.
AbsorbThinking(c, thinking) ==
    Blocks(<<Thinking(thinking, None, FALSE)>> \o
           (CASE c = Text("") -> <<>> [] c[1] = "text" -> <<TextBlock(c[2])>> [] OTHER -> c[2]))

Call(id, name, parameters) ==
    [id |-> id, name |-> name, parameters |-> parameters, parse_error |-> None]

NewMessage(role, content) ==
    [id |-> None, role |-> role, content |-> content, tokens |-> None, streaming |-> FALSE,
     tool_calls |-> None, tool_name |-> None, is_error |-> None, stop_reason |-> None,
     usage |-> None, image |-> None]

User(s)       == NewMessage("user", Text(s))
ToolResult(name, c) == [NewMessage("tool", c) EXCEPT !.tool_name = Some(name)]

\* Thinking nothing vouches for.
Unsigned(b) == IsA("thinking", b) /\ b.signature = None /\ ~b.redacted
=============================================================================
