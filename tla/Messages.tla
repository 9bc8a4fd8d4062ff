------------------------------ MODULE Messages ------------------------------
(***************************************************************************)
(* Messages as data: their JSON, what is made of a value that should be    *)
(* one, their properties by key, the estimate of their tokens, and what    *)
(* trims them for a prompt.                                                *)
(***************************************************************************)
EXTENDS Message, Values

UsageFields == {"input_tokens", "output_tokens", "cache_read_tokens", "cache_write_tokens"}

-----------------------------------------------------------------------------
(* JSON.                                                                    *)

BlockJson(b) ==
    Obj(("type" :> Str(b.type)) @@
        CASE IsA("text", b)  -> "text" :> Str(b.text)
          [] IsA("image", b) -> ("data" :> Str(b.data)) @@ ("mime_type" :> Str(b.mime_type))
          [] OTHER -> ("thinking" :> Str(b.thinking)) @@ Entry("signature", MapOption(Str, b.signature))
                      @@ Entry("redacted", IF b.redacted THEN Some(Bool(TRUE)) ELSE None))

BlocksJson(bs) == Arr([i \in DOMAIN bs |-> BlockJson(bs[i])])

CallJson(call) ==
    Obj("function" :> Obj(("name" :> Str(call.name)) @@ ("parameters" :> call.parameters)
        @@ Entry("id", MapOption(Str, call.id))
        @@ Entry("parse_error", MapOption(Str, call.parse_error))))

CallsJson(calls) == Arr([i \in DOMAIN calls |-> CallJson(calls[i])])
UsageJson(u)     == Obj([f \in UsageFields |-> Int_(u[f])])

ContentJson(c) == IF FlatText(c) # None THEN Str(FlatText(c)[1]) ELSE BlocksJson(c[2])

\* Message::serialize: text alone is written as a string, as it always was.
Serialize(m) ==
    Obj(("role" :> Str(m.role)) @@ ("content" :> ContentJson(m.content))
        @@ Entry("id", MapOption(Str, m.id)) @@ Entry("tokens", MapOption(Int_, m.tokens))
        @@ Entry("streaming", IF m.streaming THEN Some(Bool(TRUE)) ELSE None)
        @@ Entry("tool_calls", MapOption(CallsJson, m.tool_calls))
        @@ Entry("tool_name", MapOption(Str, m.tool_name))
        @@ Entry("is_error", MapOption(Bool, m.is_error))
        @@ Entry("stop_reason", MapOption(Str, m.stop_reason))
        @@ Entry("usage", MapOption(UsageJson, m.usage))
        @@ Entry("image", MapOption(LAMBDA i : Str(ImageUri), m.image)))

Field(o, key)       == IF key \in DOMAIN o THEN Some(o[key]) ELSE None
FieldAs(kind, o, key) == IF key \in DOMAIN o THEN As(kind, o[key]) ELSE None
HasStrings(o, keys) == \A k \in keys : FieldAs("str", o, k) # None

\* The derived forms of a block, a call and the usage; none where serde fails.
ReadBlock(j) ==
    IF Kind(j) # "obj" THEN None
    ELSE LET o == j[2] IN
    CASE Field(o, "type") = Some(Str("text")) /\ HasStrings(o, {"text"}) -> Some(TextBlock(o["text"][2]))
      [] Field(o, "type") = Some(Str("thinking")) /\ HasStrings(o, {"thinking"}) ->
            Some(Thinking(o["thinking"][2], FieldAs("str", o, "signature"),
                          FieldAs("bool", o, "redacted") = Some(TRUE)))
      [] Field(o, "type") = Some(Str("image")) /\ HasStrings(o, {"data", "mime_type"}) ->
            Some(ImageBlock(o["data"][2]))
      [] OTHER -> None

ReadCall(j) ==
    IF Kind(j) # "obj" \/ "function" \notin DOMAIN j[2] \/ Kind(j[2]["function"]) # "obj" THEN None
    ELSE LET f == j[2]["function"][2]
         IN IF ~(HasStrings(f, {"name"}) /\ "parameters" \in DOMAIN f) THEN None
            ELSE Some([Call(FieldAs("str", f, "id"), f["name"][2], f["parameters"])
                       EXCEPT !.parse_error = FieldAs("str", f, "parse_error")])

ReadUsage(j) ==
    IF Kind(j) # "obj" \/ \E f \in UsageFields \cap DOMAIN j[2] : As("int", j[2][f]) = None THEN None
    ELSE Some([f \in UsageFields |-> OrElse(FieldAs("int", j[2], f), 0)])

ReadAll(Read(_), j) ==
    IF Kind(j) # "arr" THEN None ELSE AllSome([i \in DOMAIN j[2] |-> Read(j[2][i])])

ReadContent(j) ==
    IF Kind(j) = "str" THEN Some(Text(j[2])) ELSE MapOption(Blocks, ReadAll(ReadBlock, j))

WithThinking(c, o) ==
    LET thinking == FieldAs("str", o, "thinking")
    IN IF thinking = None THEN c ELSE AbsorbThinking(c, thinking[1])

\* Message::deserialize: lenient in what it has defaults for, the content, the
\* calls, the role and the image excepted.
Deserialize(j) ==
    LET o       == j[2]
        content == IF "content" \in DOMAIN o THEN ReadContent(o["content"]) ELSE Some(Text(""))
        calls   == IF "tool_calls" \in DOMAIN o
                   THEN MapOption(Some, ReadAll(ReadCall, o["tool_calls"])) ELSE Some(None)
    IN IF \/ Kind(j) # "obj" \/ content = None \/ calls = None
          \/ "role" \in DOMAIN o /\ Kind(o["role"]) # "str"
          \/ "image" \in DOMAIN o /\ (Kind(o["image"]) # "str" \/ ImageOf(o["image"][2]) = None)
       THEN None
       ELSE Some([NewMessage(OrElse(FieldAs("str", o, "role"), "user"), WithThinking(content[1], o))
                  EXCEPT !.id = FieldAs("str", o, "id"), !.tokens = FieldAs("int", o, "tokens"),
                         !.streaming = FieldAs("bool", o, "streaming") = Some(TRUE),
                         !.tool_calls = calls[1], !.tool_name = FieldAs("str", o, "tool_name"),
                         !.is_error = FieldAs("bool", o, "is_error"),
                         !.stop_reason = FieldAs("str", o, "stop_reason"),
                         !.usage = IF "usage" \in DOMAIN o THEN ReadUsage(o["usage"]) ELSE None,
                         !.image = IF "image" \in DOMAIN o THEN ImageOf(o["image"][2]) ELSE None])

-----------------------------------------------------------------------------
(* Values that should be messages.                                          *)

\* A call in an object of values: its id is looked for beside the function,
\* and a parse error is not looked for at all.
CallOfValue(v) ==
    LET f == GetProp(v, "function") IN
    IF f = None \/ Kind(v) # "obj" \/ Kind(f[1]) # "obj" THEN None
    ELSE IF ~(HasStrings(f[1][2], {"name"}) /\ "parameters" \in DOMAIN f[1][2]) THEN None
    ELSE Some(Call(FieldAs("str", v[2], "id"), f[1][2]["name"][2], ToJson(f[1][2]["parameters"])))

\* Message::try_from(Value).
MessageOf(v) ==
    CASE Kind(v) = "msg" -> Some(v[2])
      [] Kind(v) = "str" -> Some(User(v[2]))
      [] Kind(v) = "img" -> Some([User("") EXCEPT !.image = Some(v)])
      [] Kind(v) = "obj" ->
            LET o       == v[2]
                content == IF "content" \notin DOMAIN o THEN None ELSE ReadContent(ToJson(o["content"]))
                calls   == IF "tool_calls" \in DOMAIN o
                           THEN MapOption(Some, ReadAll(CallOfValue, o["tool_calls"])) ELSE Some(None)
                image   == CASE "image" \notin DOMAIN o -> Some(None)
                             [] Kind(o["image"]) = "img" -> Some(Some(o["image"]))
                             [] Kind(o["image"]) = "str" -> MapOption(Some, ImageOf(o["image"][2]))
                             [] OTHER -> Some(None)
            IN IF \/ content = None \/ calls = None \/ image = None
                  \/ Kind(o["content"]) \notin {"str", "arr"}
                  \/ "tool_name" \in DOMAIN o /\ Kind(o["tool_name"]) # "str"
               THEN None
               ELSE Some([NewMessage(OrElse(FieldAs("str", o, "role"), "user"), WithThinking(content[1], o))
                          EXCEPT !.id = FieldAs("str", o, "id"),
                                 !.streaming = FieldAs("bool", o, "streaming") = Some(TRUE),
                                 !.tool_calls = calls[1], !.tool_name = FieldAs("str", o, "tool_name"),
                                 !.is_error = FieldAs("bool", o, "is_error"),
                                 !.stop_reason = FieldAs("str", o, "stop_reason"),
                                 !.usage = IF "usage" \in DOMAIN o THEN ReadUsage(ToJson(o["usage"])) ELSE None,
                                 !.image = image[1]])
      [] OTHER -> None

\* to_message_value: an array item by item, or not at all.
RECURSIVE MessagesOf(_)
MessagesOf(v) ==
    IF Kind(v) # "arr" THEN MapOption(LAMBDA m : <<"msg", m>>, MessageOf(v))
    ELSE MapOption(Arr, AllSome([i \in DOMAIN v[2] |-> MessagesOf(v[2][i])]))

\* append_message and prepend_message: what is not a message is dropped.
Append_(v, m) ==
    LET old == MessagesOf(v) IN
    CASE Kind(v) = "img" -> Arr(<< <<"msg", [m EXCEPT !.image = Some(v)]>> >>)
      [] old = None      -> <<"msg", m>>
      [] Kind(old[1]) = "arr" -> Arr(Append(old[1][2], <<"msg", m>>))
      [] OTHER           -> Arr(<<old[1], <<"msg", m>>>>)

Prepend_(v, m) ==
    LET old == MessagesOf(v) IN
    CASE old = None      -> <<"msg", m>>
      [] Kind(old[1]) = "arr" -> Arr(<< <<"msg", m>> >> \o old[1][2])
      [] OTHER           -> Arr(<< <<"msg", m>>, old[1]>>)

\* get_prop of a message: a value without a JSON form has no property there.
MessageProp(m, key) ==
    CASE key = "id"          -> MapOption(Str, m.id)
      [] key = "role"        -> Some(Str(m.role))
      [] key = "content"     -> IF FlatText(m.content) # None THEN Some(Str(FlatText(m.content)[1]))
                                ELSE FromJson(BlocksJson(m.content[2]))
      [] key = "tokens"      -> MapOption(Int_, m.tokens)
      [] key = "streaming"   -> IF m.streaming THEN Some(Bool(TRUE)) ELSE None
      [] key = "tool_calls"  -> IF m.tool_calls = None THEN None ELSE FromJson(CallsJson(m.tool_calls[1]))
      [] key = "tool_name"   -> MapOption(Str, m.tool_name)
      [] key = "is_error"    -> MapOption(Bool, m.is_error)
      [] key = "stop_reason" -> MapOption(Str, m.stop_reason)
      [] key = "usage"       -> IF m.usage = None THEN None ELSE FromJson(UsageJson(m.usage[1]))
      [] key = "image"       -> m.image
      [] OTHER               -> None

-----------------------------------------------------------------------------
(* Tokens.                                                                  *)

Quarter(n) == (n + 3) \div 4
ImageTokens == 1200

\* The length of a JSON text.
RECURSIVE JsonLen(_)
JsonLen(j) ==
    CASE Kind(j) = "str"  -> Len(j[2]) + 2
      [] Kind(j) = "null" -> 4
      [] Kind(j) = "bool" -> Len(BoolText(j[2]))
      [] Kind(j) \in {"int", "num"} -> Len(ToText(j)[1])
      [] Kind(j) = "arr"  -> 2 + FoldSeq(LAMBDA x, acc : acc + JsonLen(x), Max({0, Len(j[2]) - 1}), j[2])
      [] Kind(j) = "obj"  ->
            2 + FoldSet(LAMBDA k, acc : acc + Len(k) + 3 + JsonLen(j[2][k]),
                        Max({0, Cardinality(DOMAIN j[2]) - 1}), DOMAIN j[2])

BlockChars(b) == CASE IsA("text", b) -> Len(b.text) [] IsA("thinking", b) -> Len(b.thinking) [] OTHER -> 0

SumOver(F(_), s) == FoldSeq(LAMBDA x, acc : acc + F(x), 0, s)

CallChars(m) == SumOver(LAMBDA call : Len(call.name) + JsonLen(call.parameters), OrElse(m.tool_calls, <<>>))

\* estimate_message_tokens.
Tokens(m) ==
    Quarter((IF m.content[1] = "text" THEN Len(m.content[2]) ELSE SumOver(BlockChars, m.content[2]))
            + CallChars(m))
    + ImageTokens * (Len(SelectSeq(BlocksOf(m.content), LAMBDA b : IsA("image", b))) + Len(m.image))

-----------------------------------------------------------------------------
(* Messages for Prompt.                                                     *)

\* strip_unsigned_thinking.
Stripped(m) ==
    LET kept == SelectSeq(BlocksOf(m.content), LAMBDA b : ~Unsigned(b)) IN
    IF ~\E i \in DOMAIN BlocksOf(m.content) : Unsigned(m.content[2][i]) THEN m
    ELSE [m EXCEPT !.content = IF AllText(kept) THEN Text(TextOf(Blocks(kept))) ELSE Blocks(kept)]

\* The messages that fit a budget of tokens, newest first; a system message at
\* the head is kept and counted, the first of the others is from a user.
ForPrompt(budget, ms) ==
    LET system == ms[1].role = "system"
        rest   == IF system THEN Tail(ms) ELSE ms
        head   == IF system THEN Tokens(ms[1]) ELSE 0
        Cost(i) == head + SumOver(LAMBDA m : Tokens(Stripped(m)), SubSeq(rest, i, Len(rest)))
        from   == Min({i \in 1 .. Len(rest) : \A j \in i .. Len(rest) : Cost(j) <= budget}
                      \cup {Len(rest) + 1})
        first  == Min({i \in from .. Len(rest) : rest[i].role = "user"} \cup {Len(rest) + 1})
    IN (IF system THEN <<ms[1]>> ELSE <<>>) \o
       [i \in 1 .. Len(rest) - first + 1 |-> Stripped(rest[first + i - 1])]

-----------------------------------------------------------------------------
(* Trimming the middle of one message.  An item of its content is a text, of *)
(* the widths in bytes of its characters, or else so many other characters  *)
(* or an image.                                                             *)

MarkerBytes == 7      \* "\n[...]\n"
FloorBytes  == 4      \* TRIM_FLOOR_BYTES, scaled down

Bytes(widths)  == SumOver(LAMBDA w : w, widths)
TextBytes(items) == SumOver(LAMBDA item : Bytes(item.text), items)
SizeOf(items)  ==
    Quarter(TextBytes(items) + SumOver(LAMBDA item : item.other, items))
    + ImageTokens * Len(SelectSeq(items, LAMBDA item : item.image))

\* The bytes of text that may stay.
TrimBytes(budget, items) ==
    LET beside == SizeOf(items) - Quarter(TextBytes(items))
    IN Max({2 * FloorBytes, 4 * Max({0, budget - beside}) - MarkerBytes})

\* trim_blocks_middle: how many characters of each text stay at its head and at
\* its tail, whole ones, and whether the marker is between them.
TrimBlocks(items, cut, cutEnd) ==
    [k \in DOMAIN items |->
       LET w     == items[k].text
           start == TextBytes(SubSeq(items, 1, k - 1))
           Upto(n) == start + Bytes(SubSeq(w, 1, n))
       IN [head   |-> Max({n \in 0 .. Len(w) : n = 0 \/ Upto(n) <= cut}),
           marker |-> start <= cut /\ cut < Upto(Len(w)),
           tail   |-> Len(w) - Min({n \in 0 .. Len(w) : n = Len(w) \/ Upto(n) >= cutEnd})]]

\* middle_trim: nothing where the message fits or no text can go.
MiddleTrim(budget, items) ==
    LET bytes == TextBytes(items)
        keep  == TrimBytes(budget, items)
    IN IF SizeOf(items) <= budget \/ bytes = 0 \/ keep >= bytes THEN None
       ELSE Some(TrimBlocks(items, keep \div 2, bytes - (keep - keep \div 2)))
=============================================================================
