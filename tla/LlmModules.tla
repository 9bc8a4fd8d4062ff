----------------------------- MODULE LlmModules ------------------------------
(***************************************************************************)
(* The modules of modular-agent-llm between a conversation and a provider: *)
(* those that put messages together (Assistant, System and User Message,   *)
(* Preamble, Messages for Prompt), that count tokens (Usage) and that make *)
(* embeddings.  One module takes inputs one at a time; memo is what it     *)
(* keeps between them.                                                     *)
(***************************************************************************)
EXTENDS Messages

CONSTANTS Nodes,       \* the modules: their kind and configs
          Feeds,       \* Feeds[kind]: the inputs, <<port, value>>
          MaxFed       \* MaxFed[kind]: bound on the inputs of a behaviour

VARIABLES node, memo, fed, said
nodeVars == <<node, memo, fed, said>>

NoUsage == [f \in UsageFields |-> 0]
Sum4(F(_)) == FoldSet(LAMBDA f, acc : acc + F(f), 0, UsageFields)

\* One output on a port; none where the module says nothing, which an error is too.
Says_(port, v) == << <<port, v>> >>
Silence == <<>>

\* The messages of a value, as a list; none where it is no message.
MessageList(v) == MapOption(LAMBDA m : IF Kind(m) = "arr" THEN m[2] ELSE <<m>>, MessagesOf(v))

Keeps(out)       == [memo |-> memo, out |-> out]

-----------------------------------------------------------------------------
(* Assistant Message, System Message, User Message.                         *)

WithMessage(kind, v) ==
    Keeps(Says_("messages",
        CASE kind = "Assistant" -> Append_(v, NewMessage("assistant", Text("m")))
          [] kind = "User"      -> Append_(v, User("m"))
          [] kind = "System"    -> Prepend_(v, NewMessage("system", Text("m")))))

-----------------------------------------------------------------------------
(* Preamble: memo is whether it was put before a message since the start.   *)

Preamble(port, v) ==
    LET m == MessageOf(v)
        preamble == IF memo THEN <<>> ELSE OrElse(MessageList(node.preamble), <<>>)
    IN CASE port = "reset" -> [memo |-> FALSE, out |-> Silence]
         [] m = None       -> Keeps(Silence)
         [] OTHER          -> [memo |-> TRUE, out |-> Says_("messages", Arr(Append(preamble, <<"msg", m[1]>>)))]

-----------------------------------------------------------------------------
(* Usage: memo has the totals and the last message that was counted.        *)

Cleared == [totals |-> NoUsage, last_id |-> None, last_usage |-> NoUsage]

Cost(t) ==
    LET r == node.rates[1] IN
    t.input_tokens * r.input + t.output_tokens * r.output
    + t.cache_read_tokens * OrElse(r.cache_read, r.input) + t.cache_write_tokens * OrElse(r.cache_write, r.input)

Totals(t) ==
    Says_("usage", Obj([f \in UsageFields |-> t[f]] @@ ("total_tokens" :> Sum4(LAMBDA f : t[f]))
                       @@ (IF node.rates = None THEN EmptyObj ELSE "cost_usd" :> Cost(t))))

\* Mutant: the usage to take out is the first one of the id.
CountedOnce(m, u) ==
    LET again == m.id # None /\ m.id = memo.last_id
    IN [totals     |-> [f \in UsageFields |-> memo.totals[f] + u[f] - (IF again THEN memo.last_usage[f] ELSE 0)],
        last_id    |-> m.id,
        last_usage |-> IF again THEN memo.last_usage ELSE u]

\* A message that comes again under the same id replaces what was counted.
Counted(m, u) ==
    LET again == m.id # None /\ m.id = memo.last_id
    IN [totals     |-> [f \in UsageFields |-> memo.totals[f] + u[f] - (IF again THEN memo.last_usage[f] ELSE 0)],
        last_id    |-> m.id,
        last_usage |-> u]

Counts(m) == m # None /\ ~m[1].streaming /\ m[1].usage # None

CountUsage(port, v) ==
    LET m == MessageOf(v)
        counted == Counted(m[1], m[1].usage[1])
    IN CASE port = "reset" -> [memo |-> Cleared, out |-> Totals(NoUsage)]
         [] ~Counts(m)     -> Keeps(Silence)
         [] OTHER          -> [memo |-> counted, out |-> Totals(counted.totals)]

-----------------------------------------------------------------------------
(* Messages for Prompt.                                                     *)

PromptOf(ms) ==
    IF ms = <<>> THEN Silence
    ELSE LET kept == ForPrompt(node.budget, [i \in DOMAIN ms |-> ms[i][2]])
         IN Says_("messages", Arr([i \in DOMAIN kept |-> <<"msg", kept[i]>>]))

Prompt(v) ==
    Keeps(IF node.budget <= 0 THEN Says_("messages", v) ELSE PromptOf(OrElse(MessageList(v), <<>>)))

\* What Messages for Prompt and the window of a session cut a message down to.
Trim(items) ==
    LET trimmed == MiddleTrim(node.budget, items) IN
    Keeps(IF trimmed = None THEN Silence ELSE Says_("trimmed", trimmed[1]))

-----------------------------------------------------------------------------
(* Embeddings.  A text is a string; what the provider makes of one stands   *)
(* for it, and it may make fewer than it was asked for.                     *)

Embedding(text) == <<"tensor", text>>
Embed(texts)    == [i \in 1 .. Max({0, Len(texts) - node.short}) |-> Embedding(texts[i])]

IsChunk(v) == /\ Kind(v) = "arr" /\ Len(v[2]) = 2
              /\ AsI64(v[2][1]) # None /\ Kind(v[2][2]) = "str"

\* parse_chunks: the texts that are not empty, with their offsets.
ParseChunks(chunks) ==
    LET filled == SelectSeq(chunks, LAMBDA c : c[2][2] # Str(""))
    IN [offsets |-> [i \in DOMAIN filled |-> AsI64(filled[i][2][1])[1]],
        texts   |-> [i \in DOMAIN filled |-> filled[i][2][2][2]]]

DocText(v) == LET text == GetProp(v, "text") IN
    IF text = None THEN "" ELSE OrElse(As("str", text[1]), "")

\* zip_embeddings_with_offsets: as many as there are of both.
Chunks(v) ==
    LET parsed     == ParseChunks(v[2])
        embeddings == Embed(parsed.texts)
    IN IF Kind(v) # "arr" \/ \E i \in DOMAIN v[2] : ~IsChunk(v[2][i]) THEN Silence
       ELSE Says_("embeddings",
                  Arr([i \in 1 .. Min({Len(parsed.offsets), Len(embeddings)}) |->
                          Arr(<<Int_(parsed.offsets[i]), embeddings[i]>>)]))

\* extract_texts_from_doc and output_doc_embeddings: only all or none.
Docs(v) ==
    LET docs  == IF Kind(v) = "arr" THEN v[2] ELSE <<v>>
        at    == SelectSeq([i \in DOMAIN docs |-> i], LAMBDA i : DocText(docs[i]) # "")
        made  == Embed([i \in DOMAIN at |-> DocText(docs[at[i]])])
        With(i) == IF i \notin Range(at) THEN docs[i]
                   ELSE Obj(("embedding" :> made[CHOOSE k \in DOMAIN at : at[k] = i]) @@ docs[i][2])
    IN CASE Kind(v) \notin {"arr", "obj"}           -> Silence
         [] at = <<>> -> IF Kind(v) = "arr" THEN Says_("doc", Arr(<<>>)) ELSE Silence
         [] Len(made) # Len(at)                      -> Silence
         [] Kind(v) = "obj"                          -> Says_("doc", With(1))
         [] OTHER                                    -> Says_("doc", Arr([i \in DOMAIN docs |-> With(i)]))

Embeddings(port, v) ==
    Keeps(CASE node.model = "" \/ node.model = "claude" -> Silence
            [] port = "string" -> LET text == OrElse(As("str", v), "") IN
                                  IF text = "" \/ Len(Embed(<<text>>)) # 1 THEN Silence
                                  ELSE Says_("embedding", Embedding(text))
            [] port = "chunks" -> Chunks(v)
            [] port = "doc"    -> Docs(v)
            [] OTHER           -> Silence)

-----------------------------------------------------------------------------

Fresh(kind) == CASE kind = "Preamble" -> FALSE [] kind = "Usage" -> Cleared [] OTHER -> None

NodeInit ==
    /\ node \in Nodes
    /\ memo = Fresh(node.kind)
    /\ fed = <<>>
    /\ said = <<>>

Result_(port, v) ==
    CASE node.kind \in {"Assistant", "System", "User"} -> WithMessage(node.kind, v)
      [] node.kind = "Preamble"   -> Preamble(port, v)
      [] node.kind = "Usage"      -> CountUsage(port, v)
      [] node.kind = "ForPrompt"  -> Prompt(v)
      [] node.kind = "Trim"       -> Trim(v[2])
      [] node.kind = "Embeddings" -> Embeddings(port, v)

\* process.
Feed(in) ==
    /\ Len(fed) < MaxFed[node.kind]
    /\ \E result \in {Result_(in[1], in[2])} : memo' = result.memo /\ said' = result.out
    /\ fed' = Append(fed, in)
    /\ UNCHANGED node

\* stop and start: the preamble comes again, the totals start from nothing.
Restart ==
    /\ fed # <<>>
    /\ memo' = Fresh(node.kind)
    /\ fed' = <<>>
    /\ said' = <<>>
    /\ UNCHANGED node

NodeNext == (\E in \in Feeds[node.kind] : Feed(in)) \/ Restart

-----------------------------------------------------------------------------

InputOf == Last(fed)[2]

\* The messages that were counted since the last reset, the last of each run of
\* one id standing for it, add up to the totals.
UsageTotals ==
    node.kind = "Usage" =>
        LET resets == {i \in DOMAIN fed : fed[i][1] = "reset"}
            since  == SubSeq(fed, Max(resets \cup {0}) + 1, Len(fed))
            final  == SelectSeq([i \in DOMAIN since |-> MessageOf(since[i][2])], Counts)
            kept   == {i \in DOMAIN final : i = Len(final) \/ final[i][1].id = None
                                            \/ final[i][1].id # final[i + 1][1].id}
        IN \A f \in UsageFields :
              memo.totals[f] = FoldSet(LAMBDA i, acc : acc + final[i][1].usage[1][f], 0, kept)

\* Every embedding that is given out is of the text beside it: of the chunk at its
\* offset, of the document it is put in; documents come back all, in order, and
\* otherwise as they were.
EmbeddingsAligned ==
    (node.kind = "Embeddings" /\ said # <<>>) =>
        LET v == InputOf
            out == said[1][2]
            Fits(doc, made) ==
                IF DocText(doc) = "" THEN made = doc
                ELSE /\ made[2]["embedding"] = Embedding(DocText(doc))
                     /\ \A k \in DOMAIN doc[2] \ {"embedding"} : made[2][k] = doc[2][k]
        IN CASE said[1][1] = "embedding"  -> out = Embedding(v[2])
             [] said[1][1] = "embeddings" ->
                  \A i \in DOMAIN out[2] : \E j \in DOMAIN v[2] :
                      /\ AsI64(out[2][i][2][1]) = AsI64(v[2][j][2][1])
                      /\ out[2][i][2][2] = Embedding(v[2][j][2][2][2])
             [] Kind(v) = "obj"           -> Fits(v, out)
             [] out # Arr(<<>>)           -> /\ Len(out[2]) = Len(v[2])
                                             /\ \A i \in DOMAIN v[2] : Fits(v[2][i], out[2][i])
             [] OTHER                     -> \A i \in DOMAIN v[2] : DocText(v[2][i]) = ""

\* A prompt is what fits: the newest messages, without gaps, from a message of the
\* user on, within the budget; a system message that led them leads them still;
\* no signed thinking is lost; and one more message would not have fitted.
PromptFits ==
    (node.kind = "ForPrompt" /\ said # <<>> /\ node.budget > 0) =>
        LET in     == MessageList(InputOf)[1]
            out    == said[1][2][2]
            system == in[1][2].role = "system"
            Body(s) == IF system THEN Tail(s) ELSE s
            Gone(m) == BlocksOf(m.content) \o BlocksOf(Stripped(m).content)
            from   == Len(Body(in)) - Len(Body(out))
            Size(s) == SumOver(LAMBDA v : Tokens(v[2]), s)
            fits   == {n \in 0 .. Len(Body(in)) :
                         Size([i \in 1 .. n |-> <<"msg", Stripped(Body(in)[Len(Body(in)) - n + i][2])>>])
                         + (IF system THEN Tokens(in[1][2]) ELSE 0) <= node.budget}
        IN /\ system => out # <<>> /\ out[1] = in[1]
           /\ \A i \in DOMAIN Body(out) : Body(out)[i][2] = Stripped(Body(in)[from + i][2])
           /\ Body(out) # <<>> => /\ Body(out)[1][2].role = "user"
                                  /\ Size(out) <= node.budget
           /\ \A n \in fits : n > Len(Body(out)) =>
                 \A i \in Len(Body(out)) + 1 .. n : Body(in)[Len(Body(in)) - i + 1][2].role # "user"

\* What is left of a message that was too long has its head and its tail, whole
\* characters, in their places around one marker, and fits the budget to a token,
\* unless that would leave less than a stub.
TrimFits ==
    (node.kind = "Trim" /\ said # <<>>) =>
        LET in     == InputOf[2]
            out    == said[1][2]
            marked == {k \in DOMAIN out : out[k].marker}
            Left(k) == SubSeq(in[k].text, 1, out[k].head)
                       \o SubSeq(in[k].text, Len(in[k].text) - out[k].tail + 1, Len(in[k].text))
            left   == [k \in DOMAIN in |-> [in[k] EXCEPT !.text = Left(k)]]
            marker == [text |-> <<MarkerBytes>>, other |-> 0, image |-> FALSE]
        IN /\ Cardinality(marked) = 1
           /\ \A k \in DOMAIN in, m \in marked :
                 /\ out[k].head + out[k].tail <= Len(in[k].text)
                 /\ k < m => out[k].tail = 0 /\ out[k].head = Len(in[k].text)
                 /\ k > m => out[k].head = 0
                 /\ \A j \in m .. k - 1 : out[j].tail > 0 => out[k].tail = Len(in[k].text)
           /\ SizeOf(Append(left, marker)) <= node.budget + 1 \/ TextBytes(left) <= 2 * FloorBytes

\* A prompt holds what its budget takes.
WithinBudget == PromptFits /\ TrimFits

\* One message has the same content in each of its forms: read back from its JSON
\* it is what it was, with text blocks made one text; by its keys it says what its
\* JSON says; and taken from an object of values it has lost only its tokens, the
\* ids of its calls and why their arguments could not be read.
Flattened(m) == [m EXCEPT !.content = IF FlatText(@) = None THEN @ ELSE Text(FlatText(@)[1])]
Uncalled(m)  == [m EXCEPT !.tokens = None,
                          !.tool_calls = MapOption(LAMBDA calls :
                              [i \in DOMAIN calls |-> [calls[i] EXCEPT !.id = None, !.parse_error = None]], @)]

FormsAgree ==
    (fed # <<>> /\ Kind(InputOf) = "msg") =>
        LET m == InputOf[2]
            json == Serialize(m)
            value == FromJson(json)
        IN /\ Deserialize(json) = Some(Flattened(m))
           /\ value # None =>
                /\ \A k \in DOMAIN json[2] : MessageProp(m, k) = GetProp(value[1], k)
                /\ MessageOf(value[1]) = Some(Uncalled(Flattened(m)))

\* What a module gives back stands for what it was given: tokens are counted once,
\* an embedding is that of its chunk, a prompt fits its budget, and a message is
\* the same in every form.
AnswersHold == UsageTotals /\ EmbeddingsAligned /\ WithinBudget /\ FormsAgree
=============================================================================
