------------------------------ MODULE History -------------------------------
(***************************************************************************)
(* The history of a conversation on its way to a provider: the repair that *)
(* every history goes through before it is converted for one               *)
(* (prepare.rs of modular-agent-llm).                                      *)
(*                                                                         *)
(* A history is a sequence of values; the messages among them are          *)
(* <<"msg", m>>, the others are carried along.  An id of a call is the     *)
(* sequence of its characters, a position counting as one; the lengths the *)
(* providers allow are scaled down, their order is kept.                   *)
(***************************************************************************)
EXTENDS Message

CONSTANTS Says,        \* the values a history is made of
          MaxHistory   \* bound: how many of them

VARIABLES history, target, vision
historyVars == <<history, target, vision>>

Targets == {"Claude", "OpenAI", "Ollama"}

IsMsg(v)  == Kind(v) = "msg"
IsTool(v) == IsMsg(v) /\ v[2].role = "tool"
IsCallTurn(v) == IsMsg(v) /\ v[2].role = "assistant" /\ OrElse(v[2].tool_calls, <<>>) # <<>>
CallsOf(v) == v[2].tool_calls[1]

KnownRole(provider, role) ==
    \/ role \in {"user", "assistant", "system", "tool"}
    \/ role = "developer" /\ provider = "OpenAI"

-----------------------------------------------------------------------------
(* The ids of the calls.                                                    *)

MaxIdLength == ("Claude" :> 5) @@ ("OpenAI" :> 4)
Odd == {".", " "}                       \* what Claude does not take in an id

ValidId(provider, id) ==
    /\ id # <<>>
    /\ provider \in DOMAIN MaxIdLength => Len(id) <= MaxIdLength[provider]
    /\ provider = "Claude" => Range(id) \cap Odd = {}

FreshId(used) == <<"uuid", ToString(Cardinality(used))>>

\* Mutant: a call that was stored without an id gets one by how many are in use.
PositionalIdByUse(mi, ci, used) == <<"call", ToString(Cardinality(used))>>

\* A call that was stored without an id has one by its position.
PositionalId(mi, ci, used) ==
    LET base == <<"call", ToString(mi), ToString(ci)>>
        At(n) == IF n = 1 THEN base ELSE Append(base, ToString(n))
        n    == Min({k \in 1 .. Cardinality(used) + 1 : At(k) \notin used})
    IN At(n)

Truncated(id, n) == SubSeq(id, 1, Min({n, Len(id)}))

SanitizedId(provider, id, used) ==
    LET repaired == CASE provider = "Claude" ->
                            Truncated([i \in DOMAIN id |-> IF id[i] \in Odd THEN "_" ELSE id[i]],
                                      MaxIdLength[provider])
                      [] provider = "OpenAI" -> Truncated(id, MaxIdLength[provider])
                      [] OTHER -> <<>>
    IN IF repaired # <<>> /\ repaired \notin used THEN repaired ELSE FreshId(used)

\* The calls of a history by position, in order.
CallSites(h) ==
    FlattenSeq([i \in DOMAIN h |->
        IF IsCallTurn(h[i]) THEN [c \in DOMAIN CallsOf(h[i]) |-> <<i, c>>] ELSE <<>>])

IdAt(h, site) == CallsOf(h[site[1]])[site[2]].id

\* plan_call_ids: the final id of every call; the valid ones are taken first,
\* so that no other becomes equal to one of them.
PlanIds(provider, h) ==
    LET sites    == CallSites(h)
        valid(s) == IdAt(h, s) # None /\ ValidId(provider, IdAt(h, s)[1])
        kept     == {IdAt(h, s)[1] : s \in {s \in Range(sites) : valid(s)}}
        Plan(plan, s) ==
            LET id == CASE valid(s) -> IdAt(h, s)[1]
                        [] IdAt(h, s) # None -> SanitizedId(provider, IdAt(h, s)[1], plan.used)
                        [] OTHER -> PositionalId(s[1] - 1, s[2] - 1, plan.used)
            IN [used |-> plan.used \cup {id}, ids |-> (s :> id) @@ plan.ids]
    IN FoldLeft(Plan, [used |-> kept, ids |-> [s \in {} |-> <<>>]], sites).ids

-----------------------------------------------------------------------------
(* Single messages.                                                         *)

Omitted == "[Image omitted]"

\* tool_result_fallback_text: the text of content where only text can go.
FallbackText(c) ==
    IF c[1] = "text" THEN c[2]
    ELSE LET parts == SelectSeq([i \in DOMAIN c[2] |->
                         CASE IsA("text", c[2][i])  -> c[2][i].text
                           [] IsA("image", c[2][i]) -> "[image: " \o c[2][i].mime_type \o "]"
                           [] OTHER -> ""], LAMBDA s : s # "")
         IN JoinTexts([i \in DOMAIN parts |-> IF i = 1 THEN parts[i] ELSE "\n" \o parts[i]])

HasImage(m) == m.image # None \/ \E i \in DOMAIN BlocksOf(m.content) : IsA("image", m.content[2][i])

\* normalize_single: a role the provider knows, no image it cannot see.
Normalized(provider, sees, m) ==
    LET role == IF KnownRole(provider, m.role) THEN m.role ELSE "user"
        text == TextOf(m.content)
    IN IF sees \/ ~HasImage(m) THEN [m EXCEPT !.role = role]
       ELSE [m EXCEPT !.role = role, !.image = None,
                      !.content = Text(IF text = "" THEN Omitted ELSE text \o "\n\n" \o Omitted)]

\* A result without a call of its own becomes text of the user.
DemoteOrphan(m) ==
    User((IF m.tool_name = None THEN "[Tool result]" ELSE "[Tool result from '" \o m.tool_name[1] \o "']")
         \o "\n" \o FallbackText(m.content))

-----------------------------------------------------------------------------
(* Calls and their results.                                                 *)

\* Mutant: the run of results ends at a value that is no message.
RunEndStrict(h, i) == Max({j \in i .. Len(h) : \A k \in i + 1 .. j : IsTool(h[k])})

\* Where the results of the turn at i end: values that are no messages do not
\* end them.
RunEnd(h, i) == Max({j \in i .. Len(h) : \A k \in i + 1 .. j : IsTool(h[k]) \/ ~IsMsg(h[k])})

\* The turn the value at j follows, 0 if it follows none.
TurnOf(h, j) == Max({i \in 1 .. j - 1 : IsCallTurn(h[i]) /\ j <= RunEnd(h, i)} \cup {0})

ResultsOf(h, i) == SelectSeq([k \in 1 .. RunEnd(h, i) - i |-> i + k], LAMBDA j : IsTool(h[j]))

\* The call a result answers: by its id, else by its name, else the next; 0 if
\* all have been answered.
AnsweredCall(calls, answered, m) ==
    LET free   == DOMAIN calls \ Range(answered)
        byId   == {c \in free : m.id # None /\ calls[c].id = m.id}
        byName == {c \in free : m.tool_name = Some(calls[c].name)}
    IN CASE byId # {}   -> Min(byId)
         [] byName # {} -> Min(byName)
         [] free # {}   -> Min(free)
         [] OTHER       -> 0

\* The calls the results of the turn at i answer, in the order of the results.
Answers(h, i) ==
    FoldLeft(LAMBDA answered, j : Append(answered, AnsweredCall(CallsOf(h[i]), answered, h[j][2])),
             <<>>, ResultsOf(h, i))

NoResult(call, id) ==
    [ToolResult(call.name, Text("No result provided")) EXCEPT !.id = Some(id), !.is_error = Some(TRUE)]

\* A history with the ids planned for its calls, and the calls its results answer.
Arranged(provider, sees, h, ids, answers) ==
    LET Norm(m) == <<"msg", Normalized(provider, sees, m)>>
        Turn(i) == Norm([h[i][2] EXCEPT !.tool_calls =
                       Some([c \in DOMAIN CallsOf(h[i]) |->
                                [CallsOf(h[i])[c] EXCEPT !.id = Some(ids[<<i, c>>])]])])
        Result(j) ==
            LET i == TurnOf(h, j)
                c == IF i = 0 THEN 0
                     ELSE answers[i][CHOOSE k \in DOMAIN ResultsOf(h, i) : ResultsOf(h, i)[k] = j]
            IN IF c = 0 THEN <<"msg", DemoteOrphan(h[j][2])>>
               ELSE Norm([h[j][2] EXCEPT !.id = Some(ids[<<i, c>>])])
        Item(j) == CASE ~IsMsg(h[j])     -> h[j]
                     [] IsCallTurn(h[j]) -> Turn(j)
                     [] IsTool(h[j])     -> Result(j)
                     [] OTHER            -> Norm(h[j][2])
        \* for the calls without a result, after the results of their turn
        Missing(i) ==
            LET open == SelectSeq([c \in DOMAIN CallsOf(h[i]) |-> c],
                                  LAMBDA c : c \notin Range(answers[i]))
            IN [k \in DOMAIN open |-> <<"msg", NoResult(CallsOf(h[i])[open[k]], ids[<<i, open[k]>>])>>]
        After(j) == LET i == IF IsCallTurn(h[j]) THEN j ELSE TurnOf(h, j)
                    IN IF i # 0 /\ RunEnd(h, i) = j THEN Missing(i) ELSE <<>>
    IN FlattenSeq([j \in DOMAIN h |-> <<Item(j)>> \o After(j)])

\* prepare_messages.
Prepare(provider, sees, h) ==
    Arranged(provider, sees, h, PlanIds(provider, h),
             [i \in {i \in DOMAIN h : IsCallTurn(h[i])} |-> Answers(h, i)])

-----------------------------------------------------------------------------

HistoryInit ==
    /\ history = <<>>
    /\ target \in Targets
    /\ vision \in BOOLEAN

\* The conversation goes on: with what a provider, a tool or a user says, or
\* what was read from a log another provider's turns are in.
Say(v) ==
    /\ Len(history) < MaxHistory
    /\ history' = Append(history, v)
    /\ UNCHANGED <<target, vision>>

HistoryNext == \E v \in Says : Say(v)

-----------------------------------------------------------------------------

Prepared == Prepare(target, vision, history)

DistinctIds(h, sites) == \A s, t \in sites : IdAt(h, s) = IdAt(h, t) => s = t

\* The ids that are valid as they are stored are distinct, as those a provider
\* gives are.
StoredDistinct(h) ==
    DistinctIds(h, {s \in Range(CallSites(h)) : IdAt(h, s) # None /\ ValidId(target, IdAt(h, s)[1])})

\* The results that come after the turn at i before anything else is said.
ToolsAfter(h, i) ==
    {j \in i + 1 .. Len(h) : IsTool(h[j]) /\ \A k \in i + 1 .. j : IsMsg(h[k]) => IsTool(h[k])}

\* A result that was made up, and a prepared history without them: message by
\* message what the history was.
MadeUp(v)   == IsTool(v) /\ v[2].content = Text("No result provided")
Original(p) == SelectSeq(p, LAMBDA v : ~MadeUp(v))

\* p is prepared, and q is p without what was made up.
Paired(p, q) ==
    LET turns == {i \in DOMAIN p : IsCallTurn(p[i])}
        IdsOf(v) == {CallsOf(v)[c].id : c \in DOMAIN CallsOf(v)}
    IN /\ \A s \in Range(CallSites(p)) : IdAt(p, s) # None /\ ValidId(target, IdAt(p, s)[1])
       /\ \A i \in turns :
            /\ Cardinality(ToolsAfter(p, i)) = Len(CallsOf(p[i]))
            /\ {p[j][2].id : j \in ToolsAfter(p, i)} = IdsOf(p[i])
       /\ \A j \in DOMAIN p : IsTool(p[j]) => \E i \in turns : j \in ToolsAfter(p, i)
       /\ \A j \in DOMAIN p : IsMsg(p[j]) => KnownRole(target, p[j][2].role)
       /\ StoredDistinct(history) => /\ DistinctIds(p, Range(CallSites(p)))
                                     /\ Prepare(target, vision, p) = p
       /\ Len(q) = Len(history)
       /\ \A i \in DOMAIN history :
            IsCallTurn(history[i]) =>
              LET results == ToolsAfter(history, i) IN
              /\ DistinctIds(history, {s \in Range(CallSites(history)) : s[1] = i})
              /\ \A j, k \in results : history[j][2].id = history[k][2].id => j = k
              /\ {history[j][2].id : j \in results} \subseteq IdsOf(history[i]) \ {None}
              => \A j \in results : \E c \in DOMAIN CallsOf(q[i]) :
                    /\ history[j][2].id = CallsOf(history[i])[c].id
                    /\ q[j][2].id = CallsOf(q[i])[c].id

\* Whatever a history was stored as, what a provider gets pairs calls with
\* results: every call has a valid id, and in the run of messages after its turn
\* one result of that id; every result there belongs to a call; ids are distinct
\* if the stored ones are; nothing that was said is dropped or reordered; results
\* that carry the ids of the calls of their turn stay with those calls; and
\* preparing again changes nothing.
PairingHolds == Paired(Prepared, Original(Prepared))

\* What was sent once is sent the same way again when the conversation goes on,
\* so that the provider's cache of the prompt holds: the prepared history only
\* grows, but for the results that were made up for the last turn, unless an id
\* had to be made at random, or the new message brings one that was made already.
PrefixKept ==
    [][LET old == Prepare(target, vision, history)
           made == {IdAt(old, s)[1] : s \in Range(CallSites(old))}
           brought == {IdAt(history', s) : s \in {s \in Range(CallSites(history')) : s[1] = Len(history')}}
           kept == Max({0} \cup {j \in DOMAIN old : ~MadeUp(old[j])})
       IN (brought \cap {Some(id) : id \in made} = {} /\ \A id \in made : id[1] # "uuid") =>
             IsPrefix(SubSeq(old, 1, kept), Prepare(target', vision', history'))]_historyVars
=============================================================================
