----------------------------- MODULE StdModules -----------------------------
(***************************************************************************)
(* The standard modules that keep nothing between messages but what they   *)
(* make of their configuration: arrays, key paths, strings, conditions.    *)
(* What a module does with a value is the sequence of <<port, value>> it   *)
(* emits; an error comes out of the port "err".                            *)
(*                                                                         *)
(* Sources of conditions are given as they split up: the segments before   *)
(* the operator, the operator characters, and the literal.                 *)
(***************************************************************************)
EXTENDS Values

Emit(port, v) == << <<port, v>> >>
Fails         == Emit("err", Unit)
Quiet         == <<>>
Route(p, v)   == IF p THEN Emit("t", v) ELSE Emit("f", v)

EmitOr(port, option) == IF option = None THEN Fails ELSE Emit(port, option[1])

-----------------------------------------------------------------------------
(* Arrays.                                                                  *)

IsArr(v) == Kind(v) = "arr"

IsArray(v)      == Route(IsArr(v), v)
IsEmptyArray(v) == Route(v = Arr(<<>>), v)
ArrayLength(v)  == Emit("value", Int_(IF IsArr(v) THEN Len(v[2]) ELSE 1))

ArrayFirst(v) ==
    IF ~IsArr(v) THEN Emit("value", v)
    ELSE IF v[2] = <<>> THEN Fails ELSE Emit("value", Head(v[2]))

ArrayRest(v) ==
    Emit("array", Arr(IF IsArr(v) /\ v[2] # <<>> THEN Tail(v[2]) ELSE <<>>))

ArrayLast(v) ==
    IF ~IsArr(v) THEN Emit("value", v)
    ELSE IF v[2] = <<>> THEN Fails ELSE Emit("value", v[2][Len(v[2])])

ArrayNth(n, v) ==
    CASE n < 0      -> Fails
      [] IsArr(v)   -> IF n < Len(v[2]) THEN Emit("value", v[2][n + 1]) ELSE Fails
      [] OTHER      -> IF n = 0 THEN Emit("value", v) ELSE Fails

ArrayTake(n, v) ==
    Emit("array", CASE n <= 0    -> Arr(<<>>)
                    [] IsArr(v)  -> IF n >= Len(v[2]) THEN v ELSE Arr(SubSeq(v[2], 1, n))
                    [] OTHER     -> Arr(<<v>>))

-----------------------------------------------------------------------------
(* Get Value, Set Value, To Object: nothing comes out without a key.        *)

\* A root array is searched item by item, unless the path begins with an index.
Extract(v, keys) ==
    IF IsArr(v) /\ ParseIndex(Head(keys)) = None
    THEN Arr([i \in DOMAIN v[2] |-> OrElse(GetNested(v[2][i], keys), Unit)])
    ELSE OrElse(GetNested(v, keys), Unit)

GetValue(keys, v)      == IF keys = <<>> THEN Quiet ELSE Emit("value", Extract(v, keys))
SetValue(keys, new, v) == IF keys = <<>> THEN Quiet ELSE EmitOr("value", SetNested(v, keys, new))
ToObject(keys, v)      == IF keys = <<>> THEN Quiet
                          ELSE EmitOr("value", SetNested(Obj(EmptyObj), keys, v))

\* The texts To JSON writes are their JSON here; YAML is read and written alike.
ToJsonModule(v)   == Emit("json", <<"text", ToJson(v)>>)
FromJsonModule(t) == IF Kind(t) # "text" THEN Fails ELSE EmitOr("value", FromJson(t[2]))
ToYaml(v)         == Emit("yaml", <<"text", ToJson(v)>>)
FromYaml(t)       == IF Kind(t) # "text" THEN Fails ELSE EmitOr("value", FromJson(t[2]))

-----------------------------------------------------------------------------
(* Strings.                                                                 *)

IsString(v)      == Route(Kind(v) = "str", v)
IsEmptyString(v) == Route(v = Str(""), v)

\* Texts to join are sequences of tokens, "\n" an escape as it is written and
\* "LF" the line it stands for; items that are not strings count as empty.
Unescape(t) == [i \in DOMAIN t |-> IF t[i] = "\\n" THEN "LF" ELSE t[i]]

StringJoin(sep, v) ==
    IF ~IsArr(v) THEN Emit("string", v)
    ELSE LET parts == [i \in DOMAIN v[2] |-> OrElse(As("words", v[2][i]), <<>>)]
             joined == FlattenSeq([i \in DOMAIN parts |->
                          (IF i > 1 THEN sep ELSE <<>>) \o parts[i]])
         IN Emit("string", <<"words", Unescape(joined)>>)

\* A text to split is the sequence of the widths of its characters in bytes.
Bytes(widths, k) == SumFunction(SubSeq(widths, 1, k))
Boundaries(widths) == {Bytes(widths, k) : k \in 0 .. Len(widths)}

NextStart(B, end, overlap) == Min({b \in B : b >= Max({end - overlap, 0})})

\* The end of the piece from start: whole characters of n bytes at most, one
\* character at least.
PieceEnd(B, start, n, len) ==
    LET end == Max({b \in B : b <= Min({start + n, len})})
    IN IF end > start THEN end ELSE Min({b \in B : b > start})

\* String Length Split: the pieces as intervals of bytes.  The loop is cut off
\* where it would not move on, as it then never ends: the last piece is empty.
StringLengthSplit(n, overlap, widths) ==
    LET B   == Boundaries(widths)
        len == Bytes(widths, Len(widths))
        RECURSIVE From(_)
        From(start) ==
            LET end  == PieceEnd(B, start, n, len)
                next == NextStart(B, end, overlap)
            IN << <<start, end>> >> \o
               (CASE end = len     -> <<>>
                  [] next <= start -> << <<next, next>> >>
                  [] OTHER         -> From(next))
    IN IF len = 0 THEN <<>> ELSE From(0)

\* The length is refused before the text is looked at.
SplitAllowed(n, overlap) == n > 0 /\ overlap >= 0 /\ overlap < n

\* Template String and Template Text render each item of an array, Template
\* Array the whole.  What the template sees of a value: its entries, and the
\* value itself under "value".
TemplateData(v) ==
    LET j == ToJson(v)
    IN Obj(("value" :> j) @@ IF Kind(j) = "obj" THEN j[2] ELSE EmptyObj)

TemplateString(v) == Emit("string", IF IsArr(v) THEN Arr([i \in DOMAIN v[2] |-> TemplateData(v[2][i])])
                                    ELSE TemplateData(v))
TemplateText(v)   == TemplateString(v)
TemplateArray(v)  == Emit("string", IF IsArr(v) THEN ToJson(v) ELSE Arr(<<ToJson(v)>>))

-----------------------------------------------------------------------------
(* Regular expressions: what each pattern matches, in full and somewhere.   *)

Patterns == {"x", ".*", "x)|(y"}
Valid(p) == p # "x)|(y"
Finds(p, s)     == Valid(p) /\ (p = ".*" \/ s \in {"x", "xy"})
MatchesAll(p, s) == Valid(p) /\ (p = ".*" \/ s = "x")

\* load_regex_config: an empty source is no regex, nor is one that fails.
LoadRegex(src) == IF src \in Patterns /\ Valid(src) THEN Some(src) ELSE None

\* The modules fail while there is no regex, and on what is not a string.
Regex(re, v, found, missed) ==
    IF re = None \/ Kind(v) # "str" THEN Fails
    ELSE IF Finds(re[1], v[2]) THEN found ELSE missed

RegexMatch(re, v)      == Regex(re, v, Emit("string", Str("x")), Emit("unmatched", Unit))
RegexMatchAll(re, v)   == Regex(re, v, Emit("strings", Arr(<<Str("x")>>)), Emit("unmatched", Unit))
RegexReplace(re, v)    == Regex(re, v, Emit("string", Str("replaced")), Emit("string", v))
RegexReplaceAll(re, v) == Regex(re, v, Emit("string", Str("all replaced")), Emit("string", v))

-----------------------------------------------------------------------------
(* Conditions.                                                              *)

OrderOps == {">", ">=", "<", "<="}
MatchOps == {"=~", "!~"}
Ops      == {"==", "!="} \cup OrderOps \cup MatchOps

\* parse_key: no empty segment, but for a blank key.
ParseKey(segs) == IF "" \in Range(segs) THEN None ELSE Some(segs)

\* parse_lit_mode: a scalar, or a regex whose bare pattern must be valid.
ParseLit(src) ==
    CASE Kind(src) \in {"null", "bool", "int", "num", "str"} -> Some(src)
      [] Kind(src) = "regex" -> IF Valid(src[2]) THEN Some(src) ELSE None
      [] OTHER -> None

\* parse_cond.  An operator other than these ("=", "!", none) is no condition.
ParseCond(src) ==
    LET key == ParseKey(src.key)
        lit == ParseLit(src.lit)
    IN IF /\ key # None /\ lit # None /\ src.op \in Ops
          /\ src.op \in OrderOps => Kind(lit[1]) \in {"int", "num", "str"}
          /\ src.op \in MatchOps => Kind(lit[1]) = "regex"
       THEN Some([key |-> key[1], op |-> src.op, lit |-> lit[1]])
       ELSE None

\* eq_cond.  The pattern of == is matched in full, that of =~ searched.
EqCond(lit, full, v) ==
    CASE Kind(lit) \in {"int", "num"} -> AsF64(v) # None /\ AsF64(v) = AsF64(lit)
      [] Kind(lit) = "null"  -> v = Unit
      [] Kind(lit) = "regex" -> /\ Kind(v) = "str"
                                /\ IF full THEN MatchesAll(lit[2], v[2]) ELSE Finds(lit[2], v[2])
      [] OTHER               -> v = lit

\* The order of the texts that occur here.
TextOrder == <<"", "0", "0.5", "1", "bad", "data:bad", "data:img", "true", "x", "xy">>
Rank == [s \in Range(TextOrder) |-> CHOOSE i \in DOMAIN TextOrder : TextOrder[i] = s]

\* cmp_cond: the difference where the two can be ordered.
CmpCond(lit, v) ==
    CASE Kind(lit) \in {"int", "num"} /\ AsF64(v) # None -> Some(AsF64(v)[1] - AsF64(lit)[1])
      [] Kind(lit) = "str" /\ Kind(v) = "str" -> Some(Rank[v[2]] - Rank[lit[2]])
      [] OTHER -> None

Target(key, v) == IF key = <<>> THEN v ELSE OrElse(GetNested(v, key), Unit)

\* eval_cond: a key that leads nowhere is tested as null, and what cannot be
\* ordered satisfies no order.
EvalCond(c, v) ==
    LET target == Target(c.key, v)
        cmp    == CmpCond(c.lit, target)
    IN CASE c.op = "==" -> EqCond(c.lit, TRUE, target)
         [] c.op = "!=" -> ~EqCond(c.lit, TRUE, target)
         [] c.op = "=~" -> EqCond(c.lit, FALSE, target)
         [] c.op = "!~" -> ~EqCond(c.lit, FALSE, target)
         [] OTHER       -> cmp # None /\ CASE c.op = ">"  -> cmp[1] > 0
                                           [] c.op = ">=" -> cmp[1] >= 0
                                           [] c.op = "<"  -> cmp[1] < 0
                                           [] c.op = "<=" -> cmp[1] <= 0

If(cond, v) == IF cond = None THEN Fails ELSE Route(EvalCond(cond[1], v), v)

\* The port of the first that holds, among conditions some of which are void.
FirstPort(Holds(_), cases) ==
    LET hits == {i \in DOMAIN cases : cases[i] # None /\ Holds(cases[i][1])}
    IN IF hits = {} THEN "_" ELSE ToText(Int_(Min(hits) - 1))[1]

Switch(conds, v) == Emit(FirstPort(LAMBDA c : EvalCond(c, v), conds), v)

Match(key, cases, v) ==
    IF key = None THEN Emit("_", v)
    ELSE Emit(FirstPort(LAMBDA lit : EqCond(lit, TRUE, Target(key[1], v)), cases), v)

-----------------------------------------------------------------------------
(* The numbered configs of Switch, Match and Zip (update_numbered_spec).    *)

MaxN == 64
Clamp(n) == Max({1, Min({n, MaxN})})

\* The sources c0 .. c(n-1): of the configs, else of those the load of a patch
\* put aside under "_c0" .., else the default.
Numbered(n, configs, aside, default) ==
    [i \in 1 .. Clamp(n) |-> IF i \in DOMAIN configs THEN configs[i]
                             ELSE IF i \in DOMAIN aside THEN aside[i] ELSE default]

\* Display Value keeps the value in the patch only if it is told to.
DisplayValue(save, v) == [shown |-> v, kept |-> IF save THEN v ELSE Unit]

\* Router sends every value out of the port it came in by.
Router(port, v) == Emit(port, v)

-----------------------------------------------------------------------------
(* One module: its configs as the spec holds them, what it made of them,    *)
(* and the value it was last given with what came out.                      *)

CONSTANTS
    Configs,     \* of each kind of module, the configs it may be loaded with
    Edits,       \* of each kind, the configs a host may set later
    Inputs       \* of each kind, the values it is given

VARIABLES kind, cfg, made, input, output

stdVars == <<kind, cfg, made, input, output>>

Numbering    == {"Switch", "Match"}
RegexModules == {"RegexMatch", "RegexMatchAll", "RegexReplace", "RegexReplaceAll"}

\* new() and configs_changed() rewrite the numbered configs of these.
Rebuilt(k, c) ==
    IF k \in Numbering
    THEN [c EXCEPT !.n = Clamp(@), !.c = Numbered(c.n, c.c, c.aside, c.blank), !.aside = <<>>]
    ELSE c

\* What new() makes of the configs: a source that does not parse makes nothing.
Make(k, c) ==
    CASE k = "If"     -> ParseCond(c.cond)
      [] k = "Switch" -> [i \in DOMAIN c.c |-> ParseCond(c.c[i])]
      [] k = "Match"  -> <<ParseKey(c.key), [i \in DOMAIN c.c |-> ParseLit(c.c[i])]>>
      [] k \in RegexModules -> LoadRegex(c.regex)
      [] OTHER        -> None

\* process().
Process(k, c, m, v) ==
    CASE k = "IsArray"      -> IsArray(v)
      [] k = "IsEmptyArray" -> IsEmptyArray(v)
      [] k = "ArrayLength"  -> ArrayLength(v)
      [] k = "ArrayFirst"   -> ArrayFirst(v)
      [] k = "ArrayRest"    -> ArrayRest(v)
      [] k = "ArrayLast"    -> ArrayLast(v)
      [] k = "ArrayNth"     -> ArrayNth(c.n, v)
      [] k = "ArrayTake"    -> ArrayTake(c.n, v)
      [] k = "GetValue"     -> GetValue(c.key, v)
      [] k = "SetValue"     -> SetValue(c.key, c.value, v)
      [] k = "ToObject"     -> ToObject(c.key, v)
      [] k = "ToJson"       -> ToJsonModule(v)
      [] k = "FromJson"     -> FromJsonModule(v)
      [] k = "ToYaml"       -> ToYaml(v)
      [] k = "FromYaml"     -> FromYaml(v)
      [] k = "IsString"     -> IsString(v)
      [] k = "IsEmptyString" -> IsEmptyString(v)
      [] k = "StringJoin"   -> StringJoin(c.sep, v)
      [] k = "StringLengthSplit" ->
            IF SplitAllowed(c.len, c.overlap) /\ Kind(v) = "widths"
            THEN Emit("strings", <<"pieces", StringLengthSplit(c.len, c.overlap, v[2])>>) ELSE Fails
      [] k = "TemplateString" -> TemplateString(v)
      [] k = "TemplateText"   -> TemplateText(v)
      [] k = "TemplateArray"  -> TemplateArray(v)
      [] k = "RegexMatch"     -> RegexMatch(m, v)
      [] k = "RegexMatchAll"  -> RegexMatchAll(m, v)
      [] k = "RegexReplace"   -> RegexReplace(m, v)
      [] k = "RegexReplaceAll" -> RegexReplaceAll(m, v)
      [] k = "If"             -> If(m, v)
      [] k = "Switch"         -> Switch(m, v)
      [] k = "Match"          -> Match(m[1], m[2], v)
      [] k = "DisplayValue"   -> Emit("config", DisplayValue(c.save, v).kept)
      [] k = "Router"         -> Router("same", v)

StdInit ==
    /\ kind \in DOMAIN Configs
    /\ cfg \in {Rebuilt(kind, c) : c \in Configs[kind]}
    /\ made = Make(kind, cfg)
    /\ input = Unit /\ output = Quiet

\* The edit as the spec takes it: the numbered configs one by one.
Edited(e) ==
    Rebuilt(kind, [f \in DOMAIN cfg |-> CASE f \notin DOMAIN e -> cfg[f]
                                         [] f = "c"           -> e[f] @@ cfg[f]
                                         [] OTHER             -> e[f]])

\* Mutant: what the old configs made is kept when the new ones do not parse.
ConfigureKeeps(e) ==
    /\ cfg' = Edited(e)
    /\ made' = IF Make(kind, cfg') = None THEN made ELSE Make(kind, cfg')
    /\ input' = Unit /\ output' = Quiet
    /\ UNCHANGED kind

\* configs_changed(): the config is committed already, so what was made of the
\* old one is dropped even if nothing can be made of the new one.
Configure(e) ==
    /\ cfg' = Edited(e)
    /\ made' = Make(kind, cfg')
    /\ input' = Unit /\ output' = Quiet
    /\ UNCHANGED kind

Input(v) ==
    /\ input' = v
    /\ output' = Process(kind, cfg, made, v)
    /\ UNCHANGED <<kind, cfg, made>>

\* Nothing is kept from one message to the next, so one input per configuration
\* is enough: its result is what is looked at.
StdNext ==
    \/ \E e \in Edits[kind] : Configure(e)
    \/ /\ <<input, output>> = <<Unit, Quiet>>
       /\ \E v \in Inputs[kind] : Input(v)

-----------------------------------------------------------------------------

Emits(port, v) == output = Emit(port, v)

\* Source i as an If module of its own would take it now.
Passes(src, v) == If(ParseCond(src), v) = Emit("t", v)

Equals(lit, v) == Passes([key |-> <<>>, op |-> "==", lit |-> lit], v)

\* The conditions decide by the sources the configs hold now: an If or a regex
\* module fails while its own does not parse, a Switch or Match sends the value
\* unchanged to the first case that holds and has a port for every case, and
\* the operators agree: != is the negation of ==, >= is > or ==, no value is
\* both less and greater.
RoutesByConfig ==
    output # Quiet =>
      /\ kind = "If" =>
            LET With(op) == Passes([cfg.cond EXCEPT !.op = op], input)
            IN IF ParseCond(cfg.cond) = None THEN output = Fails
               ELSE /\ output \in {Emit("t", input), Emit("f", input)}
                    /\ cfg.cond.op \in OrderOps =>
                          /\ With(">=") <=> With(">") \/ With("==")
                          /\ With("<=") <=> With("<") \/ With("==")
                          /\ ~(With("<") /\ With(">"))
                    /\ cfg.cond.op \in {"==", "!="} => With("==") # With("!=")
                    /\ cfg.cond.op \in MatchOps => /\ With("=~") # With("!~")
                                                   /\ With("==") => With("=~")
      /\ kind = "Switch" =>
            \E p \in 0 .. Len(cfg.c) :
               /\ p < Len(cfg.c) => Passes(cfg.c[p + 1], input)
               /\ \A i \in 1 .. p : ~Passes(cfg.c[i], input)
               /\ Emits(IF p < Len(cfg.c) THEN ToText(Int_(p))[1] ELSE "_", input)
      /\ kind = "Match" /\ "" \notin Range(cfg.key) =>
            LET target == OrElse(GetNested(input, cfg.key), Unit) IN
            \E p \in 0 .. Len(cfg.c) :
               /\ p < Len(cfg.c) => Equals(cfg.c[p + 1], target)
               /\ \A i \in 1 .. p : ~Equals(cfg.c[i], target)
               /\ Emits(IF p < Len(cfg.c) THEN ToText(Int_(p))[1] ELSE "_", input)
      /\ kind \in RegexModules =>
            (output = Fails <=> ~(cfg.regex \in Patterns /\ Valid(cfg.regex) /\ Kind(input) = "str"))

\* Set Value leaves the new value at its path and every other property alone,
\* Get Value finds it there; what is refused is
\* an index an array does not have, or anything in an image.
PathsHold ==
    kind = "SetValue" /\ output # Quiet =>
      IF output # Fails
      THEN LET w == output[1][2] IN
           /\ GetNested(w, cfg.key) = Some(cfg.value)
           /\ HasProps(input) => \A k \in {"a", "b", "0", "1"} \ {Head(cfg.key)} :
                 GetProp(w, k) = GetProp(input, k)
           /\ GetValue(cfg.key, w) = Emit("value", cfg.value)
      ELSE \E i \in 0 .. Len(cfg.key) - 1 :
              LET at == GetNested(input, SubSeq(cfg.key, 1, i)) IN
              /\ at # None /\ Kind(at[1]) \in {"arr", "img"}
              /\ SetProp(at[1], cfg.key[i + 1], Unit) = None

\* The pieces of a split text follow one another without a gap, begin and end
\* between characters, and are of the length that was asked for unless a single
\* character is longer; the split ends where the step len - overlap is at least
\* the widest character, and may not end otherwise.
SplitCovers ==
    kind = "StringLengthSplit" /\ Kind(input) = "widths" /\ output # Quiet /\ output # Fails =>
      LET pieces == output[1][2][2]
          done   == SelectSeq(pieces, LAMBDA p : p[1] < p[2])
          B      == Boundaries(input[2])
          len    == Bytes(input[2], Len(input[2]))
      IN /\ \A i \in DOMAIN done :
               /\ {done[i][1], done[i][2]} \subseteq B /\ done[i][1] < done[i][2]
               /\ \/ done[i][2] - done[i][1] <= cfg.len
                  \/ ~\E b \in B : done[i][1] < b /\ b < done[i][2]
               /\ i > 1 => done[i][1] <= done[i - 1][2]
         /\ (done = pieces /\ len > 0) => done[1][1] = 0 /\ done[Len(done)][2] = len
         /\ (\A w \in Range(input[2]) : w <= cfg.len - cfg.overlap) => done = pieces

\* What is converted is of the kind asked for, converting it again changes
\* nothing, and a conversion to text and back gives the value again.  JSON
\* gives every value back but those it has no form for, and a text that is the
\* data URI of an image.
RECURSIVE Plain(_)
Plain(v) ==
    CASE Kind(v) = "str" -> v[2] \notin {ImageUri, BadUri}
      [] Kind(v) = "arr" -> \A i \in DOMAIN v[2] : Plain(v[2][i])
      [] Kind(v) = "obj" -> \A k \in DOMAIN v[2] : Plain(v[2][k])
      [] OTHER           -> Kind(v) \notin {"error", "tensor"}

RECURSIVE OfKind(_, _)
OfKind(k, v) == IF IsArr(v) THEN \A i \in DOMAIN v[2] : OfKind(k, v[2][i]) ELSE Kind(v) = k

ConversionsAgree ==
    kind = "ToJson" /\ output # Quiet =>
      LET back == FromJson(output[1][2][2]) IN
      /\ Plain(input) => back = Some(input)
      /\ back # None => ToJson(back[1]) = output[1][2][2]
      /\ \A k \in {"bool", "int", "num", "str"} :
            LET w == ConvertValue(k, input) IN
            w # None => /\ OfKind(k, w[1]) /\ ConvertValue(k, w[1]) = w
                        /\ IsArr(input) <=> IsArr(w[1])
                        /\ IsArr(input) => Len(w[1][2]) = Len(input[2])
                        /\ Kind(input) = k => ConvertValue(k, ConvertValue("str", input)[1]) = Some(input)

\* Paths, conversions and splits give back what was put in.
ValuesAgree == PathsHold /\ ConversionsAgree /\ SplitCovers
=============================================================================
