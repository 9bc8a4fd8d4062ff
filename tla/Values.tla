------------------------------- MODULE Values -------------------------------
(***************************************************************************)
(* The JSON form of the values modules exchange, their conversions, and    *)
(* access to their properties by key.  JSON has the form of values, with   *)
(* null for unit.  Texts are whole: what parsing makes of one is in the    *)
(* tables below.                                                           *)
(***************************************************************************)
EXTENDS Kinds

\* The values of a sequence of options, or none of them if one is missing.
AllSome(s) == IF \A i \in DOMAIN s : s[i] # None THEN Some([i \in DOMAIN s |-> s[i][1]]) ELSE None

-----------------------------------------------------------------------------
(* Texts.                                                                   *)

IntOf == ("0" :> 0) @@ ("1" :> 1) @@ ("2" :> 2) @@ ("-1" :> -1) @@ ("01" :> 1)
NumOf == [s \in DOMAIN IntOf |-> 2 * IntOf[s]] @@ ("0.5" :> 1) @@ ("1.5" :> 3)
IntText  == ("0" :> 0) @@ ("1" :> 1) @@ ("2" :> 2) @@ ("-1" :> -1)
NumText  == [s \in DOMAIN IntText |-> 2 * IntText[s]] @@ ("0.5" :> 1) @@ ("1.5" :> 3)
BoolText(b) == IF b THEN "true" ELSE "false"

\* The data URI of an image, and one whose payload is not an image.
ImageUri == "data:img"
BadUri   == "data:bad"
Image    == <<"img", "pixels">>
ImageOf(s) == IF s \in {ImageUri, "img"} THEN Some(Image) ELSE None

\* parse_index: digits only, no sign, no leading zero.
ParseIndex(key) == IF key \in {"0", "1", "2"} THEN Some(IntOf[key]) ELSE None

-----------------------------------------------------------------------------
(* JSON.                                                                    *)

RECURSIVE ToJson(_)
ToJson(v) ==
    CASE Kind(v) \in {"unit", "error"} -> Null
      [] Kind(v) = "img"    -> Str(ImageUri)
      [] Kind(v) = "tensor" -> Arr([i \in DOMAIN v[2] |-> Num(v[2][i])])
      [] Kind(v) = "arr"    -> Arr([i \in DOMAIN v[2] |-> ToJson(v[2][i])])
      [] Kind(v) = "obj"    -> Obj([k \in DOMAIN v[2] |-> ToJson(v[2][k])])
      [] OTHER              -> v

\* A string that looks like a data URI becomes an image, or an error.
RECURSIVE FromJson(_)
FromJson(j) ==
    CASE Kind(j) = "null" -> Some(Unit)
      [] Kind(j) = "str" /\ j[2] \in {ImageUri, BadUri} -> ImageOf(j[2])
      [] Kind(j) = "arr" ->
            LET items == AllSome([i \in DOMAIN j[2] |-> FromJson(j[2][i])])
            IN IF items = None THEN None ELSE Some(Arr(items[1]))
      [] Kind(j) = "obj" ->
            IF \E k \in DOMAIN j[2] : FromJson(j[2][k]) = None THEN None
            ELSE Some(Obj([k \in DOMAIN j[2] |-> FromJson(j[2][k])[1]]))
      [] OTHER            -> Some(j)

-----------------------------------------------------------------------------
(* Casts and conversions.                                                   *)

ToBoolean(v) ==
    CASE Kind(v) = "bool" -> Some(v[2])
      [] Kind(v) \in {"int", "num"} -> Some(v[2] # 0)
      [] Kind(v) = "str" /\ v[2] \in {"true", "false"} -> Some(v[2] = "true")
      [] OTHER            -> None

ToInteger(v) ==
    CASE Kind(v) = "bool" -> Some(IF v[2] THEN 1 ELSE 0)
      [] Kind(v) = "str"  -> IF v[2] \in DOMAIN IntOf THEN Some(IntOf[v[2]]) ELSE None
      [] OTHER            -> AsI64(v)

ToNumber(v) ==
    CASE Kind(v) = "bool" -> Some(IF v[2] THEN 2 ELSE 0)
      [] Kind(v) = "str"  -> IF v[2] \in DOMAIN NumOf THEN Some(NumOf[v[2]]) ELSE None
      [] OTHER            -> AsF64(v)

ToText(v) ==
    CASE Kind(v) = "str"  -> Some(v[2])
      [] Kind(v) = "bool" -> Some(BoolText(v[2]))
      [] Kind(v) = "int"  -> Some(CHOOSE s \in DOMAIN IntText : IntText[s] = v[2])
      [] Kind(v) = "num"  -> Some(CHOOSE s \in DOMAIN NumText : NumText[s] = v[2])
      [] OTHER            -> None

\* The four conversions by the kind they make.
Convert(kind, v) ==
    LET made == CASE kind = "bool" -> ToBoolean(v)
                  [] kind = "int"  -> ToInteger(v)
                  [] kind = "num"  -> ToNumber(v)
                  [] kind = "str"  -> ToText(v)
    IN IF made = None THEN None ELSE Some(<<kind, made[1]>>)

\* Mutant: the items that cannot be converted are left out.
RECURSIVE ConvertValueSkipping(_, _)
ConvertValueSkipping(kind, v) ==
    IF Kind(v) # "arr" THEN Convert(kind, v)
    ELSE LET items == SelectSeq([i \in DOMAIN v[2] |-> ConvertValueSkipping(kind, v[2][i])],
                                LAMBDA item : item # None)
         IN Some(Arr([i \in DOMAIN items |-> items[i][1]]))

\* to_boolean_value, ...: an array is converted item by item, or not at all.
RECURSIVE ConvertValue(_, _)
ConvertValue(kind, v) ==
    IF Kind(v) # "arr" THEN Convert(kind, v)
    ELSE IF \A i \in DOMAIN v[2] : Kind(v[2][i]) = kind THEN Some(v)
    ELSE LET items == AllSome([i \in DOMAIN v[2] |-> ConvertValue(kind, v[2][i])])
         IN IF items = None THEN None ELSE Some(Arr(items[1]))

-----------------------------------------------------------------------------
(* Properties and key paths.                                                *)

HasProps(v) == Kind(v) \in {"obj", "arr", "img"}

GetProp(v, key) ==
    CASE Kind(v) = "obj" -> IF key \in DOMAIN v[2] THEN Some(v[2][key]) ELSE None
      [] Kind(v) = "arr" ->
            LET i == ParseIndex(key)
            IN IF i # None /\ i[1] < Len(v[2]) THEN Some(v[2][i[1] + 1]) ELSE None
      [] Kind(v) = "img" -> IF key \in {"width", "height"} THEN Some(Int_(1)) ELSE None
      [] OTHER           -> None

\* The value with the property set, or nothing where that is an error.
SetProp(v, key, new) ==
    CASE Kind(v) = "obj" -> Some(Obj((key :> new) @@ v[2]))
      [] Kind(v) = "arr" ->
            LET i == ParseIndex(key)
            IN IF i # None /\ i[1] < Len(v[2])
               THEN Some(Arr([v[2] EXCEPT ![i[1] + 1] = new])) ELSE None
      [] OTHER           -> None

\* get_nested_value.
RECURSIVE GetNested(_, _)
GetNested(v, keys) ==
    IF keys = <<>> THEN Some(v)
    ELSE LET w == GetProp(v, Head(keys))
         IN IF w = None THEN None ELSE GetNested(w[1], Tail(keys))

\* Mutant: a value without properties is an error, as any other misfit is.
RECURSIVE SetNestedStrict(_, _, _)
SetNestedStrict(v, keys, new) ==
    IF keys = <<>> THEN Some(v)
    ELSE IF Len(keys) = 1 THEN SetProp(v, keys[1], new)
    ELSE LET sub == SetNestedStrict(OrElse(GetProp(v, keys[1]), Obj(EmptyObj)), Tail(keys), new)
         IN IF sub = None THEN None ELSE SetProp(v, keys[1], sub[1])

\* set_nested_value: what has no properties is overwritten by an object, what
\* is missing is created, and a step that cannot be set is an error.
RECURSIVE SetNested(_, _, _)
SetNested(v, keys, new) ==
    IF keys = <<>> THEN Some(v)
    ELSE LET root == IF HasProps(v) THEN v ELSE Obj(EmptyObj)
             key  == Head(keys)
             sub  == SetNested(OrElse(GetProp(root, key), Obj(EmptyObj)), Tail(keys), new)
         IN IF Len(keys) = 1 THEN SetProp(root, key, new)
            ELSE IF sub = None THEN None ELSE SetProp(root, key, sub[1])
=============================================================================
