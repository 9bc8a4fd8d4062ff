------------------------------- MODULE Kinds --------------------------------
(***************************************************************************)
(* The values modules exchange (Value of modular-agent-core) by kind, and  *)
(* what a value of one kind is as another without a conversion.            *)
(*                                                                         *)
(* A value is a tuple, its kind first: <<"int", 3>>, <<"arr", <<v, w>>>>,  *)
(* <<"obj", f>> with f a function from keys to values.  A number is given  *)
(* in halves, <<"num", 3>> for 1.5, and is finite.  An Option is a         *)
(* sequence of at most one.                                                *)
(***************************************************************************)
EXTENDS Integers, Sequences, FiniteSets, SequencesExt, Functions, Optional, Retain

Unit     == <<"unit">>
Null     == <<"null">>
Error    == <<"error">>
Bool(b)  == <<"bool", b>>
Int_(i)  == <<"int", i>>
Num(h)   == <<"num", h>>
Str(s)   == <<"str", s>>
Arr(s)   == <<"arr", s>>
Obj(f)   == <<"obj", f>>
Kind(v)  == v[1]

OrElse(option, x) == IF option = None THEN x ELSE option[1]

EmptyObj == [k \in {} |-> Unit]

\* f64 as i64, towards zero.
Trunc(h) == IF h >= 0 THEN h \div 2 ELSE -((-h) \div 2)

\* as_bool, as_str, as_array, ...: the inner value of that kind and no other.
As(kind, v) == IF Kind(v) = kind THEN Some(v[2]) ELSE None

AsI64(v) == CASE Kind(v) = "int" -> Some(v[2])
              [] Kind(v) = "num" -> Some(Trunc(v[2]))
              [] OTHER           -> None

\* as_f64, in halves.
AsF64(v) == CASE Kind(v) = "int" -> Some(2 * v[2])
              [] Kind(v) = "num" -> Some(v[2])
              [] OTHER           -> None
=============================================================================
