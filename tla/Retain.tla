------------------------------- MODULE Retain -------------------------------
(***************************************************************************)
(* What is left of a list that retain, or a filter, goes through, and what *)
(* a map holds when another is written over it, in closed form: SelectSeq  *)
(* is recursive, and the proofs could say nothing of what it yields.       *)
(***************************************************************************)
EXTENDS Integers, FiniteSets

\* The elements of s that are in S, in their order: the k-th is the one that
\* has k - 1 of them before it.
Within(s, S) ==
    LET kept    == {i \in DOMAIN s : s[i] \in S}
        rank(i) == Cardinality({j \in kept : j <= i})
    IN [k \in 1 .. Cardinality(kept) |-> s[CHOOSE i \in kept : rank(i) = k]]

\* A map written over another: what else that one has stays.
Over(new, configs) ==
    [k \in DOMAIN new \cup DOMAIN configs |-> IF k \in DOMAIN new THEN new[k] ELSE configs[k]]
=============================================================================
