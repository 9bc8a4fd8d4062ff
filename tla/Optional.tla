------------------------------ MODULE Optional ------------------------------
(* An optional value as a sequence of at most one.                           *)
None    == <<>>
Some(x) == <<x>>
=============================================================================
