---------------------------- MODULE MCTreeIndex -----------------------------
(***************************************************************************)
(* Instances of TreeIndex for TLC: numbers and a string in one field.      *)
(***************************************************************************)
EXTENDS TreeIndex

Uint(n) == [type |-> "uint", n |-> n]

Str(n) == [type |-> "string", n |-> n]

MixedValues == {Uint(2), Uint(4), Str(1)}
=============================================================================
