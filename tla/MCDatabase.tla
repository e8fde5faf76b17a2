----------------------------- MODULE MCDatabase -----------------------------
(***************************************************************************)
(* Instances of Database for TLC.                                          *)
(***************************************************************************)
EXTENDS Database

CONSTANT scalar

Str(n) == [type |-> "string", n |-> n]

Integer(n) == [type |-> "int", n |-> n]

Query(op, f, v) == [op |-> op, field |-> f, v |-> v, hi |-> v]

ListNodes == Nat

StrcmpOrder == <<"_id", "a", "k", "v", Garbled>>

FewInputs == {"a" :> Uint(1), scalar}

FewPatches == {"a" :> Uint(2)}

FewQueries ==
  {Query("malformed", "a", Uint(0)), Query("eq", "a", Uint(1))}

\* Two documents that change places in an index.
TwoInputs == {"a" :> Uint(1), "a" :> Uint(2)}

TwoQueries == {Query("eq", "a", Uint(1)), Query("eq", "a", Uint(2))}

FewKeys == {Str(1)}

FewKeyValues == {Integer(1)}
=============================================================================
