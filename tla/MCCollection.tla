--------------------------- MODULE MCCollection ----------------------------
(***************************************************************************)
(* Instances of Collection for TLC.  The members of field "a" are of one   *)
(* kind; MaxExact is 4, so that the unsigned integers 4 and 5 are one key  *)
(* of an index and yet two different values.                               *)
(***************************************************************************)
EXTENDS Collection, TLC

CONSTANTS n1, n2, n3, scalar

Double(n) == [type |-> "double", n |-> n]

Str(n) == [type |-> "string", n |-> n]

ListNodes2 == {n1, n2}

ListNodes3 == {n1, n2, n3}

Nodes3Symmetry == Permutations(ListNodes3)

Query(op, f, v) == [op |-> op, field |-> f, v |-> v, hi |-> v]

RangeQuery(f, v, hi) == [op |-> "range", field |-> f, v |-> v, hi |-> hi]

All == Query("all", "a", Double(0))

BadQuery == Query("malformed", "a", Double(0))

\* One kind of value in each field: numbers in "a", strings in "b".
UniformInputs ==
  {"a" :> Uint(2), "a" :> Uint(4), "b" :> Str(1),
   (Id :> Uint(1)) @@ ("a" :> Uint(5)),  \* may repeat an "_id" or push the counter
   Id :> Str(1), scalar}                 \* both rejected

UniformPatches == {"a" :> Uint(5)}

UniformQueries ==
  {All, BadQuery, Query("eq", "a", Double(4)), Query("eq", Id, Double(1)),
   Query("ne", "a", Double(4)), Query("gt", "a", Double(2)), Query("lt", "a", Double(4)),
   RangeQuery("a", Double(2), Double(3)), Query("eq", "b", Str(1)), Query("gt", "b", Double(1))}

\* Few documents and many calls, for the journal.
FewInputs == {"a" :> Uint(2), scalar}

FewPatches == {"a" :> Uint(4)}

\* A document with a 4 puts the end of the reversed range before its start.
FewQueries == {All, Query("gt", "a", Double(2)), RangeQuery("a", Double(5), Double(3))}

BadQueries == {All, BadQuery}
=============================================================================
