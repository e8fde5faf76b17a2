------------------------------ MODULE MCCursor ------------------------------
(***************************************************************************)
(* Instances of Cursor for TLC: one client that uses the collection as it  *)
(* pleases while it holds a cursor.                                        *)
(***************************************************************************)
EXTENDS Cursor, TLC

CONSTANTS n1, n2, n3, end, scalar

Double(n) == [type |-> "double", n |-> n]

ListNodes == {n1, n2, n3}

Symmetry == Permutations(ListNodes)

Query(op, v) == [op |-> op, field |-> "a", v |-> Double(v), hi |-> Double(v)]

\* Documents with equal keys, and keys on both sides of the bounds of the queries.
AnyInputs == {"a" :> Uint(2), "a" :> Uint(3)}

AnyPatches == {"a" :> Uint(3), scalar}

\* Each of them is a scan while there is no index.  The last one is a range with its
\* bounds reversed.
AnyQueries == {Query("gt", 2), Query("lt", 3), [Query("range", 4) EXCEPT !.hi = Double(2)]}
=============================================================================
