------------------------------ MODULE DomValue ------------------------------
(***************************************************************************)
(* The values a document member can hold and the comparisons the query    *)
(* engine and the indices make of them (src/cppsrc/dom_node.cpp, class     *)
(* DomView).                                                               *)
(*                                                                         *)
(* A value is a record [type, n]: n is the number itself for the numeric   *)
(* types (0 or 1 for a bool), the position in strcmp order for a string,   *)
(* and only an identity for null, object and array values, whose contents  *)
(* no comparison of the code ever looks at.                                *)
(***************************************************************************)
EXTENDS Integers

CONSTANT
  MaxExact    \* 2^53: up to it every integer is a double of its own

ASSUME MaxExactAssumption == MaxExact \in Nat

NumericTypes == {"double", "int", "uint", "bool"}

Types == NumericTypes \cup {"string", "null", "object", "array"}

Values == [type : Types, n : Int]

\* What a query sees in place of a member the document does not have.
Invalid == [type |-> "invalid", n |-> 0]

Member(d, f) == IF f \in DOMAIN d THEN d[f] ELSE Invalid

IsNumeric(v) == v.type \in NumericTypes

IsString(v) == v.type = "string"

(***************************************************************************)
(* A 64-bit integer converted to a double.  Between 2^53 and 2^54 the odd  *)
(* integers have no double of their own and go to the neighbour that is a  *)
(* multiple of four (round half to even).  Integers of 2^54 and more, where *)
(* more of them share a double, are left out.                              *)
(***************************************************************************)
AsDouble(v) ==
  IF v.type = "double" \/ v.n \in -MaxExact .. MaxExact \/ v.n % 2 = 0
  THEN v.n
  ELSE IF v.n % 4 = 1 THEN v.n - 1 ELSE v.n + 1

\* The key both kinds of comparable value are ordered by.
Rank(v) == IF IsString(v) THEN v.n ELSE AsDouble(v)

Comparable(a, b) ==
  \/ IsNumeric(a) /\ IsNumeric(b)
  \/ IsString(a) /\ IsString(b)

\* Within one kind every two values are ordered the same way, or none are ordered.
Kind(v) == IF IsNumeric(v) THEN "number" ELSE IF IsString(v) THEN "string" ELSE "other"

\* Two integers of one signedness are compared exactly, all other numbers as doubles.
Eq(a, b) ==
  IF a.type = b.type /\ a.type \in {"uint", "int"}
  THEN a.n = b.n
  ELSE Comparable(a, b) /\ Rank(a) = Rank(b)

Less(a, b) == Comparable(a, b) /\ Rank(a) < Rank(b)

Greater(a, b) == Comparable(a, b) /\ Rank(a) > Rank(b)

AtLeast(a, b) == Comparable(a, b) /\ Rank(a) >= Rank(b)

AtMost(a, b) == Comparable(a, b) /\ Rank(a) <= Rank(b)
=============================================================================
