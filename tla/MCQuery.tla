------------------------------ MODULE MCQuery -------------------------------
(***************************************************************************)
(* Queries for TLC over fields "a" and "c", numbers and strings with an    *)
(* index, and "b", any values and no index.                                *)
(***************************************************************************)
EXTENDS Query, TLC

Whole(n) == [type |-> "int", n |-> n]

Str(n) == [type |-> "string", n |-> n]

Null == [type |-> "null", n |-> 0]

\* Pattern 1 fits string 1, pattern 2 fits both strings.
PatternFits == {<<1, 1>>, <<2, 1>>, <<2, 2>>}

Documents ==
  << ("a" :> Whole(1)) @@ ("b" :> Whole(1)) @@ ("c" :> Str(1)) @@ ("d" :> Whole(1)),
     ("a" :> Number(2)) @@ ("b" :> Str(1)) @@ ("d" :> Str(1)),
     ("a" :> Whole(3)) @@ ("b" :> Bool(TRUE)),
     ("a" :> Whole(2)) @@ ("b" :> Null),
     ("b" :> Whole(2)) @@ ("c" :> Str(2)) @@ ("d" :> Number(2)) >>

Cmp(op, f, v) == [op |-> op, field |-> f, v |-> v]

AnyOf(op, f, vs) == [op |-> op, field |-> f, vs |-> vs]

InBetween(f, v, hi) == [op |-> "range", field |-> f, v |-> v, hi |-> hi]

Not(e) == [op |-> "not", of |-> e]

Both(x, y) == [op |-> "and", of |-> <<x, y>>]

Either(x, y) == [op |-> "or", of |-> <<x, y>>]

All == [op |-> "all"]

OnIndex ==
  {Cmp("is", "a", Number(2)), Cmp("gt", "a", Number(1)), Cmp("lt", "a", Number(3)),
   InBetween("a", Number(2), Number(3))}

Plain ==
  {Cmp("is", "b", Str(1)), Cmp("is", "b", Bool(TRUE)), Cmp("gt", "d", Number(1)),
   Cmp("ne", "a", Number(2)), AnyOf("in", "a", <<Number(1), Number(2)>>),
   Cmp("exists", "a", Bool(FALSE))}

MoreLeaves ==
  {InBetween("a", Number(3), Number(1)), InBetween("c", Number(1), Number(2)),
   Cmp("is", "c", Str(1)), Cmp("lt", "c", Str(2)), Cmp("gt", "c", Number(0)),
   Cmp("is", "a", Str(1)), Cmp("eq", "b", Number(1)), Cmp("lt", "b", Number(2)), Cmp("lt", "d", Number(2)),
   InBetween("b", Number(1), Number(1)), AnyOf("nin", "b", <<Number(1)>>),
   AnyOf("nin", "a", <<Number(3), Str(1)>>), Cmp("exists", "a", Bool(TRUE)), Cmp("startsWith", "b", Str(1))}
  \cup {Cmp("type", "b", Str(i)) : i \in DOMAIN TypeNames}

Junction(X, Y) == {Both(x, y) : x \in X, y \in Y} \cup {Either(x, y) : x \in X, y \in Y}

Leaves == OnIndex \cup Plain \cup MoreLeaves

Small == OnIndex \cup Plain

Few == {Cmp("is", "a", Number(2)), Cmp("gt", "a", Number(1)), Cmp("is", "b", Str(1)),
        AnyOf("in", "a", <<Number(1), Number(2)>>)}

Pairs == Junction(Small, Small \cup {All})

Regex == {Cmp("regex", "b", Str(i)) : i \in 1 .. 2}

\* Up to three levels, with every operator.
Nested ==
  {All, Not(All)} \cup Leaves \cup {Not(x) : x \in Leaves \cup Regex} \cup Regex
    \cup Pairs \cup {Not(x) : x \in Pairs}
    \cup Junction(Few \cup {Not(x) : x \in Few}, Junction(Few, Few))

RECURSIVE Nesting(_)
Nesting(e) ==
  IF Operands(e) = <<>> THEN 0
  ELSE 1 + Max({Nesting(Operands(e)[k]) : k \in DOMAIN Operands(e)})

\* {$and: [{name: "Dave"}, {score: {$gt: 20}}]} with an index on the score.
JunctionQueries == {Both(Cmp("is", "b", Str(1)), Cmp("gt", "a", Number(1)))}

JunctionParts == JunctionQueries \cup Leaves
=============================================================================
