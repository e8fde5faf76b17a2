-------------------------------- MODULE Maps --------------------------------
(***************************************************************************)
(* Finite maps as functions: the members of a document by name, and the    *)
(* documents of a collection by list node.                                 *)
(***************************************************************************)

With(m, k, v) == [x \in DOMAIN m \cup {k} |-> IF x = k THEN v ELSE m[x]]

Without(m, k) == [x \in DOMAIN m \ {k} |-> m[x]]

\* The entries of m and those of other, which take precedence.
Overlaid(m, other) ==
  [x \in DOMAIN m \cup DOMAIN other |-> IF x \in DOMAIN other THEN other[x] ELSE m[x]]
=============================================================================
