----------------------------- MODULE TreeIndex ------------------------------
(***************************************************************************)
(* The tree behind an index: std::multimap as libstdc++ has it, a red-     *)
(* black tree.  OrderedIndex gives every answer some search tree could     *)
(* give; this module gives the one answer of the tree that the calls of    *)
(* insert_index_entries (src/cppsrc/collection.cpp) have built.  With keys *)
(* operator< does not order, the two differ.                               *)
(***************************************************************************)
EXTENDS OrderedIndex

CONSTANTS
  Inserted,  \* the values of the indexed field in the documents clients append
  MaxSize    \* bound: entries in the index

VARIABLES
  tree,   \* the tree of the multimap
  values  \* the value in each document, in the order of the appends

vars == <<tree, values>>

Nil == [red |-> FALSE]

Node(red, left, entry, right) ==
  [red |-> red, left |-> left, entry |-> entry, right |-> right]

\* The entries in iteration order.
RECURSIVE InOrder(_)
InOrder(t) == IF t = Nil THEN <<>> ELSE InOrder(t.left) \o <<t.entry>> \o InOrder(t.right)

Size(t) == Len(InOrder(t))
-----------------------------------------------------------------------------
(***************************************************************************)
(* insert descends to the right unless the new key is less, hangs a red    *)
(* node there, and mends each red node with a red child on its way up: by  *)
(* recolouring if the other child of the black node above is red as well,  *)
(* by rotation if it is black.                                             *)
(***************************************************************************)
RedRed(t) == t.red /\ (t.left.red \/ t.right.red)

Recoloured(t) == [t EXCEPT !.red = TRUE, !.left.red = FALSE, !.right.red = FALSE]

RotatedRight(t) ==
  LET l == t.left
  IN  IF l.left.red
      THEN Node(FALSE, l.left, l.entry, Node(TRUE, l.right, t.entry, t.right))
      ELSE Node(FALSE, Node(TRUE, l.left, l.entry, l.right.left), l.right.entry,
                Node(TRUE, l.right.right, t.entry, t.right))

RotatedLeft(t) ==
  LET r == t.right
  IN  IF r.right.red
      THEN Node(FALSE, Node(TRUE, t.left, t.entry, r.left), r.entry, r.right)
      ELSE Node(FALSE, Node(TRUE, t.left, t.entry, r.left.left), r.left.entry,
                Node(TRUE, r.left.right, r.entry, r.right))

Mended(t) ==
  CASE ~t.red /\ (RedRed(t.left) \/ RedRed(t.right)) /\ t.left.red /\ t.right.red -> Recoloured(t)
    [] ~t.red /\ RedRed(t.left) /\ ~t.right.red -> RotatedRight(t)
    [] ~t.red /\ RedRed(t.right) /\ ~t.left.red -> RotatedLeft(t)
    [] OTHER -> t

RECURSIVE Grown(_, _)
Grown(t, e) ==
  IF t = Nil THEN Node(TRUE, Nil, e, Nil)
  ELSE IF Less(e.key, t.entry.key) THEN Mended([t EXCEPT !.left = Grown(@, e)])
  ELSE Mended([t EXCEPT !.right = Grown(@, e)])

\* The root is black.
Insert(t, e) == [Grown(t, e) EXCEPT !.red = FALSE]
-----------------------------------------------------------------------------
(***************************************************************************)
(* Finding: the number of entries in front of the iterator returned.       *)
(***************************************************************************)
RECURSIVE LowerBound(_, _)
LowerBound(t, k) ==
  IF t = Nil THEN 0
  ELSE IF Less(t.entry.key, k) THEN Size(t.left) + 1 + LowerBound(t.right, k)
  ELSE LowerBound(t.left, k)

RECURSIVE UpperBound(_, _)
UpperBound(t, k) ==
  IF t = Nil THEN 0
  ELSE IF Less(k, t.entry.key) THEN UpperBound(t.left, k)
  ELSE Size(t.left) + 1 + UpperBound(t.right, k)

\* Both ends are sought below the first node on the way that is neither less nor greater.
RECURSIVE EqualRange(_, _)
EqualRange(t, k) ==
  IF t = Nil THEN <<0, 0>>
  ELSE IF Less(t.entry.key, k)
  THEN LET c == EqualRange(t.right, k)
       IN  <<Size(t.left) + 1 + c[1], Size(t.left) + 1 + c[2]>>
  ELSE IF Less(k, t.entry.key) THEN EqualRange(t.left, k)
  ELSE <<LowerBound(t.left, k), Size(t.left) + 1 + UpperBound(t.right, k)>>
-----------------------------------------------------------------------------
Init ==
  /\ tree = Nil
  /\ values = <<>>

\* Collection::append of a document with v in the indexed field.
AppendDocument(v) ==
  /\ Len(values) < MaxSize
  /\ values' = Append(values, v)
  /\ tree' = Insert(tree, Entry(v, Len(values) + 1))

Next == \E v \in Inserted : AppendDocument(v)

Spec == Init /\ [][Next]_vars
-----------------------------------------------------------------------------
(***************************************************************************)
(* A lookup by value - equal_range, and == for each document in it - finds *)
(* every document with that value, whatever other values the field holds   *)
(* in other documents (docs/overview.md: no schema is required).           *)
(***************************************************************************)
LookupFindsAll ==
  \A k \in Inserted :
    LET c == EqualRange(tree, k)
        es == InOrder(tree)
    IN  {es[p].ref : p \in {x \in c[1] + 1 .. c[2] : Eq(es[x].key, k)}}
          = {r \in DOMAIN values : Eq(values[r], k)}
=============================================================================
