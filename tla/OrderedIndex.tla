---------------------------- MODULE OrderedIndex ----------------------------
(***************************************************************************)
(* One index of a collection: a std::multimap from the value of a field to *)
(* the list node of the document holding it (src/cppsrc/query_parser.h,    *)
(* IndexType), as the sequence of its entries in iteration order.          *)
(*                                                                         *)
(* The tree never compares neighbours: it descends from its root, so on a  *)
(* key it can end in front of any entry at which the answers of operator<  *)
(* change.  With an operator< that orders the keys there is one such place; *)
(* with one that does not (a number against a string is "less" neither     *)
(* way) there can be several, and which of them is found depends on the    *)
(* shape of the tree.  The operators below give all of them.               *)
(*                                                                         *)
(* A cut p \in 0 .. Len(es) stands for the iterator to entry p + 1; the    *)
(* cut Len(es) is end().                                                   *)
(***************************************************************************)
EXTENDS DomValue, Maps, Sequences, SequencesExt

Entry(k, r) == [key |-> k, ref |-> r]

EntriesOf(R) == [key : Values, ref : R]

\* The cuts upper_bound(k) can return.
UpperBounds(es, k) ==
  {p \in 0 .. Len(es) : /\ p = 0 \/ ~Less(k, es[p].key)
                        /\ p = Len(es) \/ Less(k, es[p + 1].key)}

\* The cuts lower_bound(k) can return.
LowerBounds(es, k) ==
  {p \in 0 .. Len(es) : /\ p = 0 \/ Less(es[p].key, k)
                        /\ p = Len(es) \/ ~Less(es[p + 1].key, k)}

\* The pairs of cuts equal_range(k) can return.
EqualRanges(es, k) ==
  {c \in LowerBounds(es, k) \X UpperBounds(es, k) : c[1] <= c[2]}

\* insert: a new entry goes behind the entries with an equivalent key.
InsertEntry(es, k, r) ==
  {InsertAt(es, p + 1, Entry(k, r)) : p \in UpperBounds(es, k)}

(***************************************************************************)
(* Erasing the entry of list node r: the first one inside equal_range(k)   *)
(* that refers to r, or none when the range holds no such entry.           *)
(***************************************************************************)
EraseEntry(es, k, r) ==
  LET EraseIn(c) ==
        LET hits == {p \in c[1] + 1 .. c[2] : es[p].ref = r}
        IN  IF hits = {} THEN es
            ELSE RemoveAt(es, Min(hits))
  IN  {EraseIn(c) : c \in EqualRanges(es, k)}
-----------------------------------------------------------------------------
(***************************************************************************)
(* What the entries es have to be as the index of field f over docs, the   *)
(* documents by list node.                                                 *)
(***************************************************************************)

\* No entry refers to a freed document or carries a key the document no longer has.
Current(es, f, docs) ==
  \A p \in DOMAIN es :
    /\ es[p].ref \in DOMAIN docs
    /\ f \in DOMAIN docs[es[p].ref]
    /\ es[p].key = docs[es[p].ref][f]

Complete(es, f, docs) ==
  \A r \in DOMAIN docs :
    f \in DOMAIN docs[r] => \E p \in DOMAIN es : es[p].ref = r

Distinct(es) ==
  \A p, q \in DOMAIN es : es[p].ref = es[q].ref => p = q

Sorted(es) ==
  \A p, q \in DOMAIN es : p < q => ~Less(es[q].key, es[p].key)

Coherent(es, f, docs) ==
  /\ Current(es, f, docs)
  /\ Complete(es, f, docs)
  /\ Distinct(es)
  /\ Sorted(es)
=============================================================================
