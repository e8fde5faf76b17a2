------------------------------ MODULE Indexing ------------------------------
(***************************************************************************)
(* The indices of a collection as a whole: what an append or a removal     *)
(* does to them, and how a query is answered from them                     *)
(* (src/cppsrc/collection.cpp, query_parse.cpp and cursor.h).  `ixs` is    *)
(* the vector of indices and `docs` the documents by list node.            *)
(***************************************************************************)
EXTENDS Documents, OrderedIndex, FiniteSets

\* The documents of a collection by list node.
IsStore(d) ==
  /\ DOMAIN d \subseteq Refs
  /\ d = [r \in DOMAIN d |-> d[r]]
  /\ \A r \in DOMAIN d : IsDocument(d[r])

IndexRecords == [field : Names, entries : Seq(EntriesOf(Refs))]

AllCoherent(ixs, docs) ==
  \A i \in DOMAIN ixs : Coherent(ixs[i].entries, ixs[i].field, docs)

(***************************************************************************)
(* Keeping the indices: every index with the document's field gains or     *)
(* loses an entry.                                                         *)
(***************************************************************************)
WithEntry(ix, r, d) ==
  IF ix.field \in DOMAIN d
  THEN {[ix EXCEPT !.entries = es] : es \in InsertEntry(ix.entries, d[ix.field], r)}
  ELSE {ix}

WithoutEntry(ix, r, d) ==
  IF ix.field \in DOMAIN d
  THEN {[ix EXCEPT !.entries = es] : es \in EraseEntry(ix.entries, d[ix.field], r)}
  ELSE {ix}

\* The sequences that take their i-th element from the i-th set of candidates.
Selections(candidates) ==
  {s \in [DOMAIN candidates -> UNION {candidates[i] : i \in DOMAIN candidates}] :
     \A i \in DOMAIN candidates : s[i] \in candidates[i]}

InsertIndexEntries(ixs, r, d) == Selections([i \in DOMAIN ixs |-> WithEntry(ixs[i], r, d)])

\* Variant: only the first index, the one on "_id", loses its entry.
RemoveFirstIndexEntry(ixs, r, d) ==
  Selections([i \in DOMAIN ixs |-> IF i = 1 THEN WithoutEntry(ixs[i], r, d) ELSE {ixs[i]}])

RemoveIndexEntries(ixs, r, d) == Selections([i \in DOMAIN ixs |-> WithoutEntry(ixs[i], r, d)])
-----------------------------------------------------------------------------
(***************************************************************************)
(* Running a query.  The parser settles on the first index of the queried  *)
(* field, if the operator can use one, and on the "_id" index - position 1 *)
(* - for a scan of everything.  A plan is the stretch lo + 1 .. hi of that *)
(* index, and whether the instructions are still to be run on a document:  *)
(* $gt, $lt and $range leave none when an index has answered them.  The    *)
(* parser throws on a malformed query, which has no plan.                  *)
(***************************************************************************)
UsesIndex(q) ==
  \/ q.op = "eq" /\ q.v.type # "bool"
  \/ q.op \in {"gt", "lt", "range"}

FirstIndexIn(ixs, f) ==
  SelectInSeq(ixs, LAMBDA ix : ix.field = f)

\* The bounds of a range are of the kind of the field, which has an order.
BoundsOfKind(q, kind) ==
  q.op = "range" => Kind(q.v) = kind /\ Kind(q.hi) = kind /\ kind # "other"

\* They are, and they are in order.
BoundsInOrder(q, kind) ==
  BoundsOfKind(q, kind) /\ (q.op = "range" => ~Less(q.hi, q.v))

Plan(es, lo, hi, test) == [entries |-> es, lo |-> lo, hi |-> hi, test |-> test]

\* Variant: $gt begins at the first entry that is not less.
IndexPlansFromEqual(es, q) ==
  CASE q.op = "eq" ->
         {Plan(es, c[1], c[2], TRUE) : c \in EqualRanges(es, q.v)}
    [] q.op = "gt" ->
         {Plan(es, lo, Len(es), FALSE) : lo \in LowerBounds(es, q.v)}
    [] q.op = "lt" ->
         {Plan(es, 0, hi, FALSE) : hi \in LowerBounds(es, q.v)}
    [] q.op = "range" ->
         {Plan(es, c[1], c[2], FALSE) : c \in LowerBounds(es, q.v) \X UpperBounds(es, q.hi)}

IndexPlans(es, q) ==
  CASE q.op = "eq" ->
         {Plan(es, c[1], c[2], TRUE) : c \in EqualRanges(es, q.v)}
    [] q.op = "gt" ->
         {Plan(es, lo, Len(es), FALSE) : lo \in UpperBounds(es, q.v)}
    [] q.op = "lt" ->
         {Plan(es, 0, hi, FALSE) : hi \in LowerBounds(es, q.v)}
    [] q.op = "range" ->
         {Plan(es, c[1], c[2], FALSE) : c \in LowerBounds(es, q.v) \X UpperBounds(es, q.hi)}

\* Without any index the scan reads indices[0] of an empty vector: a stray range.
ScanPlan(ixs) ==
  IF ixs = <<>> THEN Plan(<<>>, 1, 0, TRUE)
  ELSE Plan(ixs[1].entries, 0, Len(ixs[1].entries), TRUE)

PlansIn(ixs, q) ==
  LET i == FirstIndexIn(ixs, q.field)
  IN  IF Malformed(q) THEN {}
      ELSE IF UsesIndex(q) /\ i # 0 THEN IndexPlans(ixs[i].entries, q)
      ELSE {ScanPlan(ixs)}

Live(docs, pl, p) == pl.entries[p].ref \in DOMAIN docs

Hit(docs, pl, q, p) ==
  Live(docs, pl, p) /\ (pl.test => Satisfies(docs[pl.entries[p].ref], q))

\* A walk ends where it meets range.second: never, when that lies before its start.
Stray(pl) == pl.lo > pl.hi

Walk(pl) == pl.lo + 1 .. (IF Stray(pl) THEN Len(pl.entries) ELSE pl.hi)

\* The first position with a match or with a freed document; 0 if there is none.
StopAt(docs, pl, q) ==
  LET stops == {p \in Walk(pl) : Hit(docs, pl, q, p) \/ ~Live(docs, pl, p)}
  IN  IF stops = {} THEN 0 ELSE Min(stops)

\* The walk runs off the tree, or reads a freed document.
GoesWild(docs, pl, q) ==
  IF StopAt(docs, pl, q) = 0 THEN Stray(pl) ELSE ~Live(docs, pl, StopAt(docs, pl, q))

\* The list nodes a walk can deliver first: none when nothing matches.
FirstMatchesIn(ixs, docs, q) ==
  {pl.entries[StopAt(docs, pl, q)].ref :
     pl \in {x \in PlansIn(ixs, q) : ~GoesWild(docs, x, q) /\ StopAt(docs, x, q) # 0}}
=============================================================================
