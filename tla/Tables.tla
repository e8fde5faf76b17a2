------------------------------- MODULE Tables -------------------------------
(***************************************************************************)
(* A collection as a value, and each call on it as one step: what the      *)
(* database, its files and its journal need of Collection, which has the   *)
(* steps inside a call.  With one kind of value in a field every call has  *)
(* one outcome.                                                            *)
(***************************************************************************)
EXTENDS Indexing

Outcome(outcomes) == CHOOSE x \in outcomes : TRUE

\* A collection with an index on "_id" and on each of the given fields.
NewTable(fields) ==
  [nodes |-> <<>>, docs |-> <<>>, id |-> 0,
   indices |-> [i \in 1 .. Len(fields) + 1 |->
                  [field |-> (<<Id>> \o fields)[i], entries |-> <<>>]]]

Matching(t, q) == {r \in DOMAIN t.docs : Satisfies(t.docs[r], q)}

FirstMatchIn(t, q) == FirstMatchesIn(t.indices, t.docs, q)

TableAppend(t, d) ==
  IF ~Accepted(d) THEN t
  ELSE LET r == Min(0 .. Cardinality(DOMAIN t.docs) \ DOMAIN t.docs)
           stored == Numbered(d, t.id)
           n == stored[Id].n
       IN  [nodes |-> Append(t.nodes, r),
            docs |-> With(t.docs, r, stored),
            id |-> IF n >= t.id THEN n + 1 ELSE t.id,
            indices |-> Outcome(InsertIndexEntries(t.indices, r, stored))]

TableUpdate(t, q, patch) ==
  IF FirstMatchIn(t, q) = {} THEN t
  ELSE LET r == Outcome(FirstMatchIn(t, q))
           merged == Merged(t.docs[r], patch)
           cleared == Outcome(RemoveIndexEntries(t.indices, r, t.docs[r]))
       IN  [t EXCEPT !.docs[r] = merged,
                     !.indices = Outcome(InsertIndexEntries(cleared, r, merged))]

\* Variant: the list keeps its node.
DropOneKeepsNode(t, q) ==
  IF FirstMatchIn(t, q) = {} THEN t
  ELSE LET r == Outcome(FirstMatchIn(t, q))
       IN  [t EXCEPT !.docs = Without(@, r),
                     !.indices = Outcome(RemoveIndexEntries(@, r, t.docs[r]))]

\* A round of the loop of drop: the first match goes.
DropOne(t, q) ==
  IF FirstMatchIn(t, q) = {} THEN t
  ELSE LET r == Outcome(FirstMatchIn(t, q))
       IN  [t EXCEPT !.nodes = RemoveAt(@, CHOOSE p \in DOMAIN @ : @[p] = r),
                     !.docs = Without(@, r),
                     !.indices = Outcome(RemoveIndexEntries(@, r, t.docs[r]))]

Taken(limit, n) == IF limit < n THEN limit ELSE n

\* There are no more rounds than the limit allows, nor than there are documents.
TableDrop(t, q, limit) ==
  LET rounds == Taken(limit, Cardinality(DOMAIN t.docs))
      after[n \in 0 .. rounds] == IF n = 0 THEN t ELSE DropOne(after[n - 1], q)
  IN  after[rounds]

\* The loop of drop opens a cursor, and the parser throws.
DropThrowsOn(t, q, limit) == Malformed(q) /\ limit > 0 /\ t.nodes # <<>>

\* A new index on field f: an entry for each document that has it, in list order.
IndexNodes(t, f) ==
  LET after[n \in 0 .. Len(t.nodes)] ==
        IF n = 0 THEN [field |-> f, entries |-> <<>>]
        ELSE Outcome(WithEntry(after[n - 1], t.nodes[n], t.docs[t.nodes[n]]))
  IN  after[Len(t.nodes)]

TableCreateIndex(t, f) == [t EXCEPT !.indices = Append(@, IndexNodes(t, f))]
=============================================================================
