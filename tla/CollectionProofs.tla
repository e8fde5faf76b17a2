--------------------------- MODULE CollectionProofs ---------------------------
(***************************************************************************)
(* Theorems about a collection, for every set of documents, patches,       *)
(* queries and limits, and for any number of list nodes and indices.       *)
(***************************************************************************)
EXTENDS Collection, IndexingProofs, FiniteSetTheorems

\* drop_index finds its index among those there are.
LEMMA FirstIndexIsAnIndex ==
  ASSUME indices \in Seq(IndexRecords), NEW f, FirstIndexOn(f) # 0
  PROVE  FirstIndexOn(f) \in 1 .. Len(indices)
<1> DEFINE I == {i \in 1 .. Len(indices) : indices[i].field = f}
<1>1. FirstIndexOn(f) = IF I # {} THEN Min(I) ELSE 0
  BY DEF FirstIndexOn, FirstIndexIn, SelectInSeq
<1>2. I \subseteq Nat /\ I \subseteq 1 .. Len(indices)
  OBVIOUS
<1> HIDE DEF I
<1>3. QED
  BY <1>1, <1>2, MinIsAnElement

\* A walk delivers documents that have not been freed.
LEMMA MatchesAreLive ==
  ASSUME NEW q, NEW r \in FirstMatches(q)
  PROVE  r \in DOMAIN doc
BY DEF FirstMatches, FirstMatchesIn, GoesWild, Live
-----------------------------------------------------------------------------
(***************************************************************************)
(* The invariant of the types: next to TypeOK and the list of nodes it     *)
(* says where createIndex has got to, for nodes[call.at] and the last      *)
(* index to be there.                                                      *)
(***************************************************************************)
IndexingInBounds ==
  call.op = "createIndex" => call.at <= Len(nodes) + 1 /\ indices # <<>>

Inv == TypeOK /\ NodesAreDocuments /\ IndexingInBounds

\* The documents and what keeps them, without the call that is running.
StoreOK ==
  /\ nodes \in Seq(Refs)
  /\ IsStore(doc)
  /\ indices \in Seq(IndexRecords)
  /\ id \in Nat
  /\ NodesAreDocuments

\* A document that has gone in leaves the store well formed.
LEMMA PushKeepsStore ==
  ASSUME StoreOK, NEW d \in Inputs, PushDocument(d)
  PROVE  StoreOK'
<1>1. CASE UNCHANGED data
  BY <1>1 DEF StoreOK, data, NodesAreDocuments, NodeSet
<1>2. CASE ~ UNCHANGED data
  <2> DEFINE stored == Numbered(d, id)
  <2>1. Accepted(d)
    BY <1>2 DEF PushDocument
  <2>2. PICK r \in Refs \ DOMAIN doc :
          /\ nodes' = Append(nodes, r)
          /\ doc' = With(doc, r, stored)
          /\ indices' \in InsertIndexEntries(indices, r, stored)
    BY <2>1 DEF PushDocument
  <2>3. IsDocument(stored)
    BY <2>1, NumberedIsDocument DEF StoreOK
  <2> HIDE DEF stored
  <2>4. id' \in Nat
    <3>1. id' = NextId(d)
      BY <2>1 DEF PushDocument
    <3>2. CASE Id \notin DOMAIN d
      BY <3>1, <3>2 DEF NextId, StoreOK
    <3>3. CASE Id \in DOMAIN d
      <4>1. d[Id].n \in Int
        BY <2>1, <3>3, DocumentsAssumption DEF Accepted, IsDocument, Values
      <4>2. QED
        BY <3>1, <3>3, <4>1 DEF NextId, StoreOK
    <3>4. QED
      BY <3>2, <3>3
  <2>5. indices' \in Seq(IndexRecords)
    BY <2>2, <2>3, InsertIndexEntriesType DEF StoreOK
  <2>6. IsStore(doc')
    BY <2>2, <2>3 DEF StoreOK, IsStore, With
  <2>7. /\ nodes' \in Seq(Refs)
        /\ DOMAIN nodes' = 1 .. Len(nodes) + 1
        /\ \A p \in 1 .. Len(nodes) + 1 :
             nodes'[p] = IF p = Len(nodes) + 1 THEN r ELSE nodes[p]
    BY <2>2 DEF StoreOK
  <2>8. DOMAIN doc' = DOMAIN doc \cup {r}
    BY <2>2 DEF With
  <2>9. DOMAIN nodes = 1 .. Len(nodes)
    BY DEF StoreOK
  <2>10. NodesAreDocuments'
    BY <2>2, <2>7, <2>8, <2>9 DEF StoreOK, NodesAreDocuments, NodeSet
  <2>11. QED
    BY <2>4, <2>5, <2>6, <2>7, <2>10 DEF StoreOK
<1>3. QED
  BY <1>1, <1>2

\* What is in the record of a running call, by its operation.
LEMMA CallShapes ==
  ASSUME IsCall(call)
  PROVE  /\ call.op = "createIndex" => call \in [op : {"createIndex"}, at : Nat \ {0}]
         /\ call.op = "append" => call \in [op : {"append"}, document : Inputs]
         /\ call.op = "drop" =>
              /\ call \in [op : {"drop"}, query : Queries, limit : Nat, ret : Nat,
                           jwenabled : BOOLEAN,
                           replacement : {<<>>} \cup {<<d>> : d \in Inputs},
                           before : {call.before}]
              /\ IsStore(call.before)
BY DEF IsCall, Idle

\* Starting a drop touches no document; its limit is a number.
LEMMA StartDropKeepsInv ==
  ASSUME Inv, NEW q \in Queries, NEW limit \in Nat,
         NEW replacement \in {<<>>} \cup {<<d>> : d \in Inputs},
         StartDrop(q, limit, replacement)
  PROVE  Inv'
<1>1. UNCHANGED data /\ UNCHANGED <<asked, wild>> /\ jw' = FALSE
  BY DEF StartDrop
<1>2. IsCall(call')
  BY DEF StartDrop, IsCall, Inv, TypeOK
<1>3. call'.op = "drop"
  BY DEF StartDrop
<1>4. QED
  BY <1>1, <1>2, <1>3 DEF Inv, TypeOK, NodesAreDocuments, NodeSet, IndexingInBounds, data

\* Init establishes the invariant.
LEMMA InitInv ==
  ASSUME Init
  PROVE  Inv
<1>1. IsStore(doc)
  BY DEF Init, IsStore
<1>2. indices \in Seq(IndexRecords)
  BY DEF Init, IndexRecords, Names
<1>3. NodesAreDocuments
  BY DEF Init, NodesAreDocuments, NodeSet
<1>4. nodes \in Seq(Refs) /\ id \in Nat
  BY DEF Init
<1>5. jw \in BOOLEAN /\ asked \in BOOLEAN /\ wild \in BOOLEAN
  BY Zenon DEF Init
<1>6. IsCall(call) /\ IndexingInBounds
  BY DEF Init, IsCall, IndexingInBounds, Idle
<1>7. QED
  BY <1>1, <1>2, <1>3, <1>4, <1>5, <1>6 DEF Inv, TypeOK

\* Every call of a client keeps the invariant.
LEMMA ClientCallsKeepInv ==
  ASSUME Inv, ClientCalls
  PROVE  Inv'
<1> USE DEF Inv
<1>1. ASSUME NEW d \in Inputs, AppendDocument(d)
      PROVE  Inv'
  <2>1. StoreOK'
    BY <1>1, PushKeepsStore DEF AppendDocument, StoreOK, TypeOK
  <2>2. UNCHANGED <<jw, asked, call, wild>> /\ call = Idle
    BY <1>1 DEF AppendDocument, Command
  <2>3. QED
    BY <2>1, <2>2 DEF StoreOK, TypeOK, IndexingInBounds, Idle
<1>2. ASSUME NEW q \in Queries, NEW patch \in Patches, UpdateDocument(q, patch)
      PROVE  Inv'
  <2>1. PICK r \in FirstMatches(q) :
          /\ doc' = [doc EXCEPT ![r] = Merged(@, patch)]
          /\ \E cleared \in RemoveIndexEntries(indices, r, doc[r]) :
               indices' \in InsertIndexEntries(cleared, r, Merged(doc[r], patch))
    BY <1>2 DEF UpdateDocument
  <2>2. r \in DOMAIN doc /\ r \in Refs /\ IsDocument(doc[r])
    BY MatchesAreLive DEF TypeOK, IsStore
  <2>3. IsDocument(Merged(doc[r], patch))
    BY <1>2, <2>2, MergedIsDocument DEF UpdateDocument
  <2>4. IsStore(doc')
    BY <2>1, <2>2, <2>3 DEF TypeOK, IsStore
  <2>5. indices' \in Seq(IndexRecords)
    BY <2>1, <2>2, <2>3, RemoveIndexEntriesType, InsertIndexEntriesType DEF TypeOK
  <2>6. UNCHANGED <<nodes, id, jw, asked, call, wild>> /\ call = Idle /\ DOMAIN doc' = DOMAIN doc
    BY <1>2, <2>1 DEF UpdateDocument, Command
  <2>7. QED
    BY <2>4, <2>5, <2>6
       DEF TypeOK, NodesAreDocuments, NodeSet, IndexingInBounds, Idle
<1>3. ASSUME NEW q \in Queries, UpdateGoesWild(q)
      PROVE  Inv'
  BY <1>3 DEF UpdateGoesWild, data, TypeOK, NodesAreDocuments, NodeSet, IndexingInBounds
<1>3a. ASSUME NEW q \in Queries, UpdateThrows(q)
       PROVE  Inv'
  <2>1. PICK r \in FirstMatches(q) : indices' \in RemoveIndexEntries(indices, r, doc[r])
    BY <1>3a DEF UpdateThrows
  <2>2. r \in DOMAIN doc /\ r \in Refs /\ IsDocument(doc[r])
    BY MatchesAreLive DEF TypeOK, IsStore
  <2>3. indices' \in Seq(IndexRecords)
    BY <2>1, <2>2, RemoveIndexEntriesType DEF TypeOK
  <2>4. UNCHANGED <<nodes, doc, id, jw, asked, call, wild>> /\ call = Idle
    BY <1>3a DEF UpdateThrows, Command
  <2>5. QED
    BY <2>3, <2>4 DEF TypeOK, NodesAreDocuments, NodeSet, IndexingInBounds, Idle
<1>4. ASSUME NEW q \in Queries, NEW limit \in Limits, Drop(q, limit)
      PROVE  Inv'
  BY <1>4, StartDropKeepsInv, DocumentsAssumption DEF Drop
<1>5. ASSUME NEW q \in Queries, NEW d \in Inputs, Upsert(q, d)
      PROVE  Inv'
  BY <1>5, StartDropKeepsInv DEF Upsert, DefaultLimit
<1>6. ASSUME NEW f \in IndexFields, CreateIndex(f)
      PROVE  Inv'
  <2>1. [field |-> f, entries |-> <<>>] \in IndexRecords
    BY CollectionAssumption DEF IndexRecords
  <2>2. indices' \in Seq(IndexRecords) /\ indices' # <<>>
    BY <1>6, <2>1 DEF CreateIndex, TypeOK
  <2>3. IsCall(call') /\ call'.at <= Len(nodes) + 1
    BY <1>6 DEF CreateIndex, IsCall, TypeOK
  <2>4. QED
    BY <1>6, <2>2, <2>3
       DEF CreateIndex, TypeOK, NodesAreDocuments, NodeSet, IndexingInBounds
<1>7. ASSUME NEW f \in IndexFields, DropIndex(f)
      PROVE  Inv'
  <2>1. FirstIndexOn(f) \in 1 .. Len(indices)
    BY <1>7, FirstIndexIsAnIndex DEF DropIndex, TypeOK
  <2>2. indices' \in Seq(IndexRecords)
    BY <1>7, <2>1, RemoveAtElements DEF DropIndex, TypeOK
  <2>3. QED
    BY <1>7, <2>2
       DEF DropIndex, Command, TypeOK, NodesAreDocuments, NodeSet, IndexingInBounds, Idle
<1>8. ASSUME Clear
      PROVE  Inv'
  <2>1. indices' \in Seq(IndexRecords)
    <3> DEFINE empty(ix) == [ix EXCEPT !.entries = <<>>]
    <3>1. \A ix \in IndexRecords : empty(ix) \in IndexRecords
      <4> TAKE ix \in IndexRecords
      <4>1. empty(ix) = [field |-> ix.field, entries |-> <<>>] /\ ix.field \in Names
        BY DEF IndexRecords
      <4>2. <<>> \in Seq(EntriesOf(Refs))
        OBVIOUS
      <4> HIDE DEF empty
      <4>3. QED
        BY <4>1, <4>2 DEF IndexRecords
    <3>2. indices' = [i \in 1 .. Len(indices) |-> empty(indices[i])]
      BY <1>8 DEF Clear, TypeOK
    <3> HIDE DEF empty
    <3>3. indices' \in [1 .. Len(indices) -> IndexRecords]
      BY <3>1, <3>2 DEF TypeOK
    <3>4. QED
      BY <3>3 DEF TypeOK
  <2>2. IsStore(doc') /\ NodesAreDocuments'
    BY <1>8 DEF Clear, IsStore, NodesAreDocuments, NodeSet
  <2>3. QED
    BY <1>8, <2>1, <2>2 DEF Clear, Command, TypeOK, IndexingInBounds, Idle
<1>9. CASE EnableJournal \/ DisableJournal
  BY <1>9
     DEF EnableJournal, DisableJournal, data, TypeOK, NodesAreDocuments, NodeSet, IndexingInBounds
<1>10. QED
  BY <1>1, <1>2, <1>3, <1>3a, <1>4, <1>5, <1>6, <1>7, <1>8, <1>9 DEF ClientCalls, Update

\* Every step of a running call keeps the invariant.
LEMMA CallStepsKeepInv ==
  ASSUME Inv, CallSteps
  PROVE  Inv'
<1> USE DEF Inv
<1> IsCall(call)
  BY DEF TypeOK
<1>1. ASSUME DropOne
      PROVE  Inv'
  <2>1. PICK r \in FirstMatches(call.query) :
          /\ indices' \in RemoveIndexEntries(indices, r, doc[r])
          /\ doc' = Without(doc, r)
          /\ nodes' = RemoveAt(nodes, CHOOSE p \in DOMAIN nodes : nodes[p] = r)
    BY <1>1 DEF DropOne
  <2>2. r \in DOMAIN doc /\ r \in Refs
    BY MatchesAreLive DEF TypeOK, IsStore
  <2>3. IsStore(doc')
    BY <2>1 DEF TypeOK, IsStore, Without
  <2>4. indices' \in Seq(IndexRecords)
    BY <2>1, <2>2, RemoveIndexEntriesType DEF TypeOK
  <2> DEFINE q == CHOOSE p \in DOMAIN nodes : nodes[p] = r
  <2>5. q \in 1 .. Len(nodes) /\ nodes[q] = r
    <3>1. \E p \in DOMAIN nodes : nodes[p] = r
      BY <2>2 DEF NodesAreDocuments, NodeSet
    <3>2. q \in DOMAIN nodes /\ nodes[q] = r
      BY <3>1
    <3>3. QED
      BY <3>2 DEF TypeOK
  <2>6. nodes' = RemoveAt(nodes, q)
    BY <2>1
  <2> HIDE DEF q
  <2>7. /\ nodes' \in Seq(Refs)
        /\ Len(nodes') = Len(nodes) - 1
        /\ \A j \in 1 .. Len(nodes) - 1 : nodes'[j] = IF j < q THEN nodes[j] ELSE nodes[j + 1]
    BY <2>5, <2>6, RemoveAtElements DEF TypeOK
  <2>8. NodesAreDocuments'
    <3> DEFINE old(j) == IF j < q THEN j ELSE j + 1
    <3>1. /\ DOMAIN nodes = 1 .. Len(nodes)
          /\ DOMAIN nodes' = 1 .. Len(nodes) - 1
      BY <2>7 DEF TypeOK
    <3>2. \A j \in 1 .. Len(nodes) - 1 :
            old(j) \in 1 .. Len(nodes) /\ old(j) # q /\ nodes'[j] = nodes[old(j)]
      BY <2>5, <2>7
    <3>3. \A j \in 1 .. Len(nodes) : j # q => \E i \in 1 .. Len(nodes) - 1 : old(i) = j
      <4> SUFFICES ASSUME NEW j \in 1 .. Len(nodes), j # q
                   PROVE  \E i \in 1 .. Len(nodes) - 1 : old(i) = j
        OBVIOUS
      <4>1. CASE j < q
        <5>1. j \in 1 .. Len(nodes) - 1 /\ old(j) = j
          BY <4>1, <2>5
        <5>2. QED
          BY <5>1
      <4>2. CASE j > q
        <5>1. j - 1 \in 1 .. Len(nodes) - 1 /\ old(j - 1) = j
          BY <4>2, <2>5
        <5>2. QED
          BY <5>1
      <4> HIDE DEF old
      <4>3. j < q \/ j > q
        BY <2>5
      <4>4. QED
        BY <4>1, <4>2, <4>3
    <3>4. \A i, j \in 1 .. Len(nodes) - 1 : old(i) = old(j) => i = j
      BY <2>5
    <3> HIDE DEF old
    <3>5. \A i, j \in 1 .. Len(nodes) : nodes[i] = nodes[j] => i = j
      BY <3>1 DEF NodesAreDocuments
    <3>6. {nodes[p] : p \in 1 .. Len(nodes)} = DOMAIN doc
      BY <3>1 DEF NodesAreDocuments, NodeSet
    <3>7. NodeSet' = DOMAIN doc \ {r}
      <4>1. NodeSet' = {nodes'[j] : j \in 1 .. Len(nodes) - 1}
        BY <3>1 DEF NodeSet
      <4>2. \A j \in 1 .. Len(nodes) - 1 : nodes'[j] \in DOMAIN doc \ {r}
        BY <2>5, <3>2, <3>5, <3>6
      <4>3. \A x \in DOMAIN doc \ {r} : \E j \in 1 .. Len(nodes) - 1 : nodes'[j] = x
        <5> TAKE x \in DOMAIN doc \ {r}
        <5>1. PICK j \in 1 .. Len(nodes) : nodes[j] = x
          BY <3>6
        <5>2. PICK i \in 1 .. Len(nodes) - 1 : old(i) = j
          BY <5>1, <2>5, <3>3
        <5>3. QED
          BY <5>1, <5>2, <3>2
      <4>4. QED
        BY <4>1, <4>2, <4>3
    <3>8. DOMAIN doc' = DOMAIN doc \ {r}
      BY <2>1 DEF Without
    <3>9. \A i, j \in 1 .. Len(nodes) - 1 : nodes'[i] = nodes'[j] => i = j
      BY <3>2, <3>4, <3>5
    <3>10. QED
      BY <3>1, <3>7, <3>8, <3>9 DEF NodesAreDocuments
  <2>9. IsCall(call') /\ call'.op = "drop"
    <3>1. call' = [call EXCEPT !.ret = @ + 1] /\ call.op = "drop"
      BY <1>1 DEF DropOne, Dropping
    <3>2. QED
      BY <3>1, CallShapes DEF IsCall
  <2>10. UNCHANGED <<id, jw, asked, wild>>
    BY <1>1 DEF DropOne
  <2>11. QED
    BY <2>3, <2>4, <2>7, <2>8, <2>9, <2>10 DEF TypeOK, IndexingInBounds
<1>2. ASSUME DropReturns
      PROVE  Inv'
  <2>1. call.op = "drop" /\ UNCHANGED data /\ UNCHANGED <<asked, wild>>
    BY <1>2 DEF DropReturns, Dropping
  <2>2. jw' \in BOOLEAN
    BY <1>2, <2>1, CallShapes DEF DropReturns
  <2>3. IsCall(call') /\ call'.op # "createIndex"
    <3>1. CASE call.replacement = <<>>
      BY <1>2, <3>1 DEF DropReturns, IsCall, Idle
    <3>2. CASE call.replacement # <<>>
      <4>1. PICK d \in Inputs : call.replacement = <<d>>
        BY <2>1, <3>2, CallShapes
      <4>2. call' = [op |-> "append", document |-> d]
        BY <1>2, <3>2, <4>1 DEF DropReturns
      <4>3. QED
        BY <4>2 DEF IsCall
    <3>3. QED
      BY <3>1, <3>2
  <2>4. QED
    BY <2>1, <2>2, <2>3 DEF data, TypeOK, NodesAreDocuments, NodeSet, IndexingInBounds
<1>3. ASSUME DropThrows
      PROVE  Inv'
  BY <1>3
     DEF DropThrows, Idle, data, IsCall, TypeOK, NodesAreDocuments, NodeSet, IndexingInBounds
<1>4. ASSUME DropGoesWild
      PROVE  Inv'
  BY <1>4 DEF DropGoesWild, data, TypeOK, NodesAreDocuments, NodeSet, IndexingInBounds
<1>5. ASSUME UpsertAppends
      PROVE  Inv'
  <2>1. call.document \in Inputs
    BY <1>5, CallShapes DEF UpsertAppends
  <2>2. StoreOK'
    BY <1>5, <2>1, PushKeepsStore DEF UpsertAppends, StoreOK, TypeOK
  <2>3. call' = Idle /\ UNCHANGED <<jw, asked, wild>>
    BY <1>5 DEF UpsertAppends
  <2>4. QED
    BY <2>2, <2>3 DEF StoreOK, TypeOK, IsCall, IndexingInBounds, Idle
<1>6. ASSUME IndexNode
      PROVE  Inv'
  <2> DEFINE last == Len(indices)
             r == nodes[call.at]
  <2>1. call.op = "createIndex" /\ call.at \in Nat \ {0} /\ call.at <= Len(nodes)
    BY <1>6, CallShapes DEF IndexNode
  <2>2. last \in 1 .. Len(indices)
    BY <2>1 DEF IndexingInBounds, TypeOK
  <2>3. r \in Refs /\ r \in DOMAIN doc
    BY <2>1 DEF TypeOK, NodesAreDocuments, NodeSet
  <2>4. PICK ix \in WithEntry(indices[last], r, doc[r]) : indices' = [indices EXCEPT ![last] = ix]
    BY <1>6 DEF IndexNode
  <2>5. ix \in IndexRecords
    BY <2>2, <2>3, <2>4, WithEntryType DEF TypeOK, IsStore
  <2>6. indices' \in Seq(IndexRecords) /\ Len(indices') = Len(indices)
    <3>1. indices \in Seq(IndexRecords) /\ indices \in [1 .. Len(indices) -> IndexRecords]
      BY DEF TypeOK
    <3> HIDE DEF last, Inv
    <3>2. indices' \in [1 .. Len(indices) -> IndexRecords]
      BY <3>1, <2>4, <2>5
    <3>3. QED
      BY <3>1, <3>2
  <2>7. call' = [call EXCEPT !.at = @ + 1] /\ UNCHANGED <<nodes, doc, id, jw, asked, wild>>
    BY <1>6 DEF IndexNode
  <2>8. IsCall(call') /\ call'.at <= Len(nodes) + 1
    BY <2>1, <2>7, CallShapes DEF IsCall
  <2>9. QED
    BY <2>2, <2>6, <2>7, <2>8 DEF TypeOK, NodesAreDocuments, NodeSet, IndexingInBounds
<1>7. ASSUME CreateIndexReturns
      PROVE  Inv'
  BY <1>7
     DEF CreateIndexReturns, Idle, data, IsCall, TypeOK, NodesAreDocuments, NodeSet,
         IndexingInBounds
<1>8. QED
  BY <1>1, <1>2, <1>3, <1>4, <1>5, <1>6, <1>7 DEF CallSteps

\* So does every step, and a stutter.
LEMMA NextKeepsInv ==
  ASSUME Inv, [Next]_vars
  PROVE  Inv'
<1>1. CASE UNCHANGED vars
  BY <1>1 DEF vars, Inv, TypeOK, NodesAreDocuments, NodeSet, IndexingInBounds
<1>2. QED
  BY <1>1, ClientCallsKeepInv, CallStepsKeepInv DEF Next

\* The invariant holds in every state.
LEMMA InvHolds == Spec => []Inv
<1>1. Init => Inv
  BY InitInv
<1>2. Inv /\ [Next]_vars => Inv'
  BY NextKeepsInv
<1>3. QED
  BY <1>1, <1>2, PTL DEF Spec

(***************************************************************************)
(* Whatever the documents, queries and patches, mixed types and malformed  *)
(* queries included, every variable keeps its type.                        *)
(***************************************************************************)
THEOREM TypeCorrect == Spec => []TypeOK
<1>1. Inv => TypeOK
  BY DEF Inv
<1>2. QED
  BY <1>1, InvHolds, PTL

(***************************************************************************)
(* append, drop, clear and upsert keep the list and the documents          *)
(* together: no freed document stays in the list, none is lost from it,    *)
(* and none is in it twice.                                                *)
(***************************************************************************)
THEOREM NodesStayDocuments == Spec => []NodesAreDocuments
<1>1. Inv => NodesAreDocuments
  BY DEF Inv
<1>2. QED
  BY <1>1, InvHolds, PTL
-----------------------------------------------------------------------------
\* A document that has gone in has an "_id" below the counter, like the others.
LEMMA PushKeepsIds ==
  ASSUME Inv, IdsBelowCounter, NEW d \in Inputs, PushDocument(d)
  PROVE  IdsBelowCounter'
<1>1. CASE UNCHANGED data
  BY <1>1 DEF data, IdsBelowCounter
<1>2. CASE ~ UNCHANGED data
  <2> DEFINE stored == Numbered(d, id)
  <2>1. Accepted(d) /\ IsDocument(d)
    BY <1>2, DocumentsAssumption DEF PushDocument, Accepted
  <2>2. PICK r \in Refs \ DOMAIN doc : doc' = With(doc, r, stored)
    BY <2>1 DEF PushDocument
  <2>3. id \in Nat /\ id' = NextId(d)
    BY <2>1 DEF PushDocument, Inv, TypeOK
  <2>4. /\ id' \in Int
        /\ id' >= id
        /\ Id \in DOMAIN stored
        /\ stored[Id].n \in Int
        /\ stored[Id].n < id'
    <3>1. CASE Id \notin DOMAIN d
      <4>1. id' = id + 1
        BY <2>3, <3>1 DEF NextId
      <4>2. Id \in DOMAIN stored /\ stored[Id].n = id
        BY <3>1 DEF Numbered, With, Uint
      <4>3. QED
        BY <4>1, <4>2, <2>3
    <3>2. CASE Id \in DOMAIN d
      <4>1. stored = d /\ d[Id].n \in Int
        BY <2>1, <3>2 DEF Numbered, IsDocument, Values
      <4>2. QED
        BY <4>1, <2>3, <3>2 DEF NextId
    <3>3. QED
      BY <3>1, <3>2
  <2> HIDE DEF stored
  <2>5. \A x \in DOMAIN doc' :
          doc'[x] = (IF x = r THEN stored ELSE doc[x]) /\ (x # r => x \in DOMAIN doc)
    BY <2>2 DEF With
  <2>6. \A x \in DOMAIN doc : Id \in DOMAIN doc[x] => doc[x][Id].n \in Int
    BY DEF Inv, TypeOK, IsStore, IsDocument, Values
  <2> SUFFICES ASSUME NEW x \in DOMAIN doc'
               PROVE  /\ Id \in DOMAIN doc'[x]
                      /\ doc'[x][Id].type = "uint" => doc'[x][Id].n < id'
    BY DEF IdsBelowCounter
  <2>7. CASE x = r
    BY <2>4, <2>5, <2>7
  <2>8. CASE x # r
    BY <2>3, <2>4, <2>5, <2>6, <2>8 DEF IdsBelowCounter
  <2>9. QED
    BY <2>7, <2>8
<1>3. QED
  BY <1>1, <1>2

(***************************************************************************)
(* The "_id" append gives out next is larger than every "_id" there is, as *)
(* long as no patch brings an unsigned "_id" along: update and merge_docs  *)
(* let one through without looking at the counter.                         *)
(***************************************************************************)
THEOREM IdsStayBelowCounter ==
  ASSUME \A patch \in Patches : Id \in DOMAIN patch => patch[Id].type # "uint"
  PROVE  Spec => []IdsBelowCounter
<1>1. Init => IdsBelowCounter
  BY DEF Init, IdsBelowCounter
<1>2. Inv /\ IdsBelowCounter /\ [Next]_vars => IdsBelowCounter'
  <2> SUFFICES ASSUME Inv, IdsBelowCounter, [Next]_vars
               PROVE  IdsBelowCounter'
    OBVIOUS
  <2>1. ASSUME NEW d \in Inputs, AppendDocument(d)
        PROVE  IdsBelowCounter'
    BY <2>1, PushKeepsIds DEF AppendDocument
  <2>2. ASSUME NEW q \in Queries, NEW patch \in Patches, UpdateDocument(q, patch)
        PROVE  IdsBelowCounter'
    <3>1. PICK r \in FirstMatches(q) : doc' = [doc EXCEPT ![r] = Merged(@, patch)]
      BY <2>2 DEF UpdateDocument
    <3>2. id' = id /\ r \in DOMAIN doc
      BY <2>2, MatchesAreLive DEF UpdateDocument
    <3>3. /\ Id \in DOMAIN Merged(doc[r], patch)
          /\ Merged(doc[r], patch)[Id] = IF Id \in DOMAIN patch THEN patch[Id] ELSE doc[r][Id]
      BY <3>2 DEF Merged, Overlaid, IdsBelowCounter
    <3>4. QED
      BY <3>1, <3>2, <3>3 DEF IdsBelowCounter
  <2>3. ASSUME DropOne
        PROVE  IdsBelowCounter'
    BY <2>3 DEF DropOne, Without, IdsBelowCounter
  <2>4. ASSUME UpsertAppends
        PROVE  IdsBelowCounter'
    <3>1. call.document \in Inputs
      BY <2>4, CallShapes DEF UpsertAppends, Inv, TypeOK
    <3>2. QED
      BY <2>4, <3>1, PushKeepsIds DEF UpsertAppends
  <2>5. ASSUME Clear
        PROVE  IdsBelowCounter'
    BY <2>5 DEF Clear, IdsBelowCounter
  <2>6. CASE UNCHANGED <<doc, id>>
    BY <2>6 DEF IdsBelowCounter
  <2>7. QED
    BY <2>1, <2>2, <2>3, <2>4, <2>5, <2>6
       DEF Next, ClientCalls, CallSteps, Update, UpdateThrows, UpdateGoesWild, Drop, Upsert,
           StartDrop, CreateIndex, DropIndex, EnableJournal, DisableJournal, DropReturns, DropThrows, DropGoesWild,
           IndexNode, CreateIndexReturns, data, vars
<1>3. QED
  BY <1>1, <1>2, InvHolds, PTL DEF Spec
-----------------------------------------------------------------------------
\* While drop holds the journal off it remembers what the client had asked for.
JournalHeld ==
  /\ call.op = "drop" => call.jwenabled = asked
  /\ call.op # "drop" => jw = asked

\* It does so in every step, if no query is malformed.
LEMMA JournalIsHeld ==
  ASSUME \A q \in Queries : ~ Malformed(q)
  PROVE  Spec => []JournalHeld
<1>1. Init => JournalHeld
  <2>1. Init => jw = asked
    BY Zenon DEF Init
  <2>2. Init => call.op # "drop"
    BY DEF Init, Idle
  <2>3. QED
    BY <2>1, <2>2 DEF JournalHeld
<1>2. Inv /\ JournalHeld /\ [Next]_vars => JournalHeld'
  <2> SUFFICES ASSUME Inv, JournalHeld, [Next]_vars
               PROVE  JournalHeld'
    OBVIOUS
  <2>1. CASE \E q \in Queries, limit \in Limits : Drop(q, limit)
    BY <2>1 DEF Drop, Command, StartDrop, JournalHeld, Idle
  <2>2. CASE \E q \in Queries, d \in Inputs : Upsert(q, d)
    BY <2>2 DEF Upsert, Command, StartDrop, JournalHeld, Idle
  <2>3. CASE \E f \in IndexFields : CreateIndex(f)
    BY <2>3 DEF CreateIndex, Command, JournalHeld, Idle
  <2>4. CASE EnableJournal \/ DisableJournal
    <3>1. UNCHANGED call /\ call.op # "drop"
      BY <2>4 DEF EnableJournal, DisableJournal, Command, Idle
    <3>2. jw' = asked'
      BY <2>4, Zenon DEF EnableJournal, DisableJournal
    <3>3. QED
      BY <3>1, <3>2 DEF JournalHeld
  <2>5. CASE DropOne
    <3>1. call' = [call EXCEPT !.ret = @ + 1] /\ call.op = "drop" /\ asked' = asked
      BY <2>5 DEF DropOne, Dropping
    <3>2. call'.op = "drop" /\ call'.jwenabled = call.jwenabled
      BY <3>1, CallShapes DEF Inv, TypeOK
    <3>3. QED
      BY <3>1, <3>2 DEF JournalHeld
  <2>6. CASE DropReturns
    <3>1. call'.op # "drop"
      BY <2>6 DEF DropReturns, Idle
    <3>2. QED
      BY <2>6, <3>1 DEF DropReturns, Dropping, JournalHeld
  <2>7. ~ DropThrows
    BY CallShapes DEF DropThrows, Dropping, Inv, TypeOK
  <2>8. CASE UpsertAppends
    BY <2>8 DEF UpsertAppends, JournalHeld, Idle
  <2>9. CASE IndexNode
    <3>1. call' = [call EXCEPT !.at = @ + 1] /\ call.op = "createIndex" /\ UNCHANGED <<jw, asked>>
      BY <2>9 DEF IndexNode
    <3>2. call'.op = "createIndex"
      BY <3>1, CallShapes DEF Inv, TypeOK
    <3>3. QED
      BY <3>1, <3>2 DEF JournalHeld
  <2>10. CASE CreateIndexReturns
    BY <2>10 DEF CreateIndexReturns, JournalHeld, Idle
  <2>11. CASE UNCHANGED <<jw, asked, call>>
    BY <2>11 DEF JournalHeld
  <2>12. QED
    BY <2>1, <2>2, <2>3, <2>4, <2>5, <2>6, <2>7, <2>8, <2>9, <2>10, <2>11
       DEF Next, ClientCalls, CallSteps, AppendDocument, Update, UpdateDocument, UpdateThrows,
           UpdateGoesWild, DropIndex, Clear, DropGoesWild, vars
<1>3. QED
  BY <1>1, <1>2, InvHolds, PTL DEF Spec

(***************************************************************************)
(* Every drop and upsert that returns leaves the journal as the client had *)
(* set it, if no query is malformed: a parse_error leaves drop in between. *)
(***************************************************************************)
THEOREM JournalStaysAsAsked ==
  ASSUME \A q \in Queries : ~ Malformed(q)
  PROVE  Spec => []JournalAsAsked
<1>1. JournalHeld => JournalAsAsked
  BY DEF JournalHeld, JournalAsAsked, Idle
<1>2. QED
  BY <1>1, JournalIsHeld, PTL
-----------------------------------------------------------------------------
(***************************************************************************)
(* The indices of a collection stay coherent with its documents as long as *)
(* every field holds values of one kind.                                   *)
(***************************************************************************)

\* The values of d are of the kinds the schema kindOf gives its fields.
Conforms(d, kindOf) == \A f \in DOMAIN d : Kind(d[f]) = kindOf[f]

\* Clients keep to the schema, "_id" included, in what they append and merge.
KeepsSchema(kindOf) ==
  /\ \A d \in Inputs : Accepted(d) => Conforms(d, kindOf)
  /\ \A patch \in Patches : patch # NotAnObject => Conforms(patch, kindOf)
  /\ kindOf[Id] = "number"

\* They do, and they merge objects only.
Uniform(kindOf) == KeepsSchema(kindOf) /\ NotAnObject \notin Patches

StoreConforms(docs, kindOf) == IsStore(docs) /\ \A r \in DOMAIN docs : Conforms(docs[r], kindOf)
-----------------------------------------------------------------------------
\* In a store that conforms every field holds values of its kind.
LEMMA SchemaGivesKind ==
  ASSUME NEW kindOf, NEW docs, StoreConforms(docs, kindOf), NEW f
  PROVE  OfKind(kindOf[f], f, docs)
BY DEF StoreConforms, Conforms, OfKind, IsStore, IsDocument

\* A store that conforms does so with one more document.
LEMMA WithConforms ==
  ASSUME NEW kindOf, NEW docs, StoreConforms(docs, kindOf), NEW r \in Refs,
         NEW d, IsDocument(d), Conforms(d, kindOf)
  PROVE  StoreConforms(With(docs, r, d), kindOf)
BY DEF StoreConforms, IsStore, With

\* insert_index_entries keeps all the indices coherent.
LEMMA InsertKeepsAllCoherent ==
  ASSUME NEW kindOf, NEW docs, StoreConforms(docs, kindOf),
         NEW ixs \in Seq(IndexRecords), AllCoherent(ixs, docs),
         NEW r \in Refs, r \notin DOMAIN docs,
         NEW d, IsDocument(d), Conforms(d, kindOf),
         NEW new \in InsertIndexEntries(ixs, r, d)
  PROVE  AllCoherent(new, With(docs, r, d))
<1>1. /\ new \in Seq(IndexRecords)
      /\ DOMAIN ixs = 1 .. Len(ixs)
      /\ DOMAIN new = 1 .. Len(ixs)
      /\ \A i \in 1 .. Len(ixs) : ixs[i] \in IndexRecords /\ new[i] \in WithEntry(ixs[i], r, d)
  BY InsertIndexEntriesType
<1>2. \A f : OfKind(kindOf[f], f, With(docs, r, d))
  BY SchemaGivesKind, WithConforms
<1>3. QED
  BY <1>1, <1>2, WithEntryKeepsCoherence DEF AllCoherent

\* remove_index_entries keeps all the indices coherent.
LEMMA RemoveKeepsAllCoherent ==
  ASSUME NEW kindOf, NEW docs, StoreConforms(docs, kindOf),
         NEW ixs \in Seq(IndexRecords), AllCoherent(ixs, docs),
         NEW r \in DOMAIN docs,
         NEW new \in RemoveIndexEntries(ixs, r, docs[r])
  PROVE  AllCoherent(new, Without(docs, r))
<1>1. /\ new \in Seq(IndexRecords)
      /\ DOMAIN ixs = 1 .. Len(ixs)
      /\ DOMAIN new = 1 .. Len(ixs)
      /\ \A i \in 1 .. Len(ixs) : ixs[i] \in IndexRecords /\ new[i] \in WithoutEntry(ixs[i], r, docs[r])
  <2>1. r \in Refs
    BY DEF StoreConforms, IsStore
  <2>2. QED
    BY <2>1, RemoveIndexEntriesType
<1>2. \A f : OfKind(kindOf[f], f, docs)
  BY SchemaGivesKind
<1>3. QED
  BY <1>1, <1>2, WithoutEntryKeepsCoherence DEF AllCoherent

\* A document that merges with a conforming patch conforms.
LEMMA MergedConforms ==
  ASSUME NEW kindOf, NEW d, Conforms(d, kindOf), NEW patch, Conforms(patch, kindOf)
  PROVE  Conforms(Merged(d, patch), kindOf)
BY DEF Merged, Overlaid, Conforms

\* A document that conforms also does so once it is numbered.
LEMMA NumberedConforms ==
  ASSUME NEW kindOf, KeepsSchema(kindOf), NEW d \in Inputs, Accepted(d), NEW n \in Nat
  PROVE  Conforms(Numbered(d, n), kindOf)
BY DEF KeepsSchema, Conforms, Numbered, With, Uint, Kind, IsNumeric, NumericTypes

\* A store that conforms does so with one document less.
LEMMA WithoutConforms ==
  ASSUME NEW kindOf, NEW docs, StoreConforms(docs, kindOf), NEW r
  PROVE  StoreConforms(Without(docs, r), kindOf)
BY DEF StoreConforms, IsStore, Without
-----------------------------------------------------------------------------
(***************************************************************************)
(* The invariant: the schema is kept by the stored documents, so that the  *)
(* old value update and drop look an entry up by is of one kind with every *)
(* key of the index, and equal_range finds the entry.                      *)
(***************************************************************************)
CoherentInv(kindOf) ==
  /\ Inv
  /\ StoreConforms(doc, kindOf)
  /\ IndexCoherent

\* Outside createIndex every index answers for all the documents.
LEMMA AllIndicesCovered ==
  ASSUME IsStore(doc), call.op # "createIndex"
  PROVE  IndexCoherent <=> AllCoherent(indices, doc)
<1>1. \A i \in DOMAIN indices : [r \in Covered(i) |-> doc[r]] = doc
  BY DEF Covered, IsStore
<1>2. QED
  BY <1>1 DEF IndexCoherent, AllCoherent

\* So they do in the state after a step.
LEMMA AllIndicesCoveredNext ==
  ASSUME IsStore(doc'), call'.op # "createIndex", AllCoherent(indices', doc')
  PROVE  IndexCoherent'
<1>1. \A i \in DOMAIN indices' : [r \in Covered(i)' |-> doc'[r]] = doc'
  BY DEF Covered, IsStore
<1>2. QED
  BY <1>1 DEF IndexCoherent, AllCoherent

\* A document that has gone in is in every index of its fields.
LEMMA PushKeepsCoherent ==
  ASSUME NEW kindOf, KeepsSchema(kindOf), CoherentInv(kindOf), call.op # "createIndex",
         call'.op # "createIndex", NEW d \in Inputs, PushDocument(d)
  PROVE  StoreConforms(doc', kindOf) /\ IndexCoherent'
<1>1. IsStore(doc) /\ AllCoherent(indices, doc)
  BY AllIndicesCovered DEF CoherentInv, StoreConforms
<1>2. CASE UNCHANGED data
  BY <1>1, <1>2, AllIndicesCoveredNext DEF data, CoherentInv
<1>3. CASE ~ UNCHANGED data
  <2> DEFINE stored == Numbered(d, id)
  <2>1. Accepted(d)
    BY <1>3 DEF PushDocument
  <2>2. PICK r \in Refs \ DOMAIN doc :
          doc' = With(doc, r, stored) /\ indices' \in InsertIndexEntries(indices, r, stored)
    BY <2>1 DEF PushDocument
  <2>3. IsDocument(stored) /\ Conforms(stored, kindOf)
    BY <2>1, NumberedIsDocument, NumberedConforms DEF CoherentInv, Inv, TypeOK
  <2> HIDE DEF stored
  <2>4. StoreConforms(doc', kindOf)
    BY <2>2, <2>3, WithConforms DEF CoherentInv
  <2>5. AllCoherent(indices', doc')
    BY <1>1, <2>2, <2>3, InsertKeepsAllCoherent DEF CoherentInv, Inv, TypeOK
  <2>6. QED
    BY <2>4, <2>5, AllIndicesCoveredNext DEF StoreConforms
<1>4. QED
  BY <1>2, <1>3

\* update takes the entries of the old values out and puts those of the new ones in.
LEMMA UpdateKeepsCoherent ==
  ASSUME NEW kindOf, KeepsSchema(kindOf), CoherentInv(kindOf),
         NEW q \in Queries, NEW patch \in Patches, UpdateDocument(q, patch)
  PROVE  StoreConforms(doc', kindOf) /\ IndexCoherent'
<1>1. call = Idle /\ call' = call /\ patch # NotAnObject
  BY DEF UpdateDocument, Command
<1>2. IsStore(doc) /\ AllCoherent(indices, doc)
  BY <1>1, AllIndicesCovered DEF CoherentInv, StoreConforms, Idle
<1>3. PICK r \in FirstMatches(q) :
        /\ doc' = [doc EXCEPT ![r] = Merged(@, patch)]
        /\ \E cleared \in RemoveIndexEntries(indices, r, doc[r]) :
             indices' \in InsertIndexEntries(cleared, r, Merged(doc[r], patch))
  BY DEF UpdateDocument
<1>4. PICK cleared \in RemoveIndexEntries(indices, r, doc[r]) :
        indices' \in InsertIndexEntries(cleared, r, Merged(doc[r], patch))
  BY <1>3
<1>5. r \in DOMAIN doc /\ r \in Refs /\ IsDocument(doc[r])
  BY <1>2, MatchesAreLive DEF IsStore
<1> DEFINE new == Merged(doc[r], patch)
           left == Without(doc, r)
<1>6. IsDocument(new) /\ Conforms(new, kindOf)
  BY <1>1, <1>5, MergedIsDocument, MergedConforms DEF KeepsSchema, CoherentInv, StoreConforms
<1>7. doc' = With(left, r, new)
  BY <1>2, <1>3, <1>5 DEF IsStore, With, Without
<1>8. r \notin DOMAIN left
  BY DEF Without
<1>9. StoreConforms(left, kindOf) /\ AllCoherent(cleared, left) /\ cleared \in Seq(IndexRecords)
  BY <1>2, <1>4, <1>5, WithoutConforms, RemoveKeepsAllCoherent, RemoveIndexEntriesType
     DEF CoherentInv, Inv, TypeOK
<1>10. indices' \in InsertIndexEntries(cleared, r, new)
  BY <1>4
<1> HIDE DEF new, left
<1>11. AllCoherent(indices', doc') /\ StoreConforms(doc', kindOf)
  BY <1>5, <1>6, <1>7, <1>8, <1>9, <1>10, InsertKeepsAllCoherent, WithConforms
<1>12. QED
  BY <1>1, <1>11, AllIndicesCoveredNext DEF StoreConforms, Idle

\* drop takes the entries of a document out before it frees it.
LEMMA DropOneKeepsCoherent ==
  ASSUME NEW kindOf, CoherentInv(kindOf), DropOne
  PROVE  StoreConforms(doc', kindOf) /\ IndexCoherent'
<1>1. call.op = "drop" /\ call'.op = "drop"
  <2>1. IsCall(call) /\ call.op = "drop" /\ call' = [call EXCEPT !.ret = @ + 1]
    BY DEF CoherentInv, Inv, TypeOK, DropOne, Dropping
  <2>2. QED
    BY <2>1, CallShapes
<1>2. IsStore(doc) /\ AllCoherent(indices, doc)
  BY <1>1, AllIndicesCovered DEF CoherentInv, StoreConforms
<1>3. PICK r \in FirstMatches(call.query) :
        indices' \in RemoveIndexEntries(indices, r, doc[r]) /\ doc' = Without(doc, r)
  BY DEF DropOne
<1>4. r \in DOMAIN doc
  BY MatchesAreLive
<1>5. AllCoherent(indices', doc') /\ StoreConforms(doc', kindOf)
  BY <1>2, <1>3, <1>4, RemoveKeepsAllCoherent, WithoutConforms DEF CoherentInv, Inv, TypeOK
<1>6. QED
  BY <1>1, <1>5, AllIndicesCoveredNext DEF StoreConforms

\* An index with no entries is coherent with no documents.
LEMMA EmptyIsCoherent ==
  ASSUME NEW f, NEW docs, DOMAIN docs = {}
  PROVE  Coherent(<<>>, f, docs)
BY DEF Coherent, Current, Complete, Distinct, Sorted

\* Index i is coherent with the documents it answers for.
Answers(i) == Coherent(indices[i].entries, indices[i].field, [r \in Covered(i) |-> doc[r]])

\* IndexCoherent says it of every index.
LEMMA EveryIndexAnswers == IndexCoherent <=> \A i \in DOMAIN indices : Answers(i)
BY DEF IndexCoherent, Answers

\* The same in the state after a step.
LEMMA EveryIndexAnswersNext ==
  ASSUME \A i \in DOMAIN indices' : Answers(i)'
  PROVE  IndexCoherent'
BY DEF IndexCoherent, Answers

\* The index createIndex begins with answers for no document yet.
LEMMA CreateIndexKeepsCoherent ==
  ASSUME NEW kindOf, CoherentInv(kindOf), NEW f \in IndexFields, CreateIndex(f)
  PROVE  IndexCoherent'
<1> PICK n : n = Len(indices)
  OBVIOUS
<1> DEFINE new == [field |-> f, entries |-> <<>>]
<1>1. /\ call = Idle
      /\ indices' = Append(indices, new)
      /\ call' = [op |-> "createIndex", at |-> 1]
      /\ doc' = doc /\ nodes' = nodes
  BY DEF CreateIndex, Command
<1>2. IsStore(doc) /\ AllCoherent(indices, doc) /\ indices \in Seq(IndexRecords)
  BY <1>1, AllIndicesCovered DEF CoherentInv, StoreConforms, Idle, Inv, TypeOK
<1>3. /\ n \in Nat
      /\ DOMAIN indices = 1 .. n
      /\ DOMAIN indices' = 1 .. n + 1
      /\ Len(indices') = n + 1
      /\ indices'[n + 1] = new
      /\ \A i \in 1 .. n : indices'[i] = indices[i]
  <2>1. Append(indices, new) \in Seq(IndexRecords \cup {new})
    BY <1>2
  <2> HIDE DEF new
  <2>2. QED
    BY <1>1, <1>2
<1>4. \A i \in 1 .. n : Answers(i)'
  <2> SUFFICES ASSUME NEW i \in 1 .. n
               PROVE  Answers(i)'
    OBVIOUS
  <2>1. i # n + 1
    BY <1>3
  <2>2. Covered(i)' = DOMAIN doc
    BY <1>1, <1>3, <2>1 DEF Covered
  <2>3. [r \in Covered(i)' |-> doc'[r]] = doc
    BY <1>1, <1>2, <2>2 DEF IsStore
  <2>4. QED
    BY <1>2, <1>3, <2>3 DEF AllCoherent, Answers
<1>5. Answers(n + 1)'
  <2>1. Covered(n + 1)' = {}
    <3>1. Covered(n + 1)' = {nodes'[p] : p \in 1 .. call'.at - 1}
      BY <1>1, <1>3 DEF Covered
    <3>2. 1 .. call'.at - 1 = {}
      BY <1>1
    <3>3. QED
      BY <3>1, <3>2
  <2>2. indices'[n + 1].entries = <<>>
    BY <1>3
  <2>3. QED
    BY <2>1, <2>2, EmptyIsCoherent DEF Answers
<1> HIDE DEF new
<1>6. \A i \in DOMAIN indices' : i \in 1 .. n \/ i = n + 1
  BY <1>3
<1>7. QED
  BY <1>4, <1>5, <1>6, EveryIndexAnswersNext

\* A step of createIndex adds one more document to what the new index answers for.
LEMMA IndexNodeKeepsCoherent ==
  ASSUME NEW kindOf, CoherentInv(kindOf), IndexNode
  PROVE  IndexCoherent'
<1> PICK last, r : last = Len(indices) /\ r = nodes[call.at]
  OBVIOUS
<1> DEFINE done == {nodes[p] : p \in 1 .. call.at - 1}
           docs == [x \in done |-> doc[x]]
<1>1. /\ call.op = "createIndex"
      /\ call.at \in Nat \ {0} /\ call.at <= Len(nodes)
      /\ call' = [call EXCEPT !.at = @ + 1]
      /\ doc' = doc /\ nodes' = nodes
  BY CallShapes DEF IndexNode, CoherentInv, Inv, TypeOK
<1>2. /\ IsStore(doc) /\ indices \in Seq(IndexRecords) /\ nodes \in Seq(Refs)
      /\ last \in 1 .. Len(indices)
  BY <1>1 DEF CoherentInv, Inv, TypeOK, IndexingInBounds
<1>3. /\ \A p \in 1 .. Len(nodes) : nodes[p] \in DOMAIN doc
      /\ \A p, q \in 1 .. Len(nodes) : nodes[p] = nodes[q] => p = q
  BY <1>2 DEF CoherentInv, Inv, NodesAreDocuments, NodeSet
<1>4. r \in DOMAIN doc /\ r \in Refs /\ r \notin done /\ done \subseteq DOMAIN doc
  <2>1. call.at \in 1 .. Len(nodes) /\ \A p \in 1 .. call.at - 1 : p \in 1 .. Len(nodes) /\ p # call.at
    BY <1>1, <1>2
  <2>2. QED
    BY <1>2, <1>3, <2>1 DEF IsStore
<1>5. PICK ix \in WithEntry(indices[last], r, doc[r]) : indices' = [indices EXCEPT ![last] = ix]
  BY DEF IndexNode
<1>6. /\ DOMAIN indices' = DOMAIN indices /\ Len(indices') = Len(indices)
      /\ indices'[last] = ix
      /\ \A i \in DOMAIN indices : i # last => indices'[i] = indices[i]
  BY <1>2, <1>5
<1>7. call'.op = "createIndex" /\ call'.at = call.at + 1
  <2>1. call \in [op : {"createIndex"}, at : Nat \ {0}]
    BY <1>1, CallShapes DEF CoherentInv, Inv, TypeOK
  <2>2. QED
    BY <1>1, <2>1
<1>8. Answers(last)'
  <2>1. StoreConforms(docs, kindOf)
    BY <1>2, <1>4 DEF CoherentInv, StoreConforms, IsStore
  <2>2. Coherent(indices[last].entries, indices[last].field, docs)
    <3>1. Covered(last) = done
      BY <1>1 DEF Covered
    <3>2. Answers(last)
      BY <1>2, EveryIndexAnswers DEF CoherentInv
    <3> HIDE DEF done
    <3>3. QED
      BY <3>1, <3>2 DEF Answers
  <2>3. /\ IsDocument(doc[r]) /\ Conforms(doc[r], kindOf)
        /\ indices[last] \in IndexRecords
        /\ r \notin DOMAIN docs
    BY <1>2, <1>4 DEF CoherentInv, StoreConforms, IsStore
  <2>4. Covered(last)' = done \cup {r}
    <3>1. Covered(last)' = {nodes[p] : p \in 1 .. call.at}
      BY <1>1, <1>6, <1>7 DEF Covered
    <3>2. \A p \in 1 .. call.at : p \in 1 .. call.at - 1 \/ p = call.at
      BY <1>1
    <3>3. 1 .. call.at - 1 \subseteq 1 .. call.at /\ call.at \in 1 .. call.at
      BY <1>1
    <3>4. QED
      BY <3>1, <3>2, <3>3
  <2>5. [x \in Covered(last)' |-> doc'[x]] = With(docs, r, doc[r])
    BY <1>1, <2>4 DEF With
  <2> HIDE DEF docs, done
  <2>6. Coherent(ix.entries, ix.field, With(docs, r, doc[r]))
    <3>1. StoreConforms(With(docs, r, doc[r]), kindOf)
      BY <1>4, <2>1, <2>3, WithConforms
    <3>2. OfKind(kindOf[indices[last].field], indices[last].field, With(docs, r, doc[r]))
      BY <3>1, SchemaGivesKind
    <3>3. QED
      BY <1>4, <1>5, <2>2, <2>3, <3>2, WithEntryKeepsCoherence
  <2>7. QED
    BY <1>6, <2>5, <2>6 DEF Answers
<1>9. \A i \in DOMAIN indices : i # last => Answers(i)'
  <2> SUFFICES ASSUME NEW i \in DOMAIN indices, i # last
               PROVE  Answers(i)'
    OBVIOUS
  <2>1. Covered(i)' = Covered(i)
    BY <1>1, <1>6 DEF Covered
  <2>2. Answers(i)
    BY EveryIndexAnswers DEF CoherentInv
  <2>3. QED
    BY <1>1, <1>6, <2>1, <2>2 DEF Answers
<1> HIDE DEF done, docs
<1>10. QED
  BY <1>6, <1>8, <1>9, EveryIndexAnswersNext

\* createIndex returns once its index answers for the whole list.
LEMMA CreateIndexReturnsKeepsCoherent ==
  ASSUME NEW kindOf, CoherentInv(kindOf), CreateIndexReturns
  PROVE  IndexCoherent'
<1>1. /\ call.op = "createIndex"
      /\ call.at \in Nat \ {0} /\ call.at > Len(nodes) /\ call.at <= Len(nodes) + 1
      /\ call' = Idle
      /\ doc' = doc /\ indices' = indices
  BY CallShapes DEF CreateIndexReturns, data, CoherentInv, Inv, TypeOK, IndexingInBounds
<1>2. nodes \in Seq(Refs)
  BY DEF CoherentInv, Inv, TypeOK
<1>3. call.at - 1 = Len(nodes)
  BY <1>1, <1>2
<1>4. {nodes[p] : p \in 1 .. call.at - 1} = DOMAIN doc
  <2>1. DOMAIN nodes = 1 .. call.at - 1
    BY <1>2, <1>3
  <2>2. QED
    BY <2>1 DEF CoherentInv, Inv, NodesAreDocuments, NodeSet
<1>5. \A i \in DOMAIN indices : Covered(i) = DOMAIN doc /\ Covered(i)' = DOMAIN doc
  BY <1>1, <1>4 DEF Covered, Idle
<1>6. QED
  BY <1>1, <1>5 DEF CoherentInv, IndexCoherent

\* drop_index takes an index away and leaves the others as they are.
LEMMA DropIndexKeepsCoherent ==
  ASSUME NEW kindOf, CoherentInv(kindOf), NEW f \in IndexFields, DropIndex(f)
  PROVE  IndexCoherent'
<1>1. call = Idle /\ call' = call /\ doc' = doc
  BY DEF DropIndex, Command
<1>2. IsStore(doc) /\ AllCoherent(indices, doc) /\ indices \in Seq(IndexRecords)
  BY <1>1, AllIndicesCovered DEF CoherentInv, StoreConforms, Idle, Inv, TypeOK
<1>3. PICK k \in 1 .. Len(indices) : indices' = RemoveAt(indices, k)
  BY <1>2, FirstIndexIsAnIndex DEF DropIndex
<1>4. /\ indices' \in Seq(IndexRecords)
      /\ Len(indices') = Len(indices) - 1
      /\ \A j \in 1 .. Len(indices) - 1 :
           indices'[j] = IF j < k THEN indices[j] ELSE indices[j + 1]
  BY <1>2, <1>3, RemoveAtElements
<1>5. \A j \in DOMAIN indices' : \E i \in DOMAIN indices : indices'[j] = indices[i]
  <2> TAKE j \in DOMAIN indices'
  <2>1. j \in 1 .. Len(indices) - 1 /\ DOMAIN indices = 1 .. Len(indices)
    BY <1>2, <1>4
  <2>2. QED
    BY <1>4, <2>1, SMTT(60)
<1>6. AllCoherent(indices', doc')
  BY <1>1, <1>2, <1>5 DEF AllCoherent
<1>7. QED
  BY <1>1, <1>2, <1>6, AllIndicesCoveredNext DEF Idle

\* clear leaves every index empty.
LEMMA ClearKeepsCoherent ==
  ASSUME NEW kindOf, CoherentInv(kindOf), Clear
  PROVE  StoreConforms(doc', kindOf) /\ IndexCoherent'
<1>1. doc' = <<>> /\ DOMAIN doc' = {}
  BY DEF Clear
<1>2. StoreConforms(doc', kindOf)
  BY <1>1 DEF StoreConforms, IsStore
<1>3. indices \in Seq(IndexRecords)
  BY DEF CoherentInv, Inv, TypeOK
<1>4. \A i \in DOMAIN indices' : indices'[i].entries = <<>>
  <2> SUFFICES ASSUME NEW i \in DOMAIN indices'
               PROVE  indices'[i].entries = <<>>
    OBVIOUS
  <2>1. i \in DOMAIN indices /\ indices'[i] = [indices[i] EXCEPT !.entries = <<>>]
    BY DEF Clear
  <2>2. indices[i] \in IndexRecords
    BY <1>3, <2>1
  <2>3. QED
    BY <2>1, <2>2 DEF IndexRecords
<1>5. AllCoherent(indices', doc')
  BY <1>1, <1>4, EmptyIsCoherent DEF AllCoherent
<1>6. call'.op # "createIndex"
  BY DEF Clear, Command, Idle
<1>7. QED
  BY <1>2, <1>5, <1>6, AllIndicesCoveredNext DEF StoreConforms

\* A step that leaves the documents and the indices alone, and with them createIndex.
LEMMA QuietStepKeepsCoherent ==
  ASSUME NEW kindOf, CoherentInv(kindOf), UNCHANGED <<nodes, doc, indices>>,
         UNCHANGED call \/ (call.op # "createIndex" /\ call'.op # "createIndex")
  PROVE  StoreConforms(doc', kindOf) /\ IndexCoherent'
<1>1. StoreConforms(doc', kindOf)
  BY DEF CoherentInv
<1>2. CASE UNCHANGED call
  <2>1. \A i \in DOMAIN indices : Covered(i)' = Covered(i)
    BY <1>2 DEF Covered
  <2>2. \A i \in DOMAIN indices : Answers(i)'
    BY <2>1, EveryIndexAnswers DEF Answers, CoherentInv
  <2>3. QED
    BY <1>1, <2>2, EveryIndexAnswersNext
<1>3. CASE call.op # "createIndex" /\ call'.op # "createIndex"
  <2>1. AllCoherent(indices, doc)
    BY <1>3, AllIndicesCovered DEF StoreConforms, CoherentInv
  <2>2. QED
    BY <1>1, <1>3, <2>1, AllIndicesCoveredNext DEF StoreConforms
<1>4. QED
  BY <1>2, <1>3

\* Whatever begins or ends a drop does that, and so does a switch of the journal.
LEMMA CallsAroundKeepCoherent ==
  ASSUME NEW kindOf, CoherentInv(kindOf),
         \/ \E q \in Queries : UpdateGoesWild(q)
         \/ \E q \in Queries, limit \in Limits : Drop(q, limit)
         \/ \E q \in Queries, d \in Inputs : Upsert(q, d)
         \/ DropReturns
         \/ DropThrows
         \/ DropGoesWild
         \/ EnableJournal
         \/ DisableJournal
         \/ UNCHANGED vars
  PROVE  StoreConforms(doc', kindOf) /\ IndexCoherent'
<1>1. CASE (\E q \in Queries, limit \in Limits : Drop(q, limit))
            \/ (\E q \in Queries, d \in Inputs : Upsert(q, d))
  <2>1. call = Idle
    BY <1>1 DEF Drop, Upsert, Command
  <2>2. call'.op = "drop" /\ UNCHANGED <<nodes, doc, indices>>
    BY <1>1 DEF Drop, Upsert, StartDrop, data
  <2>3. QED
    BY <2>1, <2>2, QuietStepKeepsCoherent DEF Idle
<1>2. CASE DropReturns \/ DropThrows
  <2>1. call.op = "drop" /\ call'.op # "createIndex" /\ UNCHANGED <<nodes, doc, indices>>
    BY <1>2 DEF DropReturns, DropThrows, Dropping, data, Idle
  <2>2. QED
    BY <2>1, QuietStepKeepsCoherent
<1>3. CASE UNCHANGED <<nodes, doc, indices, call>>
  BY <1>3, QuietStepKeepsCoherent
<1>4. QED
  BY <1>1, <1>2, <1>3
     DEF UpdateGoesWild, DropGoesWild, EnableJournal, DisableJournal, data, vars

\* The invariant: with the indices, the documents stay within the schema.
LEMMA StoreStaysCoherent ==
  ASSUME NEW kindOf, Uniform(kindOf)
  PROVE  Spec => [](StoreConforms(doc, kindOf) /\ IndexCoherent)
<1> DEFINE Kept == StoreConforms(doc, kindOf) /\ IndexCoherent
<1>1. Init => Kept
  <2> SUFFICES ASSUME Init
               PROVE  Kept
    OBVIOUS
  <2>1. DOMAIN doc = {} /\ doc = <<>>
    BY DEF Init
  <2>2. StoreConforms(doc, kindOf)
    BY <2>1 DEF StoreConforms, IsStore
  <2>3. AllCoherent(indices, doc)
    <3>1. DOMAIN indices = {1} /\ indices[1].entries = <<>>
      BY DEF Init
    <3>2. QED
      BY <2>1, <3>1, EmptyIsCoherent DEF AllCoherent
  <2>4. call.op # "createIndex"
    BY DEF Init, Idle
  <2>5. QED
    BY <2>2, <2>3, <2>4, AllIndicesCovered DEF StoreConforms
<1>2. Inv /\ Kept /\ [Next]_vars => Kept'
  <2> SUFFICES ASSUME Inv, Kept, [Next]_vars
               PROVE  Kept'
    OBVIOUS
  <2>1. CoherentInv(kindOf) /\ KeepsSchema(kindOf)
    BY DEF CoherentInv, Uniform
  <2>2. ASSUME NEW d \in Inputs, AppendDocument(d)
        PROVE  Kept'
    <3>1. call.op # "createIndex" /\ call'.op # "createIndex"
      BY <2>2 DEF AppendDocument, Command, Idle
    <3>2. QED
      BY <2>1, <2>2, <3>1, PushKeepsCoherent DEF AppendDocument
  <2>3. ASSUME NEW q \in Queries, NEW patch \in Patches, UpdateDocument(q, patch)
        PROVE  Kept'
    BY <2>1, <2>3, UpdateKeepsCoherent
  <2>3a. ASSUME NEW q \in Queries
         PROVE  ~UpdateThrows(q)
    BY DEF UpdateThrows, Uniform
  <2>4. ASSUME NEW f \in IndexFields, CreateIndex(f)
        PROVE  Kept'
    <3>1. doc' = doc
      BY <2>4 DEF CreateIndex
    <3>2. QED
      BY <2>1, <2>4, <3>1, CreateIndexKeepsCoherent
  <2>5. ASSUME NEW f \in IndexFields, DropIndex(f)
        PROVE  Kept'
    <3>1. doc' = doc
      BY <2>5 DEF DropIndex
    <3>2. QED
      BY <2>1, <2>5, <3>1, DropIndexKeepsCoherent
  <2>6. CASE Clear
    BY <2>1, <2>6, ClearKeepsCoherent
  <2>7. CASE DropOne
    BY <2>1, <2>7, DropOneKeepsCoherent
  <2>8. CASE UpsertAppends
    <3>1. call.document \in Inputs /\ call.op # "createIndex" /\ call'.op # "createIndex"
      BY <2>8, CallShapes DEF UpsertAppends, Idle, Inv, TypeOK
    <3>2. QED
      BY <2>1, <2>8, <3>1, PushKeepsCoherent DEF UpsertAppends
  <2>9. CASE IndexNode
    <3>1. doc' = doc
      BY <2>9 DEF IndexNode
    <3>2. QED
      BY <2>1, <2>9, <3>1, IndexNodeKeepsCoherent
  <2>10. CASE CreateIndexReturns
    <3>1. doc' = doc
      BY <2>10 DEF CreateIndexReturns, data
    <3>2. QED
      BY <2>1, <2>10, <3>1, CreateIndexReturnsKeepsCoherent
  <2>11. ASSUME \/ \E q \in Queries : UpdateGoesWild(q)
                \/ \E q \in Queries, limit \in Limits : Drop(q, limit)
                \/ \E q \in Queries, d \in Inputs : Upsert(q, d)
                \/ DropReturns
                \/ DropThrows
                \/ DropGoesWild
                \/ EnableJournal
                \/ DisableJournal
                \/ UNCHANGED vars
         PROVE  Kept'
    BY <2>1, <2>11, CallsAroundKeepCoherent
  <2> HIDE DEF Kept
  <2>12. QED
    BY <2>2, <2>3, <2>3a, <2>4, <2>5, <2>6, <2>7, <2>8, <2>9, <2>10, <2>11
       DEF Next, ClientCalls, CallSteps, Update
<1>3. Spec => []Kept
  <2> HIDE DEF Kept
  <2>1. QED
    BY <1>1, <1>2, InvHolds, PTL DEF Spec
<1>4. QED
  BY <1>3

(***************************************************************************)
(* Whatever clients call, every index holds exactly the documents with its *)
(* field, each once, under the value it has now and in order - if every    *)
(* field holds values of one kind and every patch is an object.  Without   *)
(* these conditions it is false: operator< does not order a number and a   *)
(* string, and update throws on a scalar when the entries are gone.        *)
(***************************************************************************)
THEOREM IndicesStayCoherent ==
  ASSUME NEW kindOf, Uniform(kindOf)
  PROVE  Spec => []IndexCoherent
<1> DEFINE Conforming == StoreConforms(doc, kindOf)
<1>1. Spec => [](Conforming /\ IndexCoherent)
  BY StoreStaysCoherent
<1> HIDE DEF Conforming
<1>2. QED
  BY <1>1, PTL
-----------------------------------------------------------------------------
(***************************************************************************)
(* What the coherence of the indices is for: a query that an index answers *)
(* gives what it would give without one, no walk leaves its index, and     *)
(* therefore no call reaches freed memory.                                 *)
(***************************************************************************)

-----------------------------------------------------------------------------
(***************************************************************************)
(* Scans walk the first index.  It has every document as long as it is the *)
(* one on "_id", and every document has an "_id".                          *)
(***************************************************************************)
Scannable ==
  /\ indices # <<>>
  /\ indices[1].field = Id
  /\ \A r \in DOMAIN doc : Id \in DOMAIN doc[r]

\* The first index on a field is one on that field.
LEMMA FirstIndexHasField ==
  ASSUME indices \in Seq(IndexRecords), NEW f, FirstIndexOn(f) # 0
  PROVE  /\ FirstIndexOn(f) \in 1 .. Len(indices)
         /\ indices[FirstIndexOn(f)].field = f
<1> DEFINE I == {i \in 1 .. Len(indices) : indices[i].field = f}
<1>1. FirstIndexOn(f) = IF I # {} THEN Min(I) ELSE 0
  BY DEF FirstIndexOn, FirstIndexIn, SelectInSeq
<1>2. I \subseteq Nat /\ I \subseteq 1 .. Len(indices)
  OBVIOUS
<1>3. \A i \in I : i \in 1 .. Len(indices) /\ indices[i].field = f
  OBVIOUS
<1> HIDE DEF I
<1>4. FirstIndexOn(f) \in I
  BY <1>1, <1>2, MinIsAnElement
<1>5. QED
  BY <1>3, <1>4

\* What a document is changed to in the indices leaves their fields as they are.
LEMMA FieldsStay ==
  ASSUME indices \in Seq(IndexRecords), indices # <<>>, NEW r \in Refs, NEW d,
         NEW new, \/ new \in InsertIndexEntries(indices, r, d) /\ IsDocument(d)
                  \/ new \in RemoveIndexEntries(indices, r, d)
  PROVE  new \in Seq(IndexRecords) /\ new # <<>> /\ new[1].field = indices[1].field
<1>1. Len(indices) \in Nat /\ 1 \in 1 .. Len(indices) /\ indices[1] \in IndexRecords
  BY EmptySeq
<1>2. QED
  BY <1>1, InsertIndexEntriesType, RemoveIndexEntriesType, WithEntryType, WithoutEntryType

\* Every document that is pushed has an "_id".
LEMMA PushKeepsScannable ==
  ASSUME Inv, Scannable, NEW d \in Inputs, PushDocument(d)
  PROVE  Scannable'
<1>1. CASE UNCHANGED data
  BY <1>1 DEF data, Scannable
<1>2. CASE ~ UNCHANGED data
  <2> DEFINE stored == Numbered(d, id)
  <2>1. Accepted(d)
    BY <1>2 DEF PushDocument
  <2>2. PICK r \in Refs \ DOMAIN doc :
          doc' = With(doc, r, stored) /\ indices' \in InsertIndexEntries(indices, r, stored)
    BY <2>1 DEF PushDocument
  <2>3. Id \in DOMAIN stored /\ IsDocument(stored)
    BY <2>1, NumberedIsDocument DEF Numbered, With, Inv, TypeOK
  <2> HIDE DEF stored
  <2>4. indices' # <<>> /\ indices'[1].field = Id
    BY <2>2, <2>3, FieldsStay DEF Inv, TypeOK, Scannable
  <2>5. \A x \in DOMAIN doc' : Id \in DOMAIN doc'[x]
    BY <2>2, <2>3 DEF With, Scannable
  <2>6. QED
    BY <2>4, <2>5 DEF Scannable
<1>3. QED
  BY <1>1, <1>2

\* A patch takes no member away.
LEMMA UpdateKeepsScannable ==
  ASSUME Inv, Scannable, NEW q \in Queries, NEW patch \in Patches, UpdateDocument(q, patch)
  PROVE  Scannable'
<1>0. indices \in Seq(IndexRecords) /\ IsStore(doc) /\ Len(indices) \in Nat \ {0}
  BY EmptySeq DEF Inv, TypeOK, Scannable
<1>1. patch # NotAnObject
  BY DEF UpdateDocument
<1>2. PICK r \in FirstMatches(q) :
        /\ doc' = [doc EXCEPT ![r] = Merged(@, patch)]
        /\ \E cleared \in RemoveIndexEntries(indices, r, doc[r]) :
             indices' \in InsertIndexEntries(cleared, r, Merged(doc[r], patch))
  BY DEF UpdateDocument
<1>3. PICK cleared \in RemoveIndexEntries(indices, r, doc[r]) :
        indices' \in InsertIndexEntries(cleared, r, Merged(doc[r], patch))
  BY <1>2
<1>4. r \in DOMAIN doc /\ r \in Refs /\ IsDocument(Merged(doc[r], patch))
  BY <1>0, <1>1, MatchesAreLive, MergedIsDocument DEF IsStore
<1>5. cleared \in Seq(IndexRecords) /\ cleared # <<>> /\ cleared[1].field = Id
  BY <1>0, <1>4, FieldsStay DEF Scannable
<1> DEFINE new == Merged(doc[r], patch)
<1>6. Len(cleared) \in Nat /\ 1 \in 1 .. Len(cleared) /\ cleared[1] \in IndexRecords
  BY <1>5, EmptySeq
<1>7. Id \in DOMAIN new
  BY <1>4 DEF Merged, Overlaid, Scannable
<1>8. indices' \in InsertIndexEntries(cleared, r, new) /\ IsDocument(new)
  BY <1>3, <1>4
<1> HIDE DEF new
<1>9. Len(indices') = Len(cleared) /\ indices'[1] \in WithEntry(cleared[1], r, new)
  BY <1>4, <1>5, <1>6, <1>8, InsertIndexEntriesType
<1>10. indices' # <<>> /\ indices'[1].field = Id
  BY <1>4, <1>5, <1>6, <1>8, <1>9, WithEntryType
<1>11. doc' = [doc EXCEPT ![r] = new]
  BY <1>2 DEF new
<1>12. QED
  BY <1>7, <1>10, <1>11 DEF Scannable

\* An update that throws leaves every index on its field.
LEMMA ThrowKeepsScannable ==
  ASSUME Inv, Scannable, NEW q \in Queries, UpdateThrows(q)
  PROVE  Scannable'
<1>0. indices \in Seq(IndexRecords) /\ IsStore(doc) /\ Len(indices) \in Nat \ {0}
  BY EmptySeq DEF Inv, TypeOK, Scannable
<1>1. PICK r \in FirstMatches(q) : indices' \in RemoveIndexEntries(indices, r, doc[r])
  BY DEF UpdateThrows
<1>2. r \in Refs /\ doc' = doc
  BY <1>0, MatchesAreLive DEF UpdateThrows, IsStore
<1>3. QED
  BY <1>0, <1>1, <1>2, FieldsStay DEF Scannable

\* So does a drop.
LEMMA DropOneKeepsScannable ==
  ASSUME Inv, Scannable, DropOne
  PROVE  Scannable'
<1>0. indices \in Seq(IndexRecords) /\ IsStore(doc) /\ Len(indices) \in Nat \ {0}
  BY EmptySeq DEF Inv, TypeOK, Scannable
<1>1. PICK r \in FirstMatches(call.query) :
        indices' \in RemoveIndexEntries(indices, r, doc[r]) /\ doc' = Without(doc, r)
  BY DEF DropOne
<1>2. r \in Refs
  BY <1>0, MatchesAreLive DEF IsStore
<1>3. QED
  BY <1>0, <1>1, <1>2, FieldsStay DEF Scannable, Without

\* A new index is the last one.
LEMMA CreateIndexKeepsScannable ==
  ASSUME Inv, Scannable, NEW f \in IndexFields, CreateIndex(f)
  PROVE  Scannable'
<1>0. indices \in Seq(IndexRecords) /\ IsStore(doc) /\ Len(indices) \in Nat \ {0}
  BY EmptySeq DEF Inv, TypeOK, Scannable
<1>1. indices' = Append(indices, [field |-> f, entries |-> <<>>]) /\ doc' = doc
  BY DEF CreateIndex
<1>2. indices' # <<>> /\ indices'[1] = indices[1]
  BY <1>0, <1>1
<1>3. QED
  BY <1>1, <1>2 DEF Scannable

\* Dropping an index behind the first leaves the first in its place.
LEMMA DropIndexKeepsScannable ==
  ASSUME Inv, Scannable, NEW f \in IndexFields, f # Id, DropIndex(f)
  PROVE  Scannable'
<1>0. indices \in Seq(IndexRecords) /\ IsStore(doc) /\ Len(indices) \in Nat \ {0}
  BY EmptySeq DEF Inv, TypeOK, Scannable
<1>1. PICK k : k = FirstIndexOn(f)
  OBVIOUS
<1>2. /\ k \in 1 .. Len(indices) /\ indices[k].field = f /\ f # Id
      /\ indices' = RemoveAt(indices, k) /\ doc' = doc
  BY <1>0, <1>1, FirstIndexHasField DEF DropIndex
<1>3. k > 1
  BY <1>0, <1>2 DEF Scannable
<1>4. /\ RemoveAt(indices, k) \in Seq(IndexRecords)
      /\ Len(RemoveAt(indices, k)) = Len(indices) - 1
      /\ \A j \in 1 .. Len(indices) - 1 :
           RemoveAt(indices, k)[j] = IF j < k THEN indices[j] ELSE indices[j + 1]
  <2>1. indices \in Seq(IndexRecords) /\ k \in 1 .. Len(indices)
    BY <1>0, <1>2
  <2>2. QED
    BY <2>1, RemoveAtElements
<1>4a. /\ indices' \in Seq(IndexRecords) /\ Len(indices') = Len(indices) - 1
       /\ indices'[1] = indices[1]
  BY <1>0, <1>2, <1>3, <1>4
<1>5. indices' # <<>>
  BY <1>0, <1>2, <1>3, <1>4a
<1>6. QED
  BY <1>2, <1>4a, <1>5 DEF Scannable

\* clear empties the indices and keeps them.
LEMMA ClearKeepsScannable ==
  ASSUME Inv, Scannable, Clear
  PROVE  Scannable'
<1>0. indices \in Seq(IndexRecords) /\ IsStore(doc) /\ Len(indices) \in Nat \ {0}
  BY EmptySeq DEF Inv, TypeOK, Scannable
<1>1. doc' = <<>> /\ indices' = [i \in DOMAIN indices |-> [indices[i] EXCEPT !.entries = <<>>]]
  BY DEF Clear
<1>2. 1 \in DOMAIN indices /\ indices[1] \in IndexRecords
  BY <1>0
<1>3. indices'[1].field = Id /\ 1 \in DOMAIN indices'
  BY <1>1, <1>2 DEF IndexRecords, Scannable
<1>4. QED
  BY <1>1, <1>3 DEF Scannable

\* An index stays on its field when it gains an entry.
LEMMA IndexNodeKeepsScannable ==
  ASSUME Inv, Scannable, IndexNode
  PROVE  Scannable'
<1>0. indices \in Seq(IndexRecords) /\ IsStore(doc) /\ Len(indices) \in Nat \ {0}
  BY EmptySeq DEF Inv, TypeOK, Scannable
<1> DEFINE last == Len(indices)
           r == nodes[call.at]
<1>1. PICK ix \in WithEntry(indices[last], r, doc[r]) : indices' = [indices EXCEPT ![last] = ix]
  BY DEF IndexNode
<1>2. call.at \in 1 .. Len(nodes) /\ doc' = doc
  BY CallShapes DEF IndexNode, Inv, TypeOK
<1>3. r \in Refs /\ IsDocument(doc[r])
  BY <1>0, <1>2 DEF Inv, TypeOK, NodesAreDocuments, NodeSet, IsStore
<1>4. last \in 1 .. Len(indices) /\ indices[last] \in IndexRecords
  BY <1>0
<1>5. ix.field = indices[last].field
  BY <1>1, <1>3, <1>4, WithEntryType
<1>6. indices' # <<>> /\ indices'[1].field = indices[1].field
  <2> HIDE DEF last, r
  <2>1. DOMAIN indices = 1 .. Len(indices) /\ 1 \in DOMAIN indices
    BY <1>0
  <2>2. DOMAIN indices' = DOMAIN indices /\ indices'[1] = IF 1 = last THEN ix ELSE indices[1]
    BY <1>1, <2>1
  <2>3. QED
    BY <1>5, <2>1, <2>2
<1>7. QED
  BY <1>2, <1>6 DEF Scannable

\* Scans stay complete in every step, if nobody drops the index on "_id".
LEMMA ScannableHolds ==
  ASSUME Id \notin IndexFields
  PROVE  Spec => []Scannable
<1>1. Init => Scannable
  BY DEF Init, Scannable
<1>2. Inv /\ Scannable /\ [Next]_vars => Scannable'
  <2> SUFFICES ASSUME Inv, Scannable, [Next]_vars
               PROVE  Scannable'
    OBVIOUS
  <2>1. ASSUME NEW d \in Inputs, AppendDocument(d)
        PROVE  Scannable'
    BY <2>1, PushKeepsScannable DEF AppendDocument
  <2>2. CASE UpsertAppends
    <3>1. call.document \in Inputs
      BY <2>2, CallShapes DEF UpsertAppends, Inv, TypeOK
    <3>2. QED
      BY <2>2, <3>1, PushKeepsScannable DEF UpsertAppends
  <2>3. ASSUME NEW f \in IndexFields, DropIndex(f)
        PROVE  Scannable'
    BY <2>3, DropIndexKeepsScannable
  <2>4. CASE UNCHANGED <<doc, indices>>
    BY <2>4 DEF Scannable
  <2>5. QED
    BY <2>1, <2>2, <2>3, <2>4, UpdateKeepsScannable, ThrowKeepsScannable,
       DropOneKeepsScannable, CreateIndexKeepsScannable, ClearKeepsScannable,
       IndexNodeKeepsScannable
       DEF Next, ClientCalls, CallSteps, Update, UpdateGoesWild, Drop, Upsert, StartDrop,
           EnableJournal, DisableJournal, DropReturns, DropThrows, DropGoesWild,
           CreateIndexReturns, data, vars
<1>3. QED
  BY <1>1, <1>2, InvHolds, PTL DEF Spec
-----------------------------------------------------------------------------
\* The index of a plan is there: the one on the queried field, or the first for a scan.
LEMMA PlansAreOfAnIndex ==
  ASSUME Inv, Scannable, NEW q \in Queries, NEW pl \in Plans(q), NEW k, k = WalkedIndex(q)
  PROVE  /\ k \in 1 .. Len(indices) /\ indices[k] \in IndexRecords
         /\ \/ /\ UsesIndex(q)
               /\ indices[k].field = q.field
               /\ pl \in IndexPlans(indices[k].entries, q)
            \/ /\ k = 1
               /\ indices[k].field = Id
               /\ pl = ScanPlan(indices)
<1>1. indices \in Seq(IndexRecords) /\ 1 \in 1 .. Len(indices) /\ indices[1].field = Id
  BY EmptySeq DEF Inv, TypeOK, Scannable
<1>2. Plans(q) = IF Malformed(q) THEN {}
                 ELSE IF UsesIndex(q) /\ FirstIndexOn(q.field) # 0
                      THEN IndexPlans(indices[FirstIndexOn(q.field)].entries, q)
                      ELSE {ScanPlan(indices)}
  BY DEF Plans, PlansIn, FirstIndexOn
<1>3. CASE UsesIndex(q) /\ FirstIndexOn(q.field) # 0
  <2>1. k = FirstIndexOn(q.field)
    BY <1>3 DEF WalkedIndex
  <2>2. k \in 1 .. Len(indices) /\ indices[k].field = q.field
    BY <1>1, <1>3, <2>1, FirstIndexHasField
  <2>3. QED
    BY <1>1, <1>2, <1>3, <2>1, <2>2
<1>4. CASE ~(UsesIndex(q) /\ FirstIndexOn(q.field) # 0)
  BY <1>1, <1>2, <1>4 DEF WalkedIndex
<1>5. QED
  BY <1>3, <1>4

\* The keys of a coherent index are sorted and of the kind of its field.
LEMMA CoherentIsUniform ==
  ASSUME NEW kindOf, NEW docs, StoreConforms(docs, kindOf),
         NEW R, NEW es \in Seq(EntriesOf(R)), NEW f, Coherent(es, f, docs)
  PROVE  Uniformly(es, kindOf[f])
<1>1. OfKind(kindOf[f], f, docs)
  BY SchemaGivesKind
<1>2. DOMAIN es = 1 .. Len(es)
  OBVIOUS
<1>3. QED
  BY <1>1, <1>2 DEF Coherent, Current, OfKind, Uniformly

\* A plan that ends behind its start selects the documents that satisfy the query.
LEMMA PlansSelect ==
  ASSUME NEW kindOf, Inv, Scannable, StoreConforms(doc, kindOf), AllCoherent(indices, doc),
         NEW q \in Queries, BoundsOfKind(q, kindOf[q.field]),
         NEW pl \in Plans(q), ~Stray(pl), NEW k, k = WalkedIndex(q)
  PROVE  /\ Selects(pl, indices[k].entries, doc, q)
         /\ \A r \in DOMAIN doc : Satisfies(doc[r], q) => indices[k].field \in DOMAIN doc[r]
<1>1. /\ k \in 1 .. Len(indices) /\ indices[k] \in IndexRecords
      /\ \/ /\ UsesIndex(q)
            /\ indices[k].field = q.field
            /\ pl \in IndexPlans(indices[k].entries, q)
         \/ /\ k = 1
            /\ indices[k].field = Id
            /\ pl = ScanPlan(indices)
  BY PlansAreOfAnIndex
<1>2. PICK es : es = indices[k].entries
  OBVIOUS
<1>3. es \in Seq(EntriesOf(Refs)) /\ Coherent(es, indices[k].field, doc)
  BY <1>1, <1>2 DEF IndexRecords, AllCoherent, Inv, TypeOK
<1>4. q \in QueryRecords
  BY DocumentsAssumption
<1>5. CASE UsesIndex(q) /\ indices[k].field = q.field /\ pl \in IndexPlans(es, q)
  <2>1. Uniformly(es, kindOf[q.field])
    BY <1>3, <1>5, CoherentIsUniform
  <2>2. Selects(pl, es, doc, q)
    BY <1>3, <1>4, <1>5, <2>1, IndexPlansSelect DEF Coherent
  <2>3. QED
    BY <1>2, <1>5, <2>2, MatchHasField
<1>6. CASE k = 1 /\ indices[k].field = Id /\ pl = ScanPlan(indices)
  <2>1. Selects(ScanPlan(indices), indices[1].entries, doc, q)
    BY <1>2, <1>3, <1>6, ScanSelects, SMTT(60) DEF Scannable
  <2>2. QED
    BY <1>2, <1>6, <2>1 DEF Scannable
<1>7. QED
  BY <1>1, <1>2, <1>5, <1>6

\* The plans of a query are those of one coherent index that has every match.
LEMMA CoherentAnswers ==
  ASSUME NEW kindOf, Inv, Scannable, StoreConforms(doc, kindOf), IndexCoherent,
         \A q \in Queries : BoundsInOrder(q, kindOf[q.field])
  PROVE  IndexTransparent
<1> SUFFICES ASSUME call.op # "createIndex", NEW q \in Queries, NEW pl \in Plans(q)
             PROVE  /\ ~GoesWild(doc, pl, q)
                    /\ {pl.entries[p].ref : p \in {x \in Walk(pl) : Hit(doc, pl, q, x)}}
                         = {r \in DOMAIN doc : Satisfies(doc[r], q)}
                    /\ \A p1, p2 \in Walk(pl) :
                         pl.entries[p1].ref = pl.entries[p2].ref => p1 = p2
  BY DEF IndexTransparent
<1>1. AllCoherent(indices, doc) /\ IsStore(doc) /\ indices \in Seq(IndexRecords)
  BY AllIndicesCovered DEF StoreConforms, Inv, TypeOK
<1>2. PICK k : k = WalkedIndex(q)
  OBVIOUS
<1>3. PICK es, f : es = indices[k].entries /\ f = indices[k].field
  OBVIOUS
<1>4. /\ k \in 1 .. Len(indices) /\ indices[k] \in IndexRecords
      /\ \/ UsesIndex(q) /\ f = q.field /\ pl \in IndexPlans(es, q)
         \/ pl = ScanPlan(indices)
  BY <1>2, <1>3, PlansAreOfAnIndex
<1>5. es \in Seq(EntriesOf(Refs)) /\ Coherent(es, f, doc)
  BY <1>1, <1>3, <1>4 DEF IndexRecords, AllCoherent
<1>6. ~Stray(pl)
  <2>1. CASE UsesIndex(q) /\ f = q.field /\ pl \in IndexPlans(es, q)
    <3>1. Uniformly(es, kindOf[q.field]) /\ q \in QueryRecords
      BY <1>5, <2>1, CoherentIsUniform, DocumentsAssumption
    <3>2. QED
      BY <2>1, <3>1, InOrderIsNotStray
  <2>2. CASE pl = ScanPlan(indices)
    <3>1. Len(indices[1].entries) \in Nat
      <4>1. indices[1] \in IndexRecords
        BY <1>1, EmptySeq DEF Scannable
      <4>2. QED
        BY <4>1 DEF IndexRecords
    <3>2. QED
      BY <2>2, <3>1 DEF ScanPlan, Plan, Stray, Scannable
  <2>3. QED
    BY <1>4, <2>1, <2>2
<1>7. /\ Selects(pl, es, doc, q)
      /\ \A r \in DOMAIN doc : Satisfies(doc[r], q) => f \in DOMAIN doc[r]
  BY <1>1, <1>2, <1>3, <1>6, PlansSelect DEF BoundsInOrder
<1>8. QED
  BY <1>5, <1>7, SelectedAreMatching

(***************************************************************************)
(* Whatever clients call, and whichever index parse_query settles on, a    *)
(* query delivers the documents that satisfy it, each once - if every      *)
(* field holds values of one kind, the bounds of a range are of that kind  *)
(* and in order, every patch is an object and "_id" keeps its index.       *)
(***************************************************************************)
THEOREM IndicesAnswerAlike ==
  ASSUME NEW kindOf, Uniform(kindOf), Id \notin IndexFields,
         \A q \in Queries : BoundsInOrder(q, kindOf[q.field])
  PROVE  Spec => []IndexTransparent
<1> DEFINE Kept == StoreConforms(doc, kindOf) /\ IndexCoherent
<1>1. Inv /\ Scannable /\ Kept => IndexTransparent
  BY CoherentAnswers
<1>2. Spec => []Kept
  BY StoreStaysCoherent
<1> HIDE DEF Kept
<1>3. QED
  BY <1>1, <1>2, InvHolds, ScannableHolds, PTL

(***************************************************************************)
(* Under the same conditions update and drop stay with entries and         *)
(* documents that exist, whatever the calls before them did - provided     *)
(* that no update writes into a value of the document another part of it   *)
(* still names.                                                            *)
(***************************************************************************)
THEOREM NothingGoesWild ==
  ASSUME NEW kindOf, Uniform(kindOf), Id \notin IndexFields, Overwriting = {},
         \A q \in Queries : BoundsInOrder(q, kindOf[q.field])
  PROVE  Spec => []StaysDefined
<1>1. Init => StaysDefined
  BY DEF Init, StaysDefined
<1>2. Inv /\ IndexTransparent /\ StaysDefined /\ [Next]_vars => StaysDefined'
  <2> SUFFICES ASSUME Inv, IndexTransparent, ~wild, [Next]_vars
               PROVE  ~wild'
    BY DEF StaysDefined
  <2>1. ASSUME NEW q \in Queries
        PROVE  ~UpdateGoesWild(q)
    BY DEF UpdateGoesWild, CanGoWild, IndexTransparent, Command, Idle
  <2>2. ~DropGoesWild
    <3>1. SUFFICES ASSUME DropGoesWild
                   PROVE  FALSE
      OBVIOUS
    <3>2. call.op = "drop" /\ call.query \in Queries
      BY <3>1, CallShapes DEF DropGoesWild, Dropping, Inv, TypeOK
    <3>3. QED
      BY <3>1, <3>2 DEF DropGoesWild, CanGoWild, IndexTransparent
  <2>3. QED
    BY <2>1, <2>2
       DEF Next, ClientCalls, CallSteps, AppendDocument, PushDocument, Update, UpdateDocument,
           UpdateThrows, DropOne, Drop, Upsert, StartDrop, UpsertAppends, CreateIndex,
           DropIndex, Clear, IndexNode, EnableJournal, DisableJournal, DropReturns,
           DropThrows, CreateIndexReturns, data, vars
<1>3. QED
  BY <1>1, <1>2, InvHolds, IndicesAnswerAlike, PTL DEF Spec
-----------------------------------------------------------------------------
(***************************************************************************)
(* The refinement: a collection, with its indices, its running calls and   *)
(* its journal flag, implements the plain store of DocStore.               *)
(***************************************************************************)

(***************************************************************************)
(* DocStore speaks of the same documents and queries.                      *)
(***************************************************************************)
LEMMA SameSatisfies == \A d, q : Abstract!Satisfies(d, q) <=> Satisfies(d, q)
BY DEF Abstract!Satisfies, Satisfies, Abstract!Eq, Eq, Abstract!Less, Less,
       Abstract!Greater, Greater, Abstract!AtLeast, AtLeast, Abstract!AtMost, AtMost,
       Abstract!Member, Member, Abstract!Comparable, Comparable, Abstract!Rank, Rank,
       Abstract!IsNumeric, IsNumeric, Abstract!IsString, IsString, Abstract!AsDouble, AsDouble,
       Abstract!NumericTypes, NumericTypes, Abstract!Invalid, Invalid

\* Of the same documents, and what calls make of them.
LEMMA SameDocuments ==
  /\ \A d : Abstract!Accepted(d) <=> Accepted(d)
  /\ \A n : Abstract!Uint(n) = Uint(n)
  /\ \A d, n : Abstract!Numbered(d, n) = Numbered(d, n)
  /\ \A m, k, v : Abstract!With(m, k, v) = With(m, k, v)
  /\ \A d, patch : Abstract!Merged(d, patch) = Merged(d, patch)
  /\ Abstract!Id = Id
  /\ Abstract!DefaultLimit = DefaultLimit
<1>1. \A d : Abstract!Accepted(d) <=> Accepted(d)
  BY DEF Abstract!Accepted, Accepted, Abstract!Id, Id
<1>2. \A m, k, v : Abstract!With(m, k, v) = With(m, k, v)
  BY DEF Abstract!With, With
<1>3. \A d, n : Abstract!Numbered(d, n) = Numbered(d, n)
  BY DEF Abstract!Numbered, Numbered, Abstract!Uint, Uint, Abstract!Id, Id, Abstract!With, With
<1>4. \A d, patch : Abstract!Merged(d, patch) = Merged(d, patch)
  BY DEF Abstract!Merged, Merged, Abstract!Overlaid, Overlaid
<1>5. QED
  BY <1>1, <1>2, <1>3, <1>4
     DEF Abstract!Uint, Uint, Abstract!Id, Id, Abstract!DefaultLimit, DefaultLimit

\* And of the same journal commands and sizes.
LEMMA SameCommands ==
  /\ \A d : Abstract!AppendCommand(d) = AppendCommand(d)
  /\ \A q, patch : Abstract!UpdateCommand(q, patch) = UpdateCommand(q, patch)
  /\ \A q, limit : Abstract!DropCommand(q, limit) = DropCommand(q, limit)
  /\ \A S : Abstract!Cardinality(S) = Cardinality(S)
<1>1. \A q, limit : Abstract!DropCommand(q, limit) = DropCommand(q, limit)
  BY DEF Abstract!DropCommand, DropCommand, Abstract!AsInt, AsInt
<1>2. \A S : Abstract!Cardinality(S) = Cardinality(S)
  BY DEF Abstract!Cardinality, Cardinality
<1>3. QED
  BY <1>1, <1>2 DEF Abstract!AppendCommand, AppendCommand, Abstract!UpdateCommand, UpdateCommand
-----------------------------------------------------------------------------
\* A walk begins at an entry of its index.
LEMMA PlansBegin ==
  ASSUME indices \in Seq(IndexRecords), NEW q, NEW pl \in Plans(q)
  PROVE  pl.lo \in Nat
<1>1. \A es, v : LowerBounds(es, v) \subseteq Nat /\ UpperBounds(es, v) \subseteq Nat
                 /\ EqualRanges(es, v) \subseteq LowerBounds(es, v) \X UpperBounds(es, v)
  BY DEF LowerBounds, UpperBounds, EqualRanges
<1>2. CASE pl = ScanPlan(indices)
  BY <1>2 DEF ScanPlan, Plan
<1>3. ASSUME NEW es, UsesIndex(q), pl \in IndexPlans(es, q)
      PROVE  pl.lo \in Nat
  <2>1. CASE q.op = "eq"
    BY <1>1, <1>3, <2>1 DEF IndexPlans, Plan
  <2>2. CASE q.op = "gt"
    BY <1>1, <1>3, <2>2 DEF IndexPlans, Plan
  <2>3. CASE q.op = "lt"
    BY <1>1, <1>3, <2>3 DEF IndexPlans, Plan
  <2>4. CASE q.op = "range"
    BY <1>1, <1>3, <2>4 DEF IndexPlans, Plan
  <2>5. QED
    BY <1>3, <2>1, <2>2, <2>3, <2>4 DEF UsesIndex
<1>4. Plans(q) = IF Malformed(q) THEN {}
                 ELSE IF UsesIndex(q) /\ FirstIndexOn(q.field) # 0
                      THEN IndexPlans(indices[FirstIndexOn(q.field)].entries, q)
                      ELSE {ScanPlan(indices)}
  BY DEF Plans, PlansIn, FirstIndexOn
<1>5. QED
  BY <1>2, <1>3, <1>4

\* What a cursor finds first satisfies the query.
LEMMA MatchesSatisfy ==
  ASSUME Inv, IndexTransparent, call.op # "createIndex", NEW q \in Queries,
         NEW r \in FirstMatches(q)
  PROVE  r \in DOMAIN doc /\ Satisfies(doc[r], q)
<1>1. PICK pl \in Plans(q) : /\ ~GoesWild(doc, pl, q)
                             /\ StopAt(doc, pl, q) # 0
                             /\ r = pl.entries[StopAt(doc, pl, q)].ref
  BY DEF FirstMatches, FirstMatchesIn, Plans
<1>2. PICK p : p = StopAt(doc, pl, q)
  OBVIOUS
<1>3. pl.lo \in Nat
  BY PlansBegin DEF Inv, TypeOK
<1>4. p \in Walk(pl) /\ (Hit(doc, pl, q, p) \/ ~Live(doc, pl, p))
  BY <1>1, <1>2, <1>3, StopIsAStop
<1>5. Hit(doc, pl, q, p)
  BY <1>1, <1>2, <1>4 DEF GoesWild
<1>6. r \in {pl.entries[x].ref : x \in {y \in Walk(pl) : Hit(doc, pl, q, y)}}
  BY <1>1, <1>2, <1>4, <1>5
<1>7. QED
  BY <1>6 DEF IndexTransparent

\* When a cursor finds none, there is none.
LEMMA NoneLeft ==
  ASSUME Inv, IndexTransparent, call.op # "createIndex", NEW q \in Queries, CanFindNone(q)
  PROVE  \A r \in DOMAIN doc : ~Satisfies(doc[r], q)
<1>1. PICK pl \in Plans(q) : StopAt(doc, pl, q) = 0
  BY DEF CanFindNone
<1>2. pl.lo \in Nat
  BY PlansBegin DEF Inv, TypeOK
<1>3. \A p \in Walk(pl) : ~Hit(doc, pl, q, p)
  BY <1>1, <1>2, StopIsAStop
<1>4. {pl.entries[p].ref : p \in {x \in Walk(pl) : Hit(doc, pl, q, x)}} = {}
  BY <1>3
<1>5. {r \in DOMAIN doc : Satisfies(doc[r], q)} = {}
  BY <1>4 DEF IndexTransparent
<1>6. QED
  BY <1>5
-----------------------------------------------------------------------------
\* The documents the running drop has taken.
Gone == DOMAIN call.before \ DOMAIN doc

\* What a drop has done so far: taken as many matching documents as it counts.
Dropped ==
  call.op = "drop" =>
    /\ call.limit \in Limits \cup {DefaultLimit}
    /\ DOMAIN doc \subseteq DOMAIN call.before
    /\ \A r \in DOMAIN doc : doc[r] = call.before[r]
    /\ \A r \in Gone : Satisfies(call.before[r], call.query)
    /\ IsFiniteSet(Gone) /\ Cardinality(Gone) = call.ret
    /\ call.ret <= call.limit

\* The document an upsert brings fits in when its turn comes.
RoomKept ==
  /\ call.op = "append" => (Accepted(call.document) => NextId(call.document) <= MaxId)
  /\ call.op = "drop" /\ call.replacement # <<>> =>
       (Accepted(call.replacement[1]) => NextId(call.replacement[1]) <= MaxId)

\* A drop begins with nothing taken.
LEMMA StartDropIsFresh ==
  ASSUME Inv, NEW q \in Queries, NEW limit \in Limits \cup {DefaultLimit}, NEW replacement,
         StartDrop(q, limit, replacement)
  PROVE  Dropped'
<1>1. /\ doc' = doc
      /\ call' = [op |-> "drop", query |-> q, limit |-> limit, ret |-> 0,
                  jwenabled |-> jw, replacement |-> replacement, before |-> doc]
  BY DEF StartDrop, data
<1>2. Gone' = {} /\ call'.ret = 0 /\ call'.limit = limit /\ call'.before = doc
  BY <1>1 DEF Gone
<1>3. limit \in Nat
  BY DocumentsAssumption DEF DefaultLimit
<1>4. QED
  BY <1>1, <1>2, <1>3, FS_EmptySet DEF Dropped

\* A document that drop takes is one more that matched.
LEMMA DropOneIsCounted ==
  ASSUME Inv, IndexTransparent, Dropped, DropOne
  PROVE  Dropped'
<1>1. /\ call.op = "drop" /\ call.query \in Queries /\ call.ret \in Nat /\ call.limit \in Nat
      /\ call' = [call EXCEPT !.ret = @ + 1]
      /\ call.ret < call.limit
  BY CallShapes DEF DropOne, Dropping, LooksForNext, Inv, TypeOK
<1>2. PICK r \in FirstMatches(call.query) : doc' = Without(doc, r)
  BY DEF DropOne
<1>3. r \in DOMAIN doc /\ Satisfies(doc[r], call.query)
  BY <1>1, MatchesSatisfy
<1>4. /\ call'.op = "drop" /\ call'.ret = call.ret + 1
      /\ call'.query = call.query /\ call'.limit = call.limit /\ call'.before = call.before
  BY <1>1, CallShapes DEF Inv, TypeOK
<1>5. DOMAIN doc' = DOMAIN doc \ {r} /\ \A x \in DOMAIN doc' : doc'[x] = doc[x]
  BY <1>2 DEF Without
<1>6. Gone' = Gone \cup {r} /\ r \notin Gone
  BY <1>1, <1>3, <1>4, <1>5 DEF Gone, Dropped
<1>7. IsFiniteSet(Gone') /\ Cardinality(Gone') = call.ret + 1
  BY <1>1, <1>6, FS_AddElement DEF Dropped
<1>8. \A x \in Gone' : Satisfies(call'.before[x], call'.query)
  BY <1>1, <1>3, <1>4, <1>6 DEF Dropped
<1>9. QED
  BY <1>1, <1>4, <1>5, <1>7, <1>8 DEF Dropped

\* Both hold in every step.
LEMMA DroppedHolds ==
  ASSUME Inv, IndexTransparent, Dropped, RoomKept, [Next]_vars
  PROVE  Dropped' /\ RoomKept'
<1>1. ASSUME NEW q \in Queries, NEW limit \in Limits, Drop(q, limit)
      PROVE  Dropped' /\ RoomKept'
  <2>1. call'.op = "drop" /\ call'.replacement = <<>>
    BY <1>1 DEF Drop, StartDrop
  <2>2. QED
    BY <1>1, <2>1, StartDropIsFresh DEF Drop, RoomKept
<1>2. ASSUME NEW q \in Queries, NEW d \in Inputs, Upsert(q, d)
      PROVE  Dropped' /\ RoomKept'
  <2>1. call'.op = "drop" /\ call'.replacement = <<d>> /\ id' = id
    BY <1>2 DEF Upsert, StartDrop, data
  <2>2. Accepted(d) => NextId(d)' <= MaxId
    BY <1>2, <2>1 DEF Upsert, RoomFor, NextId
  <2>3. QED
    BY <1>2, <2>1, <2>2, StartDropIsFresh DEF Upsert, RoomKept, NextId
<1>3. CASE DropOne
  <2>1. call.op = "drop" /\ call'.op = "drop" /\ call'.replacement = call.replacement /\ id' = id
    BY <1>3, CallShapes DEF DropOne, Dropping, Inv, TypeOK
  <2>2. QED
    BY <1>3, <2>1, DropOneIsCounted DEF RoomKept, NextId
<1>4. CASE DropReturns
  <2>1. call.op = "drop" /\ id' = id
        /\ call' = IF call.replacement = <<>> THEN Idle
                   ELSE [op |-> "append", document |-> call.replacement[1]]
    BY <1>4 DEF DropReturns, Dropping, data
  <2>2. CASE call.replacement = <<>>
    BY <2>1, <2>2 DEF Dropped, RoomKept, Idle
  <2>3. CASE call.replacement # <<>>
    <3>1. call'.op = "append" /\ call'.document = call.replacement[1]
      BY <2>1, <2>3
    <3>2. QED
      BY <2>1, <2>3, <3>1 DEF Dropped, RoomKept, NextId
  <2>4. QED
    BY <2>2, <2>3
<1>5. CASE UNCHANGED <<doc, id, call>>
  <2>1. Dropped'
    BY <1>5 DEF Dropped, Gone
  <2>2. QED
    BY <1>5, <2>1 DEF RoomKept, NextId
<1>6. CASE call'.op \notin {"drop", "append"}
  BY <1>6 DEF Dropped, RoomKept
<1>7. CASE IndexNode
  <2>1. call'.op = "createIndex"
    BY <1>7, CallShapes DEF IndexNode, Inv, TypeOK
  <2>2. QED
    BY <1>6, <2>1
<1>8. CASE call = Idle /\ UNCHANGED call
  BY <1>6, <1>8 DEF Idle
<1>9. CASE ClientCalls
  <2>1. CASE \E f \in IndexFields : CreateIndex(f)
    BY <1>6, <2>1 DEF CreateIndex
  <2>2. CASE call = Idle /\ UNCHANGED call
    BY <1>8, <2>2
  <2>3. QED
    BY <1>1, <1>2, <1>9, <2>1, <2>2
       DEF ClientCalls, AppendDocument, Update, UpdateDocument, UpdateThrows, UpdateGoesWild,
           DropIndex, Clear, EnableJournal, DisableJournal, Command
<1>10. CASE CallSteps
  <2>1. CASE call' = Idle
    BY <1>6, <2>1 DEF Idle
  <2>2. QED
    BY <1>3, <1>4, <1>5, <1>7, <1>10, <2>1
       DEF CallSteps, DropThrows, DropGoesWild, UpsertAppends, CreateIndexReturns, data
<1>11. QED
  BY <1>5, <1>9, <1>10 DEF Next, vars
-----------------------------------------------------------------------------
\* append puts a document into the store, with an "_id" that none has.
LEMMA PushPuts ==
  ASSUME Inv, IdsBelowCounter, NEW d \in Inputs, PushDocument(d), jw = asked, asked' = asked,
         Accepted(d) => NextId(d) <= MaxId, call.op # "drop", call'.op # "drop"
  PROVE  Abstract!Put(d) \/ UNCHANGED Abstract!vars
<1>1. CASE UNCHANGED <<data, journal>>
  BY <1>1 DEF Abstract!vars, data
<1>2. CASE ~ UNCHANGED <<data, journal>>
  <2>1. Accepted(d)
    BY <1>2 DEF PushDocument
  <2>2. PICK r \in Refs \ DOMAIN doc :
          /\ doc' = With(doc, r, Numbered(d, id))
          /\ journal' = Journalled(AppendCommand(Numbered(d, id)))
    BY <1>2 DEF PushDocument
  <2>3. PICK n : n = IF Id \in DOMAIN d THEN 0 ELSE id
    OBVIOUS
  <2>4. n \in 0 .. MaxId
    BY <2>1, <2>3, DocumentsAssumption DEF NextId, Inv, TypeOK
  <2>5. Numbered(d, n) = Numbered(d, id)
    BY <2>3 DEF Numbered
  <2>6. Id \in DOMAIN d \/ Uint(n) \notin {doc[x][Id] : x \in DOMAIN doc}
    <3>1. SUFFICES ASSUME Id \notin DOMAIN d, NEW x \in DOMAIN doc, doc[x][Id] = Uint(n)
                   PROVE  FALSE
      OBVIOUS
    <3>2. doc[x][Id].type = "uint" /\ doc[x][Id].n = id
      BY <2>3, <3>1 DEF Uint
    <3>3. QED
      BY <3>2 DEF IdsBelowCounter, Inv, TypeOK
  <2>7. journal' = IF asked THEN Append(journal, AppendCommand(Numbered(d, n))) ELSE journal
    BY <2>2, <2>5 DEF Journalled
  <2>8. doc' = With(doc, r, Numbered(d, n))
    BY <2>2, <2>5
  <2>9. Abstract!Put(d)
    BY <2>1, <2>2, <2>4, <2>6, <2>7, <2>8, SameDocuments, SameCommands
       DEF Abstract!Put, Abstract!Recorded, Abstract!UsedIds
  <2>10. QED
    BY <2>9
<1>3. QED
  BY <1>1, <1>2

\* update changes a document that matches.
LEMMA UpdateAmends ==
  ASSUME Inv, IndexTransparent, NEW q \in Queries, NEW patch \in Patches,
         UpdateDocument(q, patch), jw = asked
  PROVE  Abstract!Amend(q, patch)
<1>1. /\ call = Idle /\ call' = Idle /\ asked' = asked /\ patch # NotAnObject
      /\ journal' = IF asked THEN Append(journal, UpdateCommand(q, patch)) ELSE journal
  BY DEF UpdateDocument, Command, Journalled
<1>2. PICK r \in FirstMatches(q) : doc' = [doc EXCEPT ![r] = Merged(@, patch)]
  BY DEF UpdateDocument
<1>3. r \in DOMAIN doc /\ Satisfies(doc[r], q)
  BY <1>1, MatchesSatisfy DEF Idle
<1>4. call.op # "drop" /\ call'.op # "drop"
  BY <1>1 DEF Idle
<1>5. QED
  BY <1>1, <1>2, <1>3, <1>4, SameSatisfies, SameDocuments, SameCommands
     DEF Abstract!Amend, Abstract!Matching, Abstract!Recorded

\* drop takes effect when it returns.
LEMMA DropRemoves ==
  ASSUME Inv, IndexTransparent, JournalHeld, Dropped, DropReturns
  PROVE  \E q \in Queries, limit \in Limits \cup {DefaultLimit} : Abstract!Remove(q, limit)
<1>1. /\ call.op = "drop" /\ call.query \in Queries /\ call.ret \in Nat /\ call.limit \in Nat
      /\ IsStore(call.before)
  BY CallShapes DEF DropReturns, Dropping, Inv, TypeOK
<1>2. call'.op # "drop" /\ doc' = doc /\ asked' = asked
  BY DEF DropReturns, Idle, data
<1>3. journal' = IF asked THEN Append(journal, DropCommand(call.query, call.limit)) ELSE journal
  BY <1>1 DEF DropReturns, JournalHeld
<1>4. PICK gone : gone = Gone
  OBVIOUS
<1>5. PICK matching : matching = {r \in DOMAIN call.before : Satisfies(call.before[r], call.query)}
  OBVIOUS
<1>6. gone \subseteq matching
  BY <1>1, <1>4, <1>5 DEF Dropped, Gone
<1>7. doc = [r \in DOMAIN call.before \ gone |-> call.before[r]]
  <2>1. DOMAIN doc = DOMAIN call.before \ gone
    BY <1>1, <1>4 DEF Dropped, Gone
  <2>2. doc = [r \in DOMAIN doc |-> doc[r]]
    BY DEF Inv, TypeOK, IsStore
  <2>3. \A r \in DOMAIN doc : doc[r] = call.before[r]
    BY <1>1 DEF Dropped
  <2>4. QED
    BY <2>1, <2>2, <2>3
<1>8. \/ Cardinality(gone) = call.limit
      \/ Cardinality(gone) < call.limit /\ gone = matching
  <2>1. Cardinality(gone) = call.ret /\ call.ret <= call.limit
    BY <1>1, <1>4 DEF Dropped
  <2>2. CASE call.ret < call.limit
    <3>1. \A r \in DOMAIN doc : ~Satisfies(doc[r], call.query)
      <4>1. CASE nodes = <<>>
        BY <4>1 DEF Inv, NodesAreDocuments, NodeSet
      <4>2. CASE nodes # <<>>
        BY <1>1, <2>2, <4>2, NoneLeft DEF DropReturns, LooksForNext
      <4>3. QED
        BY <4>1, <4>2
    <3>2. matching \subseteq gone
      BY <1>1, <1>4, <1>5, <3>1 DEF Dropped, Gone
    <3>3. QED
      BY <1>6, <2>1, <2>2, <3>2
  <2>3. QED
    BY <1>1, <2>1, <2>2
<1>9. call.limit \in Limits \cup {DefaultLimit}
  BY <1>1 DEF Dropped
<1>10. Abstract!Matching(call.query) = matching
  BY <1>1, <1>5, SameSatisfies DEF Abstract!Matching
<1>11. Abstract!Remove(call.query, call.limit)
  BY <1>1, <1>2, <1>3, <1>6, <1>7, <1>8, <1>10, SameCommands
     DEF Abstract!Remove, Abstract!Recorded
<1>12. QED
  BY <1>1, <1>9, <1>11

\* Every step of the collection is one of the store, or changes nothing in it.
LEMMA StepRefines ==
  ASSUME Inv, IndexTransparent, IdsBelowCounter, JournalHeld, Dropped, RoomKept, [Next]_vars,
         NotAnObject \notin Patches, \A q \in Queries : ~Malformed(q)
  PROVE  [Abstract!Next]_Abstract!vars
<1>1. CASE /\ UNCHANGED <<doc, journal, asked>>
           /\ \/ UNCHANGED call
              \/ call.op # "drop" /\ call'.op # "drop"
  BY <1>1 DEF Abstract!vars
<1>2. ASSUME NEW d \in Inputs, AppendDocument(d)
      PROVE  [Abstract!Next]_Abstract!vars
  <2>1. /\ PushDocument(d) /\ jw = asked /\ asked' = asked
        /\ Accepted(d) => NextId(d) <= MaxId
        /\ call.op # "drop" /\ call'.op # "drop"
    BY <1>2 DEF AppendDocument, RoomFor, Command, Idle, JournalHeld
  <2>2. QED
    BY <2>1, PushPuts DEF Abstract!Next
<1>3. ASSUME NEW q \in Queries, NEW patch \in Patches, Update(q, patch)
      PROVE  [Abstract!Next]_Abstract!vars
  <2>1. UpdateDocument(q, patch)
    BY <1>3 DEF Update
  <2>2. jw = asked
    BY <2>1 DEF UpdateDocument, Command, Idle, JournalHeld
  <2>3. QED
    BY <2>1, <2>2, UpdateAmends DEF Abstract!Next
<1>4. CASE \/ \E q \in Queries, limit \in Limits : Drop(q, limit)
           \/ \E q \in Queries, d \in Inputs : Upsert(q, d)
  <2>1. call = Idle /\ UNCHANGED <<doc, journal, asked>>
    BY <1>4 DEF Drop, Upsert, StartDrop, Command, data
  <2>2. call'.op = "drop" /\ call'.before = doc
    BY <1>4 DEF Drop, Upsert, StartDrop
  <2>3. QED
    BY <2>1, <2>2 DEF Abstract!vars, Idle
<1>5. CASE Clear
  <2>1. call = Idle /\ call' = Idle /\ doc' = <<>> /\ asked' = asked /\ journal' = journal
    BY <1>5 DEF Clear, Command
  <2>2. Abstract!Empty
    BY <2>1 DEF Abstract!Empty, Idle
  <2>3. QED
    BY <2>2 DEF Abstract!Next
<1>6. CASE EnableJournal \/ DisableJournal
  <2>1. call = Idle /\ call' = Idle /\ doc' = doc /\ journal' = journal
    BY <1>6 DEF EnableJournal, DisableJournal, Command, data
  <2>2. PICK on \in BOOLEAN : asked' = on
    BY <1>6 DEF EnableJournal, DisableJournal
  <2>3. Abstract!SetLogging(on)
    BY <2>1, <2>2 DEF Abstract!SetLogging, Idle
  <2>4. QED
    BY <2>3 DEF Abstract!Next
<1>7. CASE DropOne
  <2>1. /\ call.op = "drop" /\ call'.op = "drop" /\ call'.before = call.before
        /\ UNCHANGED <<journal, asked>>
    BY <1>7, CallShapes DEF DropOne, Dropping, Inv, TypeOK
  <2>2. QED
    BY <2>1 DEF Abstract!vars
<1>8. CASE DropReturns
  BY <1>8, DropRemoves, SameDocuments DEF Abstract!Next
<1>9. ~DropThrows
  BY CallShapes DEF DropThrows, Dropping, Inv, TypeOK
<1>10. CASE UpsertAppends
  <2>1. /\ call.op = "append" /\ call.document \in Inputs /\ PushDocument(call.document)
        /\ jw = asked /\ asked' = asked /\ call' = Idle
        /\ Accepted(call.document) => NextId(call.document) <= MaxId
    BY <1>10, CallShapes DEF UpsertAppends, JournalHeld, RoomKept, Inv, TypeOK
  <2>2. Abstract!Put(call.document) \/ UNCHANGED Abstract!vars
    BY <2>1, PushPuts DEF Idle
  <2>3. QED
    BY <2>1, <2>2 DEF Abstract!Next
<1>11. CASE IndexNode
  <2>1. call.op = "createIndex" /\ call'.op = "createIndex"
    BY <1>11, CallShapes DEF IndexNode, Inv, TypeOK
  <2>2. QED
    BY <1>1, <1>11, <2>1 DEF IndexNode
<1>12. CASE (\E f \in IndexFields : CreateIndex(f)) \/ CreateIndexReturns
  <2>1. UNCHANGED <<doc, journal, asked>>
    BY <1>12 DEF CreateIndex, CreateIndexReturns, data
  <2>2. call.op # "drop" /\ call'.op # "drop"
    <3>1. CASE \E f \in IndexFields : CreateIndex(f)
      BY <3>1 DEF CreateIndex, Command, Idle
    <3>2. CASE CreateIndexReturns
      BY <3>2 DEF CreateIndexReturns, Idle
    <3>3. QED
      BY <1>12, <3>1, <3>2
  <2>3. QED
    BY <1>1, <2>1, <2>2
<1>13. CASE (\E f \in IndexFields : DropIndex(f)) \/ UNCHANGED vars \/ DropGoesWild
            \/ \E q \in Queries : UpdateGoesWild(q)
  BY <1>1, <1>13 DEF DropIndex, UpdateGoesWild, DropGoesWild, data, vars
<1>14. QED
  BY <1>2, <1>3, <1>4, <1>5, <1>6, <1>7, <1>8, <1>9, <1>10, <1>11, <1>12, <1>13
     DEF Next, ClientCalls, CallSteps

(***************************************************************************)
(* The collection implements DocStore: whatever its indices hold and       *)
(* however far a drop has got, clients see a bag of documents on which     *)
(* every call takes effect at once, and the journal records each change    *)
(* in the order made.  Asked of clients is what the theorems above ask,    *)
(* well-formed queries, and patches that leave the "_id" alone.            *)
(***************************************************************************)
THEOREM ImplementsDocStore ==
  ASSUME NEW kindOf, Uniform(kindOf), Id \notin IndexFields,
         \A q \in Queries : BoundsInOrder(q, kindOf[q.field]) /\ ~Malformed(q),
         \A patch \in Patches : Id \in DOMAIN patch => patch[Id].type # "uint"
  PROVE  Spec => RefinesDocStore
<1>1. NotAnObject \notin Patches
  BY DEF Uniform
<1>2. Init => Abstract!Init /\ Dropped /\ RoomKept
  BY DEF Init, Idle, Abstract!Init, Dropped, RoomKept
<1>3. Inv /\ IndexTransparent /\ Dropped /\ RoomKept /\ [Next]_vars => Dropped' /\ RoomKept'
  BY DroppedHolds
<1>4. Inv /\ IndexTransparent /\ IdsBelowCounter /\ JournalHeld /\ Dropped /\ RoomKept
        /\ [Next]_vars
        => [Abstract!Next]_Abstract!vars
  BY <1>1, StepRefines
<1>5. Spec => [](Inv /\ IndexTransparent /\ IdsBelowCounter /\ JournalHeld)
  <2>1. Spec => []IndexTransparent
    BY IndicesAnswerAlike
  <2>2. Spec => []IdsBelowCounter
    BY IdsStayBelowCounter
  <2>3. Spec => []JournalHeld
    BY JournalIsHeld
  <2>4. QED
    BY <2>1, <2>2, <2>3, InvHolds, PTL
<1>6. QED
  BY <1>2, <1>3, <1>4, <1>5, PTL DEF Spec, RefinesDocStore, Abstract!Spec
=============================================================================
