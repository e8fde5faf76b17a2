---------------------------- MODULE CursorProofs ----------------------------
(***************************************************************************)
(* A cursor that is held while the collection is used: whatever the client *)
(* calls in between, as long as it refrains from what Cursor names abuse,  *)
(* the cursor stays valid and delivers what it was opened for.             *)
(***************************************************************************)
EXTENDS Cursor, CollectionProofs

\* A step beside the cursor is one of the collection, unless memory is lost.
LEMMA CursorStepIsStep ==
  ASSUME [CursorNext]_cursorVars
  PROVE  [Next]_vars \/ (wild' = TRUE /\ UNCHANGED <<data, jw, journal, asked, call>>)
<1>1. CASE UNCHANGED cursorVars
  BY <1>1 DEF cursorVars
<1>2. CASE CursorCalls
  <2>1. UNCHANGED vars \/ Forgotten
    BY <1>2 DEF CursorCalls, Find, Opens, FindGoesWild, Deliver, CursorGoesWild, CountGoesWild,
                SetLimit, Close
  <2>2. QED
    BY <2>1 DEF Forgotten
<1>3. CASE AppendsUnder
  BY <1>3 DEF AppendsUnder, Next, ClientCalls, CallSteps
<1>4. CASE UpdatesUnder
  <2>1. PICK q \in Queries, patch \in Patches : UpdateDocument(q, patch)
    BY <1>4 DEF UpdatesUnder
  <2>2. Update(q, patch)
    BY <2>1 DEF Update, UpdateDocument
  <2>3. QED
    BY <2>2 DEF Next, ClientCalls
<1>5. CASE ThrowsUnder
  <2>1. PICK q \in Queries : UpdateThrows(q)
    BY <1>5 DEF ThrowsUnder
  <2>2. NotAnObject \in Patches /\ Update(q, NotAnObject)
    BY <2>1 DEF Update, UpdateThrows
  <2>3. QED
    BY <2>2 DEF Next, ClientCalls
<1>6. CASE DropsUnder \/ ClearsUnder \/ CreatesIndexUnder \/ DropsIndexUnder \/ CallsBeside
  <2>1. CASE CallsBeside
    <3>1. \A q \in Queries : UpdateGoesWild(q) => Next
      BY DEF Next, ClientCalls
    <3>2. QED
      BY <2>1, <3>1 DEF CallsBeside, Next, ClientCalls, CallSteps
  <2>2. QED
    BY <1>6, <2>1 DEF DropsUnder, ClearsUnder, CreatesIndexUnder, DropsIndexUnder, Next,
                      ClientCalls, CallSteps
<1>7. QED
  BY <1>1, <1>2, <1>3, <1>4, <1>5, <1>6 DEF CursorNext

\* With a cursor beside it the collection keeps its invariant.
LEMMA CursorStepKeepsInv ==
  ASSUME Inv, [CursorNext]_cursorVars
  PROVE  Inv'
<1>1. CASE [Next]_vars
  BY <1>1, NextKeepsInv
<1>2. CASE wild' = TRUE /\ UNCHANGED <<data, jw, journal, asked, call>>
  BY <1>2 DEF data, Inv, TypeOK, NodesAreDocuments, NodeSet, IndexingInBounds
<1>3. QED
  BY <1>1, <1>2, CursorStepIsStep
-----------------------------------------------------------------------------
(***************************************************************************)
(* The collection under a cursor.                                          *)
(***************************************************************************)
Sound(kindOf) == StoreConforms(doc, kindOf) /\ IndexCoherent /\ Scannable

\* What is not recorded as abuse of the collection keeps its indices sound.
LEMMA UsesKeepSound ==
  ASSUME NEW kindOf, KeepsSchema(kindOf), Inv, "collection" \notin abused => Sound(kindOf),
         [CursorNext]_cursorVars, "collection" \notin abused'
  PROVE  Sound(kindOf)'
<1>1. "collection" \notin abused /\ ~ThrowsUnder
  BY DEF CursorNext, cursorVars, CursorCalls, Find, Opens, FindGoesWild, Deliver, CursorGoesWild,
         CountGoesWild, SetLimit, Close, Forgotten, AppendsUnder, UpdatesUnder, ThrowsUnder,
         DropsUnder, ClearsUnder, CreatesIndexUnder, DropsIndexUnder, CallsBeside, Follows
<1>2. CoherentInv(kindOf) /\ Scannable
  BY <1>1 DEF Sound, CoherentInv
<1>3. ASSUME UNCHANGED <<nodes, doc, indices, call>>
      PROVE  Sound(kindOf)'
  BY <1>2, <1>3, QuietStepKeepsCoherent DEF Sound, Scannable
<1>4. CASE CursorCalls \/ UNCHANGED cursorVars
  BY <1>3, <1>4 DEF cursorVars, vars, data, CursorCalls, Find, Opens, FindGoesWild, Deliver,
     CursorGoesWild, CountGoesWild, SetLimit, Close, Forgotten
<1>5. CASE AppendsUnder
  <2>1. PICK d \in Inputs : PushDocument(d) /\ call.op # "createIndex" /\ call'.op # "createIndex"
    <3>1. CASE \E d \in Inputs : AppendDocument(d)
      BY <3>1 DEF AppendDocument, Command, Idle
    <3>2. CASE UpsertAppends
      <4>1. call.document \in Inputs
        BY <3>2, CallShapes DEF UpsertAppends, Inv, TypeOK
      <4>2. QED
        BY <3>2, <4>1 DEF UpsertAppends, Idle
    <3>3. QED
      BY <1>5, <3>1, <3>2 DEF AppendsUnder
  <2>2. QED
    BY <1>2, <2>1, PushKeepsCoherent, PushKeepsScannable DEF Sound
<1>6. CASE UpdatesUnder
  <2>1. PICK q \in Queries, patch \in Patches : UpdateDocument(q, patch)
    BY <1>6 DEF UpdatesUnder
  <2>2. QED
    BY <1>2, <2>1, UpdateKeepsCoherent, UpdateKeepsScannable DEF Sound
<1>7. CASE DropsUnder
  <2>1. DropOne
    BY <1>7 DEF DropsUnder
  <2>2. QED
    BY <1>2, <2>1, DropOneKeepsCoherent, DropOneKeepsScannable DEF Sound
<1>8. CASE ClearsUnder
  <2>1. Clear
    BY <1>8 DEF ClearsUnder
  <2>2. QED
    BY <1>2, <2>1, ClearKeepsCoherent, ClearKeepsScannable DEF Sound
<1>9. CASE CreatesIndexUnder
  <2>1. PICK f \in IndexFields : CreateIndex(f)
    BY <1>9 DEF CreatesIndexUnder
  <2>2. doc' = doc
    BY <2>1 DEF CreateIndex
  <2>3. QED
    BY <1>2, <2>1, <2>2, CreateIndexKeepsCoherent, CreateIndexKeepsScannable
       DEF Sound, CoherentInv
<1>10. CASE DropsIndexUnder
  <2>1. PICK f \in IndexFields : DropIndex(f) /\ f # Id
    BY <1>10 DEF DropsIndexUnder
  <2>2. doc' = doc
    BY <2>1 DEF DropIndex
  <2>3. QED
    BY <1>2, <2>1, <2>2, DropIndexKeepsCoherent, DropIndexKeepsScannable
       DEF Sound, CoherentInv
<1>11. CASE CallsBeside
  <2>1. CASE IndexNode
    <3>1. doc' = doc
      BY <2>1 DEF IndexNode
    <3>2. QED
      BY <1>2, <2>1, <3>1, IndexNodeKeepsCoherent, IndexNodeKeepsScannable
         DEF Sound, CoherentInv
  <2>2. CASE CreateIndexReturns
    <3>1. doc' = doc /\ indices' = indices
      BY <2>2 DEF CreateIndexReturns, data
    <3>2. QED
      BY <1>2, <2>2, <3>1, CreateIndexReturnsKeepsCoherent DEF Sound, CoherentInv, Scannable
  <2>3. CASE ~IndexNode /\ ~CreateIndexReturns
    <3>1. StoreConforms(doc', kindOf) /\ IndexCoherent'
      BY <1>2, <1>11, <2>3, CallsAroundKeepCoherent DEF CallsBeside
    <3>2. doc' = doc /\ indices' = indices
      BY <1>11, <2>3 DEF CallsBeside, UpdateGoesWild, Drop, Upsert, StartDrop, DropReturns,
         DropThrows, DropGoesWild, EnableJournal, DisableJournal, data
    <3>3. QED
      BY <1>2, <3>1, <3>2 DEF Sound, Scannable
  <2>4. QED
    BY <2>1, <2>2, <2>3
<1>12. QED
  BY <1>1, <1>4, <1>5, <1>6, <1>7, <1>8, <1>9, <1>10, <1>11 DEF CursorNext
-----------------------------------------------------------------------------
(***************************************************************************)
(* What is in a cursor.                                                    *)
(***************************************************************************)

\* An iterator into an index refers to a list node or is its end.
LEMMA IteratorIsTyped ==
  ASSUME NEW es \in Seq(EntriesOf(Refs)), NEW p
  PROVE  IteratorTo(es, p) \in Refs \cup {AtEnd}
<1>1. CASE p \in DOMAIN es
  <2>1. es[p] \in EntriesOf(Refs)
    BY <1>1
  <2>2. QED
    BY <1>1, <2>1 DEF IteratorTo, EntriesOf
<1>2. CASE p \notin DOMAIN es
  BY <1>2 DEF IteratorTo
<1>3. QED
  BY <1>1, <1>2

\* A cursor that is neither closed nor dangling is a whole one.
LEMMA HeldIsWhole ==
  ASSUME CursorTypeOK
  PROVE  /\ Held => cursor \in CursorRecords
         /\ ~Held => cursor \in {NoCursor, Dangling}
<1>1. cursor \in {NoCursor, Dangling} => ~Held
  BY DEF Held, NoCursor, Dangling
<1>2. cursor \in CursorRecords => Held
  BY DEF Held, CursorRecords
<1>3. QED
  BY <1>1, <1>2 DEF CursorTypeOK

\* The index a whole cursor walks.
LEMMA WalkedIsAnIndex ==
  ASSUME Inv, CursorTypeOK, Held
  PROVE  /\ cursor.index \in 1 .. Len(indices)
         /\ indices[cursor.index] \in IndexRecords
         /\ Walked \in Seq(EntriesOf(Refs))
<1>1. cursor.index \in DOMAIN indices /\ indices \in Seq(IndexRecords)
  BY HeldIsWhole DEF CursorRecords, Inv, TypeOK
<1>2. cursor.index \in 1 .. Len(indices) /\ indices[cursor.index] \in IndexRecords
  BY <1>1
<1>3. indices[cursor.index].entries \in Seq(EntriesOf(Refs))
  BY <1>2 DEF IndexRecords
<1>4. QED
  BY <1>2, <1>3 DEF Walked

\* What ++iter can come to lies in the index.
LEMMA AheadInBounds ==
  ASSUME Inv, CursorTypeOK, Held
  PROVE  Ahead \subseteq 1 .. Len(Walked)
<1> DEFINE I == {p \in 1 .. Len(Walked) : Walked[p].ref = cursor.at}
           here == IF I # {} THEN Min(I) ELSE 0
<1>1. Len(Walked) \in Nat /\ I \subseteq Nat
  BY WalkedIsAnIndex
<1>2. Ahead = {p \in here + 1 .. Len(Walked) :
                 \/ Walked[p].ref = cursor.last
                 \/ cursor.test => Satisfies(doc[Walked[p].ref], cursor.query)}
  BY DEF Ahead, SelectInSeq
<1> HIDE DEF I
<1>3. here \in Nat
  BY <1>1, MinIsAnElement
<1> HIDE DEF here
<1>4. QED
  BY <1>1, <1>2, <1>3

\* n_results stops at its bound.
LEMMA CountedInBounds ==
  ASSUME NEW n \in 0 .. MaxDelivered
  PROVE  Min({n + 1, MaxDelivered}) \in 0 .. MaxDelivered
<1>1. MaxDelivered \in Nat
  BY CursorAssumption
<1> DEFINE T == {n + 1, MaxDelivered}
<1>2. T \subseteq Nat /\ T # {} /\ MaxDelivered \in T
  BY <1>1
<1> HIDE DEF T
<1>3. Min(T) \in Nat /\ Min(T) <= MaxDelivered
  BY <1>2, MinIsLeast
<1>4. QED
  BY <1>1, <1>3 DEF T

(***************************************************************************)
(* The invariant of the types: next to CursorTypeOK it says that an        *)
(* iterator at the end of the index has met range.second there.            *)
(***************************************************************************)
EndIsLast == Held /\ cursor.at = AtEnd => cursor.last = AtEnd

\* Cursor c walks what the cursor held now walks, from where it is.
StaysAt(c) ==
  /\ Held
  /\ c.at = cursor.at /\ c.last = cursor.last
  /\ c.query = cursor.query /\ c.test = cursor.test

\* What another call leaves of the cursor is a cursor.
LEMMA OutlivedIsTyped ==
  ASSUME CursorTypeOK, NEW freed
  PROVE  \/ Outlived(freed) \in {NoCursor, Dangling}
         \/ /\ Outlived(freed) \in CursorRecords
            /\ StaysAt(Outlived(freed))
            /\ Outlived(freed).index = cursor.index
<1>1. CASE ~Held
  BY <1>1, HeldIsWhole DEF Outlived
<1>2. CASE Held
  <2>1. cursor \in CursorRecords
    BY <1>2, HeldIsWhole
  <2>2. QED
    BY <1>2, <2>1 DEF Outlived, CursorRecords, StaysAt
<1>3. QED
  BY <1>1, <1>2

\* A cursor that is still in bounds is whole.
LEMMA RecordIsTyped ==
  ASSUME NEW c \in CursorRecords, NEW i \in DOMAIN indices', cursor' = [c EXCEPT !.index = i]
  PROVE  cursor' \in CursorRecords' /\ cursor'.at = c.at /\ cursor'.last = c.last
BY DEF CursorRecords

\* Nor does the end of its history make it anything else.
LEMMA FollowsIsTyped ==
  ASSUME CursorTypeOK, EndIsLast, DOMAIN indices \subseteq DOMAIN indices', NEW freed, NEW harm,
         Follows(freed, harm)
  PROVE  CursorTypeOK' /\ EndIsLast'
<1> PICK left : left = Outlived(freed)
  OBVIOUS
<1>1. \/ left \in {NoCursor, Dangling}
      \/ left \in CursorRecords /\ StaysAt(left)
  BY OutlivedIsTyped
<1>2. cursor' = IF left.open /\ ~left.dangling /\ abused' # {}
                THEN [left EXCEPT !.seen = {}, !.owed = {}] ELSE left
  BY DEF Follows
<1>3. CASE left \in {NoCursor, Dangling}
  BY <1>2, <1>3 DEF NoCursor, Dangling, Follows, CursorTypeOK, EndIsLast, Held
<1>4. CASE left \in CursorRecords /\ StaysAt(left)
  <2>1. cursor' \in CursorRecords' /\ cursor'.at = cursor.at /\ cursor'.last = cursor.last
    BY <1>2, <1>4 DEF CursorRecords, StaysAt
  <2>2. QED
    BY <1>4, <2>1 DEF Follows, CursorTypeOK, EndIsLast, StaysAt
<1>5. QED
  BY <1>1, <1>3, <1>4

\* The plans of an index are stretches of it; only $eq leaves its test to be run.
LEMMA IndexPlansInBounds ==
  ASSUME NEW es, Len(es) \in Nat, NEW q, UsesIndex(q), NEW pl \in IndexPlans(es, q)
  PROVE  /\ pl.entries = es
         /\ pl.lo \in 0 .. Len(es) /\ pl.hi \in 0 .. Len(es)
         /\ pl.test \in BOOLEAN /\ (pl.test <=> q.op = "eq")
         /\ q.op = "gt" => pl.hi = Len(es)
<1>1. CASE q.op = "eq"
  <2>1. PICK c \in EqualRanges(es, q.v) : pl = Plan(es, c[1], c[2], TRUE)
    BY <1>1 DEF IndexPlans
  <2>2. c[1] \in 0 .. Len(es) /\ c[2] \in 0 .. Len(es)
    BY <2>1 DEF EqualRanges, LowerBounds, UpperBounds
  <2>3. QED
    BY <1>1, <2>1, <2>2 DEF Plan
<1>2. CASE q.op = "gt"
  <2>0. IndexPlans(es, q) = {Plan(es, lo, Len(es), FALSE) : lo \in UpperBounds(es, q.v)}
    BY <1>2 DEF IndexPlans
  <2>1. PICK lo \in UpperBounds(es, q.v) : pl = Plan(es, lo, Len(es), FALSE)
    BY <2>0
  <2>2. lo \in 0 .. Len(es)
    BY <2>1 DEF UpperBounds
  <2>3. QED
    BY <1>2, <2>1, <2>2 DEF Plan
<1>3. CASE q.op = "lt"
  <2>0. IndexPlans(es, q) = {Plan(es, 0, hi, FALSE) : hi \in LowerBounds(es, q.v)}
    BY <1>3 DEF IndexPlans
  <2>1. PICK hi \in LowerBounds(es, q.v) : pl = Plan(es, 0, hi, FALSE)
    BY <2>0
  <2>2. hi \in 0 .. Len(es)
    BY <2>1 DEF LowerBounds
  <2>3. QED
    BY <1>3, <2>1, <2>2 DEF Plan
<1>4. CASE q.op = "range"
  <2>1. IndexPlans(es, q) =
          {Plan(es, c[1], c[2], FALSE) : c \in LowerBounds(es, q.v) \X UpperBounds(es, q.hi)}
    BY <1>4 DEF IndexPlans
  <2>2. PICK c \in LowerBounds(es, q.v) \X UpperBounds(es, q.hi) :
          pl = Plan(es, c[1], c[2], FALSE)
    BY <2>1
  <2>3. c[1] \in 0 .. Len(es) /\ c[2] \in 0 .. Len(es)
    BY <2>2 DEF LowerBounds, UpperBounds
  <2>4. QED
    BY <1>4, <2>2, <2>3 DEF Plan
<1>5. QED
  BY <1>1, <1>2, <1>3, <1>4 DEF UsesIndex

\* A plan that has an end is a stretch of the index it walks.
LEMMA PlansInBounds ==
  ASSUME Inv, NEW q \in Queries, NEW pl \in Plans(q), ~GoesWild(doc, pl, q),
         NEW k, k = WalkedIndex(q), NEW es, es = indices[k].entries
  PROVE  /\ k \in 1 .. Len(indices)
         /\ es \in Seq(EntriesOf(Refs))
         /\ pl.entries = es
         /\ pl.lo \in 0 .. Len(es) /\ pl.hi \in 0 .. Len(es)
         /\ pl.test \in BOOLEAN
         /\ ~pl.test => indices[k].field = q.field /\ (q.op = "gt" => pl.hi = Len(es))
<1>1. indices \in Seq(IndexRecords)
  BY DEF Inv, TypeOK
<1>2. Plans(q) = IF Malformed(q) THEN {}
                 ELSE IF UsesIndex(q) /\ FirstIndexOn(q.field) # 0
                      THEN IndexPlans(indices[FirstIndexOn(q.field)].entries, q)
                      ELSE {ScanPlan(indices)}
  BY DEF Plans, PlansIn, FirstIndexOn
<1>3. CASE UsesIndex(q) /\ FirstIndexOn(q.field) # 0
  <2>1. k = FirstIndexOn(q.field)
    BY <1>3 DEF WalkedIndex
  <2>2. k \in 1 .. Len(indices) /\ indices[k].field = q.field
    BY <1>1, <1>3, <2>1, FirstIndexHasField
  <2>3. indices[k] \in IndexRecords
    BY <1>1, <2>2
  <2>4. es \in Seq(EntriesOf(Refs))
    BY <2>3 DEF IndexRecords
  <2>5. pl \in IndexPlans(es, q)
    BY <1>2, <1>3, <2>1
  <2>6. Len(es) \in Nat /\ UsesIndex(q)
    BY <1>3, <2>4
  <2>7. /\ pl.entries = es
        /\ pl.lo \in 0 .. Len(es) /\ pl.hi \in 0 .. Len(es)
        /\ pl.test \in BOOLEAN /\ (pl.test <=> q.op = "eq")
        /\ q.op = "gt" => pl.hi = Len(es)
    BY <2>5, <2>6, IndexPlansInBounds
  <2>8. QED
    BY <2>2, <2>4, <2>7
<1>4. CASE ~(UsesIndex(q) /\ FirstIndexOn(q.field) # 0)
  <2>1. k = 1 /\ pl = ScanPlan(indices)
    BY <1>2, <1>4 DEF WalkedIndex
  <2>2. indices # <<>>
    <3>1. SUFFICES ASSUME indices = <<>>
                   PROVE  FALSE
      OBVIOUS
    <3>2. pl = Plan(<<>>, 1, 0, TRUE)
      BY <2>1, <3>1 DEF ScanPlan
    <3>3. Stray(pl) /\ Walk(pl) = {}
      BY <3>2 DEF Plan, Stray, Walk
    <3>4. StopAt(doc, pl, q) = 0
      BY <3>3 DEF StopAt
    <3>5. QED
      BY <3>3, <3>4 DEF GoesWild
  <2>3. k \in 1 .. Len(indices) /\ indices[k] \in IndexRecords
    BY <1>1, <2>1, <2>2, EmptySeq
  <2>4. es \in Seq(EntriesOf(Refs))
    BY <2>3 DEF IndexRecords
  <2>5. pl = Plan(es, 0, Len(es), TRUE)
    BY <2>1, <2>2 DEF ScanPlan
  <2>6. QED
    BY <2>3, <2>4, <2>5 DEF Plan
<1>5. QED
  BY <1>3, <1>4

\* The first stop of a walk is one of its entries, and no entry before it is a stop.
LEMMA StopIsFirst ==
  ASSUME NEW docs, NEW pl, NEW q, NEW n \in Nat, pl.lo \in 0 .. n, pl.hi \in 0 .. n,
         Len(pl.entries) = n
  PROVE  /\ StopAt(docs, pl, q) \in 0 .. n
         /\ StopAt(docs, pl, q) # 0 => Hit(docs, pl, q, StopAt(docs, pl, q))
                                        \/ ~Live(docs, pl, StopAt(docs, pl, q))
         /\ StopAt(docs, pl, q) # 0 => StopAt(docs, pl, q) \in Walk(pl)
         /\ \A p \in Walk(pl) : Hit(docs, pl, q, p) =>
              StopAt(docs, pl, q) # 0 /\ StopAt(docs, pl, q) <= p
<1> DEFINE stops == {p \in Walk(pl) : Hit(docs, pl, q, p) \/ ~Live(docs, pl, p)}
<1> PICK stop : stop = StopAt(docs, pl, q)
  OBVIOUS
<1>1. stop = IF stops = {} THEN 0 ELSE Min(stops)
  BY DEF StopAt
<1>2. Walk(pl) \subseteq 1 .. n
  BY DEF Walk
<1>3. stops \subseteq Nat /\ stops \subseteq Walk(pl)
  BY <1>2
<1>4. \A p \in Walk(pl) : Hit(docs, pl, q, p) => p \in stops
  OBVIOUS
<1>5. \A p \in stops : Hit(docs, pl, q, p) \/ ~Live(docs, pl, p)
  OBVIOUS
<1> HIDE DEF stops
<1>6. CASE stops = {}
  BY <1>1, <1>4, <1>6
<1>7. CASE stops # {}
  <2>1. stop \in stops /\ \A p \in stops : stop <= p
    BY <1>1, <1>3, <1>7, MinIsLeast
  <2>2. stop \in 1 .. n
    BY <1>2, <1>3, <2>1
  <2>3. QED
    BY <1>3, <1>4, <1>5, <2>1, <2>2
<1>8. QED
  BY <1>6, <1>7

\* A cursor that is opened is a whole one.
LEMMA FindIsTyped ==
  ASSUME Inv, CursorTypeOK, NEW q \in Queries, Find(q)
  PROVE  CursorTypeOK' /\ EndIsLast'
<1>1. PICK pl \in Plans(q) :
        ~GoesWild(doc, pl, q)
        /\ Opens(q, pl, IF StopAt(doc, pl, q) = 0 THEN pl.hi + 1 ELSE StopAt(doc, pl, q))
  BY DEF Find
<1> PICK k, es, stop : k = WalkedIndex(q) /\ es = indices[k].entries /\ stop = StopAt(doc, pl, q)
  OBVIOUS
<1> PICK p : p = IF stop = 0 THEN pl.hi + 1 ELSE stop
  OBVIOUS
<1>2. /\ k \in DOMAIN indices
      /\ es \in Seq(EntriesOf(Refs))
      /\ pl.entries = es
      /\ pl.lo \in 0 .. Len(es) /\ pl.hi \in 0 .. Len(es)
      /\ pl.test \in BOOLEAN
  BY <1>1, PlansInBounds DEF Inv, TypeOK
<1>3. /\ cursor' = OpenAt(pl, q, p)
      /\ abused' = abused \cup {x \in {"cursor"} : Stray(pl)}
      /\ UNCHANGED vars
  BY <1>1 DEF Opens
<1>4. \A x : IteratorTo(es, x) \in Refs \cup {AtEnd}
  BY <1>2, IteratorIsTyped
<1>5. Matching(q) \subseteq Refs
  BY DEF Matching, Inv, TypeOK, IsStore
<1>6. 0 \in 0 .. MaxDelivered
  BY CursorAssumption
<1>7. OpenAt(pl, q, p) \in CursorRecords
  BY <1>2, <1>4, <1>5, <1>6 DEF OpenAt, CursorRecords
<1>8. CursorTypeOK'
  BY <1>3, <1>7 DEF CursorTypeOK, CursorRecords, vars
<1>9. cursor'.at = IteratorTo(es, p) /\ cursor'.last = IteratorTo(es, pl.hi + 1)
  BY <1>2, <1>3 DEF OpenAt
<1>10. stop # 0 => IteratorTo(es, stop) # AtEnd
  <2>1. stop \in 0 .. Len(es)
    BY <1>2, StopIsFirst
  <2>2. SUFFICES ASSUME stop # 0
                 PROVE  IteratorTo(es, stop) # AtEnd
    OBVIOUS
  <2>3. stop \in 1 .. Len(es)
    BY <1>2, <2>1, <2>2
  <2>4. IteratorTo(es, stop) = es[stop].ref /\ es[stop] \in EntriesOf(Refs)
    BY <1>2, <2>3 DEF IteratorTo
  <2>5. QED
    BY <2>4, CursorAssumption DEF EntriesOf
<1>11. QED
  BY <1>8, <1>9, <1>10 DEF EndIsLast

\* A cursor that moves on to another entry stays one.
LEMMA DeliverIsTyped ==
  ASSUME Inv, CursorTypeOK, EndIsLast, Deliver
  PROVE  CursorTypeOK' /\ EndIsLast'
<1>1. Held /\ HasNext /\ ~RunsOff /\ UNCHANGED <<vars, abused>>
  BY DEF Deliver, Next_dom
<1>2. cursor \in CursorRecords
  BY <1>1, HeldIsWhole
<1>3. cursor.at \in Refs
  BY <1>1, <1>2 DEF HasNext, EndIsLast, CursorRecords
<1> PICK next : next = IF Ahead = {} THEN AtEnd ELSE Walked[Min(Ahead)].ref
  OBVIOUS
<1>4. next \in Refs \cup {AtEnd} /\ (next = AtEnd => cursor.last = AtEnd)
  <2>1. CASE Ahead = {}
    BY <1>1, <2>1 DEF RunsOff
  <2>2. CASE Ahead # {}
    <3>1. Walked \in Seq(EntriesOf(Refs)) /\ Ahead \subseteq 1 .. Len(Walked)
      BY <1>1, WalkedIsAnIndex, AheadInBounds
    <3>2. Ahead \subseteq Nat
      BY <3>1
    <3>3. Min(Ahead) \in 1 .. Len(Walked)
      BY <2>2, <3>1, <3>2, MinIsAnElement
    <3>4. Walked[Min(Ahead)] \in EntriesOf(Refs)
      BY <3>1, <3>3
    <3>5. next \in Refs
      BY <2>2, <3>4 DEF EntriesOf
    <3>6. QED
      BY <3>5, CursorAssumption
  <2>3. QED
    BY <2>1, <2>2
<1>5. Counted \in 0 .. MaxDelivered
  BY <1>2, CountedInBounds DEF Counted, CursorRecords
<1>6. Given \subseteq Refs
  BY <1>3 DEF Given
<1>7. cursor' = [cursor EXCEPT !.delivered = Counted, !.seen = @ \cup Given,
                               !.owed = @ \ {cursor.at}, !.at = next]
  BY DEF Deliver
<1>8. cursor' \in CursorRecords /\ cursor'.at = next /\ cursor'.last = cursor.last
  BY <1>2, <1>4, <1>5, <1>6, <1>7 DEF CursorRecords
<1>9. CursorRecords' = CursorRecords /\ abused' = abused
  BY <1>1 DEF vars, CursorRecords
<1>10. QED
  BY <1>4, <1>8, <1>9 DEF CursorTypeOK, EndIsLast

\* No call between these takes an index away or turns one to another field.
LEMMA IndicesKeepFields ==
  ASSUME Inv, \/ \E d \in Inputs : PushDocument(d)
              \/ \E q \in Queries, patch \in Patches : UpdateDocument(q, patch)
              \/ \E q \in Queries : UpdateThrows(q)
              \/ DropOne
              \/ Clear
              \/ IndexNode
  PROVE  /\ DOMAIN indices' = DOMAIN indices
         /\ \A i \in DOMAIN indices : indices'[i].field = indices[i].field
<1>0. /\ indices \in Seq(IndexRecords) /\ IsStore(doc)
      /\ Len(indices) \in Nat /\ DOMAIN indices = 1 .. Len(indices)
      /\ \A i \in 1 .. Len(indices) : indices[i] \in IndexRecords
  BY DEF Inv, TypeOK
<1>1. ASSUME NEW r \in Refs, NEW d, IsDocument(d), NEW ixs \in Seq(IndexRecords),
             NEW new \in InsertIndexEntries(ixs, r, d)
      PROVE  /\ new \in Seq(IndexRecords) /\ DOMAIN new = DOMAIN ixs
             /\ \A i \in DOMAIN ixs : new[i].field = ixs[i].field
  BY <1>1, InsertIndexEntriesType, WithEntryType
<1>2. ASSUME NEW r \in Refs, NEW d, NEW new \in RemoveIndexEntries(indices, r, d)
      PROVE  /\ new \in Seq(IndexRecords) /\ DOMAIN new = DOMAIN indices
             /\ \A i \in DOMAIN indices : new[i].field = indices[i].field
  BY <1>0, <1>2, RemoveIndexEntriesType, WithoutEntryType
<1>3. ASSUME NEW d \in Inputs, PushDocument(d)
      PROVE  /\ DOMAIN indices' = DOMAIN indices
             /\ \A i \in DOMAIN indices : indices'[i].field = indices[i].field
  <2>1. CASE UNCHANGED data
    BY <2>1 DEF data
  <2>2. CASE ~ UNCHANGED data
    <3>1. Accepted(d)
      BY <1>3, <2>2 DEF PushDocument
    <3>2. PICK r \in Refs : indices' \in InsertIndexEntries(indices, r, Numbered(d, id))
      BY <1>3, <3>1 DEF PushDocument
    <3>3. IsDocument(Numbered(d, id))
      BY <3>1, NumberedIsDocument DEF Inv, TypeOK
    <3>4. QED
      BY <1>0, <1>1, <3>2, <3>3
  <2>3. QED
    BY <2>1, <2>2
<1>4. ASSUME NEW q \in Queries, NEW patch \in Patches, UpdateDocument(q, patch)
      PROVE  /\ DOMAIN indices' = DOMAIN indices
             /\ \A i \in DOMAIN indices : indices'[i].field = indices[i].field
  <2>1. PICK r \in FirstMatches(q) : \E cleared \in RemoveIndexEntries(indices, r, doc[r]) :
               indices' \in InsertIndexEntries(cleared, r, Merged(doc[r], patch))
    BY <1>4 DEF UpdateDocument
  <2>2. PICK cleared \in RemoveIndexEntries(indices, r, doc[r]) :
               indices' \in InsertIndexEntries(cleared, r, Merged(doc[r], patch))
    BY <2>1
  <2>3. r \in Refs /\ IsDocument(Merged(doc[r], patch))
    BY <1>0, <1>4, MatchesAreLive, MergedIsDocument DEF IsStore, UpdateDocument
  <2>4. /\ cleared \in Seq(IndexRecords) /\ DOMAIN cleared = DOMAIN indices
        /\ \A i \in DOMAIN indices : cleared[i].field = indices[i].field
    BY <1>2, <2>3
  <2>5. /\ DOMAIN indices' = DOMAIN cleared
        /\ \A i \in DOMAIN cleared : indices'[i].field = cleared[i].field
    BY <1>1, <2>2, <2>3, <2>4
  <2>6. QED
    BY <2>4, <2>5
<1>5. ASSUME NEW q, NEW r \in FirstMatches(q), indices' \in RemoveIndexEntries(indices, r, doc[r])
      PROVE  /\ DOMAIN indices' = DOMAIN indices
             /\ \A i \in DOMAIN indices : indices'[i].field = indices[i].field
  <2>1. r \in Refs
    BY <1>0, MatchesAreLive DEF IsStore
  <2>2. QED
    BY <1>2, <1>5, <2>1
<1>6. CASE Clear
  BY <1>0, <1>6 DEF Clear, IndexRecords
<1>7. CASE IndexNode
  <2> DEFINE last == Len(indices)
             r == nodes[call.at]
  <2>1. PICK ix \in WithEntry(indices[last], r, doc[r]) : indices' = [indices EXCEPT ![last] = ix]
    BY <1>7 DEF IndexNode
  <2>2. call.at \in 1 .. Len(nodes)
    BY <1>7, CallShapes DEF IndexNode, Inv, TypeOK
  <2>3. r \in Refs /\ IsDocument(doc[r])
    BY <1>0, <2>2 DEF Inv, TypeOK, NodesAreDocuments, NodeSet, IsStore
  <2>4. last \in DOMAIN indices => ix.field = indices[last].field
    BY <1>0, <2>1, <2>3, WithEntryType
  <2> HIDE DEF last
  <2>5. QED
    BY <2>1, <2>4
<1>8. QED
  BY <1>3, <1>4, <1>5, <1>6, <1>7 DEF UpdateThrows, DropOne

\* The index a cursor walks is destroyed, or moves one place to the front.
LEMMA DropsIndexIsTyped ==
  ASSUME Inv, CursorTypeOK, EndIsLast, DropsIndexUnder
  PROVE  CursorTypeOK' /\ EndIsLast'
<1>1. PICK f \in IndexFields :
        /\ DropIndex(f)
        /\ cursor' = IF ~Held \/ FirstIndexOn(f) > cursor.index THEN cursor
                     ELSE IF FirstIndexOn(f) = cursor.index THEN Dangling
                     ELSE LET left == Outlived({AtEnd})
                          IN  IF left.dangling THEN left ELSE [left EXCEPT !.index = @ - 1]
        /\ abused' = abused \cup {x \in {"cursor"} : cursor.open}
                            \cup {x \in {"collection"} : f = Id}
  BY DEF DropsIndexUnder
<1> PICK dropped, left : dropped = FirstIndexOn(f) /\ left = Outlived({AtEnd})
  OBVIOUS
<1>2. indices \in Seq(IndexRecords) /\ dropped \in 1 .. Len(indices)
  BY <1>1, FirstIndexHasField DEF DropIndex, Inv, TypeOK
<1>3. DOMAIN indices' = 1 .. Len(indices) - 1
  <2>1. indices' = RemoveAt(indices, dropped)
    BY <1>1 DEF DropIndex
  <2>2. RemoveAt(indices, dropped) \in Seq(IndexRecords)
        /\ Len(RemoveAt(indices, dropped)) = Len(indices) - 1
    BY <1>2, RemoveAtElements
  <2>3. QED
    BY <2>1, <2>2
<1>4. abused' \subseteq {"cursor", "collection"}
  BY <1>1 DEF CursorTypeOK
<1>4a. ASSUME cursor' = Dangling
       PROVE  CursorTypeOK' /\ EndIsLast'
  <2>1. ~Held'
    BY <1>4a DEF Held, Dangling
  <2>2. QED
    BY <1>4, <1>4a, <2>1 DEF CursorTypeOK, EndIsLast
<1>5. CASE ~Held
  BY <1>1, <1>4, <1>5, HeldIsWhole DEF CursorTypeOK, EndIsLast, Held
<1>6. CASE Held
  <2>1. cursor \in CursorRecords /\ cursor.index \in 1 .. Len(indices) /\ Len(indices) \in Nat
    BY <1>2, <1>6, HeldIsWhole, WalkedIsAnIndex
  <2>2. CASE dropped > cursor.index
    <3>1. cursor' = cursor /\ cursor.index \in DOMAIN indices'
      BY <1>1, <1>2, <1>3, <2>1, <2>2
    <3>2. cursor' \in CursorRecords'
      BY <2>1, <3>1 DEF CursorRecords
    <3>3. QED
      BY <1>4, <3>1, <3>2 DEF CursorTypeOK, EndIsLast, Held
  <2>3. CASE dropped = cursor.index
    BY <1>1, <1>2, <1>4a, <1>6, <2>3
  <2>4. CASE dropped < cursor.index
    <3>1. cursor.index - 1 \in DOMAIN indices'
      BY <1>2, <1>3, <2>1, <2>4
    <3>2. cursor' = IF left.dangling THEN left ELSE [left EXCEPT !.index = left.index - 1]
      BY <1>1, <1>2, <1>6, <2>1, <2>4
    <3>3. \/ left \in {NoCursor, Dangling}
          \/ left \in CursorRecords /\ StaysAt(left) /\ left.index = cursor.index
      BY OutlivedIsTyped
    <3>4. left # NoCursor
      BY <1>6, <2>1 DEF Outlived, Dangling, NoCursor, CursorRecords
    <3>5. CASE left = Dangling
      BY <1>4a, <3>2, <3>5 DEF Dangling
    <3>6. CASE left \in CursorRecords /\ StaysAt(left) /\ left.index = cursor.index
      <4>1. left.dangling = FALSE
        BY <3>6 DEF CursorRecords
      <4>2. cursor' = [left EXCEPT !.index = cursor.index - 1]
        BY <3>2, <3>6, <4>1
      <4>3. cursor' \in CursorRecords' /\ cursor'.at = left.at /\ cursor'.last = left.last
        BY <3>1, <3>6, <4>2, RecordIsTyped
      <4>4. QED
        BY <1>4, <3>6, <4>3 DEF CursorTypeOK, EndIsLast, StaysAt
    <3>7. QED
      BY <3>3, <3>4, <3>5, <3>6
  <2>5. QED
    BY <1>2, <2>1, <2>2, <2>3, <2>4
<1>7. QED
  BY <1>5, <1>6

\* Every step leaves a cursor on an index there is.
LEMMA CursorStepKeepsType ==
  ASSUME Inv, CursorTypeOK, EndIsLast, [CursorNext]_cursorVars
  PROVE  CursorTypeOK' /\ EndIsLast'
<1>1. ASSUME UNCHANGED <<cursor, abused>>, DOMAIN indices' = DOMAIN indices
      PROVE  CursorTypeOK' /\ EndIsLast'
  BY <1>1 DEF CursorTypeOK, CursorRecords, EndIsLast, Held
<1>2. ASSUME cursor' = NoCursor, abused' \subseteq abused
      PROVE  CursorTypeOK' /\ EndIsLast'
  BY <1>2 DEF CursorTypeOK, EndIsLast, Held, NoCursor
<1>3. CASE UNCHANGED cursorVars
  BY <1>1, <1>3 DEF cursorVars, vars
<1>4. CASE CursorCalls
  <2>1. ASSUME NEW limit \in CursorLimits, SetLimit(limit)
        PROVE  CursorTypeOK' /\ EndIsLast'
    <3>1. cursor \in CursorRecords /\ cursor' = [cursor EXCEPT !.limit = limit]
          /\ UNCHANGED <<vars, abused>>
      BY <2>1, HeldIsWhole DEF SetLimit
    <3>2. cursor' \in CursorRecords /\ CursorRecords' = CursorRecords
          /\ cursor'.at = cursor.at /\ cursor'.last = cursor.last
      BY <3>1 DEF CursorRecords, vars
    <3>3. QED
      BY <2>1, <3>1, <3>2 DEF SetLimit, CursorTypeOK, EndIsLast
  <2>2. QED
    BY <1>2, <1>4, <2>1, FindIsTyped, DeliverIsTyped
       DEF CursorCalls, FindGoesWild, CursorGoesWild, CountGoesWild, Close, Forgotten
<1>5. CASE AppendsUnder
  <2>1. \E d \in Inputs : PushDocument(d)
    <3>1. CASE \E d \in Inputs : AppendDocument(d)
      BY <3>1 DEF AppendDocument
    <3>2. CASE UpsertAppends
      BY <3>2, CallShapes DEF UpsertAppends, Inv, TypeOK
    <3>3. QED
      BY <1>5, <3>1, <3>2 DEF AppendsUnder
  <2>2. QED
    BY <1>5, <2>1, IndicesKeepFields, FollowsIsTyped DEF AppendsUnder
<1>6. CASE UpdatesUnder
  BY <1>6, IndicesKeepFields, FollowsIsTyped DEF UpdatesUnder
<1>7. CASE ThrowsUnder
  <2>1. PICK r : cursor' = Outlived({r})
    BY <1>7 DEF ThrowsUnder
  <2>2. DOMAIN indices' = DOMAIN indices
    BY <1>7, IndicesKeepFields DEF ThrowsUnder
  <2>3. CursorRecords' = CursorRecords
    BY <2>2 DEF CursorRecords
  <2>4. \/ cursor' \in {NoCursor, Dangling}
        \/ cursor' \in CursorRecords /\ StaysAt(cursor')
    BY <2>1, OutlivedIsTyped
  <2>5. abused' \subseteq {"cursor", "collection"}
    BY <1>7 DEF ThrowsUnder, CursorTypeOK
  <2>6. QED
    BY <2>3, <2>4, <2>5 DEF CursorTypeOK, EndIsLast, StaysAt, Held, NoCursor, Dangling
<1>8. CASE DropsUnder
  <2>1. PICK freed, harm : DropOne /\ Follows(freed, harm)
    BY <1>8 DEF DropsUnder
  <2>2. QED
    BY <2>1, IndicesKeepFields, FollowsIsTyped
<1>9. CASE ClearsUnder
  <2>1. PICK freed, harm : Clear /\ Follows(freed, harm)
    BY <1>9 DEF ClearsUnder
  <2>2. QED
    BY <2>1, IndicesKeepFields, FollowsIsTyped
<1>10. CASE CreatesIndexUnder
  <2>1. PICK freed : (\E f \in IndexFields : CreateIndex(f)) /\ Follows(freed, TRUE)
    BY <1>10 DEF CreatesIndexUnder
  <2>2. indices \in Seq(IndexRecords)
    BY DEF Inv, TypeOK
  <2>3. DOMAIN indices \subseteq DOMAIN indices'
    BY <2>1, <2>2 DEF CreateIndex
  <2>4. QED
    BY <2>1, <2>3, FollowsIsTyped
<1>11. CASE DropsIndexUnder
  BY <1>11, DropsIndexIsTyped
<1>12. CASE CallsBeside
  <2>1. CASE IndexNode
    BY <1>1, <1>12, <2>1, IndicesKeepFields DEF CallsBeside
  <2>2. CASE ~IndexNode
    <3>1. indices' = indices
      BY <1>12, <2>2 DEF CallsBeside, UpdateGoesWild, Drop, Upsert, StartDrop, DropReturns,
         DropThrows, DropGoesWild, CreateIndexReturns, EnableJournal, DisableJournal, data
    <3>2. QED
      BY <1>1, <1>12, <3>1 DEF CallsBeside
  <2>3. QED
    BY <2>1, <2>2
<1>13. QED
  BY <1>3, <1>4, <1>5, <1>6, <1>7, <1>8, <1>9, <1>10, <1>11, <1>12 DEF CursorNext

\* The collection beside a cursor keeps its own invariant, and the cursor its type.
LEMMA CursorTypesHold == CursorSpec => [](Inv /\ CursorTypeOK /\ EndIsLast)
<1>1. CursorInit => Inv /\ CursorTypeOK /\ EndIsLast
  BY InitInv DEF CursorInit, CursorTypeOK, EndIsLast, Held, NoCursor
<1>2. Inv /\ CursorTypeOK /\ EndIsLast /\ [CursorNext]_cursorVars
        => (Inv /\ CursorTypeOK /\ EndIsLast)'
  BY CursorStepKeepsInv, CursorStepKeepsType
<1>3. QED
  BY <1>1, <1>2, PTL DEF CursorSpec

(***************************************************************************)
(* Whatever a client calls while it holds a cursor, in any order: a cursor *)
(* that does not dangle walks an index of the vector, also after dropIndex *)
(* has moved the indices behind the dropped one to the front.              *)
(***************************************************************************)
THEOREM CursorTypeCorrect == CursorSpec => []CursorTypeOK
<1>1. Inv /\ CursorTypeOK /\ EndIsLast => CursorTypeOK
  OBVIOUS
<1>2. QED
  BY <1>1, CursorTypesHold, PTL
-----------------------------------------------------------------------------
(***************************************************************************)
(* The walk.  Cursor c is at entry a of es and ends at entry l: what it    *)
(* has delivered lies before a, what it still owes from a on and before l, *)
(* and when its query is not tested any more all entries up to l match.    *)
(***************************************************************************)
WalksFrom(es, docs, c, a, l) ==
  /\ a \in 1 .. Len(es) + 1
  /\ l \in a .. Len(es) + 1
  /\ c.at = IteratorTo(es, a)
  /\ c.last = IteratorTo(es, l)
  /\ \A r \in c.seen : \E p \in 1 .. a - 1 : es[p].ref = r
  /\ \A r \in c.owed : Satisfies(docs[r], c.query) /\ \E p \in a .. l - 1 : es[p].ref = r
  /\ \A p \in a .. l - 1 : p = a \/ ~c.test => Satisfies(docs[es[p].ref], c.query)
  /\ ~c.test /\ c.query.op = "gt" => l = Len(es) + 1

\* Cursor d is c after another call, which has left the documents docs.
Narrows(d, c, docs) ==
  /\ d.at = c.at /\ d.last = c.last
  /\ d.query = c.query /\ d.test = c.test
  /\ d.seen \subseteq c.seen \cap DOMAIN docs
  /\ d.owed \subseteq c.owed
  /\ \A r \in d.owed : Satisfies(docs[r], d.query)

\* A call that touches no entry of the index, and only documents behind the cursor.
LEMMA WalkIsKept ==
  ASSUME NEW es, Len(es) \in Nat, Distinct(es), DOMAIN es = 1 .. Len(es),
         NEW docs, \A p \in 1 .. Len(es) : es[p].ref \in DOMAIN docs,
         NEW c, NEW a, NEW l, WalksFrom(es, docs, c, a, l),
         NEW d, NEW left, Narrows(d, c, left),
         \A x \in DOMAIN docs \ c.seen : left[x] = docs[x]
  PROVE  WalksFrom(es, left, d, a, l)
<1>1. \A p \in a .. l - 1 : left[es[p].ref] = docs[es[p].ref]
  <2> SUFFICES ASSUME NEW p \in a .. l - 1
               PROVE  left[es[p].ref] = docs[es[p].ref]
    OBVIOUS
  <2>1. p \in 1 .. Len(es)
    BY DEF WalksFrom
  <2>2. es[p].ref \notin c.seen
    <3>1. \A o \in 1 .. a - 1 : o \in 1 .. Len(es) /\ o # p
      BY DEF WalksFrom
    <3>2. \A o \in 1 .. a - 1 : es[o].ref # es[p].ref
      BY <2>1, <3>1 DEF Distinct
    <3>3. QED
      BY <3>2 DEF WalksFrom
  <2>3. QED
    BY <2>1, <2>2
<1>2. \A r \in d.owed : \E p \in a .. l - 1 : es[p].ref = r
  BY DEF WalksFrom, Narrows
<1>3. \A r \in d.seen : \E p \in 1 .. a - 1 : es[p].ref = r
  BY DEF WalksFrom, Narrows
<1>4. \A p \in a .. l - 1 : p = a \/ ~d.test => Satisfies(left[es[p].ref], d.query)
  BY <1>1 DEF WalksFrom, Narrows
<1>5. QED
  BY <1>2, <1>3, <1>4 DEF WalksFrom, Narrows

\* A position of a sequence after another element has gone in at i.
Shifted(p, i) == IF i <= p THEN p + 1 ELSE p

\* An entry that goes in moves the cursor along with the entry it is at.
LEMMA WalkTakesAnEntry ==
  ASSUME NEW es, Len(es) \in Nat, DOMAIN es = 1 .. Len(es),
         NEW docs, \A p \in 1 .. Len(es) : es[p].ref \in DOMAIN docs,
         NEW c, NEW a, NEW l, WalksFrom(es, docs, c, a, l),
         c.test \/ c.query.op = "gt",
         NEW i \in 1 .. Len(es) + 1, NEW e, NEW new, IsInsertion(new, es, i, e),
         NEW d, NEW left, Narrows(d, c, left),
         \A x \in DOMAIN docs : left[x] = docs[x],
         a < i /\ i <= l /\ ~c.test => Satisfies(left[e.ref], c.query)
  PROVE  WalksFrom(new, left, d, Shifted(a, i), Shifted(l, i))
<1> DEFINE b == Shifted(a, i)
           m == Shifted(l, i)
<1>1. /\ Len(new) = Len(es) + 1 /\ DOMAIN new = 1 .. Len(es) + 1
      /\ \A j \in 1 .. Len(es) + 1 :
           new[j] = IF j < i THEN es[j] ELSE IF j = i THEN e ELSE es[j - 1]
  BY DEF IsInsertion
<1>2. \A p \in 1 .. Len(es) : new[Shifted(p, i)] = es[p] /\ Shifted(p, i) \in 1 .. Len(es) + 1
  BY <1>1 DEF Shifted
<1>3. a \in 1 .. Len(es) + 1 /\ l \in a .. Len(es) + 1
  BY DEF WalksFrom
<1>4. b \in 1 .. Len(new) + 1 /\ m \in b .. Len(new) + 1
  BY <1>1, <1>3 DEF Shifted
<1>5. \A p \in 1 .. Len(es) + 1 : IteratorTo(new, Shifted(p, i)) = IteratorTo(es, p)
  <2> SUFFICES ASSUME NEW p \in 1 .. Len(es) + 1
               PROVE  IteratorTo(new, Shifted(p, i)) = IteratorTo(es, p)
    OBVIOUS
  <2>1. CASE p \in 1 .. Len(es)
    BY <1>1, <1>2, <2>1 DEF IteratorTo
  <2>2. CASE p = Len(es) + 1
    BY <1>1, <2>2 DEF IteratorTo, Shifted
  <2>3. QED
    BY <2>1, <2>2
<1>6. d.at = IteratorTo(new, b) /\ d.last = IteratorTo(new, m)
  BY <1>3, <1>5 DEF WalksFrom, Narrows
<1>7. \A p \in 1 .. a - 1 : Shifted(p, i) \in 1 .. b - 1 /\ new[Shifted(p, i)] = es[p]
  <2>1. \A p \in 1 .. a - 1 : Shifted(p, i) \in 1 .. b - 1 /\ p \in 1 .. Len(es)
    BY <1>3 DEF Shifted
  <2>2. QED
    BY <1>2, <2>1
<1>8. \A p \in a .. l - 1 : Shifted(p, i) \in b .. m - 1 /\ new[Shifted(p, i)] = es[p]
  <2>1. \A p \in a .. l - 1 : Shifted(p, i) \in b .. m - 1 /\ p \in 1 .. Len(es)
    BY <1>3 DEF Shifted
  <2>2. QED
    BY <1>2, <2>1
<1>9. \A r \in d.seen : \E p \in 1 .. b - 1 : new[p].ref = r
  <2> SUFFICES ASSUME NEW r \in d.seen
               PROVE  \E p \in 1 .. b - 1 : new[p].ref = r
    OBVIOUS
  <2>1. PICK p \in 1 .. a - 1 : es[p].ref = r
    BY DEF WalksFrom, Narrows
  <2>2. Shifted(p, i) \in 1 .. b - 1 /\ new[Shifted(p, i)].ref = r
    BY <1>7, <2>1
  <2>3. QED
    BY <2>2
<1>10. \A r \in d.owed : \E p \in b .. m - 1 : new[p].ref = r
  <2> SUFFICES ASSUME NEW r \in d.owed
               PROVE  \E p \in b .. m - 1 : new[p].ref = r
    OBVIOUS
  <2>1. PICK p \in a .. l - 1 : es[p].ref = r
    BY DEF WalksFrom, Narrows
  <2>2. Shifted(p, i) \in b .. m - 1 /\ new[Shifted(p, i)].ref = r
    BY <1>8, <2>1
  <2>3. QED
    BY <2>2
<1>11. \A p \in b .. m - 1 : p = b \/ ~d.test => Satisfies(left[new[p].ref], d.query)
  <2> SUFFICES ASSUME NEW p \in b .. m - 1, p = b \/ ~c.test
               PROVE  Satisfies(left[new[p].ref], c.query)
    BY DEF Narrows
  <2>1. CASE p = i
    <3>1. a < i /\ i <= l /\ ~c.test /\ p \in 1 .. Len(es) + 1
      BY <1>3, <1>4, <2>1 DEF Shifted
    <3>2. new[p] = e
      BY <1>1, <2>1, <3>1
    <3>3. QED
      BY <3>1, <3>2
  <2>2. CASE p # i
    <3> DEFINE o == IF i < p THEN p - 1 ELSE p
    <3>1. o \in a .. l - 1 /\ (p = b => o = a) /\ p = Shifted(o, i)
      BY <1>3, <2>2 DEF Shifted
    <3> HIDE DEF o
    <3>2. new[p] = es[o] /\ o \in 1 .. Len(es)
      BY <1>3, <1>8, <3>1
    <3>3. Satisfies(docs[es[o].ref], c.query)
      BY <3>1 DEF WalksFrom
    <3>4. QED
      BY <3>2, <3>3
  <2>3. QED
    BY <2>1, <2>2
<1>12. ~d.test /\ d.query.op = "gt" => m = Len(new) + 1
  <2>1. ~c.test /\ c.query.op = "gt" => l = Len(es) + 1
    BY DEF WalksFrom
  <2>2. l = Len(es) + 1 => m = Len(new) + 1
    BY <1>1 DEF Shifted
  <2>3. d.test = c.test /\ d.query.op = c.query.op
    BY DEF Narrows
  <2>4. QED
    BY <2>1, <2>2, <2>3
<1> HIDE DEF b, m
<1>13. WalksFrom(new, left, d, b, m)
  BY <1>4, <1>6, <1>9, <1>10, <1>11, <1>12 DEF WalksFrom, Narrows
<1>14. QED
  BY <1>13 DEF b, m

\* An entry behind the cursor that is erased takes the cursor one place back.
LEMMA WalkLosesAnEntry ==
  ASSUME NEW es, Len(es) \in Nat, Distinct(es), DOMAIN es = 1 .. Len(es),
         NEW docs, \A p \in 1 .. Len(es) : es[p].ref \in DOMAIN docs,
         NEW c, NEW a, NEW l, WalksFrom(es, docs, c, a, l),
         NEW i \in 1 .. Len(es), es[i].ref \in c.seen,
         NEW new, Len(new) = Len(es) - 1, DOMAIN new = 1 .. Len(es) - 1,
         \A j \in 1 .. Len(es) - 1 : new[j] = IF j < i THEN es[j] ELSE es[j + 1],
         NEW d, NEW left, Narrows(d, c, left),
         es[i].ref \notin DOMAIN left,
         \A x \in DOMAIN docs \ {es[i].ref} : left[x] = docs[x]
  PROVE  WalksFrom(new, left, d, a - 1, l - 1)
<1>1. a \in 1 .. Len(es) + 1 /\ l \in a .. Len(es) + 1
  BY DEF WalksFrom
<1>2. i < a
  <2>1. PICK p \in 1 .. a - 1 : es[p].ref = es[i].ref
    BY DEF WalksFrom
  <2>2. p \in 1 .. Len(es)
    BY <1>1
  <2>3. p = i
    BY <2>1, <2>2 DEF Distinct
  <2>4. QED
    BY <1>1, <2>3
<1>3. a - 1 \in 1 .. Len(new) + 1 /\ l - 1 \in a - 1 .. Len(new) + 1
  BY <1>1, <1>2
<1>4. \A p \in a - 1 .. Len(es) : IteratorTo(new, p) = IteratorTo(es, p + 1)
  <2> SUFFICES ASSUME NEW p \in a - 1 .. Len(es)
               PROVE  IteratorTo(new, p) = IteratorTo(es, p + 1)
    OBVIOUS
  <2>1. CASE p = Len(es)
    BY <2>1 DEF IteratorTo
  <2>2. CASE p # Len(es)
    <3>1. p \in 1 .. Len(es) - 1 /\ p + 1 \in 1 .. Len(es) /\ ~(p < i)
      BY <1>1, <1>2, <2>2
    <3>2. new[p] = es[p + 1]
      BY <3>1
    <3>3. QED
      BY <3>1, <3>2 DEF IteratorTo
  <2>3. QED
    BY <2>1, <2>2
<1>5. d.at = IteratorTo(new, a - 1) /\ d.last = IteratorTo(new, l - 1)
  <2>1. a - 1 \in a - 1 .. Len(es) /\ l - 1 \in a - 1 .. Len(es) /\ a = a - 1 + 1 /\ l = l - 1 + 1
    BY <1>1
  <2>2. IteratorTo(new, a - 1) = IteratorTo(es, a) /\ IteratorTo(new, l - 1) = IteratorTo(es, l)
    BY <1>4, <2>1
  <2>3. QED
    BY <2>2 DEF WalksFrom, Narrows
<1>6. \A r \in d.seen : \E p \in 1 .. a - 1 - 1 : new[p].ref = r
  <2> SUFFICES ASSUME NEW r \in d.seen
               PROVE  \E p \in 1 .. a - 1 - 1 : new[p].ref = r
    OBVIOUS
  <2>1. PICK p \in 1 .. a - 1 : es[p].ref = r
    BY DEF WalksFrom, Narrows
  <2>2. p # i
    BY <2>1 DEF Narrows
  <2> DEFINE o == IF p < i THEN p ELSE p - 1
  <2>3. o \in 1 .. a - 1 - 1 /\ o \in 1 .. Len(es) - 1 /\ (IF o < i THEN o = p ELSE o + 1 = p)
    BY <1>1, <1>2, <2>2
  <2> HIDE DEF o
  <2>4. new[o] = es[p]
    BY <2>3
  <2>5. QED
    BY <2>1, <2>3, <2>4
<1>7. \A p \in a - 1 .. l - 1 - 1 : new[p] = es[p + 1] /\ p + 1 \in a .. l - 1
  <2> SUFFICES ASSUME NEW p \in a - 1 .. l - 1 - 1
               PROVE  new[p] = es[p + 1] /\ p + 1 \in a .. l - 1
    OBVIOUS
  <2>1. p \in 1 .. Len(es) - 1 /\ ~(p < i) /\ p + 1 \in a .. l - 1
    BY <1>1, <1>2
  <2>2. QED
    BY <2>1
<1>8. \A r \in d.owed : \E p \in a - 1 .. l - 1 - 1 : new[p].ref = r
  <2> SUFFICES ASSUME NEW r \in d.owed
               PROVE  \E p \in a - 1 .. l - 1 - 1 : new[p].ref = r
    OBVIOUS
  <2>1. PICK p \in a .. l - 1 : es[p].ref = r
    BY DEF WalksFrom, Narrows
  <2>2. p - 1 \in a - 1 .. l - 1 - 1 /\ p - 1 + 1 = p
    BY <1>1
  <2>3. new[p - 1].ref = r
    BY <1>7, <2>1, <2>2
  <2>4. QED
    BY <2>2, <2>3
<1>9. \A p \in a - 1 .. l - 1 - 1 : p = a - 1 \/ ~d.test => Satisfies(left[new[p].ref], d.query)
  <2> SUFFICES ASSUME NEW p \in a - 1 .. l - 1 - 1, p = a - 1 \/ ~c.test
               PROVE  Satisfies(left[new[p].ref], c.query)
    BY DEF Narrows
  <2>1. new[p] = es[p + 1] /\ p + 1 \in a .. l - 1 /\ (p = a - 1 => p + 1 = a)
    BY <1>1, <1>7
  <2>2. p + 1 \in 1 .. Len(es) /\ p + 1 # i
    BY <1>1, <1>2, <2>1
  <2>3. es[p + 1].ref # es[i].ref
    BY <2>2 DEF Distinct
  <2>4. left[es[p + 1].ref] = docs[es[p + 1].ref]
    BY <2>2, <2>3
  <2>5. Satisfies(docs[es[p + 1].ref], c.query)
    BY <2>1 DEF WalksFrom
  <2>6. QED
    BY <2>1, <2>4, <2>5
<1>10. ~d.test /\ d.query.op = "gt" => l - 1 = Len(new) + 1
  BY DEF WalksFrom, Narrows
<1>11. QED
  BY <1>3, <1>5, <1>6, <1>8, <1>9, <1>10 DEF WalksFrom, Narrows

\* What goes in behind a match of $gt matches too.
LEMMA GreaterIsFollowedByGreater ==
  ASSUME NEW R, NEW es \in Seq(EntriesOf(R)), NEW f, NEW kind, NEW docs,
         Current(es, f, docs), OfKind(kind, f, docs),
         NEW q \in QueryRecords, q.op = "gt", q.field = f,
         NEW d, f \in DOMAIN d, d[f] \in Values, Kind(d[f]) = kind,
         NEW p \in UpperBounds(es, d[f]), p \in 1 .. Len(es),
         Satisfies(docs[es[p].ref], q)
  PROVE  Satisfies(d, q)
<1>1. ~Less(d[f], es[p].key)
  BY DEF UpperBounds
<1>2. es[p].ref \in DOMAIN docs /\ f \in DOMAIN docs[es[p].ref] /\ es[p].key = docs[es[p].ref][f]
  BY DEF Current
<1>3. es[p].key \in Values /\ Kind(es[p].key) = kind
  BY <1>2 DEF OfKind
<1>4. Greater(es[p].key, q.v)
  BY <1>2 DEF Satisfies, Member
<1>5. q.v \in Values
  BY DEF QueryRecords
<1>6. Less(q.v, d[f])
  BY <1>1, <1>3, <1>4, <1>5, GreaterIsLess, GreaterSplits
<1>7. Greater(d[f], q.v)
  BY <1>5, <1>6, GreaterIsLess
<1>8. QED
  BY <1>7 DEF Satisfies, Member
-----------------------------------------------------------------------------
(***************************************************************************)
(* The invariant: as long as the client refrains from abuse, the cursor is *)
(* at some entry of its index and ends at some later one.                  *)
(***************************************************************************)
InOrder ==
  Orderly =>
    /\ Held
    /\ call.op # "createIndex"
    /\ ~cursor.test => indices[cursor.index].field = cursor.query.field
    /\ \E a, l \in 1 .. Len(Walked) + 1 : WalksFrom(Walked, doc, cursor, a, l)

SoundInOrder(kindOf) ==
  /\ Inv /\ CursorTypeOK /\ EndIsLast
  /\ "collection" \notin abused => Sound(kindOf)
  /\ InOrder

\* The entries of an index refer to list nodes.
LEMMA EntriesReferToNodes ==
  ASSUME NEW es \in Seq(EntriesOf(Refs))
  PROVE  \A p \in 1 .. Len(es) : es[p].ref \in Refs
<1>1. \A p \in 1 .. Len(es) : es[p] \in EntriesOf(Refs)
  OBVIOUS
<1>2. QED
  BY <1>1 DEF EntriesOf

\* The entries an orderly cursor walks are those of its index, and where it is in them.
LEMMA OrderlyWalk ==
  ASSUME NEW kindOf, SoundInOrder(kindOf), Orderly
  PROVE  /\ Held /\ cursor \in CursorRecords /\ call.op # "createIndex"
         /\ StoreConforms(doc, kindOf) /\ AllCoherent(indices, doc)
         /\ cursor.index \in 1 .. Len(indices) /\ indices[cursor.index] \in IndexRecords
         /\ Walked \in Seq(EntriesOf(Refs))
         /\ Len(Walked) \in Nat /\ DOMAIN Walked = 1 .. Len(Walked)
         /\ Coherent(Walked, indices[cursor.index].field, doc)
         /\ Distinct(Walked)
         /\ \A p \in 1 .. Len(Walked) : Walked[p].ref \in DOMAIN doc /\ Walked[p].ref \in Refs
         /\ ~cursor.test => indices[cursor.index].field = cursor.query.field
         /\ \E a, l \in 1 .. Len(Walked) + 1 : WalksFrom(Walked, doc, cursor, a, l)
<1>1. Held /\ call.op # "createIndex" /\ Inv /\ CursorTypeOK
  BY DEF SoundInOrder, InOrder
<1>2. cursor \in CursorRecords
  BY <1>1, HeldIsWhole
<1>3. StoreConforms(doc, kindOf) /\ IndexCoherent
  BY DEF SoundInOrder, Orderly, Sound
<1>4. AllCoherent(indices, doc)
  BY <1>1, <1>3, AllIndicesCovered DEF StoreConforms
<1>5. /\ cursor.index \in 1 .. Len(indices) /\ indices[cursor.index] \in IndexRecords
      /\ Walked \in Seq(EntriesOf(Refs))
  BY <1>1, WalkedIsAnIndex
<1>6. cursor.index \in DOMAIN indices
  BY <1>2 DEF CursorRecords
<1>7. Coherent(Walked, indices[cursor.index].field, doc)
  BY <1>4, <1>6 DEF AllCoherent, Walked
<1>8. Len(Walked) \in Nat /\ DOMAIN Walked = 1 .. Len(Walked)
  BY <1>5
<1>9. \A p \in 1 .. Len(Walked) : Walked[p].ref \in Refs
  BY <1>5, EntriesReferToNodes
<1>10. QED
  BY <1>1, <1>2, <1>3, <1>4, <1>5, <1>7, <1>8, <1>9
     DEF SoundInOrder, InOrder, Coherent, Current

\* Two iterators into an index without repetition are equal at one entry only.
LEMMA IteratorsDiffer ==
  ASSUME NEW es \in Seq(EntriesOf(Refs)), Distinct(es), NEW p \in 1 .. Len(es) + 1,
         NEW q \in 1 .. Len(es) + 1, IteratorTo(es, p) = IteratorTo(es, q)
  PROVE  p = q
<1>1. Len(es) \in Nat /\ DOMAIN es = 1 .. Len(es)
  OBVIOUS
<1>2. \A x \in 1 .. Len(es) : es[x].ref \in Refs
  BY EntriesReferToNodes
<1>3. \A x \in 1 .. Len(es) : IteratorTo(es, x) = es[x].ref /\ es[x].ref # AtEnd
  BY <1>1, <1>2, CursorAssumption DEF IteratorTo
<1>4. IteratorTo(es, Len(es) + 1) = AtEnd
  BY <1>1 DEF IteratorTo
<1>5. CASE p \in 1 .. Len(es) /\ q \in 1 .. Len(es)
  BY <1>1, <1>3, <1>5 DEF Distinct
<1>6. CASE p = Len(es) + 1 \/ q = Len(es) + 1
  <2>1. CASE p = Len(es) + 1 /\ q # Len(es) + 1
    <3>1. q \in 1 .. Len(es)
      BY <1>1, <2>1
    <3>2. QED
      BY <1>3, <1>4, <2>1, <3>1
  <2>2. CASE p # Len(es) + 1 /\ q = Len(es) + 1
    <3>1. p \in 1 .. Len(es)
      BY <1>1, <2>2
    <3>2. QED
      BY <1>3, <1>4, <2>2, <3>1
  <2>3. QED
    BY <1>6, <2>1, <2>2
<1>7. QED
  BY <1>1, <1>5, <1>6

\* A cursor that is opened is at its first match.
LEMMA FindIsInOrder ==
  ASSUME NEW kindOf, \A q \in Queries : BoundsOfKind(q, kindOf[q.field]),
         SoundInOrder(kindOf), NEW q \in Queries, Find(q)
  PROVE  InOrder'
<1> SUFFICES ASSUME Orderly'
             PROVE  InOrder'
  BY DEF InOrder
<1>1. PICK pl \in Plans(q) :
        ~GoesWild(doc, pl, q)
        /\ Opens(q, pl, IF StopAt(doc, pl, q) = 0 THEN pl.hi + 1 ELSE StopAt(doc, pl, q))
  BY DEF Find
<1> PICK k, es, stop : k = WalkedIndex(q) /\ es = indices[k].entries /\ stop = StopAt(doc, pl, q)
  OBVIOUS
<1> PICK a, l : a = (IF stop = 0 THEN pl.hi + 1 ELSE stop) /\ l = pl.hi + 1
  OBVIOUS
<1>2. /\ cursor' = OpenAt(pl, q, a)
      /\ abused' = abused \cup {x \in {"cursor"} : Stray(pl)}
      /\ UNCHANGED vars
  BY <1>1 DEF Opens
<1>3. abused = {} /\ ~Stray(pl)
  BY <1>2 DEF Orderly
<1>4. Inv /\ Scannable /\ StoreConforms(doc, kindOf) /\ IndexCoherent
  BY <1>3 DEF SoundInOrder, Sound
<1>5. call = Idle /\ call.op # "createIndex"
  BY DEF Find, CanFind, Command, Idle
<1>6. AllCoherent(indices, doc)
  BY <1>4, <1>5, AllIndicesCovered DEF StoreConforms
<1>7. /\ k \in 1 .. Len(indices)
      /\ es \in Seq(EntriesOf(Refs))
      /\ pl.entries = es
      /\ ~pl.test => indices[k].field = q.field /\ (q.op = "gt" => pl.hi = Len(es))
  BY <1>1, <1>4, PlansInBounds
<1>8. /\ Selects(pl, es, doc, q)
      /\ \A r \in DOMAIN doc : Satisfies(doc[r], q) => indices[k].field \in DOMAIN doc[r]
  BY <1>3, <1>4, <1>6, PlansSelect
<1>9. k \in DOMAIN indices /\ Coherent(es, indices[k].field, doc)
  BY <1>6, <1>7 DEF AllCoherent
<1>10. Len(es) \in Nat /\ DOMAIN es = 1 .. Len(es)
  BY <1>7
<1>11. /\ pl.lo \in 0 .. Len(es) /\ pl.hi \in 0 .. Len(es) /\ pl.lo <= pl.hi
       /\ Walk(pl) = pl.lo + 1 .. pl.hi
  BY <1>3, <1>8 DEF Selects, Walk
<1>12. /\ stop # 0 => Hit(doc, pl, q, stop) \/ ~Live(doc, pl, stop)
       /\ stop # 0 => stop \in pl.lo + 1 .. pl.hi
       /\ \A p \in Walk(pl) : Hit(doc, pl, q, p) => stop # 0 /\ stop <= p
  BY <1>7, <1>10, <1>11, StopIsFirst
<1>13. a \in 1 .. Len(es) + 1 /\ l \in a .. Len(es) + 1
  BY <1>10, <1>11, <1>12, SMTT(60)
<1>14. \A p \in 1 .. Len(es) : es[p].ref \in DOMAIN doc
  BY <1>9, <1>10 DEF Coherent, Current
<1>15. \A r \in Matching(q) : Satisfies(doc[r], q) /\ \E p \in a .. l - 1 : es[p].ref = r
  <2> SUFFICES ASSUME NEW r \in Matching(q)
               PROVE  \E p \in a .. l - 1 : es[p].ref = r
    BY DEF Matching
  <2>1. r \in DOMAIN doc /\ Satisfies(doc[r], q)
    BY DEF Matching
  <2>2. PICK p \in 1 .. Len(es) : es[p].ref = r
    BY <1>8, <1>9, <1>10, <2>1 DEF Coherent, Complete
  <2>3. pl.lo < p /\ p <= pl.hi
    BY <1>8, <2>1, <2>2 DEF Selects
  <2>4. p \in Walk(pl) /\ Hit(doc, pl, q, p)
    BY <1>7, <1>11, <2>1, <2>2, <2>3 DEF Hit, Live
  <2>5. stop # 0 /\ stop <= p
    BY <1>12, <2>4
  <2>6. p \in a .. l - 1
    BY <1>11, <1>12, <2>3, <2>5
  <2>7. QED
    BY <2>2, <2>6
<1>16. \A p \in a .. l - 1 : p = a \/ ~pl.test => Satisfies(doc[es[p].ref], q)
  <2> SUFFICES ASSUME NEW p \in a .. l - 1, p = a \/ ~pl.test
               PROVE  Satisfies(doc[es[p].ref], q)
    OBVIOUS
  <2>1. stop # 0 /\ a = stop /\ p \in 1 .. Len(es) /\ pl.lo < p /\ p <= pl.hi
    BY <1>10, <1>11, <1>12, <1>13, SMTT(60)
  <2>2. CASE ~pl.test
    BY <1>8, <2>1, <2>2 DEF Selects
  <2>3. CASE pl.test /\ p = a
    <3>1. Live(doc, pl, stop)
      BY <1>7, <1>14, <2>1, <2>3 DEF Live
    <3>2. Hit(doc, pl, q, stop)
      BY <1>12, <2>1, <3>1
    <3>3. QED
      BY <1>7, <2>1, <2>3, <3>2 DEF Hit
  <2>4. QED
    BY <2>2, <2>3
<1>17. /\ cursor'.open /\ ~cursor'.dangling /\ cursor'.query = q /\ cursor'.test = pl.test
       /\ cursor'.index = k /\ cursor'.at = IteratorTo(es, a) /\ cursor'.last = IteratorTo(es, l)
       /\ cursor'.seen = {} /\ cursor'.owed = Matching(q)
  BY <1>2, <1>3, <1>7 DEF OpenAt
<1>18. ~pl.test /\ q.op = "gt" => l = Len(es) + 1
  BY <1>7
<1>19. WalksFrom(es, doc, cursor', a, l)
  BY <1>13, <1>15, <1>16, <1>17, <1>18 DEF WalksFrom
<1>20. Walked' = es /\ doc' = doc /\ indices' = indices /\ call' = call /\ Held'
  BY <1>2, <1>17 DEF Walked, vars, Held
<1>21. ~cursor'.test => indices'[cursor'.index].field = cursor'.query.field
  BY <1>7, <1>17, <1>20
<1>22. l \in 1 .. Len(es) + 1
  BY <1>10, <1>13
<1>23. QED
  BY <1>5, <1>13, <1>19, <1>20, <1>21, <1>22 DEF InOrder

\* A cursor that moves on goes to its next match.
LEMMA DeliverIsInOrder ==
  ASSUME NEW kindOf, SoundInOrder(kindOf), Deliver
  PROVE  InOrder'
<1> SUFFICES ASSUME Orderly'
             PROVE  InOrder'
  BY DEF InOrder
<1>1. Held /\ HasNext /\ ~RunsOff /\ UNCHANGED <<vars, abused>>
  BY DEF Deliver, Next_dom
<1>2. Orderly
  BY <1>1 DEF Orderly, Held
<1> PICK es, next : /\ es = Walked
                    /\ next = IF Ahead = {} THEN AtEnd ELSE Walked[Min(Ahead)].ref
  OBVIOUS
<1>3. /\ cursor \in CursorRecords
      /\ es \in Seq(EntriesOf(Refs)) /\ Len(es) \in Nat /\ DOMAIN es = 1 .. Len(es)
      /\ Distinct(es)
      /\ \A p \in 1 .. Len(es) : es[p].ref \in Refs
      /\ ~cursor.test => indices[cursor.index].field = cursor.query.field
      /\ call.op # "createIndex"
  BY <1>2, OrderlyWalk
<1>4. PICK a, l \in 1 .. Len(es) + 1 : WalksFrom(es, doc, cursor, a, l)
  BY <1>2, OrderlyWalk
<1>5. a <= l /\ a # l /\ cursor.at = IteratorTo(es, a) /\ cursor.last = IteratorTo(es, l)
  BY <1>1, <1>4 DEF WalksFrom, HasNext
<1>6. a \in 1 .. Len(es) /\ cursor.at = es[a].ref /\ a < l
  BY <1>3, <1>5 DEF IteratorTo
<1>7. /\ l \in 1 .. Len(es) => cursor.last = es[l].ref
      /\ l \notin 1 .. Len(es) => l = Len(es) + 1 /\ cursor.last = AtEnd
  BY <1>3, <1>5 DEF IteratorTo
<1>8. Ahead = {p \in a + 1 .. Len(es) :
                 \/ es[p].ref = cursor.last
                 \/ cursor.test => Satisfies(doc[es[p].ref], cursor.query)}
  <2> DEFINE I == {p \in 1 .. Len(es) : es[p].ref = cursor.at}
             here == IF I # {} THEN Min(I) ELSE 0
  <2>1. Ahead = {p \in here + 1 .. Len(es) :
                   \/ es[p].ref = cursor.last
                   \/ cursor.test => Satisfies(doc[es[p].ref], cursor.query)}
    BY DEF Ahead, SelectInSeq
  <2>2. I = {a}
    BY <1>3, <1>6 DEF Distinct
  <2> HIDE DEF I
  <2>3. I \subseteq Nat /\ I # {}
    BY <1>6, <2>2
  <2>4. here = a
    BY <2>2, <2>3, MinIsAnElement
  <2> HIDE DEF here
  <2>5. QED
    BY <2>1, <2>4
<1>9. \A p \in a + 1 .. l - 1 : Satisfies(doc[es[p].ref], cursor.query) => p \in Ahead
  BY <1>3, <1>8
<1>10. cursor' = [cursor EXCEPT !.delivered = Counted, !.seen = @ \cup Given,
                                !.owed = @ \ {cursor.at}, !.at = next]
  BY DEF Deliver
<1>11. Given = {cursor.at}
  BY <1>2 DEF Given, Orderly
<1>12. /\ cursor'.open /\ ~cursor'.dangling /\ cursor'.query = cursor.query
       /\ cursor'.test = cursor.test
       /\ cursor'.index = cursor.index /\ cursor'.at = next /\ cursor'.last = cursor.last
       /\ cursor'.seen = cursor.seen \cup {cursor.at} /\ cursor'.owed = cursor.owed \ {cursor.at}
  BY <1>3, <1>10, <1>11 DEF CursorRecords
<1>13. PICK n \in a + 1 .. l :
         /\ next = IteratorTo(es, n)
         /\ \A p \in Ahead : n <= p
         /\ n # l => n \in Ahead /\ es[n].ref # cursor.last
  <2>1. CASE Ahead = {}
    <3>1. next = AtEnd /\ cursor.last = AtEnd
      BY <1>1, <2>1 DEF RunsOff
    <3>2. l = Len(es) + 1
      BY <1>3, <1>7, <3>1, CursorAssumption
    <3>3. next = IteratorTo(es, l) /\ l \in a + 1 .. l
      BY <1>3, <1>6, <3>1, <3>2 DEF IteratorTo
    <3>4. QED
      BY <2>1, <3>3
  <2>2. CASE Ahead # {}
    <3> PICK n : n = Min(Ahead)
      OBVIOUS
    <3>1. Ahead \subseteq a + 1 .. Len(es)
      BY <1>8
    <3>2. Ahead \subseteq Nat
      BY <1>3, <1>6, <3>1
    <3>3. n \in Ahead /\ \A p \in Ahead : n <= p
      BY <2>2, <3>2, MinIsLeast
    <3>4. n \in a + 1 .. Len(es) /\ n \in 1 .. Len(es)
      BY <1>3, <1>6, <3>1, <3>3
    <3>5. next = IteratorTo(es, n)
      BY <1>3, <2>2, <3>4 DEF IteratorTo
    <3>6. n <= l
      <4>1. CASE l \in 1 .. Len(es)
        <5>1. l \in Ahead
          BY <1>3, <1>6, <1>7, <1>8, <4>1
        <5>2. QED
          BY <3>3, <5>1
      <4>2. CASE l \notin 1 .. Len(es)
        BY <1>3, <1>7, <3>4, <4>2
      <4>3. QED
        BY <4>1, <4>2
    <3>7. n # l => es[n].ref # cursor.last
      <4>1. CASE l \in 1 .. Len(es)
        BY <1>3, <1>7, <3>4, <4>1 DEF Distinct
      <4>2. CASE l \notin 1 .. Len(es)
        BY <1>3, <1>7, <3>4, <4>2, CursorAssumption
      <4>3. QED
        BY <4>1, <4>2
    <3>8. n \in a + 1 .. l
      BY <1>3, <3>4, <3>6
    <3>9. QED
      BY <3>3, <3>5, <3>7, <3>8
  <2>3. QED
    BY <2>1, <2>2
<1>14. n \in 1 .. Len(es) + 1 /\ l \in n .. Len(es) + 1 /\ a < n
  BY <1>3, <1>6, <1>13
<1>15. \A r \in cursor'.seen : \E p \in 1 .. n - 1 : es[p].ref = r
  <2>1. a \in 1 .. n - 1 /\ \A p \in 1 .. a - 1 : p \in 1 .. n - 1
    BY <1>6, <1>14
  <2>2. QED
    BY <1>4, <1>6, <1>12, <2>1 DEF WalksFrom
<1>16. \A r \in cursor'.owed :
         Satisfies(doc[r], cursor'.query) /\ \E p \in n .. l - 1 : es[p].ref = r
  <2> SUFFICES ASSUME NEW r \in cursor'.owed
               PROVE  Satisfies(doc[r], cursor'.query) /\ \E p \in n .. l - 1 : es[p].ref = r
    OBVIOUS
  <2>1. r \in cursor.owed /\ r # cursor.at
    BY <1>12
  <2>2. PICK p \in a .. l - 1 : es[p].ref = r
    BY <1>4, <2>1 DEF WalksFrom
  <2>3. Satisfies(doc[r], cursor.query)
    BY <1>4, <2>1 DEF WalksFrom
  <2>4. p \in a + 1 .. l - 1
    BY <1>6, <2>1, <2>2
  <2>5. n <= p
    BY <1>9, <1>13, <2>2, <2>3, <2>4
  <2>6. p \in n .. l - 1
    BY <1>14, <2>4, <2>5
  <2>7. QED
    BY <1>12, <2>2, <2>3, <2>6
<1>17. \A p \in n .. l - 1 :
         p = n \/ ~cursor'.test => Satisfies(doc[es[p].ref], cursor'.query)
  <2> SUFFICES ASSUME NEW p \in n .. l - 1, p = n \/ ~cursor.test
               PROVE  Satisfies(doc[es[p].ref], cursor.query)
    BY <1>12
  <2>1. p \in a .. l - 1
    BY <1>6, <1>14
  <2>2. CASE ~cursor.test
    BY <1>4, <2>1, <2>2 DEF WalksFrom
  <2>3. CASE cursor.test /\ p = n
    <3>1. n # l
      BY <1>14, <2>3
    <3>2. QED
      BY <1>8, <1>13, <2>3, <3>1
  <2>4. QED
    BY <2>2, <2>3
<1>18. WalksFrom(es, doc, cursor', n, l)
  BY <1>4, <1>5, <1>12, <1>13, <1>14, <1>15, <1>16, <1>17 DEF WalksFrom
<1>19. Walked' = es /\ doc' = doc /\ indices' = indices /\ call' = call /\ Held'
  BY <1>1, <1>12 DEF Walked, vars, Held
<1>20. QED
  BY <1>3, <1>4, <1>12, <1>14, <1>18, <1>19 DEF InOrder
-----------------------------------------------------------------------------
(***************************************************************************)
(* The other calls.  When the cursor is orderly after one, it was orderly  *)
(* before and the call did it no harm.                                     *)
(***************************************************************************)
LEMMA OrderlyBefore ==
  ASSUME InOrder, NEW freed, NEW harm, Follows(freed, harm), Orderly'
  PROVE  Orderly /\ Held /\ ~harm /\ cursor' = Outlived(freed)
<1>1. abused' = {} /\ cursor'.open
  BY DEF Orderly
<1>2. abused = {} /\ ~(cursor.open /\ harm)
  BY <1>1 DEF Follows
<1>3. cursor' = Outlived(freed)
  BY <1>1 DEF Follows
<1>4. ~Held => cursor' = cursor
  BY <1>3 DEF Outlived
<1>5. Held
  BY <1>1, <1>2, <1>4 DEF InOrder, Orderly
<1>6. QED
  BY <1>2, <1>3, <1>5 DEF Orderly, Held

\* It is the same cursor still, when its own entries are not among the freed ones.
LEMMA NarrowedBySurvival ==
  ASSUME CursorTypeOK, Held, NEW freed, cursor.at \notin freed, cursor.last \notin freed,
         cursor' = Outlived(freed)
  PROVE  Held' /\ cursor'.index = cursor.index /\ Narrows(cursor', cursor, doc')
<1>1. cursor \in CursorRecords
  BY HeldIsWhole
<1>2. cursor' = [cursor EXCEPT !.headless = @ \/ cursor.first \in freed,
                               !.seen = @ \cap DOMAIN doc',
                               !.owed = {r \in @ \cap DOMAIN doc' :
                                           Satisfies(doc'[r], cursor.query)}]
  BY DEF Outlived
<1>3. QED
  BY <1>1, <1>2 DEF CursorRecords, Held, Narrows

\* What has been delivered is behind the cursor: not the entry it is at or ends at.
LEMMA SeenIsBehind ==
  ASSUME NEW es \in Seq(EntriesOf(Refs)), Distinct(es), NEW docs, NEW c, NEW a, NEW l,
         WalksFrom(es, docs, c, a, l), NEW r \in c.seen
  PROVE  c.at # r /\ c.last # r /\ \E p \in 1 .. Len(es) : es[p].ref = r
<1>1. Len(es) \in Nat /\ DOMAIN es = 1 .. Len(es)
  OBVIOUS
<1>2. a \in 1 .. Len(es) + 1 /\ l \in a .. Len(es) + 1
  BY DEF WalksFrom
<1>3. PICK o \in 1 .. a - 1 : es[o].ref = r
  BY DEF WalksFrom
<1>4. o \in 1 .. Len(es) /\ o \in 1 .. Len(es) + 1 /\ o # a /\ o # l /\ l \in 1 .. Len(es) + 1
  BY <1>1, <1>2, <1>3
<1>5. IteratorTo(es, o) = r
  BY <1>1, <1>3, <1>4 DEF IteratorTo
<1>6. IteratorTo(es, a) # r /\ IteratorTo(es, l) # r
  BY <1>2, <1>4, <1>5, IteratorsDiffer
<1>7. QED
  BY <1>3, <1>4, <1>6 DEF WalksFrom

\* A cursor that walks the index it walked is in order.
LEMMA WalkGivesOrder ==
  ASSUME Held', call'.op # "createIndex",
         ~cursor.test => indices[cursor.index].field = cursor.query.field,
         indices'[cursor.index].field = indices[cursor.index].field,
         cursor'.index = cursor.index, cursor'.query = cursor.query, cursor'.test = cursor.test,
         NEW es, es = Walked', Len(es) \in Nat,
         NEW a, NEW l, WalksFrom(es, doc', cursor', a, l)
  PROVE  InOrder'
<1>1. a \in 1 .. Len(es) + 1 /\ l \in 1 .. Len(es) + 1
  BY DEF WalksFrom
<1>2. ~cursor'.test => indices'[cursor'.index].field = cursor'.query.field
  OBVIOUS
<1>3. QED
  BY <1>1, <1>2 DEF InOrder

\* $gt and scans run on an appended document that gets in before their end.
LEMMA AppendsKeepOrder ==
  ASSUME NEW kindOf, KeepsSchema(kindOf), SoundInOrder(kindOf), AppendsUnder
  PROVE  InOrder'
<1> SUFFICES ASSUME Orderly'
             PROVE  InOrder'
  BY DEF InOrder
<1>1. PICK d \in Inputs : PushDocument(d) /\ call'.op # "createIndex"
  <2>1. CASE \E d \in Inputs : AppendDocument(d)
    BY <2>1 DEF AppendDocument, Command, Idle
  <2>2. CASE UpsertAppends
    <3>1. call.document \in Inputs
      BY <2>2, CallShapes DEF UpsertAppends, SoundInOrder, Inv, TypeOK
    <3>2. QED
      BY <2>2, <3>1 DEF UpsertAppends, Idle
  <2>3. QED
    BY <2>1, <2>2 DEF AppendsUnder
<1>2. Orderly /\ Held /\ ~Unguarded /\ cursor' = Outlived({})
  BY OrderlyBefore DEF AppendsUnder, SoundInOrder
<1>3. Held' /\ cursor'.index = cursor.index /\ Narrows(cursor', cursor, doc')
  BY <1>2, NarrowedBySurvival DEF SoundInOrder
<1> PICK es, k, f : es = Walked /\ k = cursor.index /\ f = indices[k].field
  OBVIOUS
<1>4. /\ cursor \in CursorRecords
      /\ StoreConforms(doc, kindOf)
      /\ k \in 1 .. Len(indices) /\ indices[k] \in IndexRecords
      /\ es \in Seq(EntriesOf(Refs)) /\ Len(es) \in Nat /\ DOMAIN es = 1 .. Len(es)
      /\ Distinct(es) /\ Coherent(es, f, doc)
      /\ \A p \in 1 .. Len(es) : es[p].ref \in DOMAIN doc
      /\ ~cursor.test => f = cursor.query.field
  BY <1>2, OrderlyWalk
<1>5. PICK a, l \in 1 .. Len(es) + 1 : WalksFrom(es, doc, cursor, a, l)
  BY <1>2, OrderlyWalk
<1>6. indices \in Seq(IndexRecords) /\ id \in Nat /\ Inv
  BY DEF SoundInOrder, Inv, TypeOK
<1>7. indices'[k].field = indices[k].field
  BY <1>1, <1>4, <1>6, IndicesKeepFields
<1>8. cursor'.query = cursor.query /\ cursor'.test = cursor.test
  BY <1>3 DEF Narrows
<1>9. ASSUME Walked' = es, \A x \in DOMAIN doc : doc'[x] = doc[x]
      PROVE  InOrder'
  <2>1. WalksFrom(es, doc', cursor', a, l)
    BY <1>3, <1>4, <1>5, <1>9, WalkIsKept
  <2>2. QED
    BY <1>1, <1>3, <1>4, <1>7, <1>8, <1>9, <2>1, WalkGivesOrder
<1>10. CASE UNCHANGED data
  <2>1. Walked' = es /\ doc' = doc
    BY <1>3, <1>10 DEF data, Walked
  <2>2. QED
    BY <1>9, <2>1
<1>11. CASE ~ UNCHANGED data
  <2> DEFINE stored == Numbered(d, id)
  <2>1. Accepted(d)
    BY <1>1, <1>11 DEF PushDocument
  <2>2. PICK r \in Refs \ DOMAIN doc :
          doc' = With(doc, r, stored) /\ indices' \in InsertIndexEntries(indices, r, stored)
    BY <1>1, <2>1 DEF PushDocument
  <2>3. IsDocument(stored) /\ Conforms(stored, kindOf)
    BY <1>6, <2>1, NumberedIsDocument, NumberedConforms
  <2> HIDE DEF stored
  <2>4. indices'[k] \in WithEntry(indices[k], r, stored)
    BY <1>4, <1>6, <2>2, <2>3, InsertIndexEntriesType
  <2>5. doc'[r] = stored /\ \A x \in DOMAIN doc : doc'[x] = doc[x]
    BY <2>2 DEF With
  <2>6. CASE f \notin DOMAIN stored
    <3>1. Walked' = es
      BY <1>3, <2>4, <2>6 DEF WithEntry, Walked
    <3>2. QED
      BY <1>9, <2>5, <3>1
  <2>7. CASE f \in DOMAIN stored
    <3> PICK key : key = stored[f]
      OBVIOUS
    <3>1. key \in Values /\ Kind(key) = kindOf[f]
      BY <2>3, <2>7 DEF IsDocument, Conforms
    <3>2. PICK p \in UpperBounds(es, key) :
            indices'[k] = [indices[k] EXCEPT !.entries = InsertAt(es, p + 1, Entry(key, r))]
      <4>1. indices[k].entries = es
        BY DEF Walked
      <4>2. PICK t \in InsertEntry(es, key, r) : indices'[k] = [indices[k] EXCEPT !.entries = t]
        BY <2>4, <2>7, <4>1 DEF WithEntry
      <4>3. QED
        BY <4>2 DEF InsertEntry
    <3>3. p \in 0 .. Len(es) /\ p + 1 \in 1 .. Len(es) + 1
      BY <1>4, <3>2 DEF UpperBounds
    <3> PICK i, e, new : i = p + 1 /\ e = Entry(key, r) /\ new = InsertAt(es, i, e)
      OBVIOUS
    <3>4. Walked' = new
      BY <1>3, <1>4, <3>2 DEF Walked, IndexRecords
    <3>5. e \in EntriesOf(Refs) /\ e.ref = r
      BY <2>2, <3>1 DEF Entry, EntriesOf
    <3>6. IsInsertion(new, es, i, e) /\ i \in 1 .. Len(es) + 1
      <4>1. e \in EntriesOf(Refs) /\ i \in 1 .. Len(es) + 1
        BY <3>3, <3>5
      <4>2. QED
        BY <1>4, <4>1, InsertAtElements
    <3>7. cursor.test \/ cursor.query.op = "gt"
      BY <1>2 DEF Unguarded
    <3>8. a < i /\ i <= l /\ ~cursor.test => Satisfies(doc'[e.ref], cursor.query)
      <4> SUFFICES ASSUME a < i, i <= l, ~cursor.test
                   PROVE  Satisfies(doc'[e.ref], cursor.query)
        OBVIOUS
      <4>1. cursor.query \in QueryRecords /\ cursor.query.op = "gt" /\ cursor.query.field = f
        BY <1>4, <3>7, DocumentsAssumption DEF CursorRecords
      <4>2. p \in a .. l - 1 /\ p \in 1 .. Len(es)
        BY <1>4, <1>5, <3>3
      <4>3. Satisfies(doc[es[p].ref], cursor.query)
        BY <1>5, <4>2 DEF WalksFrom
      <4>4. Current(es, f, doc) /\ OfKind(kindOf[f], f, doc)
        BY <1>4, SchemaGivesKind DEF Coherent
      <4>5. Satisfies(stored, cursor.query)
        BY <1>4, <2>7, <3>1, <3>2, <4>1, <4>2, <4>3, <4>4, GreaterIsFollowedByGreater
      <4>6. QED
        BY <2>5, <3>5, <4>5
    <3>9. WalksFrom(new, doc', cursor', Shifted(a, i), Shifted(l, i))
      BY <1>3, <1>4, <1>5, <2>5, <3>6, <3>7, <3>8, WalkTakesAnEntry, ZenonT(60)
    <3>10. Len(new) \in Nat
      <4>1. Len(es) \in Nat
        BY <1>4
      <4>2. Len(new) = Len(es) + 1
        BY <3>6 DEF IsInsertion
      <4>3. QED
        BY <4>1, <4>2
    <3>11. QED
      BY <1>1, <1>3, <1>4, <1>7, <1>8, <3>4, <3>9, <3>10, WalkGivesOrder
  <2>8. QED
    BY <2>6, <2>7
<1>12. QED
  BY <1>10, <1>11

\* An update of a delivered document that leaves the index as it is.
LEMMA UpdatesKeepOrder ==
  ASSUME NEW kindOf, SoundInOrder(kindOf), UpdatesUnder
  PROVE  InOrder'
<1> SUFFICES ASSUME Orderly'
             PROVE  InOrder'
  BY DEF InOrder
<1>1. PICK q \in Queries, patch \in Patches, r \in Refs :
        /\ UpdateDocument(q, patch)
        /\ doc' = [doc EXCEPT ![r] = Merged(@, patch)]
        /\ Follows({r}, OutOfPlace(r))
  <2>1. \A q \in Queries : \A r \in FirstMatches(q) : r \in Refs
    BY MatchesAreLive DEF SoundInOrder, Inv, TypeOK, IsStore
  <2>2. QED
    BY <2>1 DEF UpdatesUnder
<1>2. Orderly /\ Held /\ ~OutOfPlace(r) /\ cursor' = Outlived({r})
  BY <1>1, OrderlyBefore DEF SoundInOrder
<1>3. r \in cursor.seen /\ indices'[cursor.index].entries = Walked
  BY <1>2 DEF OutOfPlace
<1> PICK es, k : es = Walked /\ k = cursor.index
  OBVIOUS
<1>4. /\ k \in 1 .. Len(indices)
      /\ es \in Seq(EntriesOf(Refs)) /\ Len(es) \in Nat /\ DOMAIN es = 1 .. Len(es)
      /\ Distinct(es)
      /\ \A p \in 1 .. Len(es) : es[p].ref \in DOMAIN doc
      /\ ~cursor.test => indices[k].field = cursor.query.field
  BY <1>2, OrderlyWalk
<1>5. PICK a, l \in 1 .. Len(es) + 1 : WalksFrom(es, doc, cursor, a, l)
  BY <1>2, OrderlyWalk
<1>6. cursor.at \notin {r} /\ cursor.last \notin {r}
  BY <1>3, <1>4, <1>5, SeenIsBehind
<1>7. Held' /\ cursor'.index = cursor.index /\ Narrows(cursor', cursor, doc')
  BY <1>2, <1>6, NarrowedBySurvival DEF SoundInOrder
<1>8. \A x \in DOMAIN doc \ cursor.seen : doc'[x] = doc[x]
  BY <1>1, <1>3
<1>9. WalksFrom(es, doc', cursor', a, l)
  BY <1>4, <1>5, <1>7, <1>8, WalkIsKept
<1>10. Walked' = es
  BY <1>3, <1>7 DEF Walked
<1>11. call'.op # "createIndex"
  BY <1>1 DEF UpdateDocument, Command, Idle
<1>12. indices'[k].field = indices[k].field
  <2>1. k \in DOMAIN indices
    BY <1>4 DEF SoundInOrder, Inv, TypeOK
  <2>2. QED
    BY <1>1, <2>1, IndicesKeepFields DEF SoundInOrder
<1>13. cursor'.query = cursor.query /\ cursor'.test = cursor.test
  BY <1>7 DEF Narrows
<1>14. QED
  BY <1>4, <1>7, <1>9, <1>10, <1>11, <1>12, <1>13, WalkGivesOrder

\* A delivered document is behind the cursor, and so is the entry that drop erases.
LEMMA DropsKeepOrder ==
  ASSUME NEW kindOf, SoundInOrder(kindOf), DropsUnder
  PROVE  InOrder'
<1> SUFFICES ASSUME Orderly'
             PROVE  InOrder'
  BY DEF InOrder
<1>1. DropOne
  BY DEF DropsUnder
<1>2. PICK r \in FirstMatches(call.query) :
        indices' \in RemoveIndexEntries(indices, r, doc[r]) /\ doc' = Without(doc, r)
  BY <1>1 DEF DropOne
<1>3. r \in DOMAIN doc /\ r \in Refs
  BY MatchesAreLive DEF SoundInOrder, Inv, TypeOK, IsStore
<1>4. DOMAIN doc \ DOMAIN doc' = {r}
  BY <1>2, <1>3 DEF Without
<1>5. Follows({r}, Held /\ ~({r} \subseteq cursor.seen))
  BY <1>4 DEF DropsUnder
<1>6. Orderly /\ Held /\ ~(Held /\ ~({r} \subseteq cursor.seen)) /\ cursor' = Outlived({r})
  BY <1>5, OrderlyBefore DEF SoundInOrder
<1>7. r \in cursor.seen
  BY <1>6
<1> PICK es, k, f : es = Walked /\ k = cursor.index /\ f = indices[k].field
  OBVIOUS
<1>8. /\ StoreConforms(doc, kindOf)
      /\ k \in 1 .. Len(indices) /\ indices[k] \in IndexRecords
      /\ es \in Seq(EntriesOf(Refs)) /\ Len(es) \in Nat /\ DOMAIN es = 1 .. Len(es)
      /\ Distinct(es) /\ Coherent(es, f, doc)
      /\ \A p \in 1 .. Len(es) : es[p].ref \in DOMAIN doc
      /\ ~cursor.test => f = cursor.query.field
  BY <1>6, OrderlyWalk
<1>9. PICK a, l \in 1 .. Len(es) + 1 : WalksFrom(es, doc, cursor, a, l)
  BY <1>6, OrderlyWalk
<1>10. cursor.at \notin {r} /\ cursor.last \notin {r} /\ \E p \in 1 .. Len(es) : es[p].ref = r
  BY <1>7, <1>8, <1>9, SeenIsBehind
<1>11. Held' /\ cursor'.index = cursor.index /\ Narrows(cursor', cursor, doc')
  BY <1>6, <1>10, NarrowedBySurvival DEF SoundInOrder
<1>12. f \in DOMAIN doc[r]
  BY <1>8, <1>10 DEF Coherent, Current
<1>13. indices'[k] \in WithoutEntry(indices[k], r, doc[r])
  BY <1>2, <1>3, <1>8, RemoveIndexEntriesType DEF SoundInOrder, Inv, TypeOK
<1>14. PICK new \in EraseEntry(es, doc[r][f], r) :
         indices'[k] = [indices[k] EXCEPT !.entries = new]
  BY <1>12, <1>13 DEF WithoutEntry, Walked
<1>15. Walked' = new
  BY <1>8, <1>11, <1>14 DEF Walked, IndexRecords
<1>16. OfKind(kindOf[f], f, doc)
  BY <1>8, SchemaGivesKind
<1>17. PICK i \in 1 .. Len(es) :
         es[i].ref = r /\ EraseEntry(es, doc[r][f], r) \subseteq {RemoveAt(es, i)}
  BY <1>3, <1>8, <1>12, <1>16, EraseFindsTheEntry
<1>18. new = RemoveAt(es, i)
  BY <1>14, <1>17
<1>19. /\ new \in Seq(EntriesOf(Refs))
       /\ Len(new) = Len(es) - 1
       /\ \A j \in 1 .. Len(es) - 1 : new[j] = IF j < i THEN es[j] ELSE es[j + 1]
  BY <1>8, <1>17, <1>18, RemoveAtElements
<1>20. DOMAIN new = 1 .. Len(es) - 1 /\ Len(new) \in Nat
  BY <1>19
<1>21. es[i].ref \in cursor.seen /\ es[i].ref \notin DOMAIN doc'
  BY <1>2, <1>7, <1>17 DEF Without
<1>22. \A x \in DOMAIN doc \ {es[i].ref} : doc'[x] = doc[x]
  BY <1>2, <1>17 DEF Without
<1>23. WalksFrom(new, doc', cursor', a - 1, l - 1)
  BY <1>8, <1>9, <1>11, <1>19, <1>20, <1>21, <1>22, WalkLosesAnEntry
<1>24. call'.op # "createIndex"
  <2>1. call.op = "drop" /\ call' = [call EXCEPT !.ret = @ + 1]
    BY <1>1 DEF DropOne, Dropping
  <2>2. IsCall(call)
    BY DEF SoundInOrder, Inv, TypeOK
  <2>3. call'.op = "drop"
    BY <2>1, <2>2, CallShapes
  <2>4. QED
    BY <2>3
<1>25. indices'[k].field = indices[k].field
  <2>1. k \in DOMAIN indices
    BY <1>8 DEF SoundInOrder, Inv, TypeOK
  <2>2. QED
    BY <1>1, <2>1, IndicesKeepFields DEF SoundInOrder
<1>26. cursor'.query = cursor.query /\ cursor'.test = cursor.test
  BY <1>11 DEF Narrows
<1>27. QED
  BY <1>8, <1>11, <1>15, <1>20, <1>23, <1>24, <1>25, <1>26, WalkGivesOrder

\* A cursor that is closed is not orderly, nor one that nothing is known of.
LEMMA NoCursorIsInOrder ==
  ASSUME cursor' = NoCursor
  PROVE  InOrder'
BY DEF InOrder, Orderly, NoCursor

\* The calls of the cursor itself.
LEMMA CursorCallsKeepOrder ==
  ASSUME NEW kindOf, \A q \in Queries : BoundsOfKind(q, kindOf[q.field]),
         SoundInOrder(kindOf), CursorCalls
  PROVE  InOrder'
<1>1. ASSUME NEW limit \in CursorLimits, SetLimit(limit)
      PROVE  InOrder'
  <2> SUFFICES ASSUME Orderly'
               PROVE  InOrder'
    BY DEF InOrder
  <2>1. Held /\ cursor' = [cursor EXCEPT !.limit = limit] /\ UNCHANGED <<vars, abused>>
    BY <1>1 DEF SetLimit
  <2>2. Orderly
    BY <2>1 DEF Orderly, Held
  <2> PICK es : es = Walked
    OBVIOUS
  <2>3. /\ cursor \in CursorRecords /\ call.op # "createIndex" /\ Len(es) \in Nat
        /\ ~cursor.test => indices[cursor.index].field = cursor.query.field
    BY <2>2, OrderlyWalk
  <2>4. PICK a, l \in 1 .. Len(es) + 1 : WalksFrom(es, doc, cursor, a, l)
    BY <2>2, OrderlyWalk
  <2>5. /\ cursor'.at = cursor.at /\ cursor'.last = cursor.last /\ cursor'.query = cursor.query
        /\ cursor'.test = cursor.test /\ cursor'.seen = cursor.seen /\ cursor'.owed = cursor.owed
        /\ cursor'.index = cursor.index /\ cursor'.open /\ ~cursor'.dangling
    BY <2>1, <2>3 DEF CursorRecords
  <2>6. WalksFrom(es, doc, cursor', a, l)
    BY <2>4, <2>5 DEF WalksFrom
  <2>7. Walked' = es /\ doc' = doc /\ indices' = indices /\ call' = call /\ Held'
    BY <2>1, <2>5 DEF Walked, vars, Held
  <2>8. QED
    BY <2>3, <2>5, <2>6, <2>7, WalkGivesOrder
<1>2. QED
  BY <1>1, FindIsInOrder, DeliverIsInOrder, NoCursorIsInOrder
     DEF CursorCalls, FindGoesWild, CursorGoesWild, CountGoesWild, Close, Forgotten

\* The calls that are harm to every open cursor.
LEMMA HarmKeepsOrder ==
  ASSUME InOrder, ThrowsUnder \/ ClearsUnder \/ CreatesIndexUnder \/ DropsIndexUnder
  PROVE  InOrder'
<1> SUFFICES ASSUME Orderly'
             PROVE  FALSE
  BY DEF InOrder
<1>1. ~ThrowsUnder
  BY DEF ThrowsUnder, Orderly
<1>2. ~ClearsUnder /\ ~CreatesIndexUnder
  BY OrderlyBefore DEF ClearsUnder, CreatesIndexUnder
<1>3. ~DropsIndexUnder
  <2> SUFFICES ASSUME DropsIndexUnder
               PROVE  FALSE
    OBVIOUS
  <2>1. abused' = {} /\ cursor'.open
    BY DEF Orderly
  <2>2. abused = {} /\ ~cursor.open
    BY <2>1 DEF DropsIndexUnder
  <2>3. ~Held
    BY <2>2 DEF Held
  <2>4. cursor' = cursor
    BY <2>3 DEF DropsIndexUnder
  <2>5. QED
    BY <2>1, <2>2, <2>4
<1>4. QED
  BY <1>1, <1>2, <1>3

\* The calls that leave documents and indices alone.
LEMMA CallsBesideKeepOrder ==
  ASSUME Inv, InOrder, CallsBeside
  PROVE  InOrder'
<1> SUFFICES ASSUME Orderly'
             PROVE  InOrder'
  BY DEF InOrder
<1>1. UNCHANGED <<cursor, abused>> /\ Orderly
  BY DEF CallsBeside, Orderly
<1>2. call.op # "createIndex"
  BY <1>1 DEF InOrder
<1>3. doc' = doc /\ indices' = indices
  BY <1>2 DEF CallsBeside, UpdateGoesWild, Drop, Upsert, StartDrop, DropReturns, DropThrows,
     DropGoesWild, IndexNode, CreateIndexReturns, EnableJournal, DisableJournal, data
<1>4. call'.op # "createIndex"
  BY <1>2 DEF CallsBeside, UpdateGoesWild, Drop, Upsert, StartDrop, DropReturns, DropThrows,
     DropGoesWild, IndexNode, CreateIndexReturns, EnableJournal, DisableJournal, Idle
<1>5. QED
  BY <1>1, <1>3, <1>4 DEF InOrder, Walked, Held

\* Every step keeps the cursor in order.
LEMMA CursorStepKeepsOrder ==
  ASSUME NEW kindOf, KeepsSchema(kindOf), \A q \in Queries : BoundsOfKind(q, kindOf[q.field]),
         SoundInOrder(kindOf), [CursorNext]_cursorVars
  PROVE  SoundInOrder(kindOf)'
<1>1. Inv /\ CursorTypeOK /\ EndIsLast /\ InOrder /\ ("collection" \notin abused => Sound(kindOf))
  BY DEF SoundInOrder
<1>2. Inv' /\ CursorTypeOK' /\ EndIsLast'
  BY <1>1, CursorStepKeepsInv, CursorStepKeepsType
<1>3. "collection" \notin abused' => Sound(kindOf)'
  BY <1>1, UsesKeepSound
<1>4. InOrder'
  <2>1. CASE UNCHANGED cursorVars
    BY <1>1, <2>1 DEF cursorVars, vars, InOrder, Orderly, Held, Walked
  <2>2. QED
    BY <1>1, <2>1, CursorCallsKeepOrder, AppendsKeepOrder, UpdatesKeepOrder, DropsKeepOrder,
       HarmKeepsOrder, CallsBesideKeepOrder DEF CursorNext
<1>5. QED
  BY <1>2, <1>3, <1>4 DEF SoundInOrder

\* The parts of the invariant together are inductive.
LEMMA OrderHolds ==
  ASSUME NEW kindOf, KeepsSchema(kindOf), \A q \in Queries : BoundsOfKind(q, kindOf[q.field])
  PROVE  CursorSpec => []SoundInOrder(kindOf)
<1>1. CursorInit => SoundInOrder(kindOf)
  <2> SUFFICES ASSUME CursorInit
               PROVE  SoundInOrder(kindOf)
    OBVIOUS
  <2>1. Inv /\ CursorTypeOK /\ EndIsLast /\ InOrder
    BY InitInv DEF CursorInit, CursorTypeOK, EndIsLast, InOrder, Orderly, Held, NoCursor
  <2>2. StoreConforms(doc, kindOf) /\ Scannable
    BY DEF CursorInit, Init, StoreConforms, IsStore, Scannable
  <2>3. AllCoherent(indices, doc)
    BY EmptyIsCoherent DEF CursorInit, Init, AllCoherent
  <2>4. IndexCoherent
    BY <2>2, <2>3, AllIndicesCovered DEF CursorInit, Init, StoreConforms, Idle
  <2>5. QED
    BY <2>1, <2>2, <2>4 DEF SoundInOrder, Sound
<1>2. SoundInOrder(kindOf) /\ [CursorNext]_cursorVars => SoundInOrder(kindOf)'
  BY CursorStepKeepsOrder
<1>3. QED
  BY <1>1, <1>2, PTL DEF CursorSpec
-----------------------------------------------------------------------------
(***************************************************************************)
(* What a client with a cursor can rely on.  The fields hold values of one *)
(* kind each, and the bounds of a $range are of the kind of its field.     *)
(***************************************************************************)

(***************************************************************************)
(* A cursor outlives appends, drops of delivered documents and updates of  *)
(* delivered ones that leave its index as it is: next_dom and the          *)
(* comparison with range.second never use an iterator that was erased.     *)
(***************************************************************************)
THEOREM CursorStaysValid ==
  ASSUME NEW kindOf, KeepsSchema(kindOf), \A q \in Queries : BoundsOfKind(q, kindOf[q.field])
  PROVE  CursorSpec => []CursorHoldsOn
<1>1. SoundInOrder(kindOf) => CursorHoldsOn
  BY DEF SoundInOrder, InOrder, Held, CursorHoldsOn
<1>2. QED
  BY <1>1, OrderHolds, PTL

(***************************************************************************)
(* What next_dom looks ahead to is a document of the collection that       *)
(* satisfies the query now and has not been delivered, although entries    *)
(* have gone in and out on all sides of the cursor since it was opened.    *)
(***************************************************************************)
THEOREM CursorDeliversOnce ==
  ASSUME NEW kindOf, KeepsSchema(kindOf), \A q \in Queries : BoundsOfKind(q, kindOf[q.field])
  PROVE  CursorSpec => []DeliversOnce
<1>1. SoundInOrder(kindOf) => DeliversOnce
  <2> SUFFICES ASSUME SoundInOrder(kindOf), Orderly, cursor.at # cursor.last
               PROVE  /\ cursor.at \notin cursor.seen
                      /\ cursor.at \in DOMAIN doc
                      /\ Satisfies(doc[cursor.at], cursor.query)
    BY DEF DeliversOnce
  <2> PICK es : es = Walked
    OBVIOUS
  <2>1. /\ es \in Seq(EntriesOf(Refs)) /\ Len(es) \in Nat /\ DOMAIN es = 1 .. Len(es)
        /\ Distinct(es)
        /\ \A p \in 1 .. Len(es) : es[p].ref \in DOMAIN doc
    BY OrderlyWalk
  <2>2. PICK a, l \in 1 .. Len(es) + 1 : WalksFrom(es, doc, cursor, a, l)
    BY OrderlyWalk
  <2>3. a <= l /\ a # l /\ cursor.at = IteratorTo(es, a)
    BY <2>2 DEF WalksFrom
  <2>4. a \in 1 .. Len(es) /\ cursor.at = es[a].ref /\ a \in a .. l - 1
    BY <2>1, <2>3 DEF IteratorTo
  <2>5. Satisfies(doc[cursor.at], cursor.query)
    BY <2>2, <2>4 DEF WalksFrom
  <2>6. cursor.at \notin cursor.seen
    BY <2>1, <2>2, SeenIsBehind
  <2>7. QED
    BY <2>1, <2>4, <2>5, <2>6
<1>2. QED
  BY <1>1, OrderHolds, PTL

(***************************************************************************)
(* A cursor that is at its end has delivered every document that matched   *)
(* when it was opened and ever since: none is passed over because other    *)
(* entries moved around it.                                                *)
(***************************************************************************)
THEOREM CursorDeliversAll ==
  ASSUME NEW kindOf, KeepsSchema(kindOf), \A q \in Queries : BoundsOfKind(q, kindOf[q.field])
  PROVE  CursorSpec => []DeliversAll
<1>1. SoundInOrder(kindOf) => DeliversAll
  <2> SUFFICES ASSUME SoundInOrder(kindOf), Orderly, cursor.at = cursor.last
               PROVE  cursor.owed = {}
    BY DEF DeliversAll
  <2> PICK es : es = Walked
    OBVIOUS
  <2>1. es \in Seq(EntriesOf(Refs)) /\ Distinct(es)
    BY OrderlyWalk
  <2>2. PICK a, l \in 1 .. Len(es) + 1 : WalksFrom(es, doc, cursor, a, l)
    BY OrderlyWalk
  <2>3. IteratorTo(es, a) = IteratorTo(es, l)
    BY <2>2 DEF WalksFrom
  <2>4. a = l
    BY <2>1, <2>3, IteratorsDiffer
  <2>5. a .. l - 1 = {}
    BY <2>4
  <2>6. QED
    BY <2>2, <2>5 DEF WalksFrom
<1>2. QED
  BY <1>1, OrderHolds, PTL
=============================================================================
