----------------------------- MODULE Collection -----------------------------
(***************************************************************************)
(* A collection of documents with its indices, its "_id" counter and the   *)
(* journal it writes to (src/cppsrc/collection.cpp).                       *)
(*                                                                         *)
(* The library runs on the caller's thread.  A call without a loop over    *)
(* documents is one action; drop, upsert and createIndex take a step for   *)
(* every document they touch, and `call` holds the call that is running.   *)
(***************************************************************************)
EXTENDS Indexing

CONSTANTS
  Operations,   \* the calls clients make
  IndexFields,  \* the fields createIndex and dropIndex are called with
  Overwriting,  \* the patches that allocate a block of the size of an index entry
  MaxIndices,   \* bound: indices a collection has at a time
  MaxJournal    \* bound: commands in the journal

ASSUME CollectionAssumption == IndexFields \subseteq Names

VARIABLES
  nodes,    \* std::list<DomNode*>: the order documents were appended in
  doc,      \* the document in each list node
  indices,  \* std::vector<Index>: a field and its multimap each
  id,       \* the next "_id" to give out
  jw,       \* JournalWriter::enabled
  journal,  \* the commands in the journal file
  asked,    \* history: whether the client last enabled or disabled journaling
  call,     \* the running call
  wild      \* undefined behaviour happened: freed memory or a stray iterator was used

vars == <<nodes, doc, indices, id, jw, journal, asked, call, wild>>

data == <<nodes, doc, indices, id>>

Idle == [op |-> "idle"]

Command(op) ==
  /\ op \in Operations
  /\ call = Idle
  /\ ~wild

\* The commands a call can still write before it returns, kept under the bound.
RoomInJournal(n) == jw => Len(journal) + n <= MaxJournal

Init ==
  /\ nodes = <<>>
  /\ doc = <<>>
  /\ indices = <<[field |-> Id, entries |-> <<>>]>>
  /\ id = 0
  /\ jw = FALSE
  /\ journal = <<>>
  /\ asked = FALSE
  /\ call = Idle
  /\ wild = FALSE
-----------------------------------------------------------------------------
FirstIndexOn(f) == FirstIndexIn(indices, f)

Plans(q) == PlansIn(indices, q)

\* Variant: nobody asks whether the queried field has an index.
WalkedIndexUnasked(q) == IF UsesIndex(q) THEN FirstIndexOn(q.field) ELSE 1

\* The index the plans of a query are stretches of.
WalkedIndex(q) ==
  IF UsesIndex(q) /\ FirstIndexOn(q.field) # 0 THEN FirstIndexOn(q.field) ELSE 1

FirstMatches(q) == FirstMatchesIn(indices, doc, q)

CanFindNone(q) == \E pl \in Plans(q) : ~GoesWild(doc, pl, q) /\ StopAt(doc, pl, q) = 0

CanGoWild(q) == \E pl \in Plans(q) : GoesWild(doc, pl, q)
-----------------------------------------------------------------------------
Journalled(command) == IF jw THEN Append(journal, command) ELSE journal

\* Variant: an "_id" equal to the counter does not push it.
NextIdPastCounter(d) ==
  IF Id \notin DOMAIN d THEN id + 1
  ELSE IF d[Id].n > id THEN d[Id].n + 1 ELSE id

NextId(d) ==
  IF Id \notin DOMAIN d THEN id + 1
  ELSE IF d[Id].n >= id THEN d[Id].n + 1 ELSE id

\* A list node and an "_id" for d within the bounds.
RoomFor(d) ==
  /\ Refs \ DOMAIN doc # {}
  /\ Accepted(d) => NextId(d) <= MaxId

\* Variant: the document goes to the journal before it has its "_id".
PushJournalFirst(d) ==
  \/ /\ ~Accepted(d)
     /\ UNCHANGED <<data, journal>>
  \/ /\ Accepted(d)
     /\ journal' = Journalled(AppendCommand(d))
     /\ \E r \in Refs \ DOMAIN doc :
          LET stored == Numbered(d, id)
          IN  /\ nodes' = Append(nodes, r)
              /\ doc' = With(doc, r, stored)
              /\ indices' \in InsertIndexEntries(indices, r, stored)
     /\ id' = NextId(d)

(***************************************************************************)
(* Collection::append: a value it rejects is reported on stdout only.      *)
(***************************************************************************)
PushDocument(d) ==
  \/ /\ ~Accepted(d)
     /\ UNCHANGED <<data, journal>>
  \/ /\ Accepted(d)
     /\ \E r \in Refs \ DOMAIN doc :
          LET stored == Numbered(d, id)
          IN  /\ nodes' = Append(nodes, r)
              /\ doc' = With(doc, r, stored)
              /\ indices' \in InsertIndexEntries(indices, r, stored)
              /\ journal' = Journalled(AppendCommand(stored))
     /\ id' = NextId(d)

AppendDocument(d) ==
  /\ Command("append")
  /\ RoomInJournal(1)
  /\ RoomFor(d)
  /\ PushDocument(d)
  /\ UNCHANGED <<jw, asked, call, wild>>

(***************************************************************************)
(* update merges into the first match and into no other; without a match   *)
(* and on a malformed query it changes nothing.  Its iterator stays at an  *)
(* entry it has erased: the list node it reads there is the right one as   *)
(* long as no new block has taken the place of the entry.                  *)
(***************************************************************************)
UpdateDocument(q, patch) ==
  /\ Command("update")
  /\ patch # NotAnObject
  /\ RoomInJournal(1)
  /\ \E r \in FirstMatches(q) :
       /\ doc' = [doc EXCEPT ![r] = Merged(@, patch)]
       /\ \E cleared \in RemoveIndexEntries(indices, r, doc[r]) :
            indices' \in InsertIndexEntries(cleared, r, Merged(doc[r], patch))
  /\ journal' = Journalled(UpdateCommand(q, patch))
  /\ UNCHANGED <<nodes, id, jw, asked, call, wild>>

\* merge_docs throws when the entries of the document are gone already.
UpdateThrows(q) ==
  /\ Command("update")
  /\ NotAnObject \in Patches
  /\ \E r \in FirstMatches(q) : indices' \in RemoveIndexEntries(indices, r, doc[r])
  /\ UNCHANGED <<nodes, doc, id, jw, journal, asked, call, wild>>

Update(q, patch) == IF patch = NotAnObject THEN UpdateThrows(q) ELSE UpdateDocument(q, patch)

UpdateGoesWild(q) ==
  /\ Command("update")
  /\ \/ CanGoWild(q)
     \/ Overwriting # {} /\ FirstMatches(q) # {}
  /\ wild' = TRUE
  /\ UNCHANGED <<data, jw, journal, asked, call>>
-----------------------------------------------------------------------------
\* Variant: the flag is saved after it has been cleared.
StartDropSavesLate(q, limit, replacement) ==
  /\ jw' = FALSE
  /\ call' = [op |-> "drop", query |-> q, limit |-> limit, ret |-> 0,
              jwenabled |-> FALSE, replacement |-> replacement, before |-> doc]
  /\ UNCHANGED <<data, journal, asked, wild>>

(***************************************************************************)
(* drop switches the journal off, removes the first match of a new cursor  *)
(* until the limit is reached or nothing is left, restores the journal and *)
(* records itself.  upsert is a drop of one document and then an append.   *)
(***************************************************************************)
StartDrop(q, limit, replacement) ==
  /\ jw' = FALSE
  /\ call' = [op |-> "drop", query |-> q, limit |-> limit, ret |-> 0,
              jwenabled |-> jw, replacement |-> replacement, before |-> doc]
  /\ UNCHANGED <<data, journal, asked, wild>>

Drop(q, limit) ==
  /\ Command("drop")
  /\ RoomInJournal(1)
  /\ StartDrop(q, limit, <<>>)

Upsert(q, d) ==
  /\ Command("upsert")
  /\ RoomInJournal(2)
  /\ RoomFor(d)
  /\ StartDrop(q, DefaultLimit, <<d>>)

Dropping == call.op = "drop" /\ ~wild

\* Variant: one document more than the limit.
LooksPastLimit == call.ret <= call.limit /\ nodes # <<>>

LooksForNext == call.ret < call.limit /\ nodes # <<>>

\* Variant: the document is freed and its list node stays.
DropOneKeepsNode ==
  /\ Dropping
  /\ LooksForNext
  /\ \E r \in FirstMatches(call.query) :
       /\ indices' \in RemoveIndexEntries(indices, r, doc[r])
       /\ doc' = Without(doc, r)
  /\ call' = [call EXCEPT !.ret = @ + 1]
  /\ UNCHANGED <<nodes, id, jw, journal, asked, wild>>

DropOne ==
  /\ Dropping
  /\ LooksForNext
  /\ \E r \in FirstMatches(call.query) :
       /\ indices' \in RemoveIndexEntries(indices, r, doc[r])
       /\ doc' = Without(doc, r)
       /\ nodes' = RemoveAt(nodes, CHOOSE p \in DOMAIN nodes : nodes[p] = r)
  /\ call' = [call EXCEPT !.ret = @ + 1]
  /\ UNCHANGED <<id, jw, journal, asked, wild>>

DropReturns ==
  /\ Dropping
  /\ LooksForNext => CanFindNone(call.query)
  /\ jw' = call.jwenabled
  /\ journal' = IF call.jwenabled
                THEN Append(journal, DropCommand(call.query, call.limit))
                ELSE journal
  /\ call' = IF call.replacement = <<>> THEN Idle
             ELSE [op |-> "append", document |-> call.replacement[1]]
  /\ UNCHANGED <<data, asked, wild>>

\* The parse_error of a malformed query leaves drop, and with it upsert, at once.
DropThrows ==
  /\ Dropping
  /\ LooksForNext
  /\ Malformed(call.query)
  /\ call' = Idle
  /\ UNCHANGED <<data, jw, journal, asked, wild>>

DropGoesWild ==
  /\ Dropping
  /\ LooksForNext
  /\ CanGoWild(call.query)
  /\ wild' = TRUE
  /\ UNCHANGED <<data, jw, journal, asked, call>>

UpsertAppends ==
  /\ call.op = "append"
  /\ PushDocument(call.document)
  /\ call' = Idle
  /\ UNCHANGED <<jw, asked, wild>>
-----------------------------------------------------------------------------
CreateIndex(f) ==
  /\ Command("createIndex")
  /\ Len(indices) < MaxIndices
  /\ indices' = Append(indices, [field |-> f, entries |-> <<>>])
  /\ call' = [op |-> "createIndex", at |-> 1]
  /\ UNCHANGED <<nodes, doc, id, jw, journal, asked, wild>>

\* The new index, the last one, takes the next document of the list.
IndexNode ==
  /\ call.op = "createIndex"
  /\ call.at <= Len(nodes)
  /\ LET last == Len(indices)
         r == nodes[call.at]
     IN  \E ix \in WithEntry(indices[last], r, doc[r]) :
           indices' = [indices EXCEPT ![last] = ix]
  /\ call' = [call EXCEPT !.at = @ + 1]
  /\ UNCHANGED <<nodes, doc, id, jw, journal, asked, wild>>

\* Variant: createIndex is over at the last document instead of behind it.
CreateIndexReturnsAtLast ==
  /\ call.op = "createIndex"
  /\ call.at = Len(nodes)
  /\ call' = Idle
  /\ UNCHANGED <<data, jw, journal, asked, wild>>

CreateIndexReturns ==
  /\ call.op = "createIndex"
  /\ call.at > Len(nodes)
  /\ call' = Idle
  /\ UNCHANGED <<data, jw, journal, asked, wild>>

DropIndex(f) ==
  /\ Command("dropIndex")
  /\ FirstIndexOn(f) # 0
  /\ indices' = RemoveAt(indices, FirstIndexOn(f))
  /\ UNCHANGED <<nodes, doc, id, jw, journal, asked, call, wild>>

\* Variant: the list keeps its nodes.
ClearKeepsNodes ==
  /\ Command("clear")
  /\ doc' = <<>>
  /\ indices' = [i \in DOMAIN indices |-> [indices[i] EXCEPT !.entries = <<>>]]
  /\ UNCHANGED <<nodes, id, jw, journal, asked, call, wild>>

\* clear keeps the counter and the journal as they are.
Clear ==
  /\ Command("clear")
  /\ nodes' = <<>>
  /\ doc' = <<>>
  /\ indices' = [i \in DOMAIN indices |-> [indices[i] EXCEPT !.entries = <<>>]]
  /\ UNCHANGED <<id, jw, journal, asked, call, wild>>

EnableJournal ==
  /\ Command("enableJournal")
  /\ jw' = TRUE
  /\ asked' = TRUE
  /\ UNCHANGED <<data, journal, call, wild>>

DisableJournal ==
  /\ Command("disableJournal")
  /\ jw' = FALSE
  /\ asked' = FALSE
  /\ UNCHANGED <<data, journal, call, wild>>
-----------------------------------------------------------------------------
ClientCalls ==
  \/ \E d \in Inputs : AppendDocument(d)
  \/ \E q \in Queries, patch \in Patches : Update(q, patch)
  \/ \E q \in Queries : UpdateGoesWild(q)
  \/ \E q \in Queries, limit \in Limits : Drop(q, limit)
  \/ \E q \in Queries, d \in Inputs : Upsert(q, d)
  \/ \E f \in IndexFields : CreateIndex(f)
  \/ \E f \in IndexFields : DropIndex(f)
  \/ Clear
  \/ EnableJournal
  \/ DisableJournal

CallSteps ==
  \/ DropOne
  \/ DropReturns
  \/ DropThrows
  \/ DropGoesWild
  \/ UpsertAppends
  \/ IndexNode
  \/ CreateIndexReturns

Next == ClientCalls \/ CallSteps

Spec == Init /\ [][Next]_vars

\* A call runs to its end on the caller's thread; clients need never call again.
FairSpec == Spec /\ WF_vars(CallSteps)
-----------------------------------------------------------------------------
NodeSet == {nodes[p] : p \in DOMAIN nodes}

IsCall(c) ==
  \/ c = Idle
  \/ c \in [op : {"createIndex"}, at : Nat \ {0}]
  \/ c \in [op : {"append"}, document : Inputs]
  \/ /\ c.op = "drop"
     /\ c \in [op : {"drop"}, query : Queries, limit : Nat, ret : Nat, jwenabled : BOOLEAN,
               replacement : {<<>>} \cup {<<d>> : d \in Inputs}, before : {c.before}]
     /\ IsStore(c.before)

TypeOK ==
  /\ nodes \in Seq(Refs)
  /\ IsStore(doc)
  /\ indices \in Seq(IndexRecords)
  /\ id \in Nat
  /\ jw \in BOOLEAN
  /\ asked \in BOOLEAN
  /\ IsCall(call)
  /\ wild \in BOOLEAN
-----------------------------------------------------------------------------
\* The documents index i answers for: createIndex has yet to reach the later ones.
Covered(i) ==
  IF call.op = "createIndex" /\ i = Len(indices)
  THEN {nodes[p] : p \in 1 .. call.at - 1}
  ELSE DOMAIN doc

(***************************************************************************)
(* The list holds every document, each in one node of its own: no call     *)
(* leaves a freed document in the list or loses one from it.               *)
(***************************************************************************)
NodesAreDocuments ==
  /\ NodeSet = DOMAIN doc
  /\ \A p, q \in DOMAIN nodes : nodes[p] = nodes[q] => p = q

(***************************************************************************)
(* Every index holds exactly the documents with its field, each once and   *)
(* under the value the document has now, in order.  remove_index_entries   *)
(* looks an entry up by the old value before update and drop touch the     *)
(* document; were it to miss one, the entry would outlive its document.    *)
(***************************************************************************)
IndexCoherent ==
  \A i \in DOMAIN indices :
    Coherent(indices[i].entries, indices[i].field, [r \in Covered(i) |-> doc[r]])

(***************************************************************************)
(* An index makes a query faster and changes nothing else: whatever plan   *)
(* parse_query makes of a query, a cursor that walks it delivers each      *)
(* document that satisfies the query once, and no other document.          *)
(***************************************************************************)
IndexTransparent ==
  call.op # "createIndex" =>
    \A q \in Queries : \A pl \in Plans(q) :
      /\ ~GoesWild(doc, pl, q)
      /\ {pl.entries[p].ref : p \in {x \in Walk(pl) : Hit(doc, pl, q, x)}}
           = {r \in DOMAIN doc : Satisfies(doc[r], q)}
      /\ \A p1, p2 \in Walk(pl) : pl.entries[p1].ref = pl.entries[p2].ref => p1 = p2

(***************************************************************************)
(* The counter is ahead of every "_id" in the collection, those clients    *)
(* brought along included, so the "_id" append gives out next is new.      *)
(***************************************************************************)
IdsBelowCounter ==
  \A r \in DOMAIN doc :
    Id \in DOMAIN doc[r] /\ (doc[r][Id].type = "uint" => doc[r][Id].n < id)

(***************************************************************************)
(* No sequence of calls reaches freed memory or walks off an index: update *)
(* and drop stay with documents and entries that exist.                    *)
(***************************************************************************)
StaysDefined == ~wild

(***************************************************************************)
(* Between calls the journal is on exactly when the client last turned it  *)
(* on: drop switches it off only for its own duration.                     *)
(***************************************************************************)
JournalAsAsked == call = Idle => jw = asked

(***************************************************************************)
(* Every call that has begun returns, unless it reads what it must not:    *)
(* drop's loop ends, whatever the limit and the query, and createIndex     *)
(* reaches the end of the list.                                            *)
(***************************************************************************)
CallsReturn == call # Idle ~> call = Idle \/ wild

(***************************************************************************)
(* The collection is the plain store of DocStore: a drop takes effect at   *)
(* its return, all other calls in the step that changes the documents.     *)
(* What DocStore promises of update, upsert and clear is what the code     *)
(* does; the three properties below are what the documentation says.       *)
(***************************************************************************)
Abstract == INSTANCE DocStore WITH
  store <- IF call.op = "drop" THEN call.before ELSE doc,
  logging <- asked,
  log <- journal

RefinesDocStore == Abstract!Spec

(***************************************************************************)
(* update merges into every document that matches the query                *)
(* (docs/overview.md).  The loop of Collection::update breaks after one.   *)
(***************************************************************************)
UpdateChangesEveryMatch ==
  [][\A q \in Queries, patch \in Patches :
       UpdateDocument(q, patch) =>
         \A r \in DOMAIN doc : Satisfies(doc[r], q) => doc'[r] = Merged(doc[r], patch)]_vars
=============================================================================
