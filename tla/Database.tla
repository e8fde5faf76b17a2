------------------------------ MODULE Database ------------------------------
(***************************************************************************)
(* A process with a database, the files it leaves behind when it dies, and *)
(* the process that comes after it (src/cppsrc/database.cpp and journal.h).*)
(*                                                                         *)
(* A process starts as docs/overview.md says: load, enableJournal,         *)
(* consolidate.  Then its client makes calls.  A call is a sequence of     *)
(* changes; a change alters the memory first and then writes its line.     *)
(***************************************************************************)
EXTENDS Persistence

CONSTANTS
  Collections,  \* the names of collections clients use
  Keys,         \* the keys of key-value pairs
  KeyValues,    \* the values of key-value pairs
  IndexFields,  \* the fields createIndex is called with
  Operations,   \* the calls clients make
  Faults,       \* the faults that happen: crashes "saving", "short" writes of the data file,
                \* "torn" lines, lines "unwritten"; "again" lets a save fail that comes after
                \* another fault
  MaxJournal,   \* bound: lines in the journal
  MaxDocuments, \* bound: documents in a collection
  MaxCrashes    \* bound: crashes

\* A value a file and a line of the journal give back, and replay compares as before.
PlainValue(v) ==
  /\ v \in Values
  /\ v.type \in NumericTypes \cup {"string", "null"}
  /\ v.type = "null" => v.n = 0
  /\ v.type = "int" => v.n < MaxExact

\* What clients bring leaves the "_id" to the collection.
PlainMembers(d) == Id \notin DOMAIN d /\ \A x \in DOMAIN d : PlainValue(d[x])

\* Every field that can have an index holds values of one kind.
KindsAgree(kinds) ==
  /\ kinds[Id] = "number"
  /\ \A d \in (Inputs \ {NotAnObject}) \cup Patches :
       \A f \in IndexFields \cap DOMAIN d : Kind(d[f]) = kinds[f]
  /\ \A q \in Queries : q.field \in DOMAIN kinds => BoundsInOrder(q, kinds[q.field])

(***************************************************************************)
(* Nodes of a list are numbers, and no document is a scalar. Clients leave *)
(* the collection of the pairs and the "_id"s to the database, write what  *)
(* JSON gives back, and keep to one kind of value in every field that can  *)
(* have an index.  The order in which members are written has every name   *)
(* once, and an "_id" is exact as a double.                                *)
(***************************************************************************)
ASSUME DatabaseAssumption ==
  /\ Refs = Nat
  /\ Kv \notin Collections
  /\ NotAnObject \notin Patches
  /\ \A names \in SUBSET Names : NotAnObject \notin [names -> Values]
  /\ \A d \in (Inputs \ {NotAnObject}) \cup Patches : PlainMembers(d)
  /\ \E kinds \in [IndexFields \cup {Id} -> {"number", "string", "other"}] : KindsAgree(kinds)
  /\ IndexFields \subseteq Names
  /\ {"k", "v"} \subseteq Fields
  /\ \A key \in Keys : PlainValue(key) /\ key.type = "string"
  /\ \A value \in KeyValues : PlainValue(value)
  /\ NameOrder \in Seq(Range(NameOrder)) /\ IsInjective(NameOrder) /\ Names \subseteq Range(NameOrder)
  /\ MaxJournal \in Nat
  /\ MaxCrashes \in Nat
  /\ MaxId <= MaxExact

VARIABLES
  db,         \* the collections in memory
  jw,         \* JournalWriter::enabled
  prior,      \* what consolidate found jw to be
  snapshot,   \* the data file
  journal,    \* the lines of the journal file
  pc,         \* what the process is doing
  changes,    \* the changes of the running call that are still to be made
  line,       \* the line of a change that is made and still to be written: none or one
  committed,  \* history: the content of memory when the files last caught up with it
  excuses,    \* history: why the files need not give the committed content
  crashes     \* history: the number of crashes

vars == <<db, jw, prior, snapshot, journal, pc, changes, line, committed, excuses, crashes>>

memory == <<db, jw, prior>>

files == <<snapshot, journal>>

history == <<committed, excuses, crashes>>

Init ==
  /\ db = EmptyDatabase
  /\ jw = FALSE
  /\ prior = FALSE
  /\ snapshot = <<>>
  /\ journal = <<>>
  /\ pc = "down"
  /\ changes = <<>>
  /\ line = <<>>
  /\ committed = Content(EmptyDatabase)
  /\ excuses = {}
  /\ crashes = 0
-----------------------------------------------------------------------------
(***************************************************************************)
(* Starting.  The position in the journal is the one of the next line.     *)
(***************************************************************************)
LoadSnapshot ==
  /\ pc = "down"
  /\ \E read \in {Load(snapshot)} :
       /\ db' = read.db
       /\ pc' = IF read.hangs THEN "hung" ELSE "loaded"
  /\ UNCHANGED <<jw, prior, files, changes, line, history>>

EnableJournal ==
  /\ pc = "loaded"
  /\ jw' = TRUE
  /\ pc' = "journalling"
  /\ UNCHANGED <<db, prior, files, changes, line, history>>

Consolidate ==
  /\ pc = "journalling"
  /\ prior' = jw
  /\ jw' = FALSE
  /\ pc' = "replaying"
  /\ changes' = journal
  /\ UNCHANGED <<db, files, line, history>>

Replaying == pc = "replaying" /\ changes # <<>>

ReplayLine ==
  /\ Replaying
  /\ ~ExecuteThrows(db, Head(changes))
  /\ db' = Execute(db, Head(changes))
  /\ journal' = IF jw THEN Append(journal, Head(changes)) ELSE journal
  /\ changes' = Tail(changes)
  /\ UNCHANGED <<jw, prior, snapshot, pc, line, history>>

\* The exception leaves consolidate: journaling stays off and nothing is saved.
ReplayThrows ==
  /\ Replaying
  /\ ExecuteThrows(db, Head(changes))
  /\ pc' = "failed"
  /\ UNCHANGED <<memory, files, changes, line, history>>

ReplayEnds ==
  /\ pc = "replaying"
  /\ changes = <<>>
  /\ jw' = prior
  /\ pc' = "saving"
  /\ UNCHANGED <<db, prior, files, changes, line, history>>
-----------------------------------------------------------------------------
(***************************************************************************)
(* save: open the data file, which empties it, write it, and then empty    *)
(* the journal if it is on.                                                *)
(***************************************************************************)
Save ==
  /\ "save" \in Operations
  /\ pc = "ready" /\ changes = <<>> /\ line = <<>>
  /\ pc' = "saving"
  /\ UNCHANGED <<memory, files, changes, line, history>>

SaveOpens ==
  /\ pc = "saving"
  /\ snapshot' = <<>>
  /\ pc' = "writing"
  /\ UNCHANGED <<memory, journal, changes, line, history>>

\* The data file cannot be opened: save returns an error, which consolidate ignores.
SaveFails ==
  /\ pc = "saving"
  /\ pc' = "ready"
  /\ UNCHANGED <<memory, files, changes, line, history>>

SaveWrites ==
  /\ pc = "writing"
  /\ snapshot' = Image(db)
  /\ pc' = "written"
  /\ excuses' = excuses \ {"cut"}
  /\ UNCHANGED <<memory, journal, changes, line, committed, crashes>>

\* Bound: unless they may come "again", no fault strikes a save with a reason on record.
Strikes(fault) == fault \in Faults /\ (excuses = {} \/ "again" \in Faults)

\* The disk is full: save never asks the stream and goes on to empty the journal.
SaveFallsShort ==
  /\ Strikes("short")
  /\ pc = "writing"
  /\ \E n \in 0 .. Len(Image(db)) - 1 : snapshot' = SubSeq(Image(db), 1, n)
  /\ pc' = "written"
  /\ excuses' = excuses \cup {"cut"}
  /\ UNCHANGED <<memory, journal, changes, line, committed, crashes>>

\* Variant: the journal is left as it is.
SaveKeepsJournal ==
  /\ pc = "written"
  /\ pc' = "ready"
  /\ UNCHANGED <<memory, files, changes, line, history>>

SaveEmptiesJournal ==
  /\ pc = "written"
  /\ journal' = IF jw THEN <<>> ELSE journal
  /\ committed' = IF jw /\ excuses # {} THEN Content(db) ELSE committed
  /\ excuses' = IF jw THEN excuses \cap {"lost", "cut"}
                ELSE IF journal = <<>> THEN excuses ELSE excuses \cup {"unemptied"}
  /\ pc' = "ready"
  /\ UNCHANGED <<memory, snapshot, changes, line, crashes>>
-----------------------------------------------------------------------------
(***************************************************************************)
(* The changes calls are made of.                                          *)
(***************************************************************************)
Idle == pc = "ready" /\ changes = <<>> /\ line = <<>>

Appending(name, d) == [cmd |-> "append", on |-> name, document |-> d]

Updating(name, q, patch) == [cmd |-> "update", on |-> name, query |-> q, document |-> patch]

Dropping(name, q, limit) == [cmd |-> "drop", on |-> name, query |-> q, limit |-> limit]

DroppingCollection(name) == [cmd |-> "dropCollection", on |-> name]

\* Bound: with an excuse the client makes no other call than save.
Call(op, made) ==
  /\ op \in Operations
  /\ Idle
  /\ excuses = {}
  /\ Len(journal) + Len(made) <= MaxJournal
  /\ \A i \in DOMAIN made :
       made[i].cmd = "append" =>
         LET t == TableOf(db, made[i].on)
         IN  Cardinality(DOMAIN t.docs) < MaxDocuments /\ t.id < MaxId
  /\ changes' = made
  /\ UNCHANGED <<memory, files, pc, line, history>>

AppendDocument(name, d) == Call("append", <<Appending(name, d)>>)

UpdateDocument(name, q, patch) == Call("update", <<Updating(name, q, patch)>>)

DropDocuments(name, q, limit) == Call("drop", <<Dropping(name, q, limit)>>)

\* Collection::upsert
Upsert(name, q, d) ==
  Call("upsert", <<Dropping(name, q, DefaultLimit), Appending(name, d)>>)

DropCollection(name) == Call("dropCollection", <<DroppingCollection(name)>>)

Pair(key, value) == [x \in {"k", "v"} |-> IF x = "k" THEN key ELSE value]

KeyQuery(key) == [op |-> "eq", field |-> "k", v |-> key, hi |-> key]

\* Variant: the old pair stays, as it does for the setValue command of execute.
SetValueByCommand(key, value) == Call("setValue", <<Appending(Kv, Pair(key, value))>>)

\* set_int_value and its kin drop with the limit UINT32_MAX, which is -1 as an int.
SetValue(key, value) ==
  Call("setValue", <<Dropping(Kv, KeyQuery(key), 2 * IntHalf - 1),
                     Appending(Kv, Pair(key, value))>>)

\* createIndex is never written to the journal, nor is the collection it creates.
CreateIndex(name, f) ==
  /\ "createIndex" \in Operations
  /\ Idle
  /\ excuses = {}
  /\ FirstIndexIn(TableOf(db, name).indices, f) = 0
  /\ db' = WithTable(db, name, TableCreateIndex(TableOf(db, name), f))
  /\ UNCHANGED <<jw, prior, files, pc, changes, line, history>>
-----------------------------------------------------------------------------
(***************************************************************************)
(* Which lines replay to the same effect.  Replay has no index but those   *)
(* on "_id" and of the key-value pairs, so a change that takes some of the *)
(* documents that match must not have been led to them by another one; and *)
(* a limit is read back as an int, of which none below one is a limit.     *)
(***************************************************************************)
SameOrder(name, t, q) ==
  LET i == FirstIndexIn(t.indices, q.field)
  IN  name = Kv \/ i <= 1 \/ ~UsesIndex(q)

ReplaysAlike(change, t) ==
  LET n == Cardinality(Matching(t, change.query))
  IN  CASE change.cmd = "update" -> n <= 1 \/ SameOrder(change.on, t, change.query)
        [] change.cmd = "drop" ->
             LET taken == Taken(change.limit, n)
             IN  /\ taken = Taken(LimitRead(AsInt(change.limit), t), n)
                 /\ taken \in {0, n} \/ SameOrder(change.on, t, change.query)
                 /\ Malformed(change.query) => t.nodes = <<>>
        [] OTHER -> TRUE

Excused(change, t) == IF ReplaysAlike(change, t) THEN {} ELSE {"diverges"}

\* Variant: the document is written as the client brought it, without its "_id".
LineUnnumbered(change) ==
  CASE change.cmd = "append" -> Line(change.on, AppendCommand(AsText(change.document)))
    [] change.cmd = "update" ->
         Line(change.on, UpdateCommand(change.query, AsText(change.document)))
    [] change.cmd = "drop" -> Line(change.on, DropCommand(change.query, change.limit))
    [] change.cmd = "dropCollection" -> change

LineOf(change) ==
  LET t == TableOf(db, change.on)
  IN  CASE change.cmd = "append" ->
             Line(change.on, AppendCommand(AsText(Numbered(change.document, t.id))))
        [] change.cmd = "update" ->
             Line(change.on, UpdateCommand(change.query, AsText(change.document)))
        [] change.cmd = "drop" -> Line(change.on, DropCommand(change.query, change.limit))
        [] change.cmd = "dropCollection" -> change

\* Nothing to be written: append rejects, update finds nothing, there is no collection.
LeavesNoTrace(change) ==
  LET t == TableOf(db, change.on)
  IN  CASE change.cmd = "append" -> ~Accepted(change.document)
        [] change.cmd = "update" -> FirstMatchIn(t, change.query) = {}
        [] change.cmd = "drop" -> FALSE
        [] change.cmd = "dropCollection" -> ~HasCollection(db, change.on)

Applied(change) ==
  LET t == TableOf(db, change.on)
  IN  CASE change.cmd = "append" -> WithTable(db, change.on, TableAppend(t, change.document))
        [] change.cmd = "update" ->
             WithTable(db, change.on, TableUpdate(t, change.query, change.document))
        [] change.cmd = "drop" ->
             WithTable(db, change.on, TableDrop(t, change.query, change.limit))
        [] change.cmd = "dropCollection" -> DropCollectionFrom(db, change.on)

\* The parse_error of a query: update parses first, drop once it has something to drop.
ChangeThrows(change) ==
  \/ change.cmd = "update" /\ Malformed(change.query)
  \/ change.cmd = "drop" /\ DropThrowsOn(TableOf(db, change.on), change.query, change.limit)

Changing == pc = "ready" /\ changes # <<>> /\ line = <<>>

MakeChange ==
  /\ Changing
  /\ ~ChangeThrows(Head(changes))
  /\ db' = Applied(Head(changes))
  /\ changes' = Tail(changes)
  /\ LET trace == jw /\ ~LeavesNoTrace(Head(changes))
         t == TableOf(db, Head(changes).on)
     IN  /\ line' = IF trace THEN <<LineOf(Head(changes))>> ELSE <<>>
         /\ excuses' = excuses \cup
              (IF trace \/ LeavesNoTrace(Head(changes)) THEN Excused(Head(changes), t)
               ELSE {"unwritten"})
  /\ UNCHANGED <<jw, prior, files, pc, committed, crashes>>

\* Variant: a drop is written to the journal although it throws.
ChangeFailsRecorded ==
  /\ Changing
  /\ ChangeThrows(Head(changes))
  /\ line' = IF jw THEN <<LineOf(Head(changes))>> ELSE <<>>
  /\ changes' = <<>>
  /\ UNCHANGED <<memory, files, pc, history>>

\* The call is over; a drop that throws leaves the journal switched off.
ChangeFails ==
  /\ Changing
  /\ ChangeThrows(Head(changes))
  /\ jw' = IF Head(changes).cmd = "drop" THEN FALSE ELSE jw
  /\ changes' = <<>>
  /\ UNCHANGED <<db, prior, files, pc, line, history>>

WriteLine ==
  /\ line # <<>>
  /\ journal' = journal \o line
  /\ line' = <<>>
  /\ committed' = Content(db)
  /\ UNCHANGED <<memory, snapshot, pc, changes, excuses, crashes>>

\* The journal cannot be opened: a message on stdout, and the change stays in memory.
LineIsLost ==
  /\ "unwritten" \in Faults
  /\ line # <<>>
  /\ line' = <<>>
  /\ excuses' = excuses \cup {"unwritten"}
  /\ UNCHANGED <<memory, files, pc, changes, committed, crashes>>
-----------------------------------------------------------------------------
(***************************************************************************)
(* The process dies.  Of a file that is being written any beginning can be *)
(* on the disk.  With a reason for the files not to give back what is      *)
(* committed, that is lost from here on, and the reasons stay on record.   *)
(***************************************************************************)
Dies ==
  /\ pc # "down"
  /\ crashes < MaxCrashes
  /\ crashes' = crashes + 1
  /\ pc' = "down"
  /\ db' = EmptyDatabase
  /\ jw' = FALSE
  /\ prior' = FALSE
  /\ changes' = <<>>
  /\ line' = <<>>
  /\ UNCHANGED committed

Died(reasons) == IF reasons = {} THEN {} ELSE reasons \cup {"lost"}

Crash ==
  /\ Dies
  /\ pc \notin {"writing", "written"}
  /\ excuses' = Died(excuses)
  /\ UNCHANGED files

CrashSaving ==
  /\ Strikes("saving")
  /\ Dies
  /\ \/ /\ pc = "writing"
        /\ \E n \in 0 .. Len(Image(db)) : snapshot' = SubSeq(Image(db), 1, n)
        /\ excuses' = Died(excuses \cup {"cut"})
     \/ /\ pc = "written"
        /\ excuses' = Died(IF journal = <<>> THEN excuses ELSE excuses \cup {"repeated"})
        /\ UNCHANGED snapshot
  /\ UNCHANGED journal

CrashWritingLine ==
  /\ "torn" \in Faults
  /\ Dies
  /\ line # <<>>
  /\ journal' = Append(journal, Torn)
  /\ excuses' = Died(excuses \cup {"torn"})
  /\ UNCHANGED snapshot
-----------------------------------------------------------------------------
Calls ==
  \/ \E name \in Collections, d \in Inputs : AppendDocument(name, d)
  \/ \E name \in Collections, q \in Queries, patch \in Patches : UpdateDocument(name, q, patch)
  \/ \E name \in Collections, q \in Queries, limit \in Limits : DropDocuments(name, q, limit)
  \/ \E name \in Collections, q \in Queries, d \in Inputs : Upsert(name, q, d)
  \/ \E name \in Collections : DropCollection(name)
  \/ \E name \in Collections, f \in IndexFields : CreateIndex(name, f)
  \/ \E key \in Keys, value \in KeyValues : SetValue(key, value)
  \/ Save

Steps ==
  \/ LoadSnapshot
  \/ EnableJournal
  \/ Consolidate
  \/ ReplayLine
  \/ ReplayThrows
  \/ ReplayEnds
  \/ SaveOpens
  \/ SaveFails
  \/ SaveWrites
  \/ SaveFallsShort
  \/ SaveEmptiesJournal
  \/ MakeChange
  \/ ChangeFails
  \/ WriteLine
  \/ LineIsLost

Next == Calls \/ Steps \/ Crash \/ CrashSaving \/ CrashWritingLine

\* Where a step can be taken: a process that is down is started again, a call goes on.
Running ==
  \/ pc \in {"down", "loaded", "journalling", "replaying", "saving", "writing", "written"}
  \/ pc = "ready" /\ (changes # <<>> \/ line # <<>>)

(***************************************************************************)
(* WF_vars(Steps) with Running for ENABLED Steps, which TLC would have to  *)
(* evaluate the loading and replaying of files for.                        *)
(***************************************************************************)
Fairness == []<>~Running \/ []<><<Steps>>_vars

Spec == Init /\ [][Next]_vars /\ Fairness
-----------------------------------------------------------------------------
Places ==
  {"down", "hung", "loaded", "journalling", "replaying", "failed", "saving", "writing",
   "written", "ready"}

Reasons == {"cut", "repeated", "torn", "unwritten", "unemptied", "diverges"}

TypeOK ==
  /\ \A i \in DOMAIN db : /\ db[i].name \in Collections \cup {Kv}
                          /\ IsInjective(db[i].table.nodes)
                          /\ Range(db[i].table.nodes) = DOMAIN db[i].table.docs
  /\ db[1].name = Kv
  /\ jw \in BOOLEAN /\ prior \in BOOLEAN
  /\ pc \in Places
  /\ Len(journal) <= MaxJournal
  /\ Len(line) <= 1
  /\ excuses \subseteq Reasons \cup {"lost"}
  /\ crashes \in 0 .. MaxCrashes

Saving == pc \in {"writing", "written"}

(***************************************************************************)
(* Whenever the process may die, outside of save, the files give back      *)
(* every change that is recorded: the snapshot with the journal replayed   *)
(* over it has the documents memory had at the last line, in their order.  *)
(***************************************************************************)
FilesHoldCommitted ==
  ~Saving /\ excuses = {} => Content(Recovered(snapshot, journal)) = committed

(***************************************************************************)
(* A client between two calls sees exactly what is recorded, in its first  *)
(* life and after every restart: consolidate neither loses nor repeats a   *)
(* line, and no call returns with a change that is not in the journal.     *)
(***************************************************************************)
ClientSeesCommitted == Idle /\ excuses = {} => Content(db) = committed

(***************************************************************************)
(* A key has one value: set_int_value and its kin replace, in memory and   *)
(* by replay, in which the drop of the old pair has lost its limit.        *)
(***************************************************************************)
KeysAreUnique ==
  Idle /\ excuses = {} =>
    LET kv == TableOf(db, Kv)
    IN  \A key \in Keys : Cardinality(Matching(kv, KeyQuery(key))) <= 1

(***************************************************************************)
(* A data file that save has not finished loads as the collections and     *)
(* documents up to some point, in their order, with at most the last one   *)
(* of them damaged - or hangs load, when it ends at a name.                *)
(***************************************************************************)
Documents(d) == FlattenSeq([i \in DOMAIN d |->
  [p \in DOMAIN d[i].table.nodes |-> d[i].table.docs[d[i].table.nodes[p]]]])

TornFileIsBeginning ==
  pc = "writing" /\ excuses = {} =>
    \A n \in 0 .. Len(Image(db)) :
      LET loaded == Documents(Load(SubSeq(Image(db), 1, n)).db)
      IN  /\ Len(loaded) <= Len(Documents(db))
          /\ \A p \in 1 .. Len(loaded) - 1 : loaded[p] = Documents(db)[p]

(***************************************************************************)
(* A process that is started becomes ready for its client, whatever its    *)
(* predecessor was doing when it died, unless one of the excuses holds.    *)
(***************************************************************************)
Recovers == pc = "down" ~> (pc = "ready" \/ excuses # {})

(***************************************************************************)
(* A process hangs in load only if the data file was cut short, by a crash *)
(* or a full disk, and has not been written whole since; and it fails in   *)
(* consolidate only for a reason on record: whatever else clients and      *)
(* crashes do, the data file ends as it should and no line of the journal  *)
(* throws when it is replayed.                                             *)
(***************************************************************************)
StartsFailForAReason ==
  /\ pc = "hung" => "cut" \in excuses
  /\ pc = "failed" => excuses \cap Reasons # {}

(***************************************************************************)
(* A replay gives back what was recorded, whichever indices and limits the *)
(* client used: no excuse for changes that "diverge".                      *)
(***************************************************************************)
ReplayGivesBack ==
  ~Saving /\ excuses \subseteq {"diverges"} =>
    Content(Recovered(snapshot, journal)) = committed
=============================================================================
