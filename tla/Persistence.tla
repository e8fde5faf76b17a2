---------------------------- MODULE Persistence -----------------------------
(***************************************************************************)
(* The two files of a database: the snapshot that save writes and load     *)
(* reads, and the journal whose lines execute replays                      *)
(* (src/cppsrc/database.cpp).                                              *)
(*                                                                         *)
(* A database is the sequence of its collections [name, table], the one of *)
(* the key-value pairs first.                                              *)
(***************************************************************************)
EXTENDS Tables, NotBson

Kv == "__SpinoKeyValueStore__"

EmptyDatabase == <<[name |-> Kv, table |-> NewTable(<<"k">>)]>>

Position(db, name) == SelectInSeq(db, LAMBDA c : c.name = name)

HasCollection(db, name) == Position(db, name) # 0

\* get_collection creates the collection it does not find, without a word in the journal.
GetCollection(db, name) ==
  IF HasCollection(db, name) THEN db
  ELSE Append(db, [name |-> name, table |-> NewTable(<<>>)])

TableOf(db, name) ==
  LET there == GetCollection(db, name) IN there[Position(there, name)].table

WithTable(db, name, t) ==
  LET there == GetCollection(db, name)
  IN  [there EXCEPT ![Position(there, name)].table = t]

DropCollectionFrom(db, name) ==
  IF name # Kv /\ HasCollection(db, name) THEN RemoveAt(db, Position(db, name)) ELSE db
-----------------------------------------------------------------------------
\* JSON text knows no signedness: a number without a minus sign is read as unsigned.
AsText(d) ==
  [x \in DOMAIN d |->
     IF d[x].type = "int" /\ d[x].n >= 0 THEN Uint(d[x].n) ELSE d[x]]

\* The documents of every collection that has any, in list order.
Content(db) ==
  LET filled == {i \in DOMAIN db : db[i].table.nodes # <<>>}
  IN  [name \in {db[i].name : i \in filled} |->
         LET t == TableOf(db, name) IN [p \in DOMAIN t.nodes |-> AsText(t.docs[t.nodes[p]])]]
-----------------------------------------------------------------------------
\* to_not_bson of a collection: the documents in list order, then a zero byte.
TableImage(t) ==
  FlattenSeq([p \in DOMAIN t.nodes |->
    <<Byte("object")>> \o Encode(t.docs[t.nodes[p]])]) \o <<Zero>>

\* What save writes.
Image(db) ==
  FlattenSeq([i \in DOMAIN db |-> <<Byte("array"), Name(db[i].name)>> \o TableImage(db[i].table)])
  \o <<Zero>>

(***************************************************************************)
(* load, field by field: the database so far, what the file is read for,   *)
(* the name of the collection and the document that are being read.        *)
(***************************************************************************)
Unloaded == [db |-> EmptyDatabase, reads |-> "array", name |-> Kv, object |-> Unread]

Loaded(db, name, members) == WithTable(db, name, TableAppend(TableOf(db, name), members))

LoadField(r, x) ==
  CASE r.reads = "array" -> [r EXCEPT !.reads = IF x = Byte("array") THEN "name" ELSE "nothing"]
    [] r.reads = "name" ->
         [r EXCEPT !.db = GetCollection(@, x.v), !.name = x.v, !.reads = "object"]
    [] r.reads = "object" ->
         IF x = Byte("object") THEN [r EXCEPT !.object = Unread, !.reads = "member"]
         ELSE [r EXCEPT !.reads = "array"]
    [] r.reads = "member" ->
         LET o == ReadField(r.object, x)
         IN  IF o.expects = "nothing"
             THEN [r EXCEPT !.db = Loaded(@, r.name, o.members), !.reads = "object"]
             ELSE [r EXCEPT !.object = o]
    [] r.reads = "nothing" -> r

LoadFields(r, f) ==
  LET after[n \in 0 .. Len(f)] == IF n = 0 THEN r ELSE LoadField(after[n - 1], f[n])
  IN  after[Len(f)]

\* load never comes back when the file ends where a name should be.
Load(f) ==
  LET r == LoadFields(Unloaded, f)
  IN  [db |-> IF r.reads = "member" THEN Loaded(r.db, r.name, CutOff(r.object)) ELSE r.db,
       hangs |-> r.reads = "name"]
-----------------------------------------------------------------------------
\* What is left of a journal line that a crash has cut off.
Torn == [cmd |-> "torn"]

Line(name, command) == With(command, "on", name)

\* The limit of a drop as it is read back: any below one means all.
LimitRead(n, t) == IF n < 1 THEN Cardinality(DOMAIN t.docs) + 1 ELSE n

ExecuteThrows(db, line) ==
  \/ line = Torn
  \/ /\ line.cmd = "drop"
     /\ LET t == TableOf(db, line.on)
        IN  DropThrowsOn(t, line.query, LimitRead(line.limit, t))

\* execute, for the commands that are written to the journal.
Execute(db, line) ==
  LET t == TableOf(db, line.on)
  IN  CASE line.cmd = "append" ->
             WithTable(db, line.on, TableAppend(t, line.document))
        [] line.cmd = "update" ->
             WithTable(db, line.on, TableUpdate(t, line.query, line.document))
        [] line.cmd = "drop" ->
             WithTable(db, line.on, TableDrop(t, line.query, LimitRead(line.limit, t)))
        [] line.cmd = "dropCollection" -> DropCollectionFrom(db, line.on)

\* The database the files hold: none when a start would hang or throw.
Lost == <<>>

Replayed(db, lines) ==
  LET after[n \in 0 .. Len(lines)] ==
        IF n = 0 THEN db
        ELSE LET before == after[n - 1]
             IN  IF before = Lost \/ ExecuteThrows(before, lines[n]) THEN Lost
                 ELSE Execute(before, lines[n])
  IN  after[Len(lines)]

Recovered(f, lines) ==
  LET loaded == Load(f) IN IF loaded.hangs THEN Lost ELSE Replayed(loaded.db, lines)
=============================================================================
