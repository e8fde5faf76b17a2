--------------------------- MODULE DatabaseProofs ---------------------------
(***************************************************************************)
(* What a process makes of its files, whatever is left of them, keeps the  *)
(* database in order.                                                      *)
(***************************************************************************)
EXTENDS Database, IndexingProofs, FiniteSetTheorems
-----------------------------------------------------------------------------
(***************************************************************************)
(* Collections as values.                                                  *)
(***************************************************************************)

Record(a, b, c, d) == [nodes : {a}, docs : {b}, id : {c}, indices : {d}]

IsTable(t) == t \in Record(t.nodes, t.docs, t.id, t.indices)

\* The parts of a table of which they are known.
LEMMA RecordParts ==
  ASSUME NEW a, NEW b, NEW c, NEW d, NEW t \in Record(a, b, c, d)
  PROVE  IsTable(t) /\ t.nodes = a /\ t.docs = b /\ t.id = c /\ t.indices = d
BY DEF Record, IsTable

\* What update makes of the parts of a table.
LEMMA RecordUpdate ==
  ASSUME NEW a, NEW b, NEW c, NEW d, NEW t \in Record(a, b, c, d), NEW r, NEW m, NEW x
  PROVE  [t EXCEPT !.docs[r] = m, !.indices = x] \in Record(a, [b EXCEPT ![r] = m], c, x)
BY DEF Record

\* What a round of drop makes of the parts of a table.
LEMMA RecordDrop ==
  ASSUME NEW a, NEW b, NEW c, NEW d, NEW t \in Record(a, b, c, d), NEW l, NEW m, NEW x
  PROVE  [t EXCEPT !.nodes = l, !.docs = m, !.indices = x] \in Record(l, m, c, x)
BY DEF Record

\* The list has every document once.
Listed(t) ==
  /\ IsTable(t)
  /\ t.nodes \in Seq(Nat)
  /\ IsInjective(t.nodes)
  /\ Range(t.nodes) = DOMAIN t.docs

\* A new collection lists its documents: it has none.
LEMMA ListedNew ==
  ASSUME NEW fields
  PROVE  Listed(NewTable(fields))
<1> DEFINE ixs == [i \in 1 .. Len(fields) + 1 |-> [field |-> (<<Id>> \o fields)[i], entries |-> <<>>]]
<1>1. NewTable(fields) = [nodes |-> <<>>, docs |-> <<>>, id |-> 0, indices |-> ixs]
  BY DEF NewTable
<1> HIDE DEF ixs
<1>2. NewTable(fields) \in Record(<<>>, <<>>, 0, ixs)
  BY <1>1 DEF Record
<1>3. <<>> \in Seq(Nat) /\ IsInjective(<<>>) /\ Range(<<>>) = DOMAIN <<>>
  BY DEF IsInjective, Range
<1> DEFINE t == NewTable(fields)
<1> HIDE DEF t
<1>4. t \in Record(<<>>, <<>>, 0, ixs)
  BY <1>2 DEF t
<1>5. IsTable(t) /\ t.nodes = <<>> /\ t.docs = <<>>
  BY <1>4, RecordParts
<1>6. Listed(t)
  BY <1>3, <1>5 DEF Listed
<1>7. QED
  BY <1>6 DEF t

\* A first match is a document of the collection.
LEMMA FirstIsThere ==
  ASSUME NEW t, NEW q, FirstMatchIn(t, q) # {}
  PROVE  /\ Outcome(FirstMatchIn(t, q)) \in FirstMatchIn(t, q)
         /\ Outcome(FirstMatchIn(t, q)) \in DOMAIN t.docs
<1>1. \A r \in FirstMatchIn(t, q) : r \in DOMAIN t.docs
  BY DEF FirstMatchIn, FirstMatchesIn, GoesWild, Live
<1>2. QED
  BY <1>1 DEF Outcome

\* The document a call takes, and what becomes of the indices.
First(t, q) == Outcome(FirstMatchIn(t, q))

Cleared(t, r) == Outcome(RemoveIndexEntries(t.indices, r, t.docs[r]))

Reindexed(t, r, d) == Outcome(InsertIndexEntries(Cleared(t, r), r, d))

\* An update that finds a document changes that one and its entries in the indices.
LEMMA UpdateParts ==
  ASSUME NEW t, IsTable(t), NEW q, NEW patch, FirstMatchIn(t, q) # {},
         NEW r, r = First(t, q), NEW d, d = Merged(t.docs[r], patch)
  PROVE  TableUpdate(t, q, patch)
           \in Record(t.nodes, [t.docs EXCEPT ![r] = d], t.id, Reindexed(t, r, d))
<1> DEFINE ixs == Reindexed(t, r, d)
           u == TableUpdate(t, q, patch)
<1>1. u = [t EXCEPT !.docs[r] = d, !.indices = ixs]
  BY DEF TableUpdate, First, Cleared, Reindexed
<1> HIDE DEF ixs, u
<1>2. t \in Record(t.nodes, t.docs, t.id, t.indices)
  BY DEF IsTable
<1>3. u \in Record(t.nodes, [t.docs EXCEPT ![r] = d], t.id, ixs)
  BY <1>1, <1>2, RecordUpdate
<1>4. QED
  BY <1>3 DEF u, ixs

\* update leaves the list as it is.
LEMMA ListedUpdate ==
  ASSUME NEW t, Listed(t), NEW q, NEW patch
  PROVE  Listed(TableUpdate(t, q, patch))
<1>1. CASE FirstMatchIn(t, q) = {}
  BY <1>1 DEF TableUpdate
<1>2. CASE FirstMatchIn(t, q) # {}
  <2> DEFINE r == First(t, q)
             d == Merged(t.docs[r], patch)
             ixs == Reindexed(t, r, d)
             u == TableUpdate(t, q, patch)
  <2>1. u \in Record(t.nodes, [t.docs EXCEPT ![r] = d], t.id, ixs)
    BY <1>2, UpdateParts DEF Listed
  <2> HIDE DEF d, ixs, r, u
  <2>2. IsTable(u) /\ u.nodes = t.nodes /\ DOMAIN u.docs = DOMAIN t.docs
    BY <2>1, RecordParts
  <2>3. Listed(u)
    BY <2>2 DEF Listed
  <2>4. QED
    BY <2>3 DEF u
<1>3. QED
  BY <1>1, <1>2
-----------------------------------------------------------------------------
\* A list without one of its nodes.
LEMMA RemovedNode ==
  ASSUME NEW s \in Seq(Nat), IsInjective(s), NEW i \in 1 .. Len(s)
  PROVE  /\ RemoveAt(s, i) \in Seq(Nat)
         /\ IsInjective(RemoveAt(s, i))
         /\ Range(RemoveAt(s, i)) = Range(s) \ {s[i]}
<1> DEFINE u == RemoveAt(s, i)
<1>1. /\ u \in Seq(Nat)
      /\ Len(u) = Len(s) - 1
      /\ \A j \in 1 .. Len(s) - 1 : u[j] = IF j < i THEN s[j] ELSE s[j + 1]
  BY RemoveAtElements
<1> HIDE DEF u
<1>a. ASSUME NEW j \in 1 .. Len(s) - 1
      PROVE  \E k \in 1 .. Len(s) : k # i /\ u[j] = s[k] /\ k = IF j < i THEN j ELSE j + 1
  <2>1. PICK k \in 1 .. Len(s) : k = IF j < i THEN j ELSE j + 1
    OBVIOUS
  <2>2. u[j] = IF j < i THEN s[j] ELSE s[j + 1]
    BY <1>1
  <2>3. u[j] = s[k]
    BY <2>1, <2>2
  <2>4. k # i
    BY <2>1
  <2>5. QED
    BY <2>1, <2>3, <2>4
<1>b. DOMAIN u = 1 .. Len(s) - 1
  BY <1>1
<1>2. IsInjective(u)
  <2>1. SUFFICES ASSUME NEW a \in 1 .. Len(s) - 1, NEW b \in 1 .. Len(s) - 1, u[a] = u[b]
                 PROVE  a = b
    BY <1>b DEF IsInjective
  <2>2. PICK k \in 1 .. Len(s) : k # i /\ u[a] = s[k] /\ k = IF a < i THEN a ELSE a + 1
    BY <1>a
  <2>3. PICK m \in 1 .. Len(s) : m # i /\ u[b] = s[m] /\ m = IF b < i THEN b ELSE b + 1
    BY <1>a
  <2>4. k = m
    <3>1. s[k] = s[m]
      BY <2>1, <2>2, <2>3, Zenon
    <3>2. k \in DOMAIN s /\ m \in DOMAIN s
      OBVIOUS
    <3>3. QED
      BY <3>1, <3>2 DEF IsInjective
  <2>5. QED
    BY <2>2, <2>3, <2>4
<1>3. Range(u) \subseteq Range(s) \ {s[i]}
  <2>1. SUFFICES ASSUME NEW j \in 1 .. Len(s) - 1
                 PROVE  u[j] \in Range(s) \ {s[i]}
    BY <1>b DEF Range
  <2>2. PICK k \in 1 .. Len(s) : k # i /\ u[j] = s[k] /\ k = IF j < i THEN j ELSE j + 1
    BY <1>a
  <2>3. QED
    BY <2>2 DEF IsInjective, Range
<1>4. ASSUME NEW j \in 1 .. Len(s), j # i
      PROVE  s[j] \in Range(u)
  <2>1. CASE j < i
    <3>1. j \in 1 .. Len(s) - 1 /\ u[j] = s[j] /\ j \in DOMAIN u
      BY <1>1, <2>1
    <3>2. QED
      BY <3>1 DEF Range
  <2>2. CASE j > i
    <3>1. PICK k \in 1 .. Len(s) - 1 : k + 1 = j /\ ~ (k < i)
      BY <2>2
    <3>2. u[k] = s[j] /\ k \in DOMAIN u
      BY <1>1, <3>1
    <3>3. QED
      BY <3>2 DEF Range
  <2>3. QED
    BY <1>4, <2>1, <2>2
<1>5. Range(s) \ {s[i]} \subseteq Range(u)
  BY <1>4 DEF Range
<1>6. QED
  BY <1>1, <1>2, <1>3, <1>5 DEF u

Unlisted(t, r) == RemoveAt(t.nodes, CHOOSE p \in DOMAIN t.nodes : t.nodes[p] = r)

\* A round of drop that finds a document takes it from the list and the indices.
LEMMA DropOneParts ==
  ASSUME NEW t, IsTable(t), NEW q, FirstMatchIn(t, q) # {}, NEW r, r = First(t, q)
  PROVE  DropOne(t, q) \in Record(Unlisted(t, r), Without(t.docs, r), t.id, Cleared(t, r))
<1> DEFINE ixs == Cleared(t, r)
           l == Unlisted(t, r)
           m == Without(t.docs, r)
           u == DropOne(t, q)
<1>1. u = [t EXCEPT !.nodes = l, !.docs = m, !.indices = ixs]
  BY DEF DropOne, First, Cleared, Unlisted
<1> HIDE DEF ixs, l, m, u
<1>2. t \in Record(t.nodes, t.docs, t.id, t.indices)
  BY DEF IsTable
<1>3. u \in Record(l, m, t.id, ixs)
  BY <1>1, <1>2, RecordDrop
<1>4. QED
  BY <1>3 DEF u, ixs, l, m

\* The node that a round takes from the list is the one of the document.
LEMMA UnlistedElements ==
  ASSUME NEW t, Listed(t), NEW r \in DOMAIN t.docs
  PROVE  \E i \in 1 .. Len(t.nodes) : t.nodes[i] = r /\ Unlisted(t, r) = RemoveAt(t.nodes, i)
<1> DEFINE i == CHOOSE p \in DOMAIN t.nodes : t.nodes[p] = r
<1>1. \E p \in DOMAIN t.nodes : t.nodes[p] = r
  BY DEF Listed, Range
<1>2. i \in DOMAIN t.nodes /\ t.nodes[i] = r
  BY <1>1
<1>3. Unlisted(t, r) = RemoveAt(t.nodes, i)
  BY DEF Unlisted
<1>4. DOMAIN t.nodes = 1 .. Len(t.nodes)
  BY DEF Listed
<1>5. QED
  BY <1>2, <1>3, <1>4

\* A list without the node of a document has every other document once.
LEMMA ListedWithout ==
  ASSUME NEW t, Listed(t), NEW r \in DOMAIN t.docs,
         NEW ixs, NEW u \in Record(Unlisted(t, r), Without(t.docs, r), t.id, ixs)
  PROVE  Listed(u)
<1>1. PICK i \in 1 .. Len(t.nodes) : t.nodes[i] = r /\ Unlisted(t, r) = RemoveAt(t.nodes, i)
  BY UnlistedElements
<1>2. /\ Unlisted(t, r) \in Seq(Nat)
      /\ IsInjective(Unlisted(t, r))
      /\ Range(Unlisted(t, r)) = Range(t.nodes) \ {r}
  BY <1>1, RemovedNode DEF Listed
<1>3. DOMAIN Without(t.docs, r) = DOMAIN t.docs \ {r}
  BY DEF Without
<1>4. IsTable(u) /\ u.nodes = Unlisted(t, r) /\ u.docs = Without(t.docs, r)
  BY RecordParts
<1>5. QED
  BY <1>2, <1>3, <1>4 DEF Listed

\* A round of drop keeps list and documents in step.
LEMMA ListedDropOne ==
  ASSUME NEW t, Listed(t), NEW q
  PROVE  Listed(DropOne(t, q))
<1>1. CASE FirstMatchIn(t, q) = {}
  BY <1>1 DEF DropOne
<1>2. CASE FirstMatchIn(t, q) # {}
  <2>1. First(t, q) \in DOMAIN t.docs
    BY <1>2, FirstIsThere DEF First
  <2>2. DropOne(t, q) \in Record(Unlisted(t, First(t, q)), Without(t.docs, First(t, q)), t.id,
                                Cleared(t, First(t, q)))
    BY <1>2, DropOneParts DEF Listed
  <2>3. QED
    BY <2>1, <2>2, ListedWithout
<1>3. QED
  BY <1>1, <1>2
-----------------------------------------------------------------------------
\* The node a new document is given is one that is free.
NewNode(t) == Min(0 .. Cardinality(DOMAIN t.docs) \ DOMAIN t.docs)

\* A collection has finitely many documents.
LEMMA NodesAreFinite ==
  ASSUME NEW t, Listed(t)
  PROVE  IsFiniteSet(DOMAIN t.docs) /\ DOMAIN t.docs \subseteq Nat
<1>1. t.nodes \in [1 .. Len(t.nodes) -> DOMAIN t.docs] /\ Len(t.nodes) \in Nat
  BY DEF Listed, Range
<1>2. t.nodes \in Surjection(1 .. Len(t.nodes), DOMAIN t.docs)
  BY <1>1 DEF Surjection, Listed, Range
<1>3. IsFiniteSet(1 .. Len(t.nodes))
  BY <1>1, FS_Interval
<1>4. IsFiniteSet(DOMAIN t.docs)
  BY <1>2, <1>3, FS_Surjection
<1>5. QED
  BY <1>4 DEF Listed, Range

\* The node of a new document is none of another.
LEMMA NewNodeIsFree ==
  ASSUME NEW t, Listed(t)
  PROVE  NewNode(t) \in Nat \ DOMAIN t.docs
<1> DEFINE D == DOMAIN t.docs
           c == Cardinality(D)
<1>1. IsFiniteSet(D) /\ c \in Nat
  BY NodesAreFinite, FS_CardinalityType
<1>2. ASSUME 0 .. c \subseteq D
      PROVE  FALSE
  <2>1. Cardinality(0 .. c) = c + 1
    BY <1>1, FS_Interval
  <2>2. Cardinality(0 .. c) <= c
    BY <1>1, <1>2, FS_Subset
  <2>3. QED
    BY <1>1, <2>1, <2>2
<1>3. 0 .. c \ D # {} /\ 0 .. c \ D \subseteq Nat
  BY <1>2
<1>4. Min(0 .. c \ D) \in 0 .. c \ D
  BY <1>3, MinIsLeast
<1>5. QED
  BY <1>4 DEF NewNode

\* The counter after a document with the "_id" x has been stored.
Counted(t, x) == IF x.n >= t.id THEN x.n + 1 ELSE t.id

\* What append makes of the parts of a table.
LEMMA AppendParts ==
  ASSUME NEW t, NEW d, Accepted(d),
         NEW r, r = NewNode(t), NEW stored, stored = Numbered(d, t.id)
  PROVE  TableAppend(t, d)
           \in Record(Append(t.nodes, r), With(t.docs, r, stored), Counted(t, stored[Id]),
                      Outcome(InsertIndexEntries(t.indices, r, stored)))
<1> DEFINE l == Append(t.nodes, r)
           m == With(t.docs, r, stored)
           c == Counted(t, stored[Id])
           ixs == Outcome(InsertIndexEntries(t.indices, r, stored))
           u == TableAppend(t, d)
<1>1. u = [nodes |-> l, docs |-> m, id |-> c, indices |-> ixs]
  BY DEF TableAppend, NewNode, Counted
<1> HIDE DEF l, m, c, ixs, u
<1>2. u \in Record(l, m, c, ixs)
  BY <1>1 DEF Record
<1>3. QED
  BY <1>2 DEF l, m, c, ixs, u

\* A sequence with one more node has each of them once.
LEMMA AppendedNode ==
  ASSUME NEW s \in Seq(Nat), IsInjective(s), NEW r \in Nat, r \notin Range(s)
  PROVE  /\ Append(s, r) \in Seq(Nat)
         /\ IsInjective(Append(s, r))
         /\ Range(Append(s, r)) = Range(s) \cup {r}
<1> DEFINE u == Append(s, r)
<1>1. /\ u \in Seq(Nat)
      /\ DOMAIN u = 1 .. Len(s) + 1
      /\ u[Len(s) + 1] = r
      /\ \A i \in 1 .. Len(s) : u[i] = s[i]
  OBVIOUS
<1>2. DOMAIN s = 1 .. Len(s) /\ Len(s) \in Nat
  OBVIOUS
<1> HIDE DEF u
<1>3. IsInjective(u)
  <2>1. SUFFICES ASSUME NEW a \in 1 .. Len(s) + 1, NEW b \in 1 .. Len(s) + 1, u[a] = u[b]
                 PROVE  a = b
    BY <1>1 DEF IsInjective
  <2>2. \A i \in 1 .. Len(s) : u[i] # r
    BY <1>1, <1>2 DEF Range
  <2>3. CASE a \in 1 .. Len(s) /\ b \in 1 .. Len(s)
    <3>1. s[a] = s[b]
      BY <2>1, <2>3, <1>1
    <3>2. QED
      BY <3>1, <2>3, <1>2 DEF IsInjective
  <2>4. CASE ~ (a \in 1 .. Len(s) /\ b \in 1 .. Len(s))
    BY <2>1, <2>2, <2>4, <1>1, <1>2
  <2>5. QED
    BY <2>3, <2>4
<1>4. Range(u) = Range(s) \cup {r}
  <2>1. \A i \in 1 .. Len(s) + 1 : u[i] \in Range(s) \cup {r}
    <3> TAKE i \in 1 .. Len(s) + 1
    <3>1. CASE i \in 1 .. Len(s)
      BY <3>1, <1>1, <1>2 DEF Range
    <3>2. CASE i = Len(s) + 1
      BY <3>2, <1>1
    <3>3. QED
      BY <3>1, <3>2, <1>2
  <2>2. \A i \in 1 .. Len(s) : s[i] \in Range(u)
    <3> TAKE i \in 1 .. Len(s)
    <3>1. u[i] = s[i] /\ i \in DOMAIN u
      BY <1>1, <1>2
    <3>2. QED
      BY <3>1 DEF Range
  <2>3. r \in Range(u)
    <3>1. Len(s) + 1 \in DOMAIN u
      BY <1>1, <1>2
    <3>2. QED
      BY <3>1, <1>1 DEF Range
  <2>4. QED
    BY <2>1, <2>2, <2>3, <1>1, <1>2 DEF Range
<1>5. QED
  BY <1>1, <1>3, <1>4 DEF u

\* append keeps list and documents in step.
LEMMA ListedAppend ==
  ASSUME NEW t, Listed(t), NEW d
  PROVE  Listed(TableAppend(t, d))
<1>1. CASE ~Accepted(d)
  BY <1>1 DEF TableAppend
<1>2. CASE Accepted(d)
  <2> DEFINE r == NewNode(t)
             stored == Numbered(d, t.id)
             l == Append(t.nodes, r)
             m == With(t.docs, r, stored)
             c == Counted(t, stored[Id])
             ixs == Outcome(InsertIndexEntries(t.indices, r, stored))
             u == TableAppend(t, d)
  <2>1. u \in Record(l, m, c, ixs)
    BY <1>2, AppendParts
  <2>2. r \in Nat \ DOMAIN t.docs
    BY NewNodeIsFree
  <2> HIDE DEF r, stored, u, c, ixs, l, m
  <2>3a. IsTable(u) /\ u.nodes = l /\ u.docs = m
    BY <2>1, RecordParts
  <2>3. IsTable(u) /\ u.nodes = Append(t.nodes, r) /\ u.docs = With(t.docs, r, stored)
    BY <2>3a DEF l, m
  <2>4. DOMAIN u.docs = DOMAIN t.docs \cup {r}
    BY <2>3 DEF With
  <2>5. /\ u.nodes \in Seq(Nat)
        /\ IsInjective(u.nodes)
        /\ Range(u.nodes) = Range(t.nodes) \cup {r}
    BY <2>2, <2>3, AppendedNode DEF Listed
  <2>6. Listed(u)
    BY <2>3, <2>4, <2>5 DEF Listed
  <2>7. QED
    BY <2>6 DEF u
<1>3. QED
  BY <1>1, <1>2

\* createIndex leaves list and documents alone.
LEMMA ListedCreateIndex ==
  ASSUME NEW t, Listed(t), NEW f
  PROVE  Listed(TableCreateIndex(t, f))
<1> DEFINE ixs == Append(t.indices, IndexNodes(t, f))
           u == TableCreateIndex(t, f)
<1>1. u = [t EXCEPT !.indices = ixs]
  BY DEF TableCreateIndex
<1> HIDE DEF ixs, u
<1>2. u \in Record(t.nodes, t.docs, t.id, ixs)
  BY <1>1 DEF Listed, IsTable, Record
<1>3. IsTable(u) /\ u.nodes = t.nodes /\ u.docs = t.docs
  BY <1>2, RecordParts
<1>4. Listed(u)
  BY <1>3 DEF Listed
<1>5. QED
  BY <1>4 DEF u
-----------------------------------------------------------------------------
(***************************************************************************)
(* The rounds of drop.                                                     *)
(***************************************************************************)
IsRounds(g, n, t, q) ==
  /\ g = [i \in 0 .. n |-> IF i = 0 THEN t ELSE DropOne(g[i - 1], q)]

\* The recursive function of the rounds of drop exists.
LEMMA RoundsExist ==
  ASSUME NEW t, NEW q
  PROVE  \A n \in Nat : \E g : IsRounds(g, n, t, q)
<1> DEFINE Bad == {n \in Nat : ~ \E g : IsRounds(g, n, t, q)}
<1>1. SUFFICES ASSUME Bad # {} PROVE FALSE
  OBVIOUS
<1>2. PICK n \in Bad : \A m \in Bad : n <= m
  <2>1. Bad \subseteq Nat
    OBVIOUS
  <2> HIDE DEF Bad
  <2>2. QED
    BY <1>1, <2>1, MinIsLeast
<1>3. CASE n = 0
  <2>1. IsRounds([i \in 0 .. 0 |-> t], 0, t, q)
    BY DEF IsRounds
  <2>2. QED
    BY <1>3, <2>1
<1>4. CASE n # 0
  <2>1. n - 1 \in Nat /\ n - 1 \notin Bad
    BY <1>2, <1>4
  <2>2. PICK f : IsRounds(f, n - 1, t, q)
    BY <2>1
  <2> DEFINE g == [i \in 0 .. n |-> IF i = n THEN DropOne(f[n - 1], q) ELSE f[i]]
  <2>3. \A i \in 0 .. n - 1 : f[i] = IF i = 0 THEN t ELSE DropOne(f[i - 1], q)
    BY <2>2 DEF IsRounds
  <2>4. \A i \in 0 .. n : g[i] = IF i = 0 THEN t ELSE DropOne(g[i - 1], q)
    BY <1>4, <2>1, <2>3
  <2>5. IsRounds(g, n, t, q)
    <3> HIDE DEF g
    <3>1. g = [i \in 0 .. n |-> g[i]]
      BY DEF g
    <3>2. QED
      BY <3>1, <2>4 DEF IsRounds
  <2>6. QED
    BY <2>5
<1>5. QED
  BY <1>3, <1>4

\* drop is one round after another.
LEMMA TableDropRounds ==
  ASSUME NEW t, NEW q, NEW limit, NEW rounds, rounds = Taken(limit, Cardinality(DOMAIN t.docs)),
         rounds \in Nat
  PROVE  \E g : /\ TableDrop(t, q, limit) = g[rounds]
                /\ g[0] = t
                /\ \A i \in 1 .. rounds : g[i] = DropOne(g[i - 1], q)
<1> DEFINE g == CHOOSE g : IsRounds(g, rounds, t, q)
<1>1. IsRounds(g, rounds, t, q)
  BY RoundsExist
<1>2. TableDrop(t, q, limit) = g[rounds]
  BY DEF TableDrop, IsRounds
<1> HIDE DEF g
<1>3. \A i \in 0 .. rounds : g[i] = IF i = 0 THEN t ELSE DropOne(g[i - 1], q)
  BY <1>1 DEF IsRounds
<1>4. QED
  BY <1>2, <1>3
-----------------------------------------------------------------------------
(***************************************************************************)
(* The directory of collections.                                           *)
(***************************************************************************)
AllNames == Collections \cup {Kv}

IsDirectory(d) ==
  /\ \E T : d \in Seq([name : AllNames, table : T])
  /\ d # <<>> /\ d[1].name = Kv
  /\ \A i, j \in 1 .. Len(d) : d[i].name = d[j].name => i = j

\* What a directory is made of.
LEMMA DirectoryElements ==
  ASSUME NEW d, IsDirectory(d)
  PROVE  /\ Len(d) \in Nat \ {0}
         /\ DOMAIN d = 1 .. Len(d)
         /\ \A i \in 1 .. Len(d) : d[i].name \in AllNames
         /\ d[1].name = Kv
         /\ \A i, j \in 1 .. Len(d) : d[i].name = d[j].name => i = j
<1>1. PICK T : d \in Seq([name : AllNames, table : T])
  BY DEF IsDirectory
<1> DEFINE S == [name : AllNames, table : T]
<1> HIDE DEF S
<1>2a. d \in Seq(S)
  BY <1>1 DEF S
<1>2b. \A i \in 1 .. Len(d) : d[i] \in S
  BY <1>2a
<1>2. \A i \in 1 .. Len(d) : d[i].name \in AllNames
  BY <1>2b DEF S
<1>3. Len(d) \in Nat \ {0} /\ DOMAIN d = 1 .. Len(d)
  BY <1>1 DEF IsDirectory
<1>4. QED
  BY <1>2, <1>3 DEF IsDirectory

\* get_collection finds a collection of the name if there is one.
LEMMA PositionIs ==
  ASSUME NEW d, NEW name, Len(d) \in Nat
  PROVE  IF \E i \in 1 .. Len(d) : d[i].name = name
         THEN Position(d, name) \in 1 .. Len(d) /\ d[Position(d, name)].name = name
         ELSE Position(d, name) = 0
<1> DEFINE I == {i \in 1 .. Len(d) : d[i].name = name}
<1>1. Position(d, name) = IF I # {} THEN Min(I) ELSE 0
  BY DEF Position, SelectInSeq
<1>2. I \subseteq Nat
  BY SMT
<1>3. \A i \in I : i \in 1 .. Len(d) /\ d[i].name = name
  OBVIOUS
<1>4. I # {} <=> \E i \in 1 .. Len(d) : d[i].name = name
  OBVIOUS
<1> HIDE DEF I
<1>5. I # {} => Min(I) \in I
  BY <1>2, MinIsLeast
<1>6. QED
  BY <1>1, <1>3, <1>4, <1>5

\* It finds the one there is.
LEMMA PositionOf ==
  ASSUME NEW d, IsDirectory(d), NEW i \in 1 .. Len(d), NEW name, d[i].name = name
  PROVE  Position(d, name) = i
BY PositionIs, DirectoryElements

\* has_collection answers whether there is one.
LEMMA HasIsThere ==
  ASSUME NEW d, IsDirectory(d), NEW name
  PROVE  HasCollection(d, name) <=> \E i \in 1 .. Len(d) : d[i].name = name
BY PositionIs, DirectoryElements DEF HasCollection

\* The collection of a name is the one that is found under it.
LEMMA TableAt ==
  ASSUME NEW d, IsDirectory(d), NEW i \in 1 .. Len(d), NEW name, d[i].name = name
  PROVE  TableOf(d, name) = d[i].table
<1>1. Position(d, name) = i /\ i # 0
  BY PositionOf, DirectoryElements
<1>2. GetCollection(d, name) = d
  BY <1>1 DEF GetCollection, HasCollection
<1>3. QED
  BY <1>1, <1>2 DEF TableOf

\* get_collection gives an empty collection for a name it does not find.
LEMMA TableOfNone ==
  ASSUME NEW d, \E T : d \in Seq(T), NEW m, ~HasCollection(d, m)
  PROVE  TableOf(d, m) = NewTable(<<>>)
<1> DEFINE x == [name |-> m, table |-> NewTable(<<>>)]
           e == Append(d, x)
<1>1. x.name = m /\ x.table = NewTable(<<>>)
  OBVIOUS
<1> HIDE DEF x
<1>2. PICK T : d \in Seq(T)
  OBVIOUS
<1>3. Len(e) = Len(d) + 1 /\ Len(d) \in Nat /\ e[Len(d) + 1] = x /\ \A i \in 1 .. Len(d) : e[i] = d[i]
  BY <1>2
<1> HIDE DEF e
<1>4. \A i \in 1 .. Len(d) : d[i].name # m
  BY <1>3, PositionIs DEF HasCollection
<1>5. Position(e, m) \in 1 .. Len(e) /\ e[Position(e, m)].name = m
  <2>1. Len(d) + 1 \in 1 .. Len(e) /\ e[Len(d) + 1].name = m /\ Len(e) \in Nat
    BY <1>1, <1>3
  <2>2. QED
    BY <2>1, PositionIs
<1>6. Position(e, m) = Len(d) + 1
  BY <1>3, <1>4, <1>5
<1>7. GetCollection(d, m) = e
  BY DEF GetCollection, e, x
<1>8. QED
  BY <1>1, <1>3, <1>6, <1>7 DEF TableOf

\* The same, of a directory.
LEMMA NoneInDirectory ==
  ASSUME NEW d, IsDirectory(d), NEW m, ~HasCollection(d, m)
  PROVE  TableOf(d, m) = NewTable(<<>>)
BY TableOfNone DEF IsDirectory

Extends(e, d, x) ==
  /\ IsDirectory(e)
  /\ Len(e) = Len(d) + 1
  /\ e[Len(d) + 1] = x
  /\ \A i \in 1 .. Len(d) : e[i] = d[i]

\* A new collection at the end of the directory leaves the others alone.
LEMMA Extended ==
  ASSUME NEW d, IsDirectory(d), NEW name \in AllNames, ~HasCollection(d, name), NEW t,
         NEW x, x = [name |-> name, table |-> t]
  PROVE  Extends(Append(d, x), d, x)
<1> DEFINE e == Append(d, x)
<1>0. SUFFICES Extends(e, d, x)
  OBVIOUS
<1>1. PICK T : d \in Seq([name : AllNames, table : T])
  BY DEF IsDirectory
<1> DEFINE S == [name : AllNames, table : T \cup {t}]
<1>2. [name : AllNames, table : T] \subseteq S
  OBVIOUS
<1>3. d \in Seq(S) /\ x \in S
  BY <1>1, <1>2, SeqMonotonic
<1> HIDE DEF S
<1>4. /\ e \in Seq(S)
      /\ Len(e) = Len(d) + 1
      /\ e[Len(d) + 1] = x
      /\ \A i \in 1 .. Len(d) : e[i] = d[i]
  BY <1>3
<1> HIDE DEF e
<1>5. \A i \in 1 .. Len(d) : d[i].name # name
  BY HasIsThere
<1>6. e[Len(d) + 1].name = name
  BY <1>4
<1>7. Len(d) \in Nat \ {0} /\ d[1].name = Kv
  BY DirectoryElements
<1>8. e # <<>> /\ e[1].name = Kv
  BY <1>4, <1>7
<1>9. ASSUME NEW i \in 1 .. Len(e), NEW j \in 1 .. Len(e), e[i].name = e[j].name
      PROVE  i = j
  <2>1. CASE i \in 1 .. Len(d) /\ j \in 1 .. Len(d)
    <3>1. d[i].name = d[j].name
      BY <1>4, <1>9, <2>1
    <3>2. QED
      BY <2>1, <3>1, DirectoryElements
  <2>2. CASE i = Len(d) + 1 /\ j \in 1 .. Len(d)
    <3>1. e[j].name # name
      BY <2>2, <1>4, <1>5
    <3>2. QED
      BY <1>6, <1>9, <2>2, <3>1
  <2>3. CASE j = Len(d) + 1 /\ i \in 1 .. Len(d)
    <3>1. e[i].name # name
      BY <2>3, <1>4, <1>5
    <3>2. QED
      BY <1>6, <1>9, <2>3, <3>1
  <2>4. CASE i = Len(d) + 1 /\ j = Len(d) + 1
    BY <2>4
  <2>5. QED
    BY <2>1, <2>2, <2>3, <2>4, <1>4, <1>7
<1>10. \E U : e \in Seq([name : AllNames, table : U])
  BY <1>4 DEF S
<1>11. IsDirectory(e)
  BY <1>8, <1>9, <1>10 DEF IsDirectory
<1>12. QED
  BY <1>4, <1>11 DEF Extends

\* get_collection leaves the directory with the collection, and every table as it was.
LEMMA Got ==
  ASSUME NEW d, IsDirectory(d), NEW name \in AllNames, NEW e, e = GetCollection(d, name)
  PROVE  /\ IsDirectory(e)
         /\ HasCollection(e, name)
         /\ \A m : TableOf(e, m) = TableOf(d, m)
<1>1. CASE HasCollection(d, name)
  BY <1>1 DEF GetCollection
<1>2. CASE ~HasCollection(d, name)
  <2>1. e = Append(d, [name |-> name, table |-> NewTable(<<>>)])
    BY <1>2 DEF GetCollection
  <2>2. /\ IsDirectory(e)
        /\ Len(e) = Len(d) + 1
        /\ e[Len(d) + 1] = [name |-> name, table |-> NewTable(<<>>)]
        /\ \A i \in 1 .. Len(d) : e[i] = d[i]
    <3>1. PICK x : x = [name |-> name, table |-> NewTable(<<>>)]
      OBVIOUS
    <3>2. Extends(Append(d, x), d, x)
      BY <1>2, <3>1, Extended
    <3>3. QED
      BY <2>1, <3>1, <3>2 DEF Extends
  <2>3. Len(d) \in Nat \ {0}
    BY DirectoryElements
  <2>4. Len(d) + 1 \in 1 .. Len(e) /\ e[Len(d) + 1].name = name
    BY <2>2, <2>3
  <2>5. HasCollection(e, name)
    BY <2>2, <2>4, HasIsThere
  <2>6. ASSUME NEW m
        PROVE  TableOf(e, m) = TableOf(d, m)
    <3>1. CASE m = name
      <4>1. TableOf(e, m) = NewTable(<<>>)
        BY <2>2, <2>4, <3>1, TableAt
      <4>2. QED
        BY <3>1, <1>2, <4>1, NoneInDirectory
    <3>2. CASE m # name /\ HasCollection(d, m)
      <4>1. PICK i \in 1 .. Len(d) : d[i].name = m
        BY <3>2, HasIsThere
      <4>2. e[i].name = m /\ i \in 1 .. Len(e) /\ e[i].table = d[i].table
        BY <4>1, <2>2, <2>3
      <4>3. QED
        BY <4>1, <4>2, <2>2, TableAt
    <3>3. CASE m # name /\ ~HasCollection(d, m)
      <4>1. \A i \in 1 .. Len(e) : e[i].name # m
        <5>1. \A i \in 1 .. Len(d) : d[i].name # m
          BY <3>3, HasIsThere
        <5>2. TAKE i \in 1 .. Len(e)
        <5>3. CASE i \in 1 .. Len(d)
          BY <5>1, <5>3, <2>2
        <5>4. CASE i = Len(d) + 1
          BY <5>4, <2>4, <3>3
        <5>5. QED
          BY <5>3, <5>4, <2>2, <2>3
      <4>2. ~HasCollection(e, m)
        BY <4>1, <2>2, HasIsThere
      <4>3. QED
        BY <3>3, <4>2, <2>2, NoneInDirectory
    <3>4. QED
      BY <3>1, <3>2, <3>3
  <2>7. QED
    BY <2>2, <2>5, <2>6
<1>3. QED
  BY <1>1, <1>2

\* A database after the collection of that name has become t.
LEMMA Put ==
  ASSUME NEW d, IsDirectory(d), NEW name \in AllNames, NEW t, NEW e, e = WithTable(d, name, t)
  PROVE  /\ IsDirectory(e)
         /\ \A m : TableOf(e, m) = IF m = name THEN t ELSE TableOf(d, m)
<1> DEFINE there == GetCollection(d, name)
           p == Position(there, name)
<1>1. e = [there EXCEPT ![p].table = t]
  BY DEF WithTable
<1>2. /\ IsDirectory(there)
      /\ HasCollection(there, name)
      /\ \A m : TableOf(there, m) = TableOf(d, m)
  BY Got
<1> HIDE DEF there
<1>3. p \in 1 .. Len(there) /\ there[p].name = name
  BY <1>2, PositionIs, DirectoryElements DEF HasCollection
<1> HIDE DEF p
<1>4. PICK T : there \in Seq([name : AllNames, table : T])
  BY <1>2 DEF IsDirectory
<1>5. /\ Len(there) \in Nat \ {0}
      /\ DOMAIN there = 1 .. Len(there)
      /\ there[1].name = Kv
      /\ \A i, j \in 1 .. Len(there) : there[i].name = there[j].name => i = j
  BY <1>2, DirectoryElements
<1> DEFINE S == [name : AllNames, table : T \cup {t}]
<1>6. there[p] \in [name : AllNames, table : T]
  BY <1>3, <1>4, ElementOfSeq
<1>7. [there[p] EXCEPT !.table = t] \in S /\ [there[p] EXCEPT !.table = t].name = name
      /\ [there[p] EXCEPT !.table = t].table = t
  BY <1>3, <1>6
<1>8. there \in Seq(S)
  <2>1. [name : AllNames, table : T] \subseteq S
    OBVIOUS
  <2>2. QED
    BY <1>4, <2>1, SeqMonotonic
<1> HIDE DEF S
<1>9. PICK x \in S : x = [there[p] EXCEPT !.table = t]
  BY <1>7
<1>10. e = [there EXCEPT ![p] = x]
  BY <1>1, <1>9
<1>11. /\ e \in Seq(S)
       /\ Len(e) = Len(there)
       /\ \A i \in 1 .. Len(there) : e[i] = IF i = p THEN x ELSE there[i]
  BY <1>3, <1>8, <1>10, ExceptSeq
<1>12. x.name = name /\ x.table = t
  BY <1>7, <1>9
<1>13. \A i \in 1 .. Len(there) : e[i].name = there[i].name
  BY <1>3, <1>11, <1>12
<1>14. IsDirectory(e)
  <2>1. \E U : e \in Seq([name : AllNames, table : U])
    BY <1>11 DEF S
  <2>2. e # <<>> /\ e[1].name = Kv
    BY <1>5, <1>11, <1>13
  <2>3. \A i, j \in 1 .. Len(e) : e[i].name = e[j].name => i = j
    BY <1>5, <1>11, <1>13
  <2>4. QED
    BY <2>1, <2>2, <2>3 DEF IsDirectory
<1>15. ASSUME NEW m
       PROVE  TableOf(e, m) = IF m = name THEN t ELSE TableOf(d, m)
  <2>1. CASE m = name
    <3>1. p \in 1 .. Len(e) /\ e[p].name = m /\ e[p].table = t
      BY <2>1, <1>3, <1>11, <1>12
    <3>2. QED
      BY <2>1, <3>1, <1>14, TableAt
  <2>2. CASE m # name /\ HasCollection(there, m)
    <3>1. PICK i \in 1 .. Len(there) : there[i].name = m
      BY <2>2, <1>2, HasIsThere
    <3>2. i \in 1 .. Len(e) /\ e[i].name = m /\ e[i].table = there[i].table
      BY <2>2, <3>1, <1>3, <1>11, <1>13
    <3>3. TableOf(e, m) = TableOf(there, m)
      BY <3>1, <3>2, <1>2, <1>14, TableAt
    <3>4. QED
      BY <2>2, <3>3, <1>2
  <2>3. CASE m # name /\ ~HasCollection(there, m)
    <3>1. ~HasCollection(e, m)
      BY <2>3, <1>2, <1>11, <1>13, <1>14, HasIsThere
    <3>2. TableOf(e, m) = TableOf(there, m)
      BY <2>3, <3>1, <1>2, <1>14, NoneInDirectory
    <3>3. QED
      BY <2>3, <3>2, <1>2
  <2>4. QED
    BY <2>1, <2>2, <2>3
<1>16. QED
  BY <1>14, <1>15

\* drop_collection empties the collection of the name, unless it is the one of the pairs.
LEMMA Dropped ==
  ASSUME NEW d, IsDirectory(d), NEW name \in AllNames, NEW e, e = DropCollectionFrom(d, name)
  PROVE  /\ IsDirectory(e)
         /\ \A m : TableOf(e, m) =
              IF m = name /\ name # Kv THEN NewTable(<<>>) ELSE TableOf(d, m)
<1>1. CASE name = Kv \/ ~HasCollection(d, name)
  <2>1. e = d
    BY <1>1 DEF DropCollectionFrom
  <2>2. QED
    BY <1>1, <2>1, NoneInDirectory
<1>2. CASE name # Kv /\ HasCollection(d, name)
  <2> DEFINE p == Position(d, name)
  <2>1. e = RemoveAt(d, p)
    BY <1>2 DEF DropCollectionFrom
  <2>2. p \in 1 .. Len(d) /\ d[p].name = name
    BY <1>2, PositionIs, DirectoryElements DEF HasCollection
  <2> HIDE DEF p
  <2>3. PICK T : d \in Seq([name : AllNames, table : T])
    BY DEF IsDirectory
  <2>4. /\ e \in Seq([name : AllNames, table : T])
        /\ Len(e) = Len(d) - 1
        /\ \A j \in 1 .. Len(d) - 1 : e[j] = IF j < p THEN d[j] ELSE d[j + 1]
    BY <2>1, <2>2, <2>3, RemoveAtElements
  <2>5. /\ Len(d) \in Nat \ {0}
        /\ d[1].name = Kv
        /\ \A i, j \in 1 .. Len(d) : d[i].name = d[j].name => i = j
    BY DirectoryElements
  <2>6. p > 1 /\ p \in Nat
    BY <1>2, <2>2, <2>5
  <2>7. ASSUME NEW j \in 1 .. Len(d) - 1
        PROVE  \E k \in 1 .. Len(d) : k # p /\ e[j] = d[k] /\ k = IF j < p THEN j ELSE j + 1
    <3>1. PICK k \in 1 .. Len(d) : k = IF j < p THEN j ELSE j + 1
      BY <2>5
    <3>2. e[j] = IF j < p THEN d[j] ELSE d[j + 1]
      BY <2>4
    <3>3. e[j] = d[k]
      BY <3>1, <3>2
    <3>4. k # p
      BY <2>6, <3>1
    <3>5. QED
      BY <3>1, <3>3, <3>4
  <2>8. ASSUME NEW k \in 1 .. Len(d), k # p
        PROVE  \E j \in 1 .. Len(e) : e[j] = d[k]
    <3>1. CASE k < p
      <4>1. k \in 1 .. Len(d) - 1 /\ k \in 1 .. Len(e) /\ e[k] = d[k]
        BY <3>1, <2>4, <2>2, <2>5
      <4>2. QED
        BY <4>1
    <3>2. CASE k > p
      <4>1. PICK j \in 1 .. Len(d) - 1 : j + 1 = k /\ ~ (j < p)
        BY <3>2, <2>6, <2>5
      <4>2. e[j] = d[k]
        BY <4>1, <2>4
      <4>3. QED
        BY <4>1, <4>2, <2>4
    <3>3. QED
      BY <2>8, <2>6, <3>1, <3>2
  <2>9. IsDirectory(e)
    <3>1. 1 \in 1 .. Len(d) - 1 /\ e[1] = d[1]
      BY <2>2, <2>4, <2>6, <2>5
    <3>2. e # <<>> /\ e[1].name = Kv
      BY <3>1, <2>4, <2>5
    <3>3. ASSUME NEW i \in 1 .. Len(e), NEW j \in 1 .. Len(e), e[i].name = e[j].name
          PROVE  i = j
      <4>1. PICK k \in 1 .. Len(d) : k # p /\ e[i] = d[k] /\ k = IF i < p THEN i ELSE i + 1
        BY <2>4, <2>7
      <4>2. PICK l \in 1 .. Len(d) : l # p /\ e[j] = d[l] /\ l = IF j < p THEN j ELSE j + 1
        BY <2>4, <2>7
      <4>3. d[k].name = d[l].name
        BY <3>3, <4>1, <4>2, Zenon
      <4>4. k = l
        BY <4>3, <2>5
      <4>5. i \in Nat /\ j \in Nat
        BY <2>4, <2>5
      <4>6. QED
        BY <4>1, <4>2, <4>4, <4>5, <2>6
    <3>4. QED
      BY <3>2, <3>3, <2>4 DEF IsDirectory
  <2>10. ASSUME NEW m
         PROVE  TableOf(e, m) = IF m = name THEN NewTable(<<>>) ELSE TableOf(d, m)
    <3>1. CASE m = name
      <4>1. ASSUME NEW j \in 1 .. Len(e)
            PROVE  e[j].name # name
        <5>1. PICK k \in 1 .. Len(d) : k # p /\ e[j] = d[k]
          BY <2>4, <2>7
        <5>2. QED
          BY <5>1, <2>2, <2>5
      <4>2. ~HasCollection(e, m)
        BY <3>1, <4>1, <2>9, HasIsThere
      <4>3. QED
        BY <3>1, <4>2, <2>9, NoneInDirectory
    <3>2. CASE m # name /\ HasCollection(d, m)
      <4>1. PICK k \in 1 .. Len(d) : d[k].name = m
        BY <3>2, HasIsThere
      <4>2. k # p
        BY <4>1, <3>2, <2>2
      <4>3. PICK j \in 1 .. Len(e) : e[j] = d[k]
        BY <4>2, <2>8
      <4>4. TableOf(e, m) = e[j].table /\ TableOf(d, m) = d[k].table
        BY <4>1, <4>3, <2>9, TableAt
      <4>5. QED
        BY <3>2, <4>3, <4>4
    <3>3. CASE m # name /\ ~HasCollection(d, m)
      <4>1. ASSUME NEW j \in 1 .. Len(e)
            PROVE  e[j].name # m
        <5>1. PICK k \in 1 .. Len(d) : k # p /\ e[j] = d[k]
          BY <2>4, <2>7
        <5>2. QED
          BY <5>1, <3>3, HasIsThere
      <4>2. ~HasCollection(e, m)
        BY <4>1, <2>9, HasIsThere
      <4>3. QED
        BY <3>3, <4>2, <2>9, NoneInDirectory
    <3>4. QED
      BY <3>1, <3>2, <3>3
  <2>11. QED
    BY <1>2, <2>9, <2>10
<1>3. QED
  BY <1>1, <1>2
-----------------------------------------------------------------------------
(***************************************************************************)
(* Documents without objects or arrays in them.                            *)
(***************************************************************************)
FlatTypes == NumericTypes \cup {"string", "null"}

FlatDoc(d) == \A x \in DOMAIN d : d[x].type \in FlatTypes /\ d[x].n \in Int

Neat(t) == Listed(t) /\ t.id \in Int /\ \A r \in DOMAIN t.docs : FlatDoc(t.docs[r])

\* A document with its "_id" is as flat as before.
LEMMA NumberedIsFlat ==
  ASSUME NEW d, FlatDoc(d), NEW n \in Int
  PROVE  FlatDoc(Numbered(d, n))
BY DEF FlatDoc, Numbered, With, Uint, FlatTypes, NumericTypes

\* A document and a patch without objects make one without objects.
LEMMA MergedIsFlat ==
  ASSUME NEW d, FlatDoc(d), NEW patch, FlatDoc(patch)
  PROVE  FlatDoc(Merged(d, patch))
BY DEF FlatDoc, Merged, Overlaid

\* A new collection is neat.
LEMMA NeatNew ==
  ASSUME NEW fields
  PROVE  Neat(NewTable(fields))
<1>1. DOMAIN NewTable(fields).docs = {} /\ NewTable(fields).id = 0
  BY DEF NewTable
<1>2. QED
  BY <1>1, ListedNew DEF Neat

\* update keeps a collection neat.
LEMMA NeatUpdate ==
  ASSUME NEW t, Neat(t), NEW q, NEW patch, FlatDoc(patch)
  PROVE  Neat(TableUpdate(t, q, patch))
<1> DEFINE u == TableUpdate(t, q, patch)
<1>1. CASE FirstMatchIn(t, q) = {}
  BY <1>1 DEF TableUpdate
<1>2. CASE FirstMatchIn(t, q) # {}
  <2> DEFINE r == First(t, q)
             d == Merged(t.docs[r], patch)
             ixs == Reindexed(t, r, d)
             m == [t.docs EXCEPT ![r] = d]
  <2>1. u \in Record(t.nodes, m, t.id, ixs)
    BY <1>2, UpdateParts DEF Listed, Neat
  <2>2. r \in DOMAIN t.docs
    BY <1>2, FirstIsThere DEF First
  <2>3. FlatDoc(d)
    BY <2>2, MergedIsFlat DEF Neat
  <2> HIDE DEF d, ixs, r, u
  <2>4. \A s \in DOMAIN m : s \in DOMAIN t.docs /\ FlatDoc(m[s])
    BY <2>2, <2>3 DEF Neat
  <2> HIDE DEF m
  <2>5. u.docs = m /\ u.id = t.id
    BY <2>1, RecordParts
  <2>6. Listed(u)
    BY ListedUpdate DEF u, Neat
  <2>7. Neat(u)
    BY <2>4, <2>5, <2>6 DEF Neat
  <2>8. QED
    BY <2>7 DEF u
<1>3. QED
  BY <1>1, <1>2

\* So does a round of drop,
LEMMA NeatDropOne ==
  ASSUME NEW t, Neat(t), NEW q
  PROVE  Neat(DropOne(t, q))
<1> DEFINE u == DropOne(t, q)
<1>1. CASE FirstMatchIn(t, q) = {}
  BY <1>1 DEF DropOne
<1>2. CASE FirstMatchIn(t, q) # {}
  <2> DEFINE r == First(t, q)
             m == Without(t.docs, r)
             l == Unlisted(t, r)
             ixs == Cleared(t, r)
  <2>1. u \in Record(l, m, t.id, ixs)
    BY <1>2, DropOneParts DEF Listed, Neat
  <2>2. \A s \in DOMAIN m : s \in DOMAIN t.docs /\ m[s] = t.docs[s]
    BY DEF Without
  <2> HIDE DEF l, ixs, u, m
  <2>3. u.docs = m /\ u.id = t.id
    BY <2>1, RecordParts
  <2>4. Listed(u)
    BY ListedDropOne DEF u, Neat
  <2>5. Neat(u)
    BY <2>2, <2>3, <2>4 DEF Neat
  <2>6. QED
    BY <2>5 DEF u
<1>3. QED
  BY <1>1, <1>2

\* append of a document without objects,
LEMMA NeatAppend ==
  ASSUME NEW t, Neat(t), NEW d, Accepted(d) => FlatDoc(d)
  PROVE  Neat(TableAppend(t, d))
<1>1. CASE ~Accepted(d)
  BY <1>1 DEF TableAppend
<1>2. CASE Accepted(d)
  <2> DEFINE r == NewNode(t)
             stored == Numbered(d, t.id)
             l == Append(t.nodes, r)
             m == With(t.docs, r, stored)
             c == Counted(t, stored[Id])
             ixs == Outcome(InsertIndexEntries(t.indices, r, stored))
             u == TableAppend(t, d)
  <2>1. u \in Record(l, m, c, ixs)
    BY <1>2, AppendParts
  <2>2. FlatDoc(stored)
    BY <1>2, NumberedIsFlat DEF Neat
  <2>2a. c \in Int
    <3>1. stored[Id].n \in Int
      BY <2>2 DEF Numbered, With, FlatDoc
    <3>2. QED
      BY <3>1 DEF Counted, Neat
  <2> HIDE DEF r, stored, u, c, ixs, l
  <2>3. \A s \in DOMAIN m : FlatDoc(m[s])
    BY <2>2 DEF Neat, With
  <2> HIDE DEF m
  <2>4. u.docs = m /\ u.id = c
    BY <2>1, RecordParts
  <2>5. Listed(u)
    BY ListedAppend DEF u, Neat
  <2>6. Neat(u)
    BY <2>2a, <2>3, <2>4, <2>5 DEF Neat
  <2>7. QED
    BY <2>6 DEF u
<1>3. QED
  BY <1>1, <1>2

\* createIndex,
LEMMA NeatCreateIndex ==
  ASSUME NEW t, Neat(t), NEW f
  PROVE  Neat(TableCreateIndex(t, f))
<1> DEFINE ixs == Append(t.indices, IndexNodes(t, f))
           u == TableCreateIndex(t, f)
<1>1. u = [t EXCEPT !.indices = ixs]
  BY DEF TableCreateIndex
<1> HIDE DEF ixs, u
<1>2. u \in Record(t.nodes, t.docs, t.id, ixs)
  BY <1>1 DEF Neat, Listed, IsTable, Record
<1>3. u.docs = t.docs /\ u.id = t.id
  BY <1>2, RecordParts
<1>4. Listed(u)
  BY ListedCreateIndex DEF u, Neat
<1>5. Neat(u)
  BY <1>3, <1>4 DEF Neat
<1>6. QED
  BY <1>5 DEF u

\* and drop as a whole.
LEMMA NeatDrop ==
  ASSUME NEW t, Neat(t), NEW q, NEW limit \in Int, limit >= 0
  PROVE  Neat(TableDrop(t, q, limit))
<1>1. Cardinality(DOMAIN t.docs) \in Nat
  BY NodesAreFinite, FS_CardinalityType DEF Neat
<1>2. PICK rounds \in Nat : rounds = Taken(limit, Cardinality(DOMAIN t.docs))
  BY <1>1 DEF Taken
<1>3. PICK g : /\ TableDrop(t, q, limit) = g[rounds]
               /\ g[0] = t
               /\ \A i \in 1 .. rounds : g[i] = DropOne(g[i - 1], q)
  BY <1>2, TableDropRounds
<1> DEFINE Bad == {i \in 0 .. rounds : ~Neat(g[i])}
<1>4. SUFFICES ASSUME Bad # {} PROVE FALSE
  BY <1>2, <1>3
<1>5. PICK i \in Bad : \A j \in Bad : i <= j
  <2>1. Bad \subseteq Nat
    OBVIOUS
  <2> HIDE DEF Bad
  <2>2. QED
    BY <1>4, <2>1, MinIsLeast
<1>6. i # 0
  BY <1>3
<1>7. i \in 1 .. rounds /\ i - 1 \in 0 .. rounds /\ i - 1 \notin Bad
  BY <1>5, <1>6
<1>8. Neat(g[i - 1]) /\ g[i] = DropOne(g[i - 1], q)
  BY <1>3, <1>7
<1>9. QED
  BY <1>8, NeatDropOne
-----------------------------------------------------------------------------
(***************************************************************************)
(* What changes and lines do to a database.                                *)
(***************************************************************************)
NeatDb(d) == IsDirectory(d) /\ \A m \in AllNames : Neat(TableOf(d, m))

Commands == {"append", "update", "drop", "dropCollection"}

IsCommand(c) ==
  /\ c.cmd \in Commands
  /\ c.on \in AllNames
  /\ c.cmd = "append" /\ Accepted(c.document) => FlatDoc(c.document)
  /\ c.cmd = "update" => FlatDoc(c.document)
  /\ c.cmd = "drop" => c.limit \in Int

IsChange(c) == IsCommand(c) /\ (c.cmd = "drop" => c.limit >= 0)

\* A database in which a collection has changed.
LEMMA NeatPut ==
  ASSUME NEW d, NeatDb(d), NEW name \in AllNames, NEW t, Neat(t)
  PROVE  NeatDb(WithTable(d, name, t))
<1> DEFINE e == WithTable(d, name, t)
<1>1. /\ IsDirectory(e)
      /\ \A m : TableOf(e, m) = IF m = name THEN t ELSE TableOf(d, m)
  BY Put DEF NeatDb
<1> HIDE DEF e
<1>2. NeatDb(e)
  BY <1>1 DEF NeatDb
<1>3. QED
  BY <1>2 DEF e

\* A database without a collection.
LEMMA NeatDropped ==
  ASSUME NEW d, NeatDb(d), NEW name \in AllNames
  PROVE  NeatDb(DropCollectionFrom(d, name))
<1> DEFINE e == DropCollectionFrom(d, name)
<1>1. /\ IsDirectory(e)
      /\ \A m : TableOf(e, m) = IF m = name /\ name # Kv THEN NewTable(<<>>) ELSE TableOf(d, m)
  BY Dropped DEF NeatDb
<1> HIDE DEF e
<1>2. Neat(NewTable(<<>>))
  BY NeatNew
<1>3. NeatDb(e)
  BY <1>1, <1>2 DEF NeatDb
<1>4. QED
  BY <1>3 DEF e

\* A process begins with a neat database.
LEMMA NeatEmpty ==
  NeatDb(EmptyDatabase)
<1> DEFINE e == EmptyDatabase
<1>1. e # <<>> /\ Len(e) = 1 /\ e[1].name = Kv /\ e[1].table = NewTable(<<"k">>)
      /\ \E T : e \in Seq([name : AllNames, table : T])
  <2>1. PICK t : t = NewTable(<<"k">>)
    OBVIOUS
  <2>2. e = <<[name |-> Kv, table |-> t]>> /\ Kv \in AllNames
    BY <2>1 DEF EmptyDatabase, AllNames
  <2> HIDE DEF e
  <2>3. e \in Seq([name : AllNames, table : {t}])
    BY <2>2
  <2>4. QED
    BY <2>1, <2>2, <2>3
<1> HIDE DEF e
<1>2. IsDirectory(e)
  <2>1. e # <<>>
    BY <1>1
  <2>2. \A i, j \in 1 .. Len(e) : e[i].name = e[j].name => i = j
    BY <1>1
  <2>3. QED
    BY <1>1, <2>1, <2>2 DEF IsDirectory
<1>3. ASSUME NEW m \in AllNames
      PROVE  Neat(TableOf(e, m))
  <2>1. CASE HasCollection(e, m)
    <3>1. m = Kv
      BY <1>1, <1>2, <2>1, HasIsThere
    <3>2. TableOf(e, m) = NewTable(<<"k">>)
      BY <3>1, <1>1, <1>2, TableAt
    <3>3. QED
      BY <3>2, NeatNew
  <2>2. CASE ~HasCollection(e, m)
    BY <1>2, <2>2, NoneInDirectory, NeatNew
  <2>3. QED
    BY <2>1, <2>2
<1>4. QED
  BY <1>2, <1>3 DEF NeatDb, e

\* A line of the journal that is executed keeps the database neat.
LEMMA NeatExecute ==
  ASSUME NEW d, NeatDb(d), NEW l, IsCommand(l)
  PROVE  NeatDb(Execute(d, l))
<1> DEFINE t == TableOf(d, l.on)
<1>1. l.on \in AllNames /\ Neat(t)
  BY DEF IsCommand, NeatDb
<1>2. CASE l.cmd = "append"
  <2>1. Neat(TableAppend(t, l.document))
    BY <1>1, <1>2, NeatAppend DEF IsCommand
  <2>2. Execute(d, l) = WithTable(d, l.on, TableAppend(t, l.document))
    BY <1>2 DEF Execute
  <2>3. QED
    BY <1>1, <2>1, <2>2, NeatPut
<1>3. CASE l.cmd = "update"
  <2>1. Neat(TableUpdate(t, l.query, l.document))
    BY <1>1, <1>3, NeatUpdate DEF IsCommand
  <2>2. Execute(d, l) = WithTable(d, l.on, TableUpdate(t, l.query, l.document))
    BY <1>3 DEF Execute
  <2>3. QED
    BY <1>1, <2>1, <2>2, NeatPut
<1>4. CASE l.cmd = "drop"
  <2> DEFINE limit == LimitRead(l.limit, t)
  <2>1. Cardinality(DOMAIN t.docs) \in Nat
    BY <1>1, NodesAreFinite, FS_CardinalityType DEF Neat
  <2>2. limit \in Int /\ limit >= 0
    BY <1>4, <2>1 DEF IsCommand, LimitRead
  <2>3. Execute(d, l) = WithTable(d, l.on, TableDrop(t, l.query, limit))
    BY <1>4 DEF Execute
  <2> HIDE DEF limit
  <2>4. Neat(TableDrop(t, l.query, limit))
    BY <1>1, <2>2, NeatDrop
  <2>5. QED
    BY <1>1, <2>3, <2>4, NeatPut
<1>5. CASE l.cmd = "dropCollection"
  <2>1. Execute(d, l) = DropCollectionFrom(d, l.on)
    BY <1>5 DEF Execute
  <2>2. QED
    BY <1>1, <2>1, NeatDropped
<1>6. QED
  BY <1>2, <1>3, <1>4, <1>5 DEF IsCommand, Commands

\* A change of a client keeps the database neat.
LEMMA NeatApplied ==
  ASSUME NeatDb(db), NEW c, IsChange(c)
  PROVE  NeatDb(Applied(c))
<1> DEFINE t == TableOf(db, c.on)
<1>1. c.on \in AllNames /\ Neat(t)
  BY DEF IsChange, IsCommand, NeatDb
<1>2. CASE c.cmd = "append"
  <2>1. Neat(TableAppend(t, c.document))
    BY <1>1, <1>2, NeatAppend DEF IsChange, IsCommand
  <2>2. Applied(c) = WithTable(db, c.on, TableAppend(t, c.document))
    BY <1>2 DEF Applied
  <2>3. QED
    BY <1>1, <2>1, <2>2, NeatPut
<1>3. CASE c.cmd = "update"
  <2>1. Neat(TableUpdate(t, c.query, c.document))
    BY <1>1, <1>3, NeatUpdate DEF IsChange, IsCommand
  <2>2. Applied(c) = WithTable(db, c.on, TableUpdate(t, c.query, c.document))
    BY <1>3 DEF Applied
  <2>3. QED
    BY <1>1, <2>1, <2>2, NeatPut
<1>4. CASE c.cmd = "drop"
  <2>1. c.limit \in Int /\ c.limit >= 0
    BY <1>4 DEF IsChange, IsCommand
  <2>2. Applied(c) = WithTable(db, c.on, TableDrop(t, c.query, c.limit))
    BY <1>4 DEF Applied
  <2>3. Neat(TableDrop(t, c.query, c.limit))
    BY <1>1, <2>1, NeatDrop
  <2>4. QED
    BY <1>1, <2>2, <2>3, NeatPut
<1>5. CASE c.cmd = "dropCollection"
  <2>1. Applied(c) = DropCollectionFrom(db, c.on)
    BY <1>5 DEF Applied
  <2>2. QED
    BY <1>1, <2>1, NeatDropped
<1>6. QED
  BY <1>2, <1>3, <1>4, <1>5 DEF IsChange, IsCommand, Commands
-----------------------------------------------------------------------------
\* As text a flat document is flat.
LEMMA AsTextIsFlat ==
  ASSUME NEW d, FlatDoc(d)
  PROVE  FlatDoc(AsText(d))
BY DEF FlatDoc, AsText, Uint, FlatTypes, NumericTypes

\* A limit that is written as an int is one.
LEMMA LimitsAreInts ==
  ASSUME NEW n \in Int
  PROVE  AsInt(n) \in Int
BY DocumentsAssumption DEF AsInt

\* The parts of a line that append writes.
LEMMA AppendLine ==
  ASSUME NEW name, NEW d, NEW l, l = Line(name, AppendCommand(d))
  PROVE  l.cmd = "append" /\ l.on = name /\ l.document = d
BY DEF Line, AppendCommand, With

\* The parts of a line that update writes.
LEMMA UpdateLine ==
  ASSUME NEW name, NEW q, NEW d, NEW l, l = Line(name, UpdateCommand(q, d))
  PROVE  l.cmd = "update" /\ l.on = name /\ l.query = q /\ l.document = d
BY DEF Line, UpdateCommand, With

\* The parts of a line that drop writes.
LEMMA DropLine ==
  ASSUME NEW name, NEW q, NEW n, NEW l, l = Line(name, DropCommand(q, n))
  PROVE  l.cmd = "drop" /\ l.on = name /\ l.query = q /\ l.limit = AsInt(n)
BY DEF Line, DropCommand, With

\* What is written for a change is a command that execute knows.
LEMMA LineOfChange ==
  ASSUME NEW c, IsChange(c), NeatDb(db), ~LeavesNoTrace(c)
  PROVE  IsCommand(LineOf(c))
<1>0. c.on \in AllNames
  BY DEF IsChange, IsCommand
<1>1. CASE c.cmd = "append"
  <2>1. Accepted(c.document)
    BY <1>1 DEF LeavesNoTrace
  <2> DEFINE x == AsText(Numbered(c.document, TableOf(db, c.on).id))
             l == LineOf(c)
  <2>2. l = Line(c.on, AppendCommand(x))
    BY <1>1 DEF LineOf
  <2>3. FlatDoc(x)
    BY <1>0, <1>1, <2>1, NumberedIsFlat, AsTextIsFlat DEF IsChange, IsCommand, NeatDb, Neat
  <2> HIDE DEF x, l
  <2>4. l.cmd = "append" /\ l.on = c.on /\ l.document = x
    BY <2>2, AppendLine
  <2>5. IsCommand(l)
    BY <1>0, <2>3, <2>4 DEF IsCommand, Commands
  <2>6. QED
    BY <2>5 DEF l
<1>2. CASE c.cmd = "update"
  <2> DEFINE x == AsText(c.document)
             l == LineOf(c)
  <2>2. l = Line(c.on, UpdateCommand(c.query, x))
    BY <1>2 DEF LineOf
  <2>3. FlatDoc(x)
    BY <1>2, AsTextIsFlat DEF IsChange, IsCommand
  <2> HIDE DEF x, l
  <2>4. l.cmd = "update" /\ l.on = c.on /\ l.document = x
    BY <2>2, UpdateLine
  <2>5. IsCommand(l)
    BY <1>0, <2>3, <2>4 DEF IsCommand, Commands
  <2>6. QED
    BY <2>5 DEF l
<1>3. CASE c.cmd = "drop"
  <2> DEFINE l == LineOf(c)
  <2>2. l = Line(c.on, DropCommand(c.query, c.limit))
    BY <1>3 DEF LineOf
  <2> HIDE DEF l
  <2>3. AsInt(c.limit) \in Int
    BY <1>3, LimitsAreInts DEF IsChange, IsCommand
  <2>4. l.cmd = "drop" /\ l.on = c.on /\ l.limit = AsInt(c.limit)
    BY <2>2, DropLine
  <2>5. IsCommand(l)
    BY <1>0, <2>3, <2>4 DEF IsCommand, Commands
  <2>6. QED
    BY <2>5 DEF l
<1>4. CASE c.cmd = "dropCollection"
  BY <1>4 DEF LineOf, IsChange
<1>5. QED
  BY <1>1, <1>2, <1>3, <1>4 DEF IsChange, IsCommand, Commands
-----------------------------------------------------------------------------
(***************************************************************************)
(* Sequences of sequences, one behind the other.                           *)
(***************************************************************************)
IsFlatten(g, n, ss) == g = [i \in 1 .. n |-> IF i = 1 THEN ss[i] ELSE g[i - 1] \o ss[i]]

\* The recursive function of FlattenSeq exists.
LEMMA FlattenExists ==
  ASSUME NEW ss
  PROVE  \A n \in Nat : \E g : IsFlatten(g, n, ss)
<1> DEFINE Bad == {n \in Nat : ~ \E g : IsFlatten(g, n, ss)}
<1>1. SUFFICES ASSUME Bad # {} PROVE FALSE
  OBVIOUS
<1>2. PICK n \in Bad : \A m \in Bad : n <= m
  <2>1. Bad \subseteq Nat
    OBVIOUS
  <2> HIDE DEF Bad
  <2>2. QED
    BY <1>1, <2>1, MinIsLeast
<1>3. CASE n = 0
  <2>1. IsFlatten([i \in 1 .. 0 |-> 0], 0, ss)
    BY DEF IsFlatten
  <2>2. QED
    BY <1>3, <2>1
<1>4. CASE n # 0
  <2>1. n - 1 \in Nat /\ n - 1 \notin Bad
    BY <1>2, <1>4
  <2>2. PICK f : IsFlatten(f, n - 1, ss)
    BY <2>1
  <2> DEFINE g == [i \in 1 .. n |-> IF i = n THEN IF i = 1 THEN ss[i] ELSE f[n - 1] \o ss[n] ELSE f[i]]
  <2>3. \A i \in 1 .. n - 1 : f[i] = IF i = 1 THEN ss[i] ELSE f[i - 1] \o ss[i]
    BY <2>2 DEF IsFlatten
  <2>4. \A i \in 1 .. n : g[i] = IF i = 1 THEN ss[i] ELSE g[i - 1] \o ss[i]
    BY <1>4, <2>1, <2>3
  <2>5. IsFlatten(g, n, ss)
    <3> HIDE DEF g
    <3>1. g = [i \in 1 .. n |-> g[i]]
      BY DEF g
    <3>2. QED
      BY <3>1, <2>4 DEF IsFlatten
  <2>6. QED
    BY <2>5
<1>5. QED
  BY <1>3, <1>4

\* FlattenSeq is one part behind the other.
LEMMA FlattenIs ==
  ASSUME NEW ss, Len(ss) \in Nat \ {0}
  PROVE  \E g : /\ FlattenSeq(ss) = g[Len(ss)]
                /\ \A i \in 1 .. Len(ss) : g[i] = IF i = 1 THEN ss[i] ELSE g[i - 1] \o ss[i]
<1> DEFINE n == Len(ss)
           g == CHOOSE g : IsFlatten(g, n, ss)
<1>1. IsFlatten(g, n, ss)
  BY FlattenExists
<1>2. FlattenSeq(ss) = g[n]
  BY DEF FlattenSeq, IsFlatten
<1> HIDE DEF g
<1>3. \A i \in 1 .. n : g[i] = IF i = 1 THEN ss[i] ELSE g[i - 1] \o ss[i]
  BY <1>1 DEF IsFlatten
<1>4. QED
  BY <1>2, <1>3

\* The beginnings of the whole, up to the end of each part.
IsBuildUp(g, ss, S) ==
  /\ g[0] = <<>>
  /\ FlattenSeq(ss) = g[Len(ss)]
  /\ \A i \in 0 .. Len(ss) : g[i] \in Seq(S)
  /\ \A i \in 1 .. Len(ss) : g[i] = g[i - 1] \o ss[i]

\* So it builds up to the whole, part by part.
LEMMA FlattenParts ==
  ASSUME NEW T, NEW ss \in Seq(T), NEW S, \A i \in 1 .. Len(ss) : ss[i] \in Seq(S)
  PROVE  \E g : IsBuildUp(g, ss, S)
<1>1. CASE Len(ss) = 0
  <2> DEFINE g == [i \in 0 .. 0 |-> <<>>]
  <2>1. ss = <<>>
    BY <1>1
  <2>2. IsBuildUp(g, ss, S)
    BY <1>1, <2>1 DEF FlattenSeq, IsBuildUp
  <2>3. QED
    BY <2>2
<1>2. CASE Len(ss) # 0
  <2>1. Len(ss) \in Nat \ {0}
    BY <1>2
  <2>2. PICK f : /\ FlattenSeq(ss) = f[Len(ss)]
                 /\ \A i \in 1 .. Len(ss) : f[i] = IF i = 1 THEN ss[i] ELSE f[i - 1] \o ss[i]
    BY <2>1, FlattenIs
  <2> DEFINE g == [i \in 0 .. Len(ss) |-> IF i = 0 THEN <<>> ELSE f[i]]
  <2>3. g[0] = <<>> /\ FlattenSeq(ss) = g[Len(ss)]
    BY <2>1, <2>2
  <2>4. \A i \in 1 .. Len(ss) : g[i] = IF i = 1 THEN ss[i] ELSE g[i - 1] \o ss[i]
    BY <2>2
  <2> HIDE DEF g
  <2>5. ASSUME NEW i \in 1 .. Len(ss), g[i - 1] \in Seq(S)
        PROVE  g[i] \in Seq(S) /\ g[i] = g[i - 1] \o ss[i]
    <3>1. CASE i = 1
      <4>1. g[i] = ss[i] /\ g[i - 1] = <<>> /\ ss[i] \in Seq(S)
        BY <2>3, <2>4, <3>1
      <4>2. QED
        BY <4>1
    <3>2. CASE i # 1
      <4>1. g[i] = g[i - 1] \o ss[i] /\ ss[i] \in Seq(S)
        BY <2>4, <3>2
      <4>2. QED
        BY <2>5, <4>1
    <3>3. QED
      BY <3>1, <3>2
  <2>6. \A i \in 0 .. Len(ss) : g[i] \in Seq(S)
    <3> DEFINE Bad == {i \in 0 .. Len(ss) : g[i] \notin Seq(S)}
    <3>1. SUFFICES ASSUME Bad # {} PROVE FALSE
      OBVIOUS
    <3>2. PICK i \in Bad : \A j \in Bad : i <= j
      <4>1. Bad \subseteq Nat
        OBVIOUS
      <4> HIDE DEF Bad
      <4>2. QED
        BY <3>1, <4>1, MinIsLeast
    <3>3. i # 0
      <4>1. <<>> \in Seq(S)
        OBVIOUS
      <4>2. QED
        BY <2>3, <3>2, <4>1
    <3>4. i \in 1 .. Len(ss) /\ i - 1 \in 0 .. Len(ss) /\ i - 1 \notin Bad
      BY <2>1, <3>2, <3>3
    <3>5. QED
      BY <3>4, <2>5
  <2>7. \A i \in 1 .. Len(ss) : g[i] = g[i - 1] \o ss[i]
    <3> TAKE i \in 1 .. Len(ss)
    <3>1. i - 1 \in 0 .. Len(ss)
      BY <2>1
    <3>2. QED
      BY <3>1, <2>5, <2>6
  <2>8. IsBuildUp(g, ss, S)
    BY <2>3, <2>6, <2>7 DEF IsBuildUp
  <2>9. QED
    BY <2>8
<1>3. QED
  BY <1>1, <1>2
-----------------------------------------------------------------------------
(***************************************************************************)
(* What a file may go on with, and what load does next.                    *)
(***************************************************************************)
Leads(m, x, n) ==
  \/ m = "array" /\ x = Byte("array") /\ n = "name"
  \/ m = "array" /\ x = Zero /\ n = "nothing"
  \/ m = "name" /\ x.v \in AllNames /\ n = "object"
  \/ m = "object" /\ x = Byte("object") /\ n = "type"
  \/ m = "object" /\ x = Zero /\ n = "array"
  \/ m = "type" /\ x = Zero /\ n = "object"
  \/ m = "type" /\ \E type \in FlatTypes :
                     x = Byte(type) /\ n = IF type = "null" THEN "nullName" ELSE "memberName"
  \/ m = "nullName" /\ n = "type"
  \/ m = "memberName" /\ n = "scalar"
  \/ m = "scalar" /\ x.v \in Int /\ n = "type"

Path(h, m, f, n) ==
  /\ h[0] = m
  /\ h[Len(f)] = n
  /\ \A k \in 1 .. Len(f) : Leads(h[k - 1], f[k], h[k])

Passes(m, f, n) == \E h : Path(h, m, f, n)

\* A part of a file that leads on to another.
LEMMA PassesOn ==
  ASSUME NEW S, NEW a \in Seq(S), NEW b \in Seq(S), NEW m, NEW n, NEW o, Passes(m, a, n), Passes(n, b, o)
  PROVE  a \o b \in Seq(S) /\ Passes(m, a \o b, o)
<1>1. PICK g : Path(g, m, a, n)
  BY DEF Passes
<1>2. PICK h : Path(h, n, b, o)
  BY DEF Passes
<1>3. PICK c : c = a \o b
  OBVIOUS
<1>4. PICK la \in Nat, lb \in Nat : la = Len(a) /\ lb = Len(b)
  OBVIOUS
<1>5. Len(c) = la + lb /\ \A k \in 1 .. la + lb : c[k] = IF k <= la THEN a[k] ELSE b[k - la]
  BY <1>3, <1>4
<1> DEFINE p == [k \in 0 .. la + lb |-> IF k <= la THEN g[k] ELSE h[k - la]]
<1>6. g[0] = m /\ g[la] = n /\ h[0] = n /\ h[lb] = o
      /\ (\A k \in 1 .. la : Leads(g[k - 1], a[k], g[k]))
      /\ (\A k \in 1 .. lb : Leads(h[k - 1], b[k], h[k]))
  BY <1>1, <1>2, <1>4 DEF Path
<1>7. p[0] = m /\ p[la + lb] = o
  BY <1>6
<1>8. ASSUME NEW k \in 1 .. la + lb
      PROVE  Leads(p[k - 1], c[k], p[k])
  <2>1. CASE k <= la
    <3>1. p[k - 1] = g[k - 1] /\ c[k] = a[k] /\ p[k] = g[k] /\ k \in 1 .. la
      BY <2>1, <1>5
    <3>2. QED
      BY <3>1, <1>6
  <2>2. CASE k > la
    <3>1. PICK j \in 1 .. lb : j = k - la
      BY <2>2
    <3>2. p[k] = h[j] /\ c[k] = b[j]
      BY <2>2, <3>1, <1>5
    <3>3. p[k - 1] = h[j - 1]
      <4>1. CASE k = la + 1
        <5>1. k - 1 = la /\ j - 1 = 0 /\ k - 1 \in 0 .. la + lb
          BY <4>1, <3>1
        <5>2. QED
          BY <5>1, <1>6
      <4>2. CASE k # la + 1
        <5>1. k - 1 \in 0 .. la + lb /\ ~ (k - 1 <= la) /\ (k - 1) - la = j - 1
          BY <4>2, <3>1, <2>2
        <5>2. QED
          BY <5>1
      <4>3. QED
        BY <4>1, <4>2
    <3>4. QED
      BY <3>1, <3>2, <3>3, <1>6
  <2>3. QED
    BY <2>1, <2>2
<1> HIDE DEF p
<1>9. Path(p, m, c, o)
  BY <1>5, <1>7, <1>8 DEF Path
<1>10. a \o b \in Seq(S)
  OBVIOUS
<1>11. QED
  BY <1>3, <1>9, <1>10 DEF Passes

\* Nothing leads load nowhere.
LEMMA PassesNothing ==
  ASSUME NEW m
  PROVE  Passes(m, <<>>, m)
<1>1. Path([k \in 0 .. 0 |-> m], m, <<>>, m)
  BY DEF Path
<1>2. QED
  BY <1>1 DEF Passes

\* Parts that each bring load back to where it was.
LEMMA PassesAll ==
  ASSUME NEW T, NEW ss \in Seq(T), NEW S, \A i \in 1 .. Len(ss) : ss[i] \in Seq(S), NEW m,
         \A i \in 1 .. Len(ss) : Passes(m, ss[i], m)
  PROVE  FlattenSeq(ss) \in Seq(S) /\ Passes(m, FlattenSeq(ss), m)
<1>1. PICK g : IsBuildUp(g, ss, S)
  BY FlattenParts
<1>2. Len(ss) \in Nat
  OBVIOUS
<1> DEFINE Bad == {i \in 0 .. Len(ss) : ~Passes(m, g[i], m)}
<1>3. SUFFICES Bad = {}
  BY <1>1, <1>2 DEF IsBuildUp
<1>4. SUFFICES ASSUME Bad # {} PROVE FALSE
  OBVIOUS
<1>5. PICK i \in Bad : \A j \in Bad : i <= j
  <2>1. Bad \subseteq Nat
    OBVIOUS
  <2> HIDE DEF Bad
  <2>2. QED
    BY <1>4, <2>1, MinIsLeast
<1>6. i # 0
  BY <1>1, PassesNothing DEF IsBuildUp
<1>7. i \in 1 .. Len(ss) /\ i - 1 \in 0 .. Len(ss) /\ i - 1 \notin Bad
  BY <1>2, <1>5, <1>6
<1>8. Passes(m, g[i - 1], m) /\ g[i - 1] \in Seq(S) /\ g[i] = g[i - 1] \o ss[i]
  BY <1>1, <1>7 DEF IsBuildUp
<1>9. Passes(m, g[i], m)
  BY <1>7, <1>8, PassesOn
<1>10. QED
  BY <1>9
-----------------------------------------------------------------------------
(***************************************************************************)
(* The data file.                                                          *)
(***************************************************************************)
FileValues == FlatTypes \cup {"object", "array", "invalid"} \cup AllNames \cup Range(NameOrder) \cup Int

FileFields == [is : {"type", "name", "scalar"}, v : FileValues]

\* The bytes between documents are fields.
LEMMA ZeroIsField ==
  Zero \in FileFields /\ Byte("object") \in FileFields /\ Byte("array") \in FileFields
BY DEF Zero, Byte, FileFields, FileValues

\* A field on its own leads where it leads.
LEMMA OneField ==
  ASSUME NEW x, NEW m, NEW n, Leads(m, x, n), x \in FileFields
  PROVE  <<x>> \in Seq(FileFields) /\ Passes(m, <<x>>, n)
<1> DEFINE h == [k \in 0 .. 1 |-> IF k = 0 THEN m ELSE n]
<1>1. Path(h, m, <<x>>, n)
  BY DEF Path
<1>2. QED
  BY <1>1 DEF Passes

\* Three fields are two and one.
LEMMA Three ==
  ASSUME NEW a, NEW b, NEW c
  PROVE  <<a, b>> \o <<c>> = <<a, b, c>>
<1> DEFINE S == {a, b, c}
<1>1. <<a, b>> \in Seq(S) /\ <<c>> \in Seq(S) /\ <<a, b, c>> \in Seq(S)
  OBVIOUS
<1>2. PICK s : s = <<a, b>> \o <<c>>
  OBVIOUS
<1>3. s \in Seq(S) /\ Len(s) = 3 /\ s[1] = a /\ s[2] = b /\ s[3] = c
  BY <1>2
<1>4. PICK t : t = <<a, b, c>>
  OBVIOUS
<1>5. t \in Seq(S) /\ Len(t) = 3 /\ t[1] = a /\ t[2] = b /\ t[3] = c
  BY <1>4
<1> HIDE DEF S
<1>6. s = t
  BY <1>3, <1>5, SeqEqual
<1>7. QED
  BY <1>2, <1>4, <1>6

\* A member that is written leads from the type byte of a member to the next one.
LEMMA MemberPasses ==
  ASSUME NEW name \in Range(NameOrder), NEW v, v.type \in FlatTypes, v.n \in Int
  PROVE  /\ EncodeMember(name, v) \in Seq(FileFields)
         /\ Passes("type", EncodeMember(name, v), "type")
<1> DEFINE a == Byte(v.type)
           b == Name(name)
           c == Scalar(v.n)
<1>1. a \in FileFields /\ b \in FileFields /\ c \in FileFields
  BY DEF Byte, Name, Scalar, FileFields, FileValues
<1>2. c.v \in Int
  BY DEF Scalar
<1>3. CASE v.type = "null"
  <2>1. Leads("type", a, "nullName") /\ Leads("nullName", b, "type")
    BY <1>3 DEF Leads
  <2>2. EncodeMember(name, v) = <<a, b>>
    BY <1>3 DEF EncodeMember
  <2> HIDE DEF a, b, c
  <2> DEFINE h == [k \in 0 .. 2 |-> IF k = 1 THEN "nullName" ELSE "type"]
  <2>3. Path(h, "type", <<a, b>>, "type")
    BY <2>1 DEF Path
  <2>4. QED
    BY <2>2, <2>3, <1>1 DEF Passes
<1>4. CASE v.type # "null"
  <2>1. Leads("type", a, "memberName") /\ Leads("memberName", b, "scalar")
        /\ Leads("scalar", c, "type")
    BY <1>4, <1>2 DEF Leads
  <2>2a. EncodeMember(name, v) = <<a, b>> \o <<c>>
    BY <1>4 DEF EncodeMember
  <2> HIDE DEF a, b, c
  <2>2. EncodeMember(name, v) = <<a, b, c>>
    BY <2>2a, Three
  <2> DEFINE h == [k \in 0 .. 3 |-> IF k = 1 THEN "memberName" ELSE IF k = 2 THEN "scalar" ELSE "type"]
  <2>3. Path(h, "type", <<a, b, c>>, "type")
    <3>1. h[0] = "type" /\ h[3] = "type" /\ h[1] = "memberName" /\ h[2] = "scalar"
      OBVIOUS
    <3>2. Len(<<a, b, c>>) = 3 /\ <<a, b, c>>[1] = a /\ <<a, b, c>>[2] = b /\ <<a, b, c>>[3] = c
      OBVIOUS
    <3> HIDE DEF h
    <3>3. ASSUME NEW k \in 1 .. 3
          PROVE  Leads(h[k - 1], <<a, b, c>>[k], h[k])
      <4>1. CASE k = 1
        BY <4>1, <3>1, <3>2, <2>1
      <4>2. CASE k = 2
        BY <4>2, <3>1, <3>2, <2>1
      <4>3. CASE k = 3
        BY <4>3, <3>1, <3>2, <2>1
      <4>4. QED
        BY <4>1, <4>2, <4>3
    <3>4. QED
      BY <3>1, <3>2, <3>3 DEF Path
  <2>4. QED
    BY <2>2, <2>3, <1>1 DEF Passes
<1>5. QED
  BY <1>3, <1>4

EncodedMembers(d) ==
  [i \in DOMAIN NameOrder |->
    IF NameOrder[i] \in DOMAIN d THEN EncodeMember(NameOrder[i], d[NameOrder[i]]) ELSE <<>>]

\* The names of members are in a sequence.
LEMMA NameOrderIsSeq ==
  Len(NameOrder) \in Nat /\ DOMAIN NameOrder = 1 .. Len(NameOrder)
BY DatabaseAssumption

\* Every member a document may have leads to the next one.
LEMMA EncodedMembersPass ==
  ASSUME NEW d, FlatDoc(d)
  PROVE  /\ EncodedMembers(d) \in Seq(Seq(FileFields))
         /\ Len(EncodedMembers(d)) = Len(NameOrder)
         /\ \A i \in 1 .. Len(NameOrder) :
              /\ EncodedMembers(d)[i] \in Seq(FileFields)
              /\ Passes("type", EncodedMembers(d)[i], "type")
<1>1. ASSUME NEW i \in DOMAIN NameOrder
      PROVE  /\ EncodedMembers(d)[i] \in Seq(FileFields)
             /\ Passes("type", EncodedMembers(d)[i], "type")
  <2>1. CASE NameOrder[i] \in DOMAIN d
    <3>1. EncodedMembers(d)[i] = EncodeMember(NameOrder[i], d[NameOrder[i]])
      BY <2>1 DEF EncodedMembers
    <3>2. NameOrder[i] \in Range(NameOrder) /\ d[NameOrder[i]].type \in FlatTypes
          /\ d[NameOrder[i]].n \in Int
      BY <2>1 DEF Range, FlatDoc
    <3>3. QED
      BY <3>1, <3>2, MemberPasses
  <2>2. CASE NameOrder[i] \notin DOMAIN d
    <3>1. EncodedMembers(d)[i] = <<>>
      BY <2>2 DEF EncodedMembers
    <3>2. QED
      BY <3>1, PassesNothing
  <2>3. QED
    BY <2>1, <2>2
<1>2. QED
  BY <1>1, NameOrderIsSeq DEF EncodedMembers

\* A document that is written leads to the byte in front of the next document.
LEMMA EncodePasses ==
  ASSUME NEW d, FlatDoc(d)
  PROVE  Encode(d) \in Seq(FileFields) /\ Passes("type", Encode(d), "object")
<1> DEFINE ss == EncodedMembers(d)
           f == FlattenSeq(ss)
<1>1. ss \in Seq(Seq(FileFields))
      /\ \A i \in 1 .. Len(ss) : ss[i] \in Seq(FileFields) /\ Passes("type", ss[i], "type")
  BY EncodedMembersPass
<1> HIDE DEF ss
<1>2. f \in Seq(FileFields) /\ Passes("type", f, "type")
  BY <1>1, PassesAll
<1>3. <<Zero>> \in Seq(FileFields) /\ Passes("type", <<Zero>>, "object")
  <2>1. Leads("type", Zero, "object")
    BY DEF Leads
  <2>2. QED
    BY <2>1, OneField, ZeroIsField
<1>4. Encode(d) = f \o <<Zero>>
  BY DEF Encode, ss, EncodedMembers
<1> HIDE DEF f
<1>5. PICK z : z = <<Zero>>
  OBVIOUS
<1>6. f \o z \in Seq(FileFields) /\ Passes("type", f \o z, "object")
  BY <1>2, <1>3, <1>5, PassesOn
<1>7. QED
  BY <1>4, <1>5, <1>6

DocumentField(d) == <<Byte("object")>> \o Encode(d)

\* So it does with the byte in front of it.
LEMMA DocumentPasses ==
  ASSUME NEW d, FlatDoc(d)
  PROVE  DocumentField(d) \in Seq(FileFields) /\ Passes("object", DocumentField(d), "object")
<1>1. Leads("object", Byte("object"), "type")
  BY DEF Leads
<1>2. <<Byte("object")>> \in Seq(FileFields) /\ Passes("object", <<Byte("object")>>, "type")
  BY <1>1, OneField, ZeroIsField
<1>3. Encode(d) \in Seq(FileFields) /\ Passes("type", Encode(d), "object")
  BY EncodePasses
<1>4. QED
  BY <1>2, <1>3, PassesOn DEF DocumentField

DocumentFields(t) == [p \in DOMAIN t.nodes |-> DocumentField(t.docs[t.nodes[p]])]

\* A collection that is written leads to the byte in front of the next one.
LEMMA TablePasses ==
  ASSUME NEW t, Neat(t)
  PROVE  TableImage(t) \in Seq(FileFields) /\ Passes("object", TableImage(t), "array")
<1> DEFINE ss == DocumentFields(t)
           f == FlattenSeq(ss)
<1>1. ASSUME NEW p \in DOMAIN t.nodes
      PROVE  ss[p] \in Seq(FileFields) /\ Passes("object", ss[p], "object")
  <2>1. t.nodes[p] \in DOMAIN t.docs
    BY DEF Neat, Listed, Range
  <2>2. FlatDoc(t.docs[t.nodes[p]])
    BY <2>1 DEF Neat
  <2>3. ss[p] = DocumentField(t.docs[t.nodes[p]])
    BY DEF DocumentFields
  <2>4. QED
    BY <2>2, <2>3, DocumentPasses
<1>2. Len(t.nodes) \in Nat /\ DOMAIN t.nodes = 1 .. Len(t.nodes)
  BY DEF Neat, Listed
<1>3. ss \in Seq(Seq(FileFields)) /\ DOMAIN ss = DOMAIN t.nodes /\ Len(ss) = Len(t.nodes)
  <2>1. DOMAIN ss = 1 .. Len(t.nodes) /\ ss = [p \in 1 .. Len(t.nodes) |-> ss[p]]
    BY <1>2 DEF DocumentFields
  <2> HIDE DEF ss
  <2>2. ss \in [1 .. Len(t.nodes) -> Seq(FileFields)]
    BY <1>1, <1>2, <2>1
  <2>3. QED
    BY <1>2, <2>2
<1>4. TableImage(t) = f \o <<Zero>>
  BY DEF TableImage, DocumentFields, DocumentField
<1> HIDE DEF ss
<1>5. f \in Seq(FileFields) /\ Passes("object", f, "object")
  BY <1>1, <1>2, <1>3, PassesAll
<1>6. <<Zero>> \in Seq(FileFields) /\ Passes("object", <<Zero>>, "array")
  <2>1. Leads("object", Zero, "array")
    BY DEF Leads
  <2>2. QED
    BY <2>1, OneField, ZeroIsField
<1> HIDE DEF f
<1>7. PICK z : z = <<Zero>>
  OBVIOUS
<1>8. f \o z \in Seq(FileFields) /\ Passes("object", f \o z, "array")
  BY <1>5, <1>6, <1>7, PassesOn
<1>9. QED
  BY <1>4, <1>7, <1>8

CollectionField(c) == <<Byte("array"), Name(c.name)>> \o TableImage(c.table)

\* So it does with the byte and the name in front of it.
LEMMA CollectionPasses ==
  ASSUME NEW c, c.name \in AllNames, Neat(c.table)
  PROVE  /\ CollectionField(c) \in Seq(FileFields)
         /\ Passes("array", CollectionField(c), "array")
<1> DEFINE a == Byte("array")
           b == Name(c.name)
<1>1. a \in FileFields /\ b \in FileFields
  BY DEF Byte, Name, FileFields, FileValues
<1>2. Leads("array", a, "name") /\ Leads("name", b, "object")
  BY DEF Leads, Name
<1>3. CollectionField(c) = <<a, b>> \o TableImage(c.table)
  BY DEF CollectionField
<1> HIDE DEF a, b
<1> DEFINE h == [k \in 0 .. 2 |-> IF k = 0 THEN "array" ELSE IF k = 1 THEN "name" ELSE "object"]
<1>4. Path(h, "array", <<a, b>>, "object")
  BY <1>2 DEF Path
<1>5. <<a, b>> \in Seq(FileFields) /\ Passes("array", <<a, b>>, "object")
  BY <1>1, <1>4 DEF Passes
<1>6. PICK g : g = TableImage(c.table)
  OBVIOUS
<1>7. g \in Seq(FileFields) /\ Passes("object", g, "array")
  BY <1>6, TablePasses
<1>8. PICK z : z = <<a, b>>
  OBVIOUS
<1>9. z \o g \in Seq(FileFields) /\ Passes("array", z \o g, "array")
  BY <1>5, <1>7, <1>8, PassesOn
<1>10. QED
  BY <1>3, <1>6, <1>8, <1>9

CollectionFields(d) == [i \in DOMAIN d |-> CollectionField(d[i])]

\* What save writes is a sequence of fields that leads to the end of the file.
LEMMA ImagePasses ==
  ASSUME NEW d, NeatDb(d)
  PROVE  Image(d) \in Seq(FileFields) /\ Passes("array", Image(d), "nothing")
<1> DEFINE ss == CollectionFields(d)
           f == FlattenSeq(ss)
<1>1. /\ Len(d) \in Nat \ {0}
      /\ DOMAIN d = 1 .. Len(d)
      /\ \A i \in 1 .. Len(d) : d[i].name \in AllNames
  BY DirectoryElements DEF NeatDb
<1>2. ASSUME NEW i \in DOMAIN d
      PROVE  ss[i] \in Seq(FileFields) /\ Passes("array", ss[i], "array")
  <2>1. TableOf(d, d[i].name) = d[i].table
    BY <1>1, TableAt DEF NeatDb
  <2>2. Neat(d[i].table)
    BY <1>1, <2>1 DEF NeatDb
  <2>3. ss[i] = CollectionField(d[i])
    BY DEF CollectionFields
  <2>4. QED
    BY <1>1, <2>2, <2>3, CollectionPasses
<1>3. ss \in Seq(Seq(FileFields)) /\ DOMAIN ss = DOMAIN d /\ Len(ss) = Len(d)
  BY <1>1, <1>2 DEF CollectionFields
<1>4. Image(d) = f \o <<Zero>>
  BY DEF Image, CollectionFields, CollectionField
<1> HIDE DEF ss
<1>5. f \in Seq(FileFields) /\ Passes("array", f, "array")
  BY <1>1, <1>2, <1>3, PassesAll
<1>6. <<Zero>> \in Seq(FileFields) /\ Passes("array", <<Zero>>, "nothing")
  <2>1. Leads("array", Zero, "nothing")
    BY DEF Leads
  <2>2. QED
    BY <2>1, OneField, ZeroIsField
<1> HIDE DEF f
<1>7. PICK z : z = <<Zero>>
  OBVIOUS
<1>8. f \o z \in Seq(FileFields) /\ Passes("array", f \o z, "nothing")
  BY <1>5, <1>6, <1>7, PassesOn
<1>9. QED
  BY <1>4, <1>7, <1>8
-----------------------------------------------------------------------------
(***************************************************************************)
(* load, field by field.                                                   *)
(***************************************************************************)
ReaderRecord(a, b, c, d) == [members : {a}, expects : {b}, type : {c}, name : {d}]

IsReader(o) ==
  /\ o \in ReaderRecord(o.members, o.expects, o.type, o.name)
  /\ FlatDoc(o.members)
  /\ o.expects \in {"type", "name", "scalar"}
  /\ o.expects # "type" => o.type \in FlatTypes
  /\ o.expects = "scalar" => o.type # "null"

LoaderRecord(a, b, c, d) == [db : {a}, reads : {b}, name : {c}, object : {d}]

IsLoader(r) ==
  /\ r \in LoaderRecord(r.db, r.reads, r.name, r.object)
  /\ NeatDb(r.db)
  /\ r.name \in AllNames
  /\ r.reads \in {"array", "name", "object", "member", "nothing"}
  /\ r.reads = "member" => IsReader(r.object)

\* What r goes on with.
Mode(r) ==
  IF r.reads # "member" THEN r.reads
  ELSE IF r.object.expects = "name"
       THEN IF r.object.type = "null" THEN "nullName" ELSE "memberName"
       ELSE r.object.expects

\* The parts of a document that is being read.
LEMMA ReaderParts ==
  ASSUME NEW a, NEW b, NEW c, NEW d, NEW o \in ReaderRecord(a, b, c, d)
  PROVE  /\ o \in ReaderRecord(o.members, o.expects, o.type, o.name)
         /\ o.members = a /\ o.expects = b /\ o.type = c /\ o.name = d
BY DEF ReaderRecord

\* The parts of a database that is being loaded.
LEMMA LoaderParts ==
  ASSUME NEW a, NEW b, NEW c, NEW d, NEW r \in LoaderRecord(a, b, c, d)
  PROVE  /\ r \in LoaderRecord(r.db, r.reads, r.name, r.object)
         /\ r.db = a /\ r.reads = b /\ r.name = c /\ r.object = d
BY DEF LoaderRecord

\* A member that has been read.
LEMMA InsertedParts ==
  ASSUME NEW o, IsReader(o), NEW name, NEW n \in Int, o.type \in FlatTypes,
         NEW u, u = Inserted(o, name, n)
  PROVE  /\ u \in ReaderRecord(u.members, u.expects, u.type, u.name)
         /\ u.members = IF name \in DOMAIN o.members THEN o.members
                        ELSE With(o.members, name, ScalarRead(o.type, n))
         /\ u.expects = "type"
         /\ FlatDoc(u.members)
<1> DEFINE m == IF name \in DOMAIN o.members THEN o.members
                ELSE With(o.members, name, ScalarRead(o.type, n))
<1>1. FlatDoc(m)
  BY DEF FlatDoc, With, ScalarRead, IsReader
<1>2. u = [o EXCEPT !.members = m, !.expects = "type"]
  BY DEF Inserted
<1> HIDE DEF m
<1>3. u \in ReaderRecord(m, "type", o.type, o.name)
  BY <1>2 DEF IsReader, ReaderRecord
<1>4. /\ u \in ReaderRecord(u.members, u.expects, u.type, u.name)
      /\ u.members = m /\ u.expects = "type"
  BY <1>3, ReaderParts
<1>5. QED
  BY <1>1, <1>4 DEF m

\* A field that begins a member or belongs to one.
LEMMA ReadFieldKeeps ==
  ASSUME NEW o, IsReader(o), NEW x, NEW n, NEW m,
         m = (IF o.expects = "name" THEN IF o.type = "null" THEN "nullName" ELSE "memberName"
              ELSE o.expects),
         Leads(m, x, n),
         NEW u, u = ReadField(o, x)
  PROVE  IF n = "object" THEN u.expects = "nothing" /\ u.members = o.members
         ELSE /\ IsReader(u)
              /\ n = IF u.expects = "name" THEN IF u.type = "null" THEN "nullName" ELSE "memberName"
                     ELSE u.expects
<1>1. CASE o.expects = "type"
  <2>1. m = "type"
    BY <1>1
  <2>2. CASE x = Zero
    <3>1. u = [o EXCEPT !.expects = "nothing"]
      BY <1>1, <2>2 DEF ReadField
    <3>2. u \in ReaderRecord(o.members, "nothing", o.type, o.name)
      BY <3>1 DEF IsReader, ReaderRecord
    <3>3. n = "object"
      BY <2>1, <2>2 DEF Leads, Zero, Byte, FlatTypes, NumericTypes
    <3>4. QED
      BY <3>2, <3>3, ReaderParts
  <2>3. CASE x # Zero
    <3>1. PICK type \in FlatTypes :
            x = Byte(type) /\ n = IF type = "null" THEN "nullName" ELSE "memberName"
      BY <2>1, <2>3 DEF Leads
    <3>2. u = [o EXCEPT !.type = x.v, !.expects = "name"]
      BY <1>1, <2>3 DEF ReadField
    <3>3. u \in ReaderRecord(o.members, "name", x.v, o.name)
      BY <3>2 DEF IsReader, ReaderRecord
    <3>4. /\ u \in ReaderRecord(u.members, u.expects, u.type, u.name)
          /\ u.members = o.members /\ u.expects = "name" /\ u.type = x.v
      BY <3>3, ReaderParts
    <3>5. x.v = type
      BY <3>1 DEF Byte
    <3>6. IsReader(u)
      BY <3>4, <3>5 DEF IsReader
    <3>7. n # "object"
      BY <3>1
    <3>8. QED
      BY <3>1, <3>4, <3>5, <3>6, <3>7
  <2>4. QED
    BY <2>2, <2>3
<1>2. CASE o.expects = "name" /\ o.type = "null"
  <2>1. n = "type" /\ o.type \in FlatTypes
    BY <1>2 DEF Leads, IsReader
  <2>2. u = Inserted(o, x.v, 0)
    BY <1>2 DEF ReadField
  <2>3. /\ u \in ReaderRecord(u.members, u.expects, u.type, u.name)
        /\ u.expects = "type"
        /\ FlatDoc(u.members)
    BY <2>1, <2>2, InsertedParts
  <2>4. IsReader(u)
    BY <2>3 DEF IsReader
  <2>5. QED
    BY <2>1, <2>3, <2>4
<1>3. CASE o.expects = "name" /\ o.type # "null"
  <2>1. n = "scalar" /\ o.type \in FlatTypes
    BY <1>3 DEF Leads, IsReader
  <2>2. u = [o EXCEPT !.name = x.v, !.expects = "scalar"]
    BY <1>3 DEF ReadField
  <2>3. u \in ReaderRecord(o.members, "scalar", o.type, x.v)
    BY <2>2 DEF IsReader, ReaderRecord
  <2>4. /\ u \in ReaderRecord(u.members, u.expects, u.type, u.name)
        /\ u.members = o.members /\ u.expects = "scalar" /\ u.type = o.type
    BY <2>3, ReaderParts
  <2>5. IsReader(u)
    BY <1>3, <2>1, <2>4 DEF IsReader
  <2>6. QED
    BY <2>1, <2>4, <2>5
<1>4. CASE o.expects = "scalar"
  <2>1. n = "type" /\ o.type \in FlatTypes /\ x.v \in Int
    BY <1>4 DEF Leads, IsReader
  <2>2. u = Inserted(o, o.name, x.v)
    BY <1>4 DEF ReadField
  <2>3. /\ u \in ReaderRecord(u.members, u.expects, u.type, u.name)
        /\ u.expects = "type"
        /\ FlatDoc(u.members)
    BY <2>1, <2>2, InsertedParts
  <2>4. IsReader(u)
    BY <2>3 DEF IsReader
  <2>5. QED
    BY <2>1, <2>3, <2>4
<1>5. QED
  BY <1>1, <1>2, <1>3, <1>4 DEF IsReader

\* load appends a document to a collection.
LEMMA NeatLoaded ==
  ASSUME NEW d, NeatDb(d), NEW name \in AllNames, NEW members, FlatDoc(members)
  PROVE  NeatDb(Loaded(d, name, members))
<1>1. Neat(TableOf(d, name))
  BY DEF NeatDb
<1>2. Neat(TableAppend(TableOf(d, name), members))
  BY <1>1, NeatAppend
<1>3. QED
  BY <1>2, NeatPut DEF Loaded

\* load creates a collection it has read the name of.
LEMMA NeatGot ==
  ASSUME NEW d, NeatDb(d), NEW name \in AllNames
  PROVE  NeatDb(GetCollection(d, name))
<1> DEFINE e == GetCollection(d, name)
<1>1. IsDirectory(e) /\ \A m : TableOf(e, m) = TableOf(d, m)
  BY Got DEF NeatDb
<1> HIDE DEF e
<1>2. NeatDb(e)
  BY <1>1 DEF NeatDb
<1>3. QED
  BY <1>2 DEF e

\* A field that may come next leaves load where the next one is expected.
LEMMA LoadFieldKeeps ==
  ASSUME NEW r, IsLoader(r), NEW x, NEW n, Leads(Mode(r), x, n), NEW u, u = LoadField(r, x)
  PROVE  IsLoader(u) /\ Mode(u) = n
<1>1. CASE r.reads = "array"
  <2>1. Mode(r) = "array"
    BY <1>1 DEF Mode
  <2> DEFINE next == IF x = Byte("array") THEN "name" ELSE "nothing"
  <2>2. u = [r EXCEPT !.reads = next]
    BY <1>1 DEF LoadField
  <2>3. n = next
    BY <2>1 DEF Leads, Zero, Byte
  <2>4. next # "member" /\ next \in {"name", "nothing"}
    OBVIOUS
  <2> HIDE DEF next
  <2>5. u \in LoaderRecord(r.db, next, r.name, r.object)
    BY <2>2 DEF IsLoader, LoaderRecord
  <2>6. /\ u \in LoaderRecord(u.db, u.reads, u.name, u.object)
        /\ u.db = r.db /\ u.reads = next /\ u.name = r.name
    BY <2>5, LoaderParts
  <2>7. QED
    BY <2>3, <2>4, <2>6 DEF IsLoader, Mode
<1>2. CASE r.reads = "name"
  <2>1. Mode(r) = "name"
    BY <1>2 DEF Mode
  <2>2. n = "object" /\ x.v \in AllNames
    BY <2>1 DEF Leads
  <2> DEFINE d == GetCollection(r.db, x.v)
  <2>3. u = [r EXCEPT !.db = d, !.name = x.v, !.reads = "object"]
    BY <1>2 DEF LoadField
  <2>4. NeatDb(d)
    BY <2>2, NeatGot DEF IsLoader
  <2> HIDE DEF d
  <2>5. u \in LoaderRecord(d, "object", x.v, r.object)
    BY <2>3 DEF IsLoader, LoaderRecord
  <2>6. /\ u \in LoaderRecord(u.db, u.reads, u.name, u.object)
        /\ u.db = d /\ u.reads = "object" /\ u.name = x.v
    BY <2>5, LoaderParts
  <2>7. QED
    BY <2>2, <2>4, <2>6 DEF IsLoader, Mode
<1>3. CASE r.reads = "object"
  <2>1. Mode(r) = "object"
    BY <1>3 DEF Mode
  <2>2. CASE x = Byte("object")
    <3>1. n = "type"
      BY <2>1, <2>2 DEF Leads, Zero, Byte
    <3>2. u = [r EXCEPT !.object = Unread, !.reads = "member"]
      BY <1>3, <2>2 DEF LoadField
    <3>3. u \in LoaderRecord(r.db, "member", r.name, Unread)
      BY <3>2 DEF IsLoader, LoaderRecord
    <3>4. /\ u \in LoaderRecord(u.db, u.reads, u.name, u.object)
          /\ u.db = r.db /\ u.reads = "member" /\ u.name = r.name /\ u.object = Unread
      BY <3>3, LoaderParts
    <3>5. IsReader(Unread) /\ Unread.expects = "type"
      BY DEF IsReader, Unread, ReaderRecord, FlatDoc
    <3>6. QED
      BY <3>1, <3>4, <3>5 DEF IsLoader, Mode
  <2>3. CASE x # Byte("object")
    <3>1. n = "array"
      BY <2>1, <2>3 DEF Leads
    <3>2. u = [r EXCEPT !.reads = "array"]
      BY <1>3, <2>3 DEF LoadField
    <3>3. u \in LoaderRecord(r.db, "array", r.name, r.object)
      BY <3>2 DEF IsLoader, LoaderRecord
    <3>4. /\ u \in LoaderRecord(u.db, u.reads, u.name, u.object)
          /\ u.db = r.db /\ u.reads = "array" /\ u.name = r.name
      BY <3>3, LoaderParts
    <3>5. QED
      BY <3>1, <3>4 DEF IsLoader, Mode
  <2>4. QED
    BY <2>2, <2>3
<1>4. CASE r.reads = "member"
  <2> DEFINE o == ReadField(r.object, x)
  <2>1. IsReader(r.object)
    BY <1>4 DEF IsLoader
  <2>2. Mode(r) = IF r.object.expects = "name"
                  THEN IF r.object.type = "null" THEN "nullName" ELSE "memberName"
                  ELSE r.object.expects
    BY <1>4 DEF Mode
  <2>3. u = IF o.expects = "nothing"
            THEN [r EXCEPT !.db = Loaded(@, r.name, o.members), !.reads = "object"]
            ELSE [r EXCEPT !.object = o]
    BY <1>4 DEF LoadField
  <2>4. IF n = "object" THEN o.expects = "nothing" /\ o.members = r.object.members
        ELSE /\ IsReader(o)
             /\ n = IF o.expects = "name" THEN IF o.type = "null" THEN "nullName" ELSE "memberName"
                    ELSE o.expects
    BY <2>1, <2>2, ReadFieldKeeps
  <2> HIDE DEF o
  <2>5. CASE n = "object"
    <3> DEFINE d == Loaded(r.db, r.name, o.members)
    <3>1. NeatDb(d)
      BY <2>1, <2>4, <2>5, NeatLoaded DEF IsLoader, IsReader
    <3>2. u = [r EXCEPT !.db = d, !.reads = "object"]
      BY <2>3, <2>4, <2>5
    <3> HIDE DEF d
    <3>3. u \in LoaderRecord(d, "object", r.name, r.object)
      BY <3>2 DEF IsLoader, LoaderRecord
    <3>4. /\ u \in LoaderRecord(u.db, u.reads, u.name, u.object)
          /\ u.db = d /\ u.reads = "object" /\ u.name = r.name
      BY <3>3, LoaderParts
    <3>5. QED
      BY <2>5, <3>1, <3>4 DEF IsLoader, Mode
  <2>6. CASE n # "object"
    <3>1. u = [r EXCEPT !.object = o]
      BY <2>3, <2>4, <2>6 DEF IsReader
    <3>2. u \in LoaderRecord(r.db, "member", r.name, o)
      BY <1>4, <3>1 DEF IsLoader, LoaderRecord
    <3>3. /\ u \in LoaderRecord(u.db, u.reads, u.name, u.object)
          /\ u.db = r.db /\ u.reads = "member" /\ u.name = r.name /\ u.object = o
      BY <3>2, LoaderParts
    <3>4. QED
      BY <2>4, <2>6, <3>3 DEF IsLoader, Mode
  <2>7. QED
    BY <2>5, <2>6
<1>5. CASE r.reads = "nothing"
  BY <1>5 DEF Leads, Mode
<1>6. QED
  BY <1>1, <1>2, <1>3, <1>4, <1>5 DEF IsLoader
-----------------------------------------------------------------------------
IsReading(g, n, r, f) == g = [i \in 0 .. n |-> IF i = 0 THEN r ELSE LoadField(g[i - 1], f[i])]

\* The recursive function of LoadFields exists.
LEMMA ReadingExists ==
  ASSUME NEW r, NEW f
  PROVE  \A n \in Nat : \E g : IsReading(g, n, r, f)
<1> DEFINE Bad == {n \in Nat : ~ \E g : IsReading(g, n, r, f)}
<1>1. SUFFICES ASSUME Bad # {} PROVE FALSE
  OBVIOUS
<1>2. PICK n \in Bad : \A m \in Bad : n <= m
  <2>1. Bad \subseteq Nat
    OBVIOUS
  <2> HIDE DEF Bad
  <2>2. QED
    BY <1>1, <2>1, MinIsLeast
<1>3. CASE n = 0
  <2>1. IsReading([i \in 0 .. 0 |-> r], 0, r, f)
    BY DEF IsReading
  <2>2. QED
    BY <1>3, <2>1
<1>4. CASE n # 0
  <2>1. n - 1 \in Nat /\ n - 1 \notin Bad
    BY <1>2, <1>4
  <2>2. PICK e : IsReading(e, n - 1, r, f)
    BY <2>1
  <2> DEFINE g == [i \in 0 .. n |-> IF i = n THEN LoadField(e[n - 1], f[n]) ELSE e[i]]
  <2>3. \A i \in 0 .. n - 1 : e[i] = IF i = 0 THEN r ELSE LoadField(e[i - 1], f[i])
    BY <2>2 DEF IsReading
  <2>4. \A i \in 0 .. n : g[i] = IF i = 0 THEN r ELSE LoadField(g[i - 1], f[i])
    BY <1>4, <2>1, <2>3
  <2>5. IsReading(g, n, r, f)
    <3> HIDE DEF g
    <3>1. g = [i \in 0 .. n |-> g[i]]
      BY DEF g
    <3>2. QED
      BY <3>1, <2>4 DEF IsReading
  <2>6. QED
    BY <2>5
<1>5. QED
  BY <1>3, <1>4

Reads(g, r, f) ==
  /\ g[0] = r
  /\ \A i \in 1 .. Len(f) : g[i] = LoadField(g[i - 1], f[i])

\* load is one field after another.
LEMMA LoadFieldsReads ==
  ASSUME NEW r, NEW f, Len(f) \in Nat
  PROVE  \E g : Reads(g, r, f) /\ LoadFields(r, f) = g[Len(f)]
<1> DEFINE n == Len(f)
           g == CHOOSE g : IsReading(g, n, r, f)
<1>1. IsReading(g, n, r, f)
  BY ReadingExists
<1>2. LoadFields(r, f) = g[n]
  BY DEF LoadFields, IsReading
<1> HIDE DEF g
<1>3. \A i \in 0 .. n : g[i] = IF i = 0 THEN r ELSE LoadField(g[i - 1], f[i])
  BY <1>1 DEF IsReading
<1>4. QED
  BY <1>2, <1>3 DEF Reads

\* So load comes to the end of what leads there.
LEMMA LoadFieldsKeeps ==
  ASSUME NEW r, IsLoader(r), NEW f, Len(f) \in Nat, NEW n, Passes(Mode(r), f, n)
  PROVE  IsLoader(LoadFields(r, f)) /\ Mode(LoadFields(r, f)) = n
<1>1. PICK g : Reads(g, r, f) /\ LoadFields(r, f) = g[Len(f)]
  BY LoadFieldsReads
<1>2. PICK h : Path(h, Mode(r), f, n)
  BY DEF Passes
<1> DEFINE Bad == {i \in 0 .. Len(f) : ~ (IsLoader(g[i]) /\ Mode(g[i]) = h[i])}
<1>3. SUFFICES Bad = {}
  BY <1>1, <1>2 DEF Path
<1>4. SUFFICES ASSUME Bad # {} PROVE FALSE
  OBVIOUS
<1>5. PICK i \in Bad : \A j \in Bad : i <= j
  <2>1. Bad \subseteq Nat
    OBVIOUS
  <2> HIDE DEF Bad
  <2>2. QED
    BY <1>4, <2>1, MinIsLeast
<1>6. i # 0
  BY <1>1, <1>2 DEF Reads, Path
<1>7. i \in 1 .. Len(f) /\ i - 1 \in 0 .. Len(f) /\ i - 1 \notin Bad
  BY <1>5, <1>6
<1>8. g[i] = LoadField(g[i - 1], f[i]) /\ Leads(h[i - 1], f[i], h[i])
  BY <1>1, <1>2, <1>7 DEF Reads, Path
<1>9. IsLoader(g[i - 1]) /\ Mode(g[i - 1]) = h[i - 1]
  BY <1>7
<1>10. IsLoader(g[i]) /\ Mode(g[i]) = h[i]
  BY <1>8, <1>9, LoadFieldKeeps
<1>11. QED
  BY <1>10

\* A file that save has written, to its end or not.
IsFile(f) == Len(f) \in Nat /\ \E n : Passes("array", f, n)

\* Any beginning of a file is a file: a crash in the middle of save leaves one.
LEMMA PrefixIsFile ==
  ASSUME NEW S, NEW f \in Seq(S), IsFile(f), NEW k \in 0 .. Len(f)
  PROVE  IsFile(SubSeq(f, 1, k))
<1>1. PICK n, h : Path(h, "array", f, n)
  BY DEF IsFile, Passes
<1>2. PICK e : e = SubSeq(f, 1, k)
  OBVIOUS
<1>3. Len(e) = k /\ (\A i \in 1 .. k : e[i] = f[i]) /\ k \in Nat /\ k <= Len(f)
  BY <1>2
<1>4. Path(h, "array", e, h[k])
  BY <1>1, <1>3 DEF Path
<1>5. QED
  BY <1>2, <1>3, <1>4 DEF IsFile, Passes

\* A document the file ends in has no objects either.
LEMMA CutOffIsFlat ==
  ASSUME NEW o, IsReader(o)
  PROVE  FlatDoc(CutOff(o))
<1>1. CASE o.expects = "name"
  <2>1. PICK u : u = Inserted(o, Garbled, Missing(o.type))
    OBVIOUS
  <2>2. Missing(o.type) \in Int /\ o.type \in FlatTypes
    BY <1>1 DEF Missing, IsReader
  <2>3. FlatDoc(u.members)
    BY <2>1, <2>2, InsertedParts
  <2>4. QED
    BY <1>1, <2>1, <2>3 DEF CutOff
<1>2. CASE o.expects = "scalar"
  <2>1. PICK u : u = Inserted(o, o.name, Missing(o.type))
    OBVIOUS
  <2>2. Missing(o.type) \in Int /\ o.type \in FlatTypes
    BY <1>2 DEF Missing, IsReader
  <2>3. FlatDoc(u.members)
    BY <2>1, <2>2, InsertedParts
  <2>4. QED
    BY <1>2, <2>1, <2>3 DEF CutOff
<1>3. CASE o.expects = "type"
  BY <1>3 DEF CutOff, IsReader
<1>4. QED
  BY <1>1, <1>2, <1>3 DEF IsReader

\* Whatever save had written when its process died, load makes a neat database of it.
LEMMA LoadIsNeat ==
  ASSUME NEW f, IsFile(f)
  PROVE  NeatDb(Load(f).db)
<1> DEFINE r == LoadFields(Unloaded, f)
<1>1. IsLoader(Unloaded) /\ Mode(Unloaded) = "array"
  <2>1. PICK d : d = EmptyDatabase
    OBVIOUS
  <2>2. Unloaded = [db |-> d, reads |-> "array", name |-> Kv, object |-> Unread]
    BY <2>1 DEF Unloaded
  <2>3. Unloaded \in LoaderRecord(d, "array", Kv, Unread)
    BY <2>2 DEF LoaderRecord
  <2>4. QED
    BY <2>1, <2>3, LoaderParts, NeatEmpty DEF IsLoader, Mode, AllNames
<1>2. IsLoader(r)
  BY <1>1, LoadFieldsKeeps DEF IsFile
<1>3. Load(f).db = IF r.reads = "member" THEN Loaded(r.db, r.name, CutOff(r.object)) ELSE r.db
  BY DEF Load
<1> HIDE DEF r
<1>4. CASE r.reads = "member"
  BY <1>2, <1>3, <1>4, NeatLoaded, CutOffIsFlat DEF IsLoader
<1>5. CASE r.reads # "member"
  BY <1>2, <1>3, <1>5 DEF IsLoader
<1>6. QED
  BY <1>4, <1>5
-----------------------------------------------------------------------------
(***************************************************************************)
(* What a database, its files and the calls of its client are made of.     *)
(***************************************************************************)
IsJournal(s) == \E S : s \in Seq(S) /\ \A l \in S : l = Torn \/ IsCommand(l)

IsScript(s) == \E S : s \in Seq(S) /\ \A c \in S : IsChange(c)

\* A sequence that holds the lines of the journal until they are replayed.
Replays == pc \in {"replaying", "failed"}

\* The lines of a journal.
LEMMA JournalParts ==
  ASSUME NEW s, IsJournal(s)
  PROVE  /\ Len(s) \in Nat
         /\ s # <<>> => /\ Head(s) = Torn \/ IsCommand(Head(s))
                        /\ IsJournal(Tail(s))
<1>1. PICK S : s \in Seq(S) /\ \A l \in S : l = Torn \/ IsCommand(l)
  BY DEF IsJournal
<1>2. s # <<>> => Head(s) \in S /\ Tail(s) \in Seq(S)
  BY <1>1
<1>3. QED
  BY <1>1, <1>2 DEF IsJournal

\* A journal with lines more.
LEMMA JournalGrows ==
  ASSUME NEW s, IsJournal(s), NEW e, IsJournal(e)
  PROVE  IsJournal(s \o e) /\ Len(s \o e) = Len(s) + Len(e)
<1>1. PICK S : s \in Seq(S) /\ \A l \in S : l = Torn \/ IsCommand(l)
  BY DEF IsJournal
<1>2. PICK E : e \in Seq(E) /\ \A l \in E : l = Torn \/ IsCommand(l)
  BY DEF IsJournal
<1>3. s \in Seq(S \cup E) /\ e \in Seq(S \cup E)
  BY <1>1, <1>2
<1>4. s \o e \in Seq(S \cup E) /\ Len(s \o e) = Len(s) + Len(e)
  BY <1>3
<1>5. QED
  BY <1>1, <1>2, <1>4 DEF IsJournal

\* A journal whose last line is torn.
LEMMA JournalTorn ==
  ASSUME NEW s, IsJournal(s)
  PROVE  IsJournal(Append(s, Torn)) /\ Len(Append(s, Torn)) = Len(s) + 1
<1>1. PICK S : s \in Seq(S) /\ \A l \in S : l = Torn \/ IsCommand(l)
  BY DEF IsJournal
<1>2. PICK x : x = Torn
  OBVIOUS
<1>3. s \in Seq(S \cup {x})
  BY <1>1
<1>4. Append(s, x) \in Seq(S \cup {x}) /\ Len(Append(s, x)) = Len(s) + 1
  BY <1>3
<1>5. QED
  BY <1>1, <1>2, <1>4 DEF IsJournal

\* Empty files and no calls.
LEMMA NothingWritten ==
  /\ IsJournal(<<>>)
  /\ IsScript(<<>>)
  /\ IsFile(<<>>)
<1>1. PICK s : s = <<>>
  OBVIOUS
<1>2. s \in Seq({})
  BY <1>1
<1>3. IsJournal(s) /\ IsScript(s)
  BY <1>2 DEF IsJournal, IsScript
<1>4. IsFile(<<>>)
  BY PassesNothing DEF IsFile
<1>5. QED
  BY <1>1, <1>3, <1>4

\* A journal of one line.
LEMMA OneLine ==
  ASSUME NEW l, IsCommand(l)
  PROVE  IsJournal(<<l>>) /\ Len(<<l>>) = 1
<1>1. PICK s : s = <<l>>
  OBVIOUS
<1>2. s \in Seq({l}) /\ Len(s) = 1
  BY <1>1
<1>3. IsJournal(s)
  BY <1>2 DEF IsJournal
<1>4. QED
  BY <1>1, <1>2, <1>3

\* The changes of a call.
LEMMA ScriptParts ==
  ASSUME NEW s, IsScript(s)
  PROVE  /\ Len(s) \in Nat
         /\ s # <<>> => /\ IsChange(Head(s))
                        /\ IsScript(Tail(s))
                        /\ Len(Tail(s)) = Len(s) - 1
<1>1. PICK S : s \in Seq(S) /\ \A c \in S : IsChange(c)
  BY DEF IsScript
<1>2. s # <<>> => Head(s) \in S /\ Tail(s) \in Seq(S) /\ Len(Tail(s)) = Len(s) - 1
  BY <1>1
<1>3. QED
  BY <1>1, <1>2 DEF IsScript

\* A call of one change.
LEMMA OneChange ==
  ASSUME NEW c, IsChange(c)
  PROVE  IsScript(<<c>>)
<1>1. PICK s : s = <<c>>
  OBVIOUS
<1>2. s \in Seq({c})
  BY <1>1
<1>3. IsScript(s)
  BY <1>2 DEF IsScript
<1>4. QED
  BY <1>1, <1>3

\* A call of two changes.
LEMMA TwoChanges ==
  ASSUME NEW c, IsChange(c), NEW e, IsChange(e)
  PROVE  IsScript(<<c, e>>)
<1>1. PICK s : s = <<c, e>>
  OBVIOUS
<1>2. s \in Seq({c, e})
  BY <1>1
<1>3. IsScript(s)
  BY <1>2 DEF IsScript
<1>4. QED
  BY <1>1, <1>3
-----------------------------------------------------------------------------
\* What clients bring has no objects in it.
LEMMA PlainIsFlat ==
  ASSUME NEW d, PlainMembers(d)
  PROVE  FlatDoc(d)
BY DEF PlainMembers, PlainValue, FlatDoc, FlatTypes, Values

\* Neither documents nor patches have.
LEMMA InputsAreFlat ==
  /\ \A d \in Inputs : Accepted(d) => FlatDoc(d)
  /\ \A patch \in Patches : FlatDoc(patch)
<1>1. \A d \in (Inputs \ {NotAnObject}) \cup Patches : PlainMembers(d)
  BY DatabaseAssumption
<1>2. \A d \in (Inputs \ {NotAnObject}) \cup Patches : FlatDoc(d)
  BY <1>1, PlainIsFlat
<1>3. QED
  BY <1>2 DEF Accepted

\* Nor have key-value pairs.
LEMMA PairsAreFlat ==
  ASSUME NEW key \in Keys, NEW value \in KeyValues
  PROVE  FlatDoc(Pair(key, value))
<1>1. PlainValue(key) /\ PlainValue(value)
  BY DatabaseAssumption
<1>2. key.type \in FlatTypes /\ key.n \in Int /\ value.type \in FlatTypes /\ value.n \in Int
  BY <1>1 DEF PlainValue, FlatTypes, Values
<1>3. \A x \in DOMAIN Pair(key, value) : Pair(key, value)[x] = key \/ Pair(key, value)[x] = value
  BY DEF Pair
<1>4. QED
  BY <1>2, <1>3 DEF FlatDoc

\* append is a change.
LEMMA AppendingIsChange ==
  ASSUME NEW name \in AllNames, NEW d, Accepted(d) => FlatDoc(d)
  PROVE  IsChange(Appending(name, d))
<1>1. PICK c : c = Appending(name, d)
  OBVIOUS
<1>2. c.cmd = "append" /\ c.on = name /\ c.document = d
  BY <1>1 DEF Appending
<1>3. QED
  BY <1>1, <1>2 DEF IsChange, IsCommand, Commands

\* update is a change.
LEMMA UpdatingIsChange ==
  ASSUME NEW name \in AllNames, NEW q, NEW d, FlatDoc(d)
  PROVE  IsChange(Updating(name, q, d))
<1>1. PICK c : c = Updating(name, q, d)
  OBVIOUS
<1>2. c.cmd = "update" /\ c.on = name /\ c.document = d
  BY <1>1 DEF Updating
<1>3. QED
  BY <1>1, <1>2 DEF IsChange, IsCommand, Commands

\* drop is a change.
LEMMA DroppingIsChange ==
  ASSUME NEW name \in AllNames, NEW q, NEW limit \in Int, limit >= 0
  PROVE  IsChange(Dropping(name, q, limit))
<1>1. PICK c : c = Dropping(name, q, limit)
  OBVIOUS
<1>2. c.cmd = "drop" /\ c.on = name /\ c.limit = limit
  BY <1>1 DEF Dropping
<1>3. QED
  BY <1>1, <1>2 DEF IsChange, IsCommand, Commands

\* drop_collection is a change.
LEMMA DroppingCollectionIsChange ==
  ASSUME NEW name \in AllNames
  PROVE  IsChange(DroppingCollection(name))
<1>1. PICK c : c = DroppingCollection(name)
  OBVIOUS
<1>2. c.cmd = "dropCollection" /\ c.on = name
  BY <1>1 DEF DroppingCollection
<1>3. QED
  BY <1>1, <1>2 DEF IsChange, IsCommand, Commands
-----------------------------------------------------------------------------
Excuses == Reasons \cup {"lost"}

\* The running call: what it has still to change and to write fits into the journal.
CallFits ==
  IF Replays THEN IsJournal(changes) /\ Len(journal) <= MaxJournal
  ELSE IsScript(changes) /\ Len(journal) + Len(changes) + Len(line) <= MaxJournal

CallRuns ==
  /\ pc # "ready" => line = <<>>
  /\ pc \notin {"ready", "replaying", "failed"} => changes = <<>>
  /\ pc = "replaying" => ~jw

TypeInvariant ==
  /\ NeatDb(db)
  /\ jw \in BOOLEAN /\ prior \in BOOLEAN
  /\ IsFile(snapshot)
  /\ IsJournal(journal)
  /\ IsJournal(line) /\ Len(line) <= 1
  /\ pc \in Places
  /\ CallFits
  /\ CallRuns
  /\ excuses \subseteq Excuses
  /\ crashes \in 0 .. MaxCrashes

\* The bounds on journal and crashes are numbers.
LEMMA BoundsAreNatural == MaxJournal \in Nat /\ MaxCrashes \in Nat
BY DatabaseAssumption

\* It holds when the first process is started,
LEMMA TypeInvariantStarts == Init => TypeInvariant
<1> SUFFICES ASSUME Init PROVE TypeInvariant
  OBVIOUS
<1>1. NeatDb(db)
  BY NeatEmpty DEF Init
<1>2. IsFile(snapshot) /\ IsJournal(journal) /\ IsJournal(line) /\ IsScript(changes)
  BY NothingWritten DEF Init
<1>3. Len(journal) = 0 /\ Len(line) = 0 /\ Len(changes) = 0
  BY DEF Init
<1>4. CallFits /\ CallRuns
  BY <1>2, <1>3, BoundsAreNatural DEF Init, CallFits, CallRuns, Replays
<1>5. crashes \in 0 .. MaxCrashes /\ Len(line) <= 1
  BY <1>3, BoundsAreNatural DEF Init
<1>6. QED
  BY <1>1, <1>2, <1>4, <1>5 DEF Init, TypeInvariant, Places

\* when a call is made of changes,
LEMMA CallKeepsTypes ==
  ASSUME TypeInvariant, NEW op, NEW made, IsScript(made), Call(op, made)
  PROVE  TypeInvariant'
<1> USE DEF TypeInvariant, Call, Idle, memory, files, history
<1>1. Len(line) = 0 /\ pc = "ready"
  OBVIOUS
<1>2. CallFits'
  BY <1>1 DEF CallFits, Replays
<1>3. CallRuns'
  BY <1>1 DEF CallRuns
<1>4. QED
  BY <1>2, <1>3

\* when a pair is set,
LEMMA SetValueKeepsTypes ==
  ASSUME TypeInvariant, NEW key \in Keys, NEW value \in KeyValues, SetValue(key, value)
  PROVE  TypeInvariant'
<1> DEFINE limit == 2 * IntHalf - 1
<1>1. limit \in Int /\ limit >= 0
  BY DocumentsAssumption
<1>2. Kv \in AllNames
  BY DEF AllNames
<1>3. IsChange(Dropping(Kv, KeyQuery(key), limit))
  <2> HIDE DEF limit
  <2>1. QED
    BY <1>1, <1>2, DroppingIsChange
<1>4. IsChange(Appending(Kv, Pair(key, value)))
  BY <1>2, PairsAreFlat, AppendingIsChange
<1>5. PICK made : made = <<Dropping(Kv, KeyQuery(key), limit), Appending(Kv, Pair(key, value))>>
  OBVIOUS
<1>6. IsScript(made)
  BY <1>3, <1>4, <1>5, TwoChanges
<1>7. Call("setValue", made)
  BY <1>5 DEF SetValue
<1>8. QED
  BY <1>6, <1>7, CallKeepsTypes

\* when an index is created,
LEMMA CreateIndexKeepsTypes ==
  ASSUME TypeInvariant, NEW name \in Collections, NEW f \in IndexFields, CreateIndex(name, f)
  PROVE  TypeInvariant'
<1>1. name \in AllNames
  BY DEF AllNames
<1>2. Neat(TableOf(db, name))
  BY <1>1 DEF TypeInvariant, NeatDb
<1>3. Neat(TableCreateIndex(TableOf(db, name), f))
  BY <1>2, NeatCreateIndex
<1>4. NeatDb(db')
  BY <1>1, <1>3, NeatPut DEF TypeInvariant, CreateIndex
<1>5. CallFits' /\ CallRuns'
  BY DEF TypeInvariant, CreateIndex, CallFits, CallRuns, Replays, files, history
<1>6. QED
  BY <1>4, <1>5 DEF TypeInvariant, CreateIndex, files, history

\* whatever a client calls,
LEMMA CallsKeepTypes ==
  ASSUME TypeInvariant, Calls
  PROVE  TypeInvariant'
<1>1. ASSUME NEW name \in Collections, NEW d \in Inputs, AppendDocument(name, d)
      PROVE  TypeInvariant'
  <2>1. IsChange(Appending(name, d))
    BY InputsAreFlat, AppendingIsChange DEF AllNames
  <2>2. QED
    BY <1>1, <2>1, OneChange, CallKeepsTypes DEF AppendDocument
<1>2. ASSUME NEW name \in Collections, NEW q \in Queries, NEW patch \in Patches,
             UpdateDocument(name, q, patch)
      PROVE  TypeInvariant'
  <2>1. IsChange(Updating(name, q, patch))
    BY InputsAreFlat, UpdatingIsChange DEF AllNames
  <2>2. QED
    BY <1>2, <2>1, OneChange, CallKeepsTypes DEF UpdateDocument
<1>3. ASSUME NEW name \in Collections, NEW q \in Queries, NEW limit \in Limits,
             DropDocuments(name, q, limit)
      PROVE  TypeInvariant'
  <2>1. limit \in Int /\ limit >= 0
    BY DocumentsAssumption
  <2>2. IsChange(Dropping(name, q, limit))
    BY <2>1, DroppingIsChange DEF AllNames
  <2>3. QED
    BY <1>3, <2>2, OneChange, CallKeepsTypes DEF DropDocuments
<1>4. ASSUME NEW name \in Collections, NEW q \in Queries, NEW d \in Inputs, Upsert(name, q, d)
      PROVE  TypeInvariant'
  <2>1. IsChange(Appending(name, d))
    BY InputsAreFlat, AppendingIsChange DEF AllNames
  <2>2. DefaultLimit \in Int /\ DefaultLimit >= 0
    BY DEF DefaultLimit
  <2>3. IsChange(Dropping(name, q, DefaultLimit))
    BY <2>2, DroppingIsChange DEF AllNames
  <2>4. IsScript(<<Dropping(name, q, DefaultLimit), Appending(name, d)>>)
    BY <2>1, <2>3, TwoChanges
  <2>5. QED
    BY <1>4, <2>4, CallKeepsTypes DEF Upsert
<1>5. ASSUME NEW name \in Collections, DropCollection(name)
      PROVE  TypeInvariant'
  <2>1. IsChange(DroppingCollection(name))
    BY DroppingCollectionIsChange DEF AllNames
  <2>2. QED
    BY <1>5, <2>1, OneChange, CallKeepsTypes DEF DropCollection
<1>6. CASE Save
  <2>1. CallFits' /\ CallRuns'
    BY <1>6 DEF Save, TypeInvariant, CallFits, CallRuns, Replays, memory, files
  <2>2. QED
    BY <1>6, <2>1 DEF Save, TypeInvariant, memory, files, history, Places
<1>7. QED
  BY <1>1, <1>2, <1>3, <1>4, <1>5, <1>6, SetValueKeepsTypes, CreateIndexKeepsTypes DEF Calls
-----------------------------------------------------------------------------
\* when a process loads its files,
LEMMA StartKeepsTypes ==
  ASSUME TypeInvariant, LoadSnapshot \/ EnableJournal \/ Consolidate
  PROVE  TypeInvariant'
<1>0. Len(line) \in Nat /\ Len(journal) \in Nat
  BY JournalParts DEF TypeInvariant
<1>1. CASE LoadSnapshot
  <2>1. NeatDb(db')
    BY <1>1, LoadIsNeat DEF LoadSnapshot, TypeInvariant
  <2>2. CallFits' /\ CallRuns'
    BY <1>1 DEF LoadSnapshot, TypeInvariant, CallFits, CallRuns, Replays, files
  <2>3. QED
    BY <1>1, <2>1, <2>2 DEF LoadSnapshot, TypeInvariant, files, history, Places
<1>2. CASE EnableJournal
  <2>1. CallFits' /\ CallRuns'
    BY <1>2 DEF EnableJournal, TypeInvariant, CallFits, CallRuns, Replays, files
  <2>2. QED
    BY <1>2, <2>1 DEF EnableJournal, TypeInvariant, files, history, Places
<1>3. CASE Consolidate
  <2>1. Len(changes) \in Nat
    BY <1>3, ScriptParts DEF Consolidate, TypeInvariant, CallFits, Replays
  <2>2. CallFits' /\ CallRuns'
    BY <1>0, <1>3, <2>1, BoundsAreNatural
    DEF Consolidate, TypeInvariant, CallFits, CallRuns, Replays, files
  <2>3. QED
    BY <1>3, <2>2 DEF Consolidate, TypeInvariant, files, history, Places
<1>4. QED
  BY <1>1, <1>2, <1>3

\* when it replays the journal,
LEMMA ReplayKeepsTypes ==
  ASSUME TypeInvariant, ReplayLine \/ ReplayThrows \/ ReplayEnds
  PROVE  TypeInvariant'
<1>0. pc = "replaying" /\ ~jw /\ IsJournal(changes) /\ Len(journal) <= MaxJournal /\ line = <<>>
  BY DEF ReplayLine, ReplayThrows, ReplayEnds, Replaying, TypeInvariant, CallFits, CallRuns, Replays
<1>1. CASE ReplayLine
  <2>1. changes # <<>> /\ Head(changes) # Torn
    BY <1>1 DEF ReplayLine, Replaying, ExecuteThrows
  <2>2. IsCommand(Head(changes)) /\ IsJournal(Tail(changes))
    BY <1>0, <2>1, JournalParts
  <2>3. NeatDb(db')
    BY <1>1, <2>2, NeatExecute DEF ReplayLine, TypeInvariant
  <2>4. journal' = journal
    BY <1>0, <1>1 DEF ReplayLine
  <2>5. CallFits' /\ CallRuns'
    BY <1>0, <1>1, <2>2, <2>4 DEF ReplayLine, CallFits, CallRuns, Replays
  <2>6. QED
    BY <1>1, <2>3, <2>4, <2>5 DEF ReplayLine, TypeInvariant, history
<1>2. CASE ReplayThrows
  <2>1. CallFits' /\ CallRuns'
    BY <1>0, <1>2 DEF ReplayThrows, CallFits, CallRuns, Replays, files
  <2>2. QED
    BY <1>2, <2>1 DEF ReplayThrows, TypeInvariant, memory, files, history, Places
<1>3. CASE ReplayEnds
  <2>1. changes' = <<>> /\ Len(changes') = 0 /\ IsScript(changes') /\ Len(line') = 0
    BY <1>0, <1>3, NothingWritten DEF ReplayEnds
  <2>2. Len(journal) \in Nat
    BY JournalParts DEF TypeInvariant
  <2>3. CallFits' /\ CallRuns'
    BY <1>0, <1>3, <2>1, <2>2, BoundsAreNatural DEF ReplayEnds, CallFits, CallRuns, Replays, files
  <2>4. QED
    BY <1>3, <2>3 DEF ReplayEnds, TypeInvariant, files, history, Places
<1>4. QED
  BY <1>1, <1>2, <1>3

\* A beginning of what save writes is a file.
LEMMA BeginningIsFile ==
  ASSUME NeatDb(db), NEW n \in 0 .. Len(Image(db))
  PROVE  IsFile(SubSeq(Image(db), 1, n))
<1>1. PICK f : f = Image(db)
  OBVIOUS
<1>2. f \in Seq(FileFields) /\ IsFile(f)
  BY <1>1, ImagePasses DEF IsFile
<1>3. IsFile(SubSeq(f, 1, n))
  BY <1>1, <1>2, PrefixIsFile
<1>4. QED
  BY <1>1, <1>3

\* when it saves,
LEMMA SaveKeepsTypes ==
  ASSUME TypeInvariant,
         SaveOpens \/ SaveFails \/ SaveWrites \/ SaveFallsShort \/ SaveEmptiesJournal
  PROVE  TypeInvariant'
<1>0. pc \in {"saving", "writing", "written"} /\ IsScript(changes) /\ changes = <<>> /\ line = <<>>
  BY DEF SaveOpens, SaveFails, SaveWrites, SaveFallsShort, SaveEmptiesJournal, TypeInvariant,
         CallFits, CallRuns, Replays
<1>1. CASE SaveOpens
  <2>1. CallFits' /\ CallRuns'
    BY <1>0, <1>1 DEF SaveOpens, TypeInvariant, CallFits, CallRuns, Replays, memory
  <2>2. QED
    BY <1>1, <2>1, NothingWritten DEF SaveOpens, TypeInvariant, memory, history, Places
<1>2. CASE SaveFails
  <2>1. CallFits' /\ CallRuns'
    BY <1>0, <1>2 DEF SaveFails, TypeInvariant, CallFits, CallRuns, Replays, files
  <2>2. QED
    BY <1>2, <2>1 DEF SaveFails, TypeInvariant, memory, files, history, Places
<1>3. CASE SaveWrites
  <2>1. IsFile(Image(db))
    BY ImagePasses DEF TypeInvariant, IsFile
  <2>2. CallFits' /\ CallRuns'
    BY <1>0, <1>3 DEF SaveWrites, TypeInvariant, CallFits, CallRuns, Replays, memory
  <2>3. excuses' \subseteq Excuses
    BY <1>3 DEF SaveWrites, TypeInvariant
  <2>4. QED
    BY <1>3, <2>1, <2>2, <2>3 DEF SaveWrites, TypeInvariant, memory, Places
<1>4. CASE SaveEmptiesJournal
  <2>1. IsJournal(journal') /\ Len(journal') \in Nat /\ Len(journal') <= Len(journal)
        /\ Len(journal) \in Nat
    <3>1. Len(journal) \in Nat /\ Len(<<>>) = 0 /\ IsJournal(<<>>)
      BY JournalParts, NothingWritten DEF TypeInvariant
    <3>2. journal' = journal \/ journal' = <<>>
      BY <1>4 DEF SaveEmptiesJournal
    <3>3. QED
      BY <3>1, <3>2 DEF TypeInvariant
  <2>2. Len(changes) = 0 /\ Len(line) = 0
    BY <1>0
  <2>3. CallFits' /\ CallRuns'
    BY <1>0, <1>4, <2>1, <2>2, BoundsAreNatural
    DEF SaveEmptiesJournal, TypeInvariant, CallFits, CallRuns, Replays, memory
  <2>4. excuses' \subseteq Excuses
    BY <1>4 DEF SaveEmptiesJournal, TypeInvariant, Excuses, Reasons
  <2>5. QED
    BY <1>4, <2>1, <2>3, <2>4 DEF SaveEmptiesJournal, TypeInvariant, memory, Places
<1>5. CASE SaveFallsShort
  <2>1. PICK n \in 0 .. Len(Image(db)) - 1 : snapshot' = SubSeq(Image(db), 1, n)
    BY <1>5 DEF SaveFallsShort
  <2>2. IsFile(snapshot')
    <3>1. Len(Image(db)) \in Nat
      BY ImagePasses DEF TypeInvariant
    <3>2. n \in 0 .. Len(Image(db))
      BY <3>1
    <3>3. QED
      BY <2>1, <3>2, BeginningIsFile DEF TypeInvariant
  <2>3. CallFits' /\ CallRuns'
    BY <1>0, <1>5 DEF SaveFallsShort, TypeInvariant, CallFits, CallRuns, Replays, memory
  <2>4. excuses' \subseteq Excuses
    BY <1>5 DEF SaveFallsShort, TypeInvariant, Excuses, Reasons
  <2>5. QED
    BY <1>5, <2>2, <2>3, <2>4 DEF SaveFallsShort, TypeInvariant, memory, Places
<1>6. QED
  BY <1>1, <1>2, <1>3, <1>4, <1>5

\* when it makes a change,
LEMMA MakeChangeKeepsTypes ==
  ASSUME TypeInvariant, MakeChange
  PROVE  TypeInvariant'
<1> DEFINE c == Head(changes)
           traced == jw /\ ~LeavesNoTrace(c)
<1>1. pc = "ready" /\ changes # <<>> /\ line = <<>> /\ IsScript(changes)
      /\ Len(journal) + Len(changes) + Len(line) <= MaxJournal
  BY DEF MakeChange, Changing, TypeInvariant, CallFits, Replays
<1>2. /\ Len(changes) \in Nat /\ Len(journal) \in Nat /\ Len(line) = 0
      /\ IsChange(c) /\ IsScript(Tail(changes)) /\ Len(Tail(changes)) = Len(changes) - 1
  BY <1>1, ScriptParts, JournalParts DEF TypeInvariant
<1>3. NeatDb(db')
  BY <1>2, NeatApplied DEF MakeChange, TypeInvariant
<1>4. IsJournal(line') /\ Len(line') \in Nat /\ Len(line') <= 1
  <2>1. line' = IF traced THEN <<LineOf(c)>> ELSE <<>>
    BY DEF MakeChange
  <2>2. CASE traced
    <3>1. IsCommand(LineOf(c))
      BY <1>2, <2>2, LineOfChange DEF TypeInvariant
    <3>2. QED
      BY <2>1, <2>2, <3>1, OneLine
  <2>3. CASE ~traced
    <3>1. line' = <<>>
      BY <2>1, <2>3
    <3>2. QED
      BY <3>1, NothingWritten
  <2>4. QED
    BY <2>2, <2>3
<1>5. excuses' \subseteq Excuses
  BY DEF MakeChange, TypeInvariant, Excused, Excuses, Reasons
<1>6. CallFits' /\ CallRuns'
  BY <1>1, <1>2, <1>4, BoundsAreNatural DEF MakeChange, CallFits, CallRuns, Replays, files
<1>7. QED
  BY <1>3, <1>4, <1>5, <1>6 DEF MakeChange, TypeInvariant, files

\* when a line is written or lost or a call fails,
LEMMA ChangesKeepTypes ==
  ASSUME TypeInvariant, ChangeFails \/ WriteLine \/ LineIsLost
  PROVE  TypeInvariant'
<1>0. /\ pc = "ready" /\ IsScript(changes) /\ IsJournal(line) /\ IsJournal(journal)
      /\ Len(journal) + Len(changes) + Len(line) <= MaxJournal
      /\ Len(journal) \in Nat /\ Len(changes) \in Nat /\ Len(line) \in Nat /\ Len(<<>>) = 0
  <2>1. pc = "ready" /\ IsScript(changes)
    BY DEF TypeInvariant, CallFits, CallRuns, Replays, ChangeFails, Changing, WriteLine, LineIsLost
  <2>2. QED
    BY <2>1, JournalParts, ScriptParts DEF TypeInvariant, CallFits, Replays
<1>1. CASE ChangeFails
  <2>0. changes' = <<>> /\ journal' = journal /\ line' = line /\ pc' = "ready"
    BY <1>0, <1>1 DEF ChangeFails, files
  <2>1. CallFits' /\ CallRuns'
    <3>1. IsScript(changes') /\ Len(changes') = 0
      BY <1>0, <2>0, NothingWritten
    <3>2. Len(journal') + Len(changes') + Len(line') <= MaxJournal
      BY <1>0, <2>0, <3>1, BoundsAreNatural
    <3>3. QED
      BY <2>0, <3>1, <3>2 DEF CallFits, CallRuns, Replays
  <2>2. jw' \in BOOLEAN
    BY <1>1 DEF ChangeFails, TypeInvariant
  <2>3. QED
    BY <1>1, <2>1, <2>2 DEF ChangeFails, TypeInvariant, files, history
<1>2. CASE WriteLine
  <2>1. IsJournal(journal') /\ Len(journal') = Len(journal) + Len(line)
    BY <1>0, <1>2, JournalGrows DEF WriteLine
  <2>2. CallFits' /\ CallRuns'
    BY <1>0, <1>2, <2>1 DEF WriteLine, CallFits, CallRuns, Replays, memory
  <2>3. IsJournal(line') /\ Len(line') <= 1
    BY <1>0, <1>2, NothingWritten DEF WriteLine
  <2>4. QED
    BY <1>2, <2>1, <2>2, <2>3 DEF WriteLine, TypeInvariant, memory
<1>3. CASE LineIsLost
  <2>0. line' = <<>> /\ journal' = journal /\ changes' = changes /\ pc' = "ready"
    BY <1>0, <1>3 DEF LineIsLost, memory, files
  <2>1. CallFits' /\ CallRuns'
    <3>1. Len(line') = 0
      BY <1>0, <2>0
    <3>2. IsScript(changes') /\ Len(journal') + Len(changes') + Len(line') <= MaxJournal
      BY <1>0, <2>0, <3>1, BoundsAreNatural
    <3>3. QED
      BY <2>0, <3>2 DEF CallFits, CallRuns, Replays
  <2>2. IsJournal(line') /\ Len(line') <= 1
    BY <1>0, <1>3, NothingWritten DEF LineIsLost
  <2>3. excuses' \subseteq Excuses
    BY <1>3 DEF LineIsLost, TypeInvariant, Excuses, Reasons
  <2>4. QED
    BY <1>3, <2>1, <2>2, <2>3 DEF LineIsLost, TypeInvariant, memory, files
<1>4. QED
  BY <1>1, <1>2, <1>3

\* when it dies, with its files written as far as they are,
LEMMA CrashesKeepTypes ==
  ASSUME TypeInvariant, Crash \/ CrashSaving \/ CrashWritingLine
  PROVE  TypeInvariant'
<1>1. Dies
  BY DEF Crash, CrashSaving, CrashWritingLine
<1>2. /\ NeatDb(db') /\ jw' \in BOOLEAN /\ prior' \in BOOLEAN
      /\ IsJournal(line') /\ Len(line') = 0 /\ IsScript(changes') /\ Len(changes') = 0
      /\ changes' = <<>> /\ line' = <<>> /\ pc' = "down"
  BY <1>1, NeatEmpty, NothingWritten DEF Dies
<1>3. crashes' \in 0 .. MaxCrashes
  BY <1>1, BoundsAreNatural DEF Dies, TypeInvariant
<1>4. Len(journal) \in Nat /\ Len(changes) \in Nat /\ Len(line) \in Nat
      /\ Len(journal) <= MaxJournal
      /\ (~Replays => Len(journal) + Len(changes) + Len(line) <= MaxJournal)
  <2>1. Len(journal) \in Nat /\ Len(changes) \in Nat /\ Len(line) \in Nat
    BY JournalParts, ScriptParts DEF TypeInvariant, CallFits
  <2>2. QED
    BY <2>1, BoundsAreNatural DEF TypeInvariant, CallFits
<1>5. /\ IsFile(snapshot') /\ IsJournal(journal') /\ excuses' \subseteq Excuses
      /\ Len(journal') \in Nat /\ Len(journal') <= MaxJournal
  <2>1. CASE Crash
    BY <1>4, <2>1 DEF Crash, Died, files, TypeInvariant, Excuses
  <2>2. CASE CrashSaving
    <3>1. journal' = journal /\ excuses' \subseteq Excuses
      BY <2>2 DEF CrashSaving, Died, TypeInvariant, Excuses, Reasons
    <3>2. ASSUME NEW n \in 0 .. Len(Image(db)), snapshot' = SubSeq(Image(db), 1, n)
          PROVE  IsFile(snapshot')
      BY <3>2, BeginningIsFile DEF TypeInvariant
    <3>3. IsFile(snapshot')
      BY <2>2, <3>2 DEF CrashSaving, TypeInvariant
    <3>4. QED
      BY <1>4, <3>1, <3>3 DEF TypeInvariant
  <2>3. CASE CrashWritingLine
    <3>1. line # <<>> /\ ~Replays
      BY <2>3 DEF CrashWritingLine, TypeInvariant, CallRuns, Replays
    <3>2. Len(line) >= 1
      <4>1. PICK S : line \in Seq(S)
        BY DEF TypeInvariant, IsJournal
      <4>2. QED
        BY <3>1, <4>1
    <3>3. IsJournal(journal') /\ Len(journal') = Len(journal) + 1
      BY <2>3, JournalTorn DEF CrashWritingLine, TypeInvariant
    <3>4. excuses' \subseteq Excuses
      BY <2>3 DEF CrashWritingLine, Died, TypeInvariant, Excuses, Reasons
    <3>5. Len(journal') <= MaxJournal
      BY <1>4, <3>1, <3>2, <3>3, BoundsAreNatural
    <3>6. QED
      <4>1. Len(journal') \in Nat
        BY <1>4, <3>3
      <4>2. IsFile(snapshot')
        BY <2>3 DEF CrashWritingLine, TypeInvariant
      <4>3. QED
        BY <3>3, <3>4, <3>5, <4>1, <4>2
  <2>4. QED
    BY <2>1, <2>2, <2>3
<1>6. CallFits' /\ CallRuns'
  BY <1>2, <1>5, BoundsAreNatural DEF CallFits, CallRuns, Replays
<1>7. QED
  BY <1>2, <1>3, <1>5, <1>6 DEF TypeInvariant, Places

\* hence at every step.
LEMMA TypesArePreserved ==
  ASSUME TypeInvariant, [Next]_vars
  PROVE  TypeInvariant'
<1>1. CASE UNCHANGED vars
  BY <1>1 DEF vars, TypeInvariant, CallFits, CallRuns, Replays
<1>2. CASE Next
  BY <1>2, CallsKeepTypes, StartKeepsTypes, ReplayKeepsTypes, SaveKeepsTypes, MakeChangeKeepsTypes,
     ChangesKeepTypes, CrashesKeepTypes DEF Next, Steps
<1>3. QED
  BY <1>1, <1>2

\* It says more than TypeOK.
LEMMA TypesAreCorrect ==
  ASSUME TypeInvariant
  PROVE  TypeOK
<1>1. /\ Len(db) \in Nat \ {0}
      /\ DOMAIN db = 1 .. Len(db)
      /\ \A i \in 1 .. Len(db) : db[i].name \in AllNames
  BY DirectoryElements DEF TypeInvariant, NeatDb
<1>2. db[1].name = Kv
  BY DEF TypeInvariant, NeatDb, IsDirectory
<1>3. ASSUME NEW i \in DOMAIN db
      PROVE  /\ db[i].name \in Collections \cup {Kv}
             /\ IsInjective(db[i].table.nodes)
             /\ Range(db[i].table.nodes) = DOMAIN db[i].table.docs
  <2>1. i \in 1 .. Len(db) /\ db[i].name \in AllNames
    BY <1>1
  <2>2. TableOf(db, db[i].name) = db[i].table
    BY <2>1, TableAt DEF TypeInvariant, NeatDb
  <2>3. Neat(db[i].table)
    BY <2>1, <2>2 DEF TypeInvariant, NeatDb
  <2>4. QED
    BY <2>1, <2>3 DEF Neat, Listed, AllNames
<1>4. Len(journal) <= MaxJournal
  <2>1. Len(journal) \in Nat /\ Len(changes) \in Nat /\ Len(line) \in Nat
    BY JournalParts, ScriptParts DEF TypeInvariant, CallFits
  <2>2. QED
    BY <2>1, BoundsAreNatural DEF TypeInvariant, CallFits
<1>5. QED
  BY <1>2, <1>3, <1>4 DEF TypeInvariant, TypeOK, Excuses

\* Whatever clients call, wherever the process dies and whatever it leaves of its
\* files: the list of every collection has each document once, the directory begins
\* with the collection of the pairs, and no call writes more lines than it has changes.
THEOREM DatabaseTypeCorrect == Spec => []TypeOK
<1>1. Init => TypeInvariant
  BY TypeInvariantStarts
<1>2. TypeInvariant /\ [Next]_vars => TypeInvariant'
  BY TypesArePreserved
<1>3. TypeInvariant => TypeOK
  BY TypesAreCorrect
<1>4. QED
  BY <1>1, <1>2, <1>3, PTL DEF Spec
=============================================================================
