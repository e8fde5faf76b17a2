--------------------------- MODULE RecoveryProofs ---------------------------
(***************************************************************************)
(* What is recorded survives: the files give it back, a client sees it,    *)
(* and every key has one value.  A change that is replayed does what it    *)
(* did, for the documents of a collection and its order are determined by  *)
(* the documents as text has them; and what save writes, load reads back.  *)
(***************************************************************************)
EXTENDS DatabaseProofs, SequenceTheorems
-----------------------------------------------------------------------------
(***************************************************************************)
(* Documents as text has them: what tells one from another, and what the   *)
(* queries of clients ask of them.                                         *)
(***************************************************************************)
IdOf(d) == d[Id].n

\* A document of a database in which each field of K holds values of one kind.
PlainDoc(d, K) ==
  /\ IsDocument(d)
  /\ \A x \in DOMAIN d : PlainValue(d[x])
  /\ Id \in DOMAIN d /\ d[Id].type = "uint" /\ d[Id].n \in Nat
  /\ \A f \in DOMAIN K : f \in DOMAIN d => Kind(d[f]) = K[f]

\* What is read of a value that has been written as text.
ValueAsText(v) == IF v.type = "int" /\ v.n >= 0 THEN Uint(v.n) ELSE v

\* As text a document has the same fields, each value as text.
LEMMA AsTextOf ==
  ASSUME NEW d
  PROVE  /\ DOMAIN AsText(d) = DOMAIN d
         /\ \A x \in DOMAIN d : AsText(d)[x] = ValueAsText(d[x])
         /\ AsText(d) = [x \in DOMAIN d |-> ValueAsText(d[x])]
BY DEF AsText, ValueAsText

\* A value as text is one again: only the type of a number that is not negative changes.
LEMMA ValueAsTextParts ==
  ASSUME NEW v, PlainValue(v)
  PROVE  /\ ValueAsText(v) \in Values
         /\ ValueAsText(v).n = v.n /\ v.n \in Int
         /\ ValueAsText(v).type = IF v.type = "int" /\ v.n >= 0 THEN "uint" ELSE v.type
         /\ PlainValue(ValueAsText(v))
         /\ Kind(ValueAsText(v)) = Kind(v)
         /\ ValueAsText(ValueAsText(v)) = ValueAsText(v)
<1>1. v \in Values /\ v.n \in Int
  BY DEF PlainValue, Values
<1>2. CASE v.type = "int" /\ v.n >= 0
  <2>1. PICK w : w = ValueAsText(v)
    OBVIOUS
  <2>2. w = [type |-> "uint", n |-> v.n]
    BY <1>2, <2>1 DEF ValueAsText, Uint
  <2>3. w.type = "uint" /\ w.n = v.n /\ w \in Values
    BY <1>1, <2>2 DEF Values, Types, NumericTypes
  <2>4. ValueAsText(w) = w
    BY <2>3 DEF ValueAsText
  <2>5. PlainValue(w) /\ Kind(w) = Kind(v)
    BY <1>2, <2>3 DEF PlainValue, NumericTypes, Kind, IsNumeric
  <2>6. QED
    BY <1>1, <1>2, <2>1, <2>3, <2>4, <2>5
<1>3. CASE ~(v.type = "int" /\ v.n >= 0)
  BY <1>1, <1>3 DEF ValueAsText
<1>4. QED
  BY <1>2, <1>3

\* A value has the same place in the order as its text,
LEMMA RankAsText ==
  ASSUME NEW v, PlainValue(v)
  PROVE  Rank(ValueAsText(v)) = Rank(v)
<1> DEFINE w == ValueAsText(v)
<1>1. w.n = v.n /\ v.n \in Int /\ w.type = IF v.type = "int" /\ v.n >= 0 THEN "uint" ELSE v.type
  BY ValueAsTextParts
<1> HIDE DEF w
<1>2. CASE v.type = "int" /\ v.n >= 0
  <2>1. w.type = "uint" /\ w.n = v.n
    BY <1>1, <1>2
  <2>2. AsDouble(w) = AsDouble(v)
    BY <1>2, <2>1 DEF AsDouble
  <2>3. ~IsString(w) /\ ~IsString(v)
    BY <1>2, <2>1 DEF IsString
  <2>4. QED
    BY <2>2, <2>3 DEF Rank, w
<1>3. CASE ~(v.type = "int" /\ v.n >= 0)
  BY <1>3 DEF ValueAsText
<1>4. QED
  BY <1>2, <1>3

\* so that every comparison with it comes out alike,
LEMMA ComparedAsText ==
  ASSUME NEW v, PlainValue(v), NEW b \in Values, NEW w, w = ValueAsText(v)
  PROVE  /\ Eq(w, b) <=> Eq(v, b)
         /\ Less(w, b) <=> Less(v, b)
         /\ Greater(w, b) <=> Greater(v, b)
         /\ AtLeast(w, b) <=> AtLeast(v, b)
         /\ AtMost(w, b) <=> AtMost(v, b)
<1>1. /\ w.n = v.n /\ v.n \in Int /\ w.type = IF v.type = "int" /\ v.n >= 0 THEN "uint" ELSE v.type
      /\ Rank(w) = Rank(v)
  BY ValueAsTextParts, RankAsText
<1>2. Comparable(w, b) <=> Comparable(v, b)
  BY <1>1 DEF Comparable, IsNumeric, IsString, NumericTypes
<1>3. Eq(w, b) <=> Eq(v, b)
  <2>1. CASE v.type = "int" /\ v.n >= 0
    <3>1. w.type = "uint" /\ v.n < MaxExact /\ b.n \in Int /\ MaxExact \in Int
      BY <1>1, <2>1, MaxExactAssumption DEF PlainValue, Values
    <3>2. Rank(v) = v.n /\ Rank(w) = v.n
      BY <1>1, <2>1, <3>1 DEF Rank, IsString, AsDouble
    <3>3. b.type \in {"int", "uint"} => (Rank(b) = v.n <=> b.n = v.n)
      BY <2>1, <3>1, <1>1 DEF Rank, IsString, AsDouble
    <3>4. CASE b.type \in {"int", "uint"}
      <4>1. Comparable(v, b)
        BY <2>1, <3>4 DEF Comparable, IsNumeric, NumericTypes
      <4>2. QED
        BY <1>1, <1>2, <2>1, <3>1, <3>2, <3>3, <3>4, <4>1 DEF Eq
    <3>5. CASE b.type \notin {"int", "uint"}
      BY <1>1, <1>2, <2>1, <3>1, <3>5 DEF Eq
    <3>6. QED
      BY <3>4, <3>5
  <2>2. CASE ~(v.type = "int" /\ v.n >= 0)
    <3>1. w = v
      BY <2>2 DEF ValueAsText
    <3>2. QED
      BY <3>1
  <2>3. QED
    BY <2>1, <2>2
<1>4. QED
  BY <1>1, <1>2, <1>3 DEF Less, Greater, AtLeast, AtMost

\* and a document satisfies the queries that its text does.
LEMMA SatisfiesAsText ==
  ASSUME NEW d, \A x \in DOMAIN d : PlainValue(d[x]), NEW q \in QueryRecords
  PROVE  Satisfies(AsText(d), q) <=> Satisfies(d, q)
<1> DEFINE e == AsText(d)
<1>1. DOMAIN e = DOMAIN d /\ \A x \in DOMAIN d : e[x] = ValueAsText(d[x])
  BY AsTextOf
<1> HIDE DEF e
<1>2. q.v \in Values /\ q.hi \in Values
  BY DEF QueryRecords
<1>3. CASE q.field \in DOMAIN d
  <2> DEFINE v == d[q.field]
             w == e[q.field]
  <2>1. PlainValue(v) /\ w = ValueAsText(v) /\ Member(d, q.field) = v /\ Member(e, q.field) = w
    BY <1>1, <1>3 DEF Member
  <2> HIDE DEF v, w
  <2>2. /\ Eq(w, q.v) <=> Eq(v, q.v)
        /\ Less(w, q.v) <=> Less(v, q.v)
        /\ Greater(w, q.v) <=> Greater(v, q.v)
        /\ AtLeast(w, q.v) <=> AtLeast(v, q.v)
        /\ AtMost(w, q.hi) <=> AtMost(v, q.hi)
    BY <1>2, <2>1, ComparedAsText
  <2>3. Satisfies(e, q) <=> Satisfies(d, q)
    BY <2>1, <2>2 DEF Satisfies, QueryRecords, QueryOps
  <2>4. QED
    BY <2>3 DEF e
<1>4. CASE q.field \notin DOMAIN d
  <2>1. Member(e, q.field) = Member(d, q.field)
    BY <1>1, <1>4 DEF Member
  <2>2. Satisfies(e, q) <=> Satisfies(d, q)
    BY <2>1 DEF Satisfies, QueryRecords, QueryOps
  <2>3. QED
    BY <2>2 DEF e
<1>5. QED
  BY <1>3, <1>4
-----------------------------------------------------------------------------
\* What clients bring: they leave the "_id" to the collection.
Brought(d, K) ==
  /\ IsDocument(d)
  /\ PlainMembers(d)
  /\ \A f \in DOMAIN K : f \in DOMAIN d => Kind(d[f]) = K[f]

\* As text a document is one of the database, with the same "_id".
LEMMA AsTextIsPlain ==
  ASSUME NEW K, NEW d, PlainDoc(d, K)
  PROVE  PlainDoc(AsText(d), K) /\ IdOf(AsText(d)) = IdOf(d) /\ AsText(AsText(d)) = AsText(d)
<1> DEFINE e == AsText(d)
<1>1. /\ DOMAIN e = DOMAIN d /\ \A x \in DOMAIN d : e[x] = ValueAsText(d[x])
      /\ e = [x \in DOMAIN d |-> ValueAsText(d[x])]
  BY AsTextOf
<1> HIDE DEF e
<1>2. \A x \in DOMAIN d : e[x] \in Values /\ e[x].n = d[x].n /\ PlainValue(e[x])
                          /\ Kind(e[x]) = Kind(d[x]) /\ ValueAsText(e[x]) = e[x]
  BY <1>1, ValueAsTextParts DEF PlainDoc
<1>3. e \in [DOMAIN e -> Values] /\ DOMAIN e \subseteq Names
  BY <1>1, <1>2 DEF PlainDoc, IsDocument
<1>4. e[Id].type = "uint" /\ e[Id].n = d[Id].n
  BY <1>1, <1>2 DEF PlainDoc, ValueAsText
<1>5. PlainDoc(e, K)
  BY <1>1, <1>2, <1>3, <1>4 DEF PlainDoc, IsDocument
<1>6. AsText(e) = e
  <2>1. AsText(e) = [x \in DOMAIN e |-> ValueAsText(e[x])]
    BY AsTextOf
  <2>2. \A x \in DOMAIN e : ValueAsText(e[x]) = ValueAsText(d[x])
    BY <1>1, <1>2
  <2>3. QED
    BY <1>1, <2>1, <2>2
<1>7. QED
  BY <1>4, <1>5, <1>6 DEF e, IdOf

\* As text a document of a client is one that a client may bring.
LEMMA AsTextIsBrought ==
  ASSUME NEW K, NEW d, Brought(d, K)
  PROVE  Brought(AsText(d), K)
<1> DEFINE e == AsText(d)
<1>1. /\ DOMAIN e = DOMAIN d /\ \A x \in DOMAIN d : e[x] = ValueAsText(d[x])
      /\ e = [x \in DOMAIN d |-> ValueAsText(d[x])]
  BY AsTextOf
<1> HIDE DEF e
<1>2. \A x \in DOMAIN d : e[x] \in Values /\ PlainValue(e[x]) /\ Kind(e[x]) = Kind(d[x])
  BY <1>1, ValueAsTextParts DEF Brought, PlainMembers
<1>3. e \in [DOMAIN e -> Values] /\ DOMAIN e \subseteq Names
  BY <1>1, <1>2 DEF Brought, IsDocument
<1>4. Brought(e, K)
  BY <1>1, <1>2, <1>3 DEF Brought, IsDocument, PlainMembers
<1>5. QED
  BY <1>4 DEF e

\* A patch makes a document of the database of one, with the same "_id".
LEMMA MergedIsPlain ==
  ASSUME NEW K, NEW d, PlainDoc(d, K), NEW patch, Brought(patch, K)
  PROVE  PlainDoc(Merged(d, patch), K) /\ IdOf(Merged(d, patch)) = IdOf(d)
<1> DEFINE e == Merged(d, patch)
<1>1. /\ DOMAIN e = DOMAIN d \cup DOMAIN patch
      /\ \A x \in DOMAIN e : e[x] = IF x \in DOMAIN patch THEN patch[x] ELSE d[x]
      /\ e = [x \in DOMAIN e |-> e[x]]
  BY DEF Merged, Overlaid
<1> HIDE DEF e
<1>2. \A x \in DOMAIN e : e[x] \in Values /\ PlainValue(e[x])
  BY <1>1 DEF PlainDoc, Brought, PlainMembers, PlainValue
<1>3. e \in [DOMAIN e -> Values] /\ DOMAIN e \subseteq Names
  BY <1>1, <1>2 DEF PlainDoc, Brought, IsDocument
<1>4. Id \in DOMAIN e /\ e[Id] = d[Id]
  BY <1>1 DEF PlainDoc, Brought, PlainMembers
<1>5. \A f \in DOMAIN K : f \in DOMAIN e => Kind(e[f]) = K[f]
  BY <1>1 DEF PlainDoc, Brought
<1>6. PlainDoc(e, K)
  BY <1>2, <1>3, <1>4, <1>5 DEF PlainDoc, IsDocument
<1>7. QED
  BY <1>4, <1>6 DEF e, IdOf

\* Documents that are the same as text are so with the text of the same patch.
LEMMA MergedAsText ==
  ASSUME NEW d, NEW e, AsText(e) = AsText(d), NEW patch, \A x \in DOMAIN patch : PlainValue(patch[x])
  PROVE  AsText(Merged(e, AsText(patch))) = AsText(Merged(d, patch))
<1> DEFINE p == AsText(patch)
           a == Merged(e, p)
           b == Merged(d, patch)
<1>1. DOMAIN e = DOMAIN d /\ \A x \in DOMAIN d : ValueAsText(e[x]) = ValueAsText(d[x])
  <2>1. /\ DOMAIN AsText(e) = DOMAIN e /\ DOMAIN AsText(d) = DOMAIN d
        /\ \A x \in DOMAIN e : AsText(e)[x] = ValueAsText(e[x])
        /\ \A x \in DOMAIN d : AsText(d)[x] = ValueAsText(d[x])
    BY AsTextOf
  <2>2. QED
    BY <2>1
<1>2. DOMAIN p = DOMAIN patch /\ \A x \in DOMAIN patch : p[x] = ValueAsText(patch[x])
  BY AsTextOf
<1>3. \A x \in DOMAIN patch : ValueAsText(p[x]) = ValueAsText(patch[x])
  BY <1>2, ValueAsTextParts
<1>4. /\ DOMAIN a = DOMAIN e \cup DOMAIN p
      /\ \A x \in DOMAIN a : a[x] = IF x \in DOMAIN p THEN p[x] ELSE e[x]
      /\ DOMAIN b = DOMAIN d \cup DOMAIN patch
      /\ \A x \in DOMAIN b : b[x] = IF x \in DOMAIN patch THEN patch[x] ELSE d[x]
  BY DEF Merged, Overlaid
<1> HIDE DEF p, a, b
<1>5. DOMAIN a = DOMAIN b /\ \A x \in DOMAIN b : ValueAsText(a[x]) = ValueAsText(b[x])
  BY <1>1, <1>2, <1>3, <1>4
<1>6. AsText(a) = [x \in DOMAIN a |-> ValueAsText(a[x])] /\ AsText(b) = [x \in DOMAIN b |-> ValueAsText(b[x])]
  BY AsTextOf
<1>7. AsText(a) = AsText(b)
  BY <1>5, <1>6
<1>8. QED
  BY <1>7 DEF a, b, p

\* What append stores has the "_id" of the counter and is a document of the database.
LEMMA NumberedIsPlain ==
  ASSUME NEW K, K[Id] = "number", NEW d, Brought(d, K), NEW n \in Nat
  PROVE  PlainDoc(Numbered(d, n), K) /\ IdOf(Numbered(d, n)) = n
<1> DEFINE e == Numbered(d, n)
<1>0. Id \notin DOMAIN d
  BY DEF Brought, PlainMembers
<1>1. /\ DOMAIN e = DOMAIN d \cup {Id}
      /\ \A x \in DOMAIN e : e[x] = IF x = Id THEN Uint(n) ELSE d[x]
      /\ e = [x \in DOMAIN e |-> e[x]]
  BY <1>0 DEF Numbered, With
<1> HIDE DEF e
<1>2. PICK v : v = Uint(n)
  OBVIOUS
<1>3. v \in Values /\ v.type = "uint" /\ v.n = n /\ PlainValue(v) /\ Kind(v) = "number"
  BY <1>2 DEF Uint, Values, Types, NumericTypes, PlainValue, Kind, IsNumeric
<1>4. \A x \in DOMAIN e : e[x] \in Values /\ PlainValue(e[x])
  BY <1>1, <1>2, <1>3 DEF Brought, PlainMembers, PlainValue
<1>5. e \in [DOMAIN e -> Values] /\ DOMAIN e \subseteq Names
  BY <1>1, <1>4 DEF Brought, IsDocument, Names
<1>6. Id \in DOMAIN e /\ e[Id] = v
  BY <1>1, <1>2
<1>7. \A f \in DOMAIN K : f \in DOMAIN e => Kind(e[f]) = K[f]
  BY <1>1, <1>2, <1>3 DEF Brought
<1>8. PlainDoc(e, K)
  BY <1>3, <1>4, <1>5, <1>6, <1>7 DEF PlainDoc, IsDocument
<1>9. QED
  BY <1>3, <1>6, <1>8 DEF e, IdOf

\* A document that has its "_id" is stored as it is.
LEMMA PlainIsNumbered ==
  ASSUME NEW K, NEW d, PlainDoc(d, K), NEW n
  PROVE  Numbered(d, n) = d /\ Accepted(d)
<1>1. d \in [DOMAIN d -> Values] /\ DOMAIN d \in SUBSET Names
  BY DEF PlainDoc, IsDocument
<1>2. d # NotAnObject
  BY <1>1, DatabaseAssumption
<1>3. QED
  BY <1>2 DEF PlainDoc, Numbered, Accepted
-----------------------------------------------------------------------------
(***************************************************************************)
(* The indices of a collection with one kind of value in every field that  *)
(* has an index: whatever is inserted or erased has a place.               *)
(***************************************************************************)
Chosen(S) == Outcome(S) \in S

\* Of a set that is not empty Outcome is an element.
LEMMA OutcomeIs ==
  ASSUME NEW S, S # {}
  PROVE  Chosen(S)
BY DEF Chosen, Outcome

\* Of two values at most one is less than the other.
LEMMA LessOneWay ==
  ASSUME NEW a \in Values, NEW b \in Values, Less(a, b)
  PROVE  ~Less(b, a)
BY RankIsInt DEF Less

\* A binary search ends somewhere, in whatever order the entries are.
LEMMA CutsExist ==
  ASSUME NEW es, Len(es) \in Nat, NEW k \in Values,
         \A p \in 1 .. Len(es) : es[p].key \in Values
  PROVE  LowerBounds(es, k) # {} /\ UpperBounds(es, k) # {} /\ EqualRanges(es, k) # {}
<1> DEFINE n == Len(es)
           L == {p \in 0 .. n : p = n \/ ~Less(es[p + 1].key, k)}
           U == {p \in 0 .. n : p = n \/ Less(k, es[p + 1].key)}
<1>1. n \in L /\ n \in U /\ L \subseteq Nat /\ U \subseteq Nat
  OBVIOUS
<1>2. PICK lo : lo \in L /\ \A y \in L : lo <= y
  <2> HIDE DEF L, U
  <2>1. QED
    BY <1>1, MinIsLeast
<1>3. PICK hi : hi \in U /\ \A y \in U : hi <= y
  <2> HIDE DEF L, U
  <2>1. QED
    BY <1>1, MinIsLeast
<1>4. lo = 0 \/ Less(es[lo].key, k)
  <2>1. SUFFICES ASSUME lo # 0, ~Less(es[lo].key, k) PROVE FALSE
    OBVIOUS
  <2>2. lo - 1 \in L
    BY <1>2, <2>1
  <2>3. lo \in Int /\ lo <= lo - 1
    <3> HIDE DEF L, U
    <3>1. lo \in Int
      BY <1>1, <1>2
    <3>2. QED
      BY <3>1, <1>2, <2>2
  <2>4. QED
    BY <2>3
<1>5. hi = 0 \/ ~Less(k, es[hi].key)
  <2>1. SUFFICES ASSUME hi # 0, Less(k, es[hi].key) PROVE FALSE
    OBVIOUS
  <2>2. hi - 1 \in U
    BY <1>3, <2>1
  <2>3. hi \in Int /\ hi <= hi - 1
    <3> HIDE DEF L, U
    <3>1. hi \in Int
      BY <1>1, <1>3
    <3>2. QED
      BY <3>1, <1>3, <2>2
  <2>4. QED
    BY <2>3
<1>6. lo <= hi
  <2>1. hi \in L
    <3>1. CASE hi = n
      BY <3>1, <1>1
    <3>2. CASE hi # n
      <4>1. hi \in 0 .. n /\ hi + 1 \in 1 .. n /\ Less(k, es[hi + 1].key)
        BY <1>3, <3>2
      <4>2. ~Less(es[hi + 1].key, k)
        BY <4>1, LessOneWay
      <4>3. QED
        BY <4>1, <4>2
    <3>3. QED
      BY <3>1, <3>2
  <2>2. QED
    BY <1>2, <2>1
<1>7. lo \in LowerBounds(es, k)
  BY <1>2, <1>4 DEF LowerBounds
<1>8. hi \in UpperBounds(es, k)
  BY <1>3, <1>5 DEF UpperBounds
<1>9. <<lo, hi>> \in EqualRanges(es, k)
  BY <1>6, <1>7, <1>8 DEF EqualRanges
<1>10. QED
  BY <1>7, <1>8, <1>9

\* The entries of an index and their keys.
LEMMA IndexKeys ==
  ASSUME NEW ix \in IndexRecords
  PROVE  /\ ix.entries \in Seq(EntriesOf(Refs))
         /\ Len(ix.entries) \in Nat
         /\ \A p \in 1 .. Len(ix.entries) : ix.entries[p].key \in Values
<1>1. ix.entries \in Seq(EntriesOf(Refs))
  BY DEF IndexRecords
<1>2. \A p \in 1 .. Len(ix.entries) : ix.entries[p] \in EntriesOf(Refs)
  BY <1>1
<1>3. QED
  BY <1>1, <1>2 DEF EntriesOf

\* An entry can be put into an index,
LEMMA WithEntryExists ==
  ASSUME NEW ix \in IndexRecords, NEW r, NEW d, IsDocument(d)
  PROVE  WithEntry(ix, r, d) # {}
<1> DEFINE k == d[ix.field]
           E == InsertEntry(ix.entries, k, r)
<1>1. CASE ix.field \in DOMAIN d
  <2>1. k \in Values
    BY <1>1 DEF IsDocument
  <2>2. UpperBounds(ix.entries, k) # {}
    <3> HIDE DEF k
    <3>1. QED
      BY <2>1, IndexKeys, CutsExist
  <2>3. PICK es : es \in E
    BY <2>2 DEF InsertEntry
  <2>4. [ix EXCEPT !.entries = es] \in WithEntry(ix, r, d)
    BY <1>1, <2>3 DEF WithEntry
  <2>5. QED
    BY <2>4
<1>2. CASE ix.field \notin DOMAIN d
  BY <1>2 DEF WithEntry
<1>3. QED
  BY <1>1, <1>2

\* and taken out of it.
LEMMA WithoutEntryExists ==
  ASSUME NEW ix \in IndexRecords, NEW r, NEW d, IsDocument(d)
  PROVE  WithoutEntry(ix, r, d) # {}
<1> DEFINE k == d[ix.field]
           E == EraseEntry(ix.entries, k, r)
<1>1. CASE ix.field \in DOMAIN d
  <2>1. k \in Values
    BY <1>1 DEF IsDocument
  <2>2. EqualRanges(ix.entries, k) # {}
    <3> HIDE DEF k
    <3>1. QED
      BY <2>1, IndexKeys, CutsExist
  <2>3. PICK es : es \in E
    BY <2>2 DEF EraseEntry
  <2>4. [ix EXCEPT !.entries = es] \in WithoutEntry(ix, r, d)
    BY <1>1, <2>3 DEF WithoutEntry
  <2>5. QED
    BY <2>4
<1>2. CASE ix.field \notin DOMAIN d
  BY <1>2 DEF WithoutEntry
<1>3. QED
  BY <1>1, <1>2

\* From sets that are not empty one element each can be taken.
LEMMA SelectionsExist ==
  ASSUME NEW c, \A i \in DOMAIN c : c[i] # {}
  PROVE  Selections(c) # {}
<1> DEFINE s == [i \in DOMAIN c |-> CHOOSE x \in c[i] : TRUE]
<1>1. \A i \in DOMAIN c : s[i] \in c[i]
  OBVIOUS
<1>2. s \in [DOMAIN c -> UNION {c[i] : i \in DOMAIN c}]
  BY <1>1
<1>3. s \in Selections(c)
  BY <1>1, <1>2 DEF Selections
<1>4. QED
  BY <1>3

\* Indices with a document more exist,
LEMMA IndicesInserted ==
  ASSUME NEW ixs \in Seq(IndexRecords), NEW r, NEW d, IsDocument(d)
  PROVE  Chosen(InsertIndexEntries(ixs, r, d))
<1> DEFINE c == [i \in DOMAIN ixs |-> WithEntry(ixs[i], r, d)]
<1>1. \A i \in DOMAIN ixs : ixs[i] \in IndexRecords
  OBVIOUS
<1>2. \A i \in DOMAIN c : c[i] # {}
  BY <1>1, WithEntryExists
<1>3. Selections(c) # {}
  <2> HIDE DEF c
  <2>1. QED
    BY <1>2, SelectionsExist
<1>4. QED
  BY <1>3, OutcomeIs DEF InsertIndexEntries

\* and with a document less.
LEMMA IndicesErased ==
  ASSUME NEW ixs \in Seq(IndexRecords), NEW r, NEW d, IsDocument(d)
  PROVE  Chosen(RemoveIndexEntries(ixs, r, d))
<1> DEFINE c == [i \in DOMAIN ixs |-> WithoutEntry(ixs[i], r, d)]
<1>1. \A i \in DOMAIN ixs : ixs[i] \in IndexRecords
  OBVIOUS
<1>2. \A i \in DOMAIN c : c[i] # {}
  BY <1>1, WithoutEntryExists
<1>3. Selections(c) # {}
  <2> HIDE DEF c
  <2>1. QED
    BY <1>2, SelectionsExist
<1>4. QED
  BY <1>3, OutcomeIs DEF RemoveIndexEntries
-----------------------------------------------------------------------------
\* Documents of a database in which each field of K holds values of one kind.
Plain(docs, K) == IsStore(docs) /\ \A r \in DOMAIN docs : PlainDoc(docs[r], K)

\* Indices of such documents: one on "_id" first, and each on a field of K.
Indexed(ixs, docs, K) ==
  /\ ixs \in Seq(IndexRecords)
  /\ ixs # <<>>
  /\ ixs[1].field = Id
  /\ \A i \in 1 .. Len(ixs) : ixs[i].field \in DOMAIN K
  /\ AllCoherent(ixs, docs)

\* The indices are on the same fields.
SameFields(a, b) == Len(a) = Len(b) /\ \A i \in 1 .. Len(a) : a[i].field = b[i].field

\* In documents of the database a field of K has values of one kind.
LEMMA PlainIsOfKind ==
  ASSUME NEW docs, NEW K, Plain(docs, K), NEW f \in DOMAIN K
  PROVE  OfKind(K[f], f, docs)
BY DEF Plain, PlainDoc, OfKind, PlainValue

\* Documents of the database with one more,
LEMMA PlainWith ==
  ASSUME NEW docs, NEW K, Plain(docs, K), NEW r \in Nat, NEW d, PlainDoc(d, K)
  PROVE  Plain(With(docs, r, d), K)
<1> DEFINE m == With(docs, r, d)
<1>1. /\ DOMAIN m = DOMAIN docs \cup {r}
      /\ m = [x \in DOMAIN m |-> m[x]]
      /\ \A x \in DOMAIN m : m[x] = IF x = r THEN d ELSE docs[x]
  BY DEF With
<1> HIDE DEF m
<1>2. r \in Refs
  BY DatabaseAssumption
<1>3. \A x \in DOMAIN m : IsDocument(m[x]) /\ PlainDoc(m[x], K)
  BY <1>1 DEF Plain, IsStore, PlainDoc
<1>4. Plain(m, K)
  BY <1>1, <1>2, <1>3 DEF Plain, IsStore
<1>5. QED
  BY <1>4 DEF m

\* and without one.
LEMMA PlainWithout ==
  ASSUME NEW docs, NEW K, Plain(docs, K), NEW r
  PROVE  Plain(Without(docs, r), K)
<1> DEFINE m == Without(docs, r)
<1>1. /\ DOMAIN m = DOMAIN docs \ {r}
      /\ m = [x \in DOMAIN m |-> m[x]]
      /\ \A x \in DOMAIN m : m[x] = docs[x]
  BY DEF Without
<1> HIDE DEF m
<1>2. Plain(m, K)
  BY <1>1 DEF Plain, IsStore
<1>3. QED
  BY <1>2 DEF m

\* With a new document the indices are coherent again,
LEMMA IndexedWith ==
  ASSUME NEW docs, NEW K, Plain(docs, K), NEW ixs, Indexed(ixs, docs, K),
         NEW r \in Nat, r \notin DOMAIN docs, NEW d, PlainDoc(d, K),
         NEW new, new = Outcome(InsertIndexEntries(ixs, r, d))
  PROVE  Indexed(new, With(docs, r, d), K) /\ SameFields(new, ixs)
<1> DEFINE m == With(docs, r, d)
<1>1. new \in InsertIndexEntries(ixs, r, d) /\ r \in Refs /\ IsDocument(d)
  BY IndicesInserted, DatabaseAssumption DEF Indexed, PlainDoc, Chosen
<1>2. /\ new \in Seq(IndexRecords)
      /\ Len(new) = Len(ixs)
      /\ \A i \in 1 .. Len(ixs) : new[i] \in WithEntry(ixs[i], r, d)
  BY <1>1, InsertIndexEntriesType DEF Indexed
<1>3. DOMAIN ixs = 1 .. Len(ixs) /\ DOMAIN new = 1 .. Len(ixs) /\ Len(ixs) \in Nat \ {0}
      /\ \A i \in 1 .. Len(ixs) : ixs[i] \in IndexRecords
  BY <1>2 DEF Indexed
<1>4. Plain(m, K)
  BY PlainWith
<1> HIDE DEF m
<1>5. ASSUME NEW i \in 1 .. Len(ixs)
      PROVE  new[i].field = ixs[i].field /\ Coherent(new[i].entries, new[i].field, m)
  <2>1. ixs[i] \in IndexRecords /\ new[i] \in WithEntry(ixs[i], r, d)
    BY <1>2, <1>3
  <2>2. new[i].field = ixs[i].field
    BY <1>1, <2>1, WithEntryType
  <2>3. Coherent(ixs[i].entries, ixs[i].field, docs) /\ ixs[i].field \in DOMAIN K
    BY <1>3 DEF Indexed, AllCoherent
  <2>4. OfKind(K[ixs[i].field], ixs[i].field, With(docs, r, d))
    BY <1>4, <2>3, PlainIsOfKind DEF m
  <2>5. Coherent(new[i].entries, new[i].field, With(docs, r, d))
    BY <1>1, <2>1, <2>3, <2>4, WithEntryKeepsCoherence
  <2>6. QED
    BY <2>2, <2>5 DEF m
<1>6. SameFields(new, ixs)
  BY <1>2, <1>5 DEF SameFields
<1>7. AllCoherent(new, m)
  BY <1>3, <1>5 DEF AllCoherent
<1>8. Indexed(new, m, K)
  <2>1. new # <<>> /\ new[1].field = Id /\ \A i \in 1 .. Len(new) : new[i].field \in DOMAIN K
    BY <1>2, <1>3, <1>5 DEF Indexed
  <2>2. QED
    BY <1>2, <1>7, <2>1 DEF Indexed
<1>9. QED
  BY <1>6, <1>8 DEF m

\* and without one that there was.
LEMMA IndexedWithout ==
  ASSUME NEW docs, NEW K, Plain(docs, K), NEW ixs, Indexed(ixs, docs, K),
         NEW r \in DOMAIN docs,
         NEW new, new = Outcome(RemoveIndexEntries(ixs, r, docs[r]))
  PROVE  Indexed(new, Without(docs, r), K) /\ SameFields(new, ixs)
<1> DEFINE m == Without(docs, r)
           d == docs[r]
<1>1. new \in RemoveIndexEntries(ixs, r, d) /\ r \in Refs /\ IsDocument(d)
  BY IndicesErased DEF Indexed, Plain, PlainDoc, IsStore, Chosen
<1>2. /\ new \in Seq(IndexRecords)
      /\ Len(new) = Len(ixs)
      /\ \A i \in 1 .. Len(ixs) : new[i] \in WithoutEntry(ixs[i], r, d)
  BY <1>1, RemoveIndexEntriesType DEF Indexed
<1>3. DOMAIN ixs = 1 .. Len(ixs) /\ DOMAIN new = 1 .. Len(ixs) /\ Len(ixs) \in Nat \ {0}
      /\ \A i \in 1 .. Len(ixs) : ixs[i] \in IndexRecords
  BY <1>2 DEF Indexed
<1> HIDE DEF m
<1>5. ASSUME NEW i \in 1 .. Len(ixs)
      PROVE  new[i].field = ixs[i].field /\ Coherent(new[i].entries, new[i].field, m)
  <2>1. ixs[i] \in IndexRecords /\ new[i] \in WithoutEntry(ixs[i], r, docs[r])
    BY <1>2, <1>3
  <2>2. new[i].field = ixs[i].field
    BY <1>1, <2>1, WithoutEntryType
  <2>3. Coherent(ixs[i].entries, ixs[i].field, docs) /\ ixs[i].field \in DOMAIN K
    BY <1>3 DEF Indexed, AllCoherent
  <2>4. OfKind(K[ixs[i].field], ixs[i].field, docs)
    BY <2>3, PlainIsOfKind
  <2>5. Coherent(new[i].entries, new[i].field, Without(docs, r))
    BY <2>1, <2>3, <2>4, WithoutEntryKeepsCoherence
  <2>6. QED
    BY <2>2, <2>5 DEF m
<1>6. SameFields(new, ixs)
  BY <1>2, <1>5 DEF SameFields
<1>7. AllCoherent(new, m)
  BY <1>3, <1>5 DEF AllCoherent
<1>8. Indexed(new, m, K)
  <2>1. new # <<>> /\ new[1].field = Id /\ \A i \in 1 .. Len(new) : new[i].field \in DOMAIN K
    BY <1>2, <1>3, <1>5 DEF Indexed
  <2>2. QED
    BY <1>2, <1>7, <2>1 DEF Indexed
<1>9. QED
  BY <1>6, <1>8 DEF m
-----------------------------------------------------------------------------
(***************************************************************************)
(* What a query finds first.                                               *)
(***************************************************************************)
\* Queries whose bounds are in order if there can be an index on their field.
Fine(q, K) == q \in QueryRecords /\ (q.field \in DOMAIN K => BoundsInOrder(q, K[q.field]))

\* The query is answered in the order of "_id".
ById(ixs, q) == FirstIndexIn(ixs, q.field) <= 1 \/ ~UsesIndex(q)

MatchingIn(docs, q) == {r \in DOMAIN docs : Satisfies(docs[r], q)}

\* find_index finds the first index on a field if there is one.
LEMMA FirstIndexIs ==
  ASSUME NEW ixs, Len(ixs) \in Nat, NEW f, NEW i, i = FirstIndexIn(ixs, f)
  PROVE  /\ i \in 0 .. Len(ixs)
         /\ i # 0 => ixs[i].field = f
         /\ i = 0 => \A j \in 1 .. Len(ixs) : ixs[j].field # f
<1> DEFINE I == {j \in 1 .. Len(ixs) : ixs[j].field = f}
<1>1. i = IF I # {} THEN Min(I) ELSE 0
  BY DEF FirstIndexIn, SelectInSeq
<1>2. I \subseteq Nat /\ I \subseteq 1 .. Len(ixs)
  OBVIOUS
<1>3. I # {} => i \in I
  <2> HIDE DEF I
  <2>1. QED
    BY <1>1, <1>2, MinIsLeast
<1>4. QED
  BY <1>1, <1>3

\* What a plan goes along: the entries of index k.
Follows(pl, ixs, docs, q, k) ==
  /\ k \in 1 .. Len(ixs)
  /\ ixs[k].entries \in Seq(EntriesOf(Refs))
  /\ Coherent(ixs[k].entries, ixs[k].field, docs)
  /\ Selects(pl, ixs[k].entries, docs, q)
  /\ \A r \in DOMAIN docs : Satisfies(docs[r], q) => ixs[k].field \in DOMAIN docs[r]

\* The parts of an index of a collection.
LEMMA IndexParts ==
  ASSUME NEW docs, NEW K, NEW ixs, Indexed(ixs, docs, K), NEW k \in 1 .. Len(ixs)
  PROVE  /\ ixs[k] \in IndexRecords
         /\ ixs[k].entries \in Seq(EntriesOf(Refs))
         /\ Len(ixs[k].entries) \in Nat
         /\ Coherent(ixs[k].entries, ixs[k].field, docs)
         /\ ixs[k].field \in DOMAIN K
<1>1. DOMAIN ixs = 1 .. Len(ixs)
  BY DEF Indexed
<1>2. ixs[k] \in IndexRecords
  BY DEF Indexed
<1>3. QED
  BY <1>1, <1>2, IndexKeys DEF Indexed, AllCoherent

\* The keys of a coherent index are of one kind.
LEMMA EntriesAreUniform ==
  ASSUME NEW docs, NEW K, Plain(docs, K), NEW es \in Seq(EntriesOf(Refs)), NEW f \in DOMAIN K,
         Coherent(es, f, docs)
  PROVE  Uniformly(es, K[f])
<1>1. OfKind(K[f], f, docs)
  BY PlainIsOfKind
<1>2. \A i \in 1 .. Len(es) : Kind(es[i].key) = K[f]
  <2>1. DOMAIN es = 1 .. Len(es)
    OBVIOUS
  <2>2. QED
    BY <1>1, <2>1 DEF Coherent, Current, OfKind
<1>3. Sorted(es)
  BY DEF Coherent
<1>4. QED
  BY <1>2, <1>3 DEF Uniformly

\* The plan of a query goes along a coherent index and selects what the query asks for.
LEMMA PlansFollow ==
  ASSUME NEW docs, NEW K, Plain(docs, K), NEW ixs, Indexed(ixs, docs, K),
         NEW q, Fine(q, K), NEW pl \in PlansIn(ixs, q)
  PROVE  \E k \in 1 .. Len(ixs) : Follows(pl, ixs, docs, q, k) /\ (ById(ixs, q) => k = 1)
<1> DEFINE i == FirstIndexIn(ixs, q.field)
<1>0. Len(ixs) \in Nat \ {0} /\ q \in QueryRecords
  BY DEF Indexed, Fine
<1>1. i \in 0 .. Len(ixs) /\ (i # 0 => ixs[i].field = q.field)
  BY <1>0, FirstIndexIs
<1>2. CASE UsesIndex(q) /\ i # 0
  <2> HIDE DEF i
  <2>1. i \in 1 .. Len(ixs) /\ ixs[i].field = q.field
    BY <1>0, <1>1, <1>2
  <2>2. PICK es : es = ixs[i].entries
    OBVIOUS
  <2>3. pl \in IndexPlans(es, q)
    BY <1>2, <2>2 DEF PlansIn, i
  <2>4. es \in Seq(EntriesOf(Refs)) /\ Coherent(es, q.field, docs) /\ q.field \in DOMAIN K
    BY <2>1, <2>2, IndexParts
  <2>5. Uniformly(es, K[q.field])
    BY <2>4, EntriesAreUniform
  <2>6. BoundsInOrder(q, K[q.field]) /\ BoundsOfKind(q, K[q.field])
    BY <2>4 DEF Fine, BoundsInOrder
  <2>7. ~Stray(pl)
    BY <1>0, <1>2, <2>3, <2>5, <2>6, InOrderIsNotStray
  <2>8. Selects(pl, es, docs, q)
    <3>1. Current(es, q.field, docs)
      BY <2>4 DEF Coherent
    <3>2. QED
      BY <1>0, <1>2, <2>3, <2>5, <2>6, <2>7, <3>1, IndexPlansSelect
  <2>9. \A r \in DOMAIN docs : Satisfies(docs[r], q) => q.field \in DOMAIN docs[r]
    BY <1>2, MatchHasField
  <2>10. Follows(pl, ixs, docs, q, i)
    BY <2>1, <2>2, <2>4, <2>8, <2>9 DEF Follows
  <2>11. ById(ixs, q) => i = 1
    BY <1>2, <2>1 DEF ById, i
  <2>12. QED
    BY <2>1, <2>10, <2>11
<1>3. CASE ~ (UsesIndex(q) /\ i # 0)
  <2>1. pl = ScanPlan(ixs)
    BY <1>3 DEF PlansIn
  <2>2. PICK es : es = ixs[1].entries
    OBVIOUS
  <2>3. es \in Seq(EntriesOf(Refs)) /\ Len(es) \in Nat /\ Coherent(es, ixs[1].field, docs) /\ ixs[1].field = Id
    BY <1>0, <2>2, IndexParts DEF Indexed
  <2>4. Selects(pl, es, docs, q)
    BY <2>1, <2>2, <2>3, ScanSelects DEF Indexed
  <2>5. \A r \in DOMAIN docs : Id \in DOMAIN docs[r]
    BY DEF Plain, PlainDoc
  <2>6. Follows(pl, ixs, docs, q, 1)
    BY <1>0, <2>2, <2>3, <2>4, <2>5 DEF Follows
  <2>7. QED
    BY <1>0, <2>6
<1>4. QED
  BY <1>2, <1>3

\* A query that is well-formed has a plan.
LEMMA PlansThere ==
  ASSUME NEW docs, NEW K, NEW ixs, Indexed(ixs, docs, K), NEW q, Fine(q, K), ~Malformed(q)
  PROVE  PlansIn(ixs, q) # {}
<1> DEFINE i == FirstIndexIn(ixs, q.field)
<1>0. Len(ixs) \in Nat \ {0} /\ q \in QueryRecords /\ q.v \in Values /\ q.hi \in Values
  BY DEF Indexed, Fine, QueryRecords
<1>1. i \in 0 .. Len(ixs)
  BY <1>0, FirstIndexIs
<1>2. CASE UsesIndex(q) /\ i # 0
  <2> HIDE DEF i
  <2>1. PICK es : es = ixs[i].entries
    OBVIOUS
  <2>2. Len(es) \in Nat /\ \A p \in 1 .. Len(es) : es[p].key \in Values
    <3>1. ixs[i] \in IndexRecords
      BY <1>0, <1>1, <1>2, IndexParts
    <3>2. QED
      BY <2>1, <3>1, IndexKeys
  <2>3. /\ LowerBounds(es, q.v) # {} /\ UpperBounds(es, q.v) # {} /\ EqualRanges(es, q.v) # {}
        /\ UpperBounds(es, q.hi) # {}
    BY <1>0, <2>2, CutsExist
  <2>4. PICK lo, hi, both, top :
          lo \in LowerBounds(es, q.v) /\ hi \in UpperBounds(es, q.v) /\ both \in EqualRanges(es, q.v)
          /\ top \in UpperBounds(es, q.hi)
    BY <2>3
  <2>5. IndexPlans(es, q) # {}
    <3>1. CASE q.op = "eq"
      BY <2>4, <3>1 DEF IndexPlans
    <3>2. CASE q.op = "gt"
      BY <2>4, <3>2 DEF IndexPlans
    <3>3. CASE q.op = "lt"
      BY <2>4, <3>3 DEF IndexPlans
    <3>4. CASE q.op = "range"
      <4>1. <<lo, top>> \in LowerBounds(es, q.v) \X UpperBounds(es, q.hi)
        BY <2>4
      <4>2. QED
        BY <3>4, <4>1 DEF IndexPlans
    <3>5. QED
      BY <1>2, <3>1, <3>2, <3>3, <3>4 DEF UsesIndex
  <2>6. QED
    BY <1>2, <2>1, <2>5 DEF PlansIn, i
<1>3. CASE ~ (UsesIndex(q) /\ i # 0)
  BY <1>3 DEF PlansIn
<1>4. QED
  BY <1>2, <1>3
-----------------------------------------------------------------------------
\* The first hit of a walk is not behind any other.
LEMMA StopIsLeast ==
  ASSUME NEW docs, NEW pl, pl.lo \in Nat, NEW q, NEW p \in Walk(pl), Hit(docs, pl, q, p)
  PROVE  StopAt(docs, pl, q) # 0 /\ StopAt(docs, pl, q) \in Walk(pl) /\ StopAt(docs, pl, q) <= p
<1> DEFINE stops == {x \in Walk(pl) : Hit(docs, pl, q, x) \/ ~Live(docs, pl, x)}
<1>1. p \in stops /\ stops # {}
  OBVIOUS
<1>2. stops \subseteq Nat \ {0} /\ stops \subseteq Walk(pl)
  BY DEF Walk
<1>3. StopAt(docs, pl, q) = Min(stops)
  BY <1>1 DEF StopAt
<1> HIDE DEF stops
<1>4. Min(stops) \in stops /\ \A y \in stops : Min(stops) <= y
  BY <1>1, <1>2, MinIsLeast
<1>5. QED
  BY <1>1, <1>2, <1>3, <1>4

\* Of a coherent index the first entry that is met is a match.
LEMMA FollowedMatch ==
  ASSUME NEW ixs, NEW docs, NEW q, NEW pl, NEW k, Follows(pl, ixs, docs, q, k)
  PROVE  /\ ~GoesWild(docs, pl, q)
         /\ StopAt(docs, pl, q) # 0 <=> MatchingIn(docs, q) # {}
         /\ StopAt(docs, pl, q) # 0 =>
              /\ StopAt(docs, pl, q) \in 1 .. Len(ixs[k].entries)
              /\ pl.entries = ixs[k].entries
              /\ pl.entries[StopAt(docs, pl, q)].ref \in MatchingIn(docs, q)
         /\ \A r \in MatchingIn(docs, q) : \E p \in 1 .. Len(ixs[k].entries) :
              ixs[k].entries[p].ref = r /\ StopAt(docs, pl, q) <= p
<1> DEFINE es == ixs[k].entries
           f == ixs[k].field
           stop == StopAt(docs, pl, q)
           hits == {x \in Walk(pl) : Hit(docs, pl, q, x)}
           M == MatchingIn(docs, q)
<1>1. /\ es \in Seq(EntriesOf(Refs)) /\ Coherent(es, f, docs) /\ Selects(pl, es, docs, q)
      /\ \A r \in DOMAIN docs : Satisfies(docs[r], q) => f \in DOMAIN docs[r]
  BY DEF Follows
<1>2. pl.entries = es /\ pl.lo \in Nat /\ pl.lo <= pl.hi /\ pl.hi <= Len(es) /\ Len(es) \in Nat
  BY <1>1 DEF Selects
<1>3. Walk(pl) \subseteq 1 .. Len(es)
  <2>1. pl.hi \in Nat
    BY <1>1 DEF Selects
  <2>2. ~Stray(pl)
    BY <1>2, <2>1 DEF Stray
  <2>3. QED
    BY <1>2, <2>1, <2>2 DEF Walk
<1>4. ~GoesWild(docs, pl, q) /\ {pl.entries[p].ref : p \in hits} = M
  <2> HIDE DEF es, f
  <2>1. QED
    BY <1>1, SelectedAreMatching DEF MatchingIn
<1> HIDE DEF es, f, M
<1>5. ASSUME NEW r \in M
      PROVE  \E p \in 1 .. Len(es) : es[p].ref = r /\ stop <= p /\ stop # 0
  <2>1. PICK p \in hits : pl.entries[p].ref = r
    BY <1>4
  <2>2. stop # 0 /\ stop <= p
    BY <1>2, <2>1, StopIsLeast
  <2>3. QED
    BY <1>2, <1>3, <2>1, <2>2
<1>6. ASSUME stop # 0
      PROVE  stop \in 1 .. Len(es) /\ pl.entries[stop].ref \in M
  <2>1. stop \in Walk(pl) /\ (Hit(docs, pl, q, stop) \/ ~Live(docs, pl, stop))
    BY <1>2, <1>6, StopIsAStop
  <2>2. Live(docs, pl, stop)
    BY <1>4, <1>6 DEF GoesWild
  <2>3. stop \in hits
    BY <2>1, <2>2
  <2>4. QED
    BY <1>3, <1>4, <2>1, <2>3
<1>7. QED
  BY <1>2, <1>4, <1>5, <1>6 DEF es, M

\* The entries of an index on "_id" are in the order of "_id".
LEMMA IdsInOrder ==
  ASSUME NEW docs, NEW es, Len(es) \in Nat, DOMAIN es = 1 .. Len(es), Coherent(es, Id, docs),
         \A r \in DOMAIN docs : docs[r][Id].type = "uint" /\ docs[r][Id].n \in 0 .. MaxId,
         NEW a \in 1 .. Len(es), NEW b \in 1 .. Len(es), a <= b
  PROVE  IdOf(docs[es[a].ref]) <= IdOf(docs[es[b].ref])
<1> DEFINE v == docs[es[a].ref][Id]
           w == docs[es[b].ref][Id]
<1>1. /\ es[a].ref \in DOMAIN docs /\ es[b].ref \in DOMAIN docs
      /\ es[a].key = v /\ es[b].key = w
  BY DEF Coherent, Current
<1>2. v.type = "uint" /\ w.type = "uint" /\ v.n \in 0 .. MaxId /\ w.n \in 0 .. MaxId
  BY <1>1
<1>3. a < b => ~Less(w, v)
  BY <1>1 DEF Coherent, Sorted
<1>4. IdOf(docs[es[a].ref]) = v.n /\ IdOf(docs[es[b].ref]) = w.n
  BY DEF IdOf
<1> HIDE DEF v, w
<1>5. MaxId <= MaxExact /\ MaxId \in Nat /\ MaxExact \in Nat
  BY DatabaseAssumption, DocumentsAssumption, MaxExactAssumption
<1>6. Rank(v) = v.n /\ Rank(w) = w.n
  BY <1>2, <1>5, SMTT(60) DEF Rank, IsString, AsDouble
<1>7. CASE a < b
  <2>1. ~ (w.n < v.n)
    BY <1>2, <1>3, <1>6, <1>7 DEF Less, Comparable, IsNumeric, NumericTypes
  <2>2. QED
    BY <1>2, <1>4, <2>1
<1>8. CASE a = b
  <2>1. v = w
    BY <1>8 DEF v, w
  <2>2. QED
    BY <1>2, <1>4, <2>1
<1>9. QED
  BY <1>7, <1>8

\* What find finds first is a match, and by the index on "_id" the one with the least "_id".
LEMMA FoundFirst ==
  ASSUME NEW docs, NEW K, Plain(docs, K), \A r \in DOMAIN docs : IdOf(docs[r]) < MaxId,
         NEW ixs, Indexed(ixs, docs, K), NEW q, Fine(q, K)
  PROVE  /\ FirstMatchesIn(ixs, docs, q) \subseteq MatchingIn(docs, q)
         /\ FirstMatchesIn(ixs, docs, q) = {} <=> MatchingIn(docs, q) = {}
         /\ ById(ixs, q) => \A r \in FirstMatchesIn(ixs, docs, q), s \in MatchingIn(docs, q) :
                              IdOf(docs[r]) <= IdOf(docs[s])
<1> DEFINE F == FirstMatchesIn(ixs, docs, q)
           M == MatchingIn(docs, q)
<1>1. ASSUME NEW r \in F
      PROVE  r \in M /\ (ById(ixs, q) => \A s \in M : IdOf(docs[r]) <= IdOf(docs[s]))
  <2>1. PICK pl \in PlansIn(ixs, q) : /\ StopAt(docs, pl, q) # 0
                                      /\ r = pl.entries[StopAt(docs, pl, q)].ref
    BY <1>1 DEF FirstMatchesIn
  <2>2. PICK k \in 1 .. Len(ixs) : Follows(pl, ixs, docs, q, k) /\ (ById(ixs, q) => k = 1)
    BY PlansFollow
  <2> DEFINE stop == StopAt(docs, pl, q)
             es == ixs[k].entries
  <2>3. /\ stop \in 1 .. Len(es)
        /\ pl.entries = es
        /\ pl.entries[stop].ref \in M
        /\ \A s \in M : \E p \in 1 .. Len(es) : es[p].ref = s /\ stop <= p
    BY <2>1, <2>2, FollowedMatch
  <2>4. ASSUME ById(ixs, q), NEW s \in M
        PROVE  IdOf(docs[r]) <= IdOf(docs[s])
    <3>1. PICK p \in 1 .. Len(es) : es[p].ref = s /\ stop <= p
      BY <2>3
    <3>2. ixs[k].field = Id
      BY <2>2, <2>4 DEF Indexed
    <3>3. Len(es) \in Nat /\ DOMAIN es = 1 .. Len(es) /\ Coherent(es, Id, docs)
      BY <2>2, <3>2 DEF Follows
    <3>4. \A x \in DOMAIN docs : docs[x][Id].type = "uint" /\ docs[x][Id].n \in 0 .. MaxId
      BY DocumentsAssumption DEF Plain, PlainDoc, IdOf
    <3> HIDE DEF stop, es, M
    <3>5. IdOf(docs[es[stop].ref]) <= IdOf(docs[es[p].ref])
      BY <2>3, <3>1, <3>3, <3>4, IdsInOrder
    <3>6. QED
      BY <2>1, <2>3, <3>1, <3>5 DEF stop
  <2>5. QED
    BY <2>1, <2>3, <2>4
<1>2. ASSUME M # {}
      PROVE  F # {}
  <2>1. ~Malformed(q)
    BY <1>2 DEF MatchingIn, Malformed, Satisfies
  <2>2. PICK pl \in PlansIn(ixs, q) : TRUE
    BY <2>1, PlansThere
  <2>3. PICK k \in 1 .. Len(ixs) : Follows(pl, ixs, docs, q, k)
    BY PlansFollow
  <2>4. ~GoesWild(docs, pl, q) /\ StopAt(docs, pl, q) # 0
    BY <1>2, <2>3, FollowedMatch
  <2>5. pl.entries[StopAt(docs, pl, q)].ref \in F
    BY <2>2, <2>4 DEF FirstMatchesIn
  <2>6. QED
    BY <2>5
<1> HIDE DEF F, M
<1>3. QED
  BY <1>1, <1>2 DEF F, M
-----------------------------------------------------------------------------
(***************************************************************************)
(* A collection whose documents are in the order of their "_id"s, none of  *)
(* which is repeated, and whose indices are coherent.                      *)
(***************************************************************************)
InOrder(nodes, docs) ==
  \A a, b \in 1 .. Len(nodes) : a < b => IdOf(docs[nodes[a]]) < IdOf(docs[nodes[b]])

Sound(t, K) ==
  /\ Listed(t)
  /\ Plain(t.docs, K)
  /\ t.id \in Nat
  /\ \A r \in DOMAIN t.docs : IdOf(t.docs[r]) < t.id /\ IdOf(t.docs[r]) < MaxId
  /\ InOrder(t.nodes, t.docs)
  /\ Indexed(t.indices, t.docs, K)

\* The documents as text has them.
RowsOf(docs) == {AsText(docs[r]) : r \in DOMAIN docs}

DistinctIds(docs) == \A r, s \in DOMAIN docs : IdOf(docs[r]) = IdOf(docs[s]) => r = s

\* An "_id" is a number and the same as text.
LEMMA PlainIds ==
  ASSUME NEW docs, NEW K, Plain(docs, K), NEW r \in DOMAIN docs
  PROVE  IdOf(docs[r]) \in Nat /\ IdOf(AsText(docs[r])) = IdOf(docs[r])
BY AsTextIsPlain DEF Plain, PlainDoc, IdOf

\* A document has a node in the list.
LEMMA NodeOf ==
  ASSUME NEW t, Listed(t), NEW r \in DOMAIN t.docs
  PROVE  \E a \in 1 .. Len(t.nodes) : t.nodes[a] = r
<1>1. DOMAIN t.nodes = 1 .. Len(t.nodes)
  BY DEF Listed
<1>2. QED
  BY <1>1 DEF Listed, Range

\* A node of the list has a document.
LEMMA NodeIs ==
  ASSUME NEW t, Listed(t), NEW a \in 1 .. Len(t.nodes)
  PROVE  t.nodes[a] \in DOMAIN t.docs /\ Len(t.nodes) \in Nat /\ DOMAIN t.nodes = 1 .. Len(t.nodes)
<1>1. DOMAIN t.nodes = 1 .. Len(t.nodes) /\ Len(t.nodes) \in Nat
  BY DEF Listed
<1>2. QED
  BY <1>1 DEF Listed, Range

\* No "_id" of a sound collection is repeated,
LEMMA IdsAreDistinct ==
  ASSUME NEW t, NEW K, Sound(t, K)
  PROVE  DistinctIds(t.docs)
<1>1. SUFFICES ASSUME NEW r \in DOMAIN t.docs, NEW s \in DOMAIN t.docs,
                      IdOf(t.docs[r]) = IdOf(t.docs[s]), r # s
               PROVE  FALSE
  BY DEF DistinctIds
<1>2. PICK a \in 1 .. Len(t.nodes), b \in 1 .. Len(t.nodes) : t.nodes[a] = r /\ t.nodes[b] = s
  BY NodeOf DEF Sound
<1>3. a \in Int /\ b \in Int
  OBVIOUS
<1>4. a < b \/ b < a
  BY <1>1, <1>2, <1>3
<1>5. IdOf(t.docs[r]) < IdOf(t.docs[s]) \/ IdOf(t.docs[s]) < IdOf(t.docs[r])
  BY <1>2, <1>4 DEF Sound, InOrder
<1>6. IdOf(t.docs[r]) \in Int
  BY PlainIds DEF Sound
<1>7. QED
  BY <1>1, <1>5, <1>6

\* so that its documents differ as text.
LEMMA RowsAreDistinct ==
  ASSUME NEW docs, NEW K, Plain(docs, K), DistinctIds(docs), NEW r \in DOMAIN docs, NEW s \in DOMAIN docs,
         AsText(docs[r]) = AsText(docs[s])
  PROVE  r = s
BY PlainIds DEF DistinctIds

\* A new collection is sound.
LEMMA SoundNew ==
  ASSUME NEW K, Id \in DOMAIN K, NEW fields \in Seq(DOMAIN K \cap Names), NEW t, t = NewTable(fields)
  PROVE  /\ Sound(t, K)
         /\ RowsOf(t.docs) = {}
         /\ Len(t.indices) = Len(fields) + 1
<1> DEFINE I == [i \in 1 .. Len(fields) + 1 |-> [field |-> (<<Id>> \o fields)[i], entries |-> <<>>]]
<1>1. t.nodes = <<>> /\ t.docs = <<>> /\ t.id = 0 /\ t.indices = I
  BY DEF NewTable
<1>2. Listed(t)
  BY ListedNew
<1>3. Plain(t.docs, K) /\ RowsOf(t.docs) = {}
  BY <1>1 DEF Plain, IsStore, RowsOf
<1>4. InOrder(t.nodes, t.docs)
  BY <1>1 DEF InOrder
<1>5. Len(fields) \in Nat /\ \A i \in 1 .. Len(fields) + 1 :
        (<<Id>> \o fields)[i] \in DOMAIN K \cap Names /\ (<<Id>> \o fields)[1] = Id
  BY DEF Names
<1>6. <<>> \in Seq(EntriesOf(Refs))
  OBVIOUS
<1>7. \A i \in 1 .. Len(fields) + 1 : I[i] \in IndexRecords /\ I[i].field \in DOMAIN K /\ I[i].entries = <<>>
  BY <1>5, <1>6 DEF IndexRecords
<1>8. I \in Seq(IndexRecords) /\ Len(I) = Len(fields) + 1 /\ DOMAIN I = 1 .. Len(fields) + 1
  BY <1>5, <1>7
<1>9. I # <<>> /\ I[1].field = Id
  BY <1>5, <1>8
<1> HIDE DEF I
<1>10. AllCoherent(I, t.docs)
  <2> SUFFICES ASSUME NEW i \in 1 .. Len(fields) + 1 PROVE Coherent(<<>>, I[i].field, t.docs)
    BY <1>7, <1>8 DEF AllCoherent
  <2>1. QED
    BY <1>1 DEF Coherent, Current, Complete, Distinct, Sorted
<1>11. Indexed(t.indices, t.docs, K)
  BY <1>1, <1>7, <1>8, <1>9, <1>10 DEF Indexed
<1>12. QED
  BY <1>1, <1>2, <1>3, <1>4, <1>8, <1>11 DEF Sound

\* A document more is a row more.
LEMMA RowsWith ==
  ASSUME NEW docs, NEW r, r \notin DOMAIN docs, NEW d
  PROVE  RowsOf(With(docs, r, d)) = RowsOf(docs) \cup {AsText(d)}
BY DEF With, RowsOf

\* append keeps a collection sound and adds a row, that of the numbered document.
LEMMA SoundAppend ==
  ASSUME NEW t, NEW K, Sound(t, K), NEW d, Accepted(d),
         NEW stored, stored = Numbered(d, t.id), PlainDoc(stored, K),
         IdOf(stored) < MaxId, \A r \in DOMAIN t.docs : IdOf(t.docs[r]) < IdOf(stored),
         NEW u, u = TableAppend(t, d)
  PROVE  /\ Sound(u, K)
         /\ RowsOf(u.docs) = RowsOf(t.docs) \cup {AsText(stored)}
         /\ SameFields(u.indices, t.indices)
<1> DEFINE r == NewNode(t)
           l == Append(t.nodes, r)
           m == With(t.docs, r, stored)
           c == Counted(t, stored[Id])
           ixs == Outcome(InsertIndexEntries(t.indices, r, stored))
<1>1. u \in Record(l, m, c, ixs)
  BY AppendParts
<1>2. r \in Nat \ DOMAIN t.docs
  BY NewNodeIsFree DEF Sound
<1>3. Listed(u)
  BY ListedAppend DEF Sound
<1> HIDE DEF r
<1>4. Indexed(ixs, m, K) /\ SameFields(ixs, t.indices)
  BY <1>2, IndexedWith DEF Sound
<1>5. Plain(m, K)
  BY <1>2, PlainWith DEF Sound
<1>6. /\ DOMAIN m = DOMAIN t.docs \cup {r} /\ m[r] = stored /\ \A s \in DOMAIN t.docs : m[s] = t.docs[s]
      /\ RowsOf(m) = RowsOf(t.docs) \cup {AsText(stored)}
  <2>1. DOMAIN m = DOMAIN t.docs \cup {r} /\ m[r] = stored /\ \A s \in DOMAIN t.docs : m[s] = t.docs[s]
    BY <1>2 DEF With
  <2>2. RowsOf(m) = RowsOf(t.docs) \cup {AsText(stored)}
    BY <1>2, RowsWith
  <2>3. QED
    BY <2>1, <2>2
<1> HIDE DEF l, m, c, ixs
<1>7. u.nodes = l /\ u.docs = m /\ u.id = c /\ u.indices = ixs
  BY <1>1, RecordParts
<1>8. IdOf(stored) \in Nat /\ t.id \in Nat
  BY DEF PlainDoc, IdOf, Sound
<1>9. c \in Nat /\ IdOf(stored) < c /\ t.id <= c
  BY <1>8 DEF c, Counted, IdOf
<1>10. \A s \in DOMAIN m : IdOf(m[s]) < c /\ IdOf(m[s]) < MaxId
  <2> TAKE s \in DOMAIN m
  <2>1. CASE s = r
    BY <2>1, <1>6, <1>9
  <2>2. CASE s \in DOMAIN t.docs
    <3>1. IdOf(t.docs[s]) < t.id /\ IdOf(t.docs[s]) < MaxId /\ IdOf(t.docs[s]) \in Nat
      BY <2>2, PlainIds DEF Sound
    <3>2. QED
      BY <2>2, <3>1, <1>6, <1>8, <1>9
  <2>3. QED
    BY <1>6, <2>1, <2>2
<1>11. InOrder(l, m)
  <2> SUFFICES ASSUME NEW a \in 1 .. Len(l), NEW b \in 1 .. Len(l), a < b
               PROVE  IdOf(m[l[a]]) < IdOf(m[l[b]])
    BY DEF InOrder
  <2>1. /\ Len(l) = Len(t.nodes) + 1 /\ Len(t.nodes) \in Nat
        /\ l[Len(t.nodes) + 1] = r /\ \A i \in 1 .. Len(t.nodes) : l[i] = t.nodes[i]
    BY <1>2 DEF l, Sound, Listed
  <2>2. a \in 1 .. Len(t.nodes) /\ l[a] = t.nodes[a] /\ t.nodes[a] \in DOMAIN t.docs
    BY <2>1, NodeIs DEF Sound
  <2>3. CASE b = Len(t.nodes) + 1
    BY <2>1, <2>2, <2>3, <1>6
  <2>4. CASE b # Len(t.nodes) + 1
    <3>1. b \in 1 .. Len(t.nodes) /\ l[b] = t.nodes[b] /\ t.nodes[b] \in DOMAIN t.docs
      BY <2>1, <2>4, NodeIs DEF Sound
    <3>2. IdOf(t.docs[t.nodes[a]]) < IdOf(t.docs[t.nodes[b]])
      BY <2>2, <3>1 DEF Sound, InOrder
    <3>3. QED
      BY <2>2, <3>1, <3>2, <1>6
  <2>5. QED
    BY <2>3, <2>4
<1>12. QED
  BY <1>3, <1>4, <1>5, <1>6, <1>7, <1>9, <1>10, <1>11 DEF Sound
-----------------------------------------------------------------------------
\* A document less is a row less.
LEMMA RowsWithout ==
  ASSUME NEW docs, NEW K, Plain(docs, K), DistinctIds(docs), NEW r \in DOMAIN docs
  PROVE  RowsOf(Without(docs, r)) = RowsOf(docs) \ {AsText(docs[r])}
<1> DEFINE m == Without(docs, r)
<1>1. DOMAIN m = DOMAIN docs \ {r} /\ \A s \in DOMAIN m : m[s] = docs[s]
  BY DEF Without
<1> HIDE DEF m
<1>2. \A s \in DOMAIN docs : AsText(docs[s]) = AsText(docs[r]) => s = r
  BY RowsAreDistinct
<1>3. RowsOf(m) = RowsOf(docs) \ {AsText(docs[r])}
  BY <1>1, <1>2 DEF RowsOf
<1>4. QED
  BY <1>3 DEF m

\* To change a document is to take it out and put it in again.
LEMMA ExceptIsWith ==
  ASSUME NEW docs, docs = [x \in DOMAIN docs |-> docs[x]], NEW r \in DOMAIN docs, NEW d
  PROVE  [docs EXCEPT ![r] = d] = With(Without(docs, r), r, d)
<1> DEFINE a == [docs EXCEPT ![r] = d]
           b == Without(docs, r)
           c == With(b, r, d)
<1>1. DOMAIN b = DOMAIN docs \ {r} /\ \A x \in DOMAIN b : b[x] = docs[x]
  BY DEF Without
<1> HIDE DEF b
<1>2. /\ DOMAIN c = DOMAIN docs
      /\ \A x \in DOMAIN docs : c[x] = IF x = r THEN d ELSE docs[x]
      /\ c = [x \in DOMAIN c |-> c[x]]
  BY <1>1 DEF With
<1>3. /\ DOMAIN a = DOMAIN docs
      /\ \A x \in DOMAIN docs : a[x] = IF x = r THEN d ELSE docs[x]
      /\ a = [x \in DOMAIN a |-> a[x]]
  OBVIOUS
<1> HIDE DEF a, c
<1>4. a = c
  BY <1>2, <1>3
<1>5. QED
  BY <1>4 DEF a, b, c

\* The first match is one of those there can be.
LEMMA FirstOf ==
  ASSUME NEW t, NEW K, Sound(t, K), NEW q, FirstMatchIn(t, q) # {}, NEW r, r = First(t, q)
  PROVE  r \in DOMAIN t.docs /\ r \in FirstMatchIn(t, q)
BY FirstIsThere DEF First

\* update keeps a collection sound and changes one row.
LEMMA SoundUpdate ==
  ASSUME NEW t, NEW K, Sound(t, K), NEW q, FirstMatchIn(t, q) # {}, NEW r, r = First(t, q),
         NEW patch, Brought(patch, K), NEW u, u = TableUpdate(t, q, patch),
         NEW d, d = Merged(t.docs[r], patch)
  PROVE  /\ Sound(u, K)
         /\ RowsOf(u.docs) = (RowsOf(t.docs) \ {AsText(t.docs[r])}) \cup {AsText(d)}
         /\ SameFields(u.indices, t.indices)
         /\ u.id = t.id
<1> DEFINE m == [t.docs EXCEPT ![r] = d]
           ixs == Reindexed(t, r, d)
           cleared == Cleared(t, r)
           rest == Without(t.docs, r)
<1>1. u \in Record(t.nodes, m, t.id, ixs)
  BY UpdateParts DEF Sound, Listed
<1>2. r \in DOMAIN t.docs /\ r \in Nat
  BY FirstOf, NodesAreFinite DEF Sound
<1>3. m = With(rest, r, d)
  BY <1>2, ExceptIsWith DEF Sound, Plain, IsStore
<1>4. Plain(rest, K) /\ Indexed(cleared, rest, K) /\ SameFields(cleared, t.indices)
  BY <1>2, PlainWithout, IndexedWithout DEF Sound, Cleared
<1>5. r \notin DOMAIN rest
  BY DEF Without
<1>6. PlainDoc(d, K) /\ IdOf(d) = IdOf(t.docs[r])
  BY <1>2, MergedIsPlain DEF Sound, Plain
<1>7. ixs = Outcome(InsertIndexEntries(cleared, r, d))
  BY DEF Reindexed
<1>8. RowsOf(rest) = RowsOf(t.docs) \ {AsText(t.docs[r])}
  BY <1>2, RowsWithout, IdsAreDistinct DEF Sound
<1>9. Listed(u)
  BY ListedUpdate DEF Sound
<1>10. /\ DOMAIN m = DOMAIN t.docs
       /\ \A x \in DOMAIN t.docs : m[x] = IF x = r THEN d ELSE t.docs[x]
  OBVIOUS
<1> HIDE DEF m, ixs, cleared, rest
<1>11. Indexed(ixs, m, K) /\ SameFields(ixs, cleared)
  BY <1>2, <1>3, <1>4, <1>5, <1>6, <1>7, IndexedWith
<1>12. Plain(m, K)
  BY <1>2, <1>3, <1>4, <1>6, PlainWith
<1>13. u.nodes = t.nodes /\ u.docs = m /\ u.id = t.id /\ u.indices = ixs
  BY <1>1, RecordParts
<1>14. RowsOf(m) = RowsOf(rest) \cup {AsText(d)}
  BY <1>3, <1>5, RowsWith
<1>15. \A x \in DOMAIN t.docs : IdOf(m[x]) = IdOf(t.docs[x])
  BY <1>6, <1>10
<1>16. InOrder(t.nodes, m)
  <2>1. \A a \in 1 .. Len(t.nodes) : t.nodes[a] \in DOMAIN t.docs
    BY NodeIs DEF Sound
  <2>2. QED
    BY <1>15, <2>1 DEF InOrder, Sound
<1>17. Sound(u, K)
  BY <1>9, <1>10, <1>11, <1>12, <1>13, <1>15, <1>16 DEF Sound
<1>18. SameFields(ixs, t.indices)
  BY <1>4, <1>11 DEF SameFields
<1>19. QED
  BY <1>8, <1>13, <1>14, <1>17, <1>18

\* A round of drop keeps a collection sound and takes one row.
LEMMA SoundDropOne ==
  ASSUME NEW t, NEW K, Sound(t, K), NEW q, FirstMatchIn(t, q) # {}, NEW r, r = First(t, q),
         NEW u, u = DropOne(t, q)
  PROVE  /\ Sound(u, K)
         /\ u.docs = Without(t.docs, r)
         /\ RowsOf(u.docs) = RowsOf(t.docs) \ {AsText(t.docs[r])}
         /\ SameFields(u.indices, t.indices)
         /\ u.id = t.id
<1> DEFINE rest == Without(t.docs, r)
           l == Unlisted(t, r)
           cleared == Cleared(t, r)
<1>1. u \in Record(l, rest, t.id, cleared)
  BY DropOneParts DEF Sound, Listed
<1>2. r \in DOMAIN t.docs
  BY FirstOf
<1>4. Plain(rest, K) /\ Indexed(cleared, rest, K) /\ SameFields(cleared, t.indices)
  BY <1>2, PlainWithout, IndexedWithout DEF Sound, Cleared
<1>5. DOMAIN rest \subseteq DOMAIN t.docs /\ \A x \in DOMAIN rest : rest[x] = t.docs[x]
  BY DEF Without
<1>8. RowsOf(rest) = RowsOf(t.docs) \ {AsText(t.docs[r])}
  BY <1>2, RowsWithout, IdsAreDistinct DEF Sound
<1>9. Listed(u)
  BY ListedDropOne DEF Sound
<1>10. PICK i \in 1 .. Len(t.nodes) : t.nodes[i] = r /\ l = RemoveAt(t.nodes, i)
  BY <1>2, UnlistedElements DEF Sound
<1> HIDE DEF l, cleared, rest
<1>11. u.nodes = l /\ u.docs = rest /\ u.id = t.id /\ u.indices = cleared
  BY <1>1, RecordParts
<1>12. InOrder(l, rest)
  <2>1. t.nodes \in Seq(Nat) /\ Len(t.nodes) \in Nat
    BY DEF Sound, Listed
  <2>2. Len(l) = Len(t.nodes) - 1
        /\ \A j \in 1 .. Len(t.nodes) - 1 : l[j] = IF j < i THEN t.nodes[j] ELSE t.nodes[j + 1]
    BY <1>10, <2>1, RemoveAtElements
  <2>3. ASSUME NEW j \in 1 .. Len(l)
        PROVE  rest[l[j]] = t.docs[l[j]]
    <3>1. l[j] \in DOMAIN rest
      BY <1>9, <1>11, NodeIs
    <3>2. QED
      BY <1>5, <3>1
  <2>4. ASSUME NEW a \in 1 .. Len(l), NEW b \in 1 .. Len(l), a < b
        PROVE  IdOf(rest[l[a]]) < IdOf(rest[l[b]])
    <3>1. a \in 1 .. Len(t.nodes) - 1 /\ a \in Int /\ a + 1 \in 1 .. Len(t.nodes) /\ a \in 1 .. Len(t.nodes)
      BY <2>1, <2>2
    <3>2. b \in 1 .. Len(t.nodes) - 1 /\ b \in Int /\ b + 1 \in 1 .. Len(t.nodes) /\ b \in 1 .. Len(t.nodes)
      BY <2>1, <2>2
    <3>3. PICK c \in 1 .. Len(t.nodes) : l[a] = t.nodes[c] /\ c = IF a < i THEN a ELSE a + 1
      BY <2>2, <3>1
    <3>4. PICK e \in 1 .. Len(t.nodes) : l[b] = t.nodes[e] /\ e = IF b < i THEN b ELSE b + 1
      BY <2>2, <3>2
    <3>5. a \in Int /\ b \in Int /\ i \in Int
      BY <2>1, <2>2
    <3>6. c < e
      BY <2>4, <3>3, <3>4, <3>5
    <3>7. IdOf(t.docs[t.nodes[c]]) < IdOf(t.docs[t.nodes[e]])
      BY <3>6 DEF Sound, InOrder
    <3>8. QED
      BY <2>3, <3>3, <3>4, <3>7
  <2>5. QED
    BY <2>4 DEF InOrder
<1>13. Sound(u, K)
  BY <1>4, <1>5, <1>9, <1>11, <1>12 DEF Sound
<1>14. QED
  BY <1>4, <1>8, <1>11, <1>13 DEF rest
-----------------------------------------------------------------------------
(***************************************************************************)
(* create_index goes through the list.                                     *)
(***************************************************************************)
Filled(t, x, i) == Outcome(WithEntry(x, t.nodes[i], t.docs[t.nodes[i]]))

\* g are the indices on the way.
IsFilling(g, n, t, x) == g = [i \in 0 .. n |-> IF i = 0 THEN x ELSE Filled(t, g[i - 1], i)]

\* The recursive function that fills an index exists.
LEMMA FillingExists ==
  ASSUME NEW t, NEW x
  PROVE  \A n \in Nat : \E g : IsFilling(g, n, t, x)
<1> DEFINE Bad == {n \in Nat : ~ \E g : IsFilling(g, n, t, x)}
<1>1. SUFFICES ASSUME Bad # {} PROVE FALSE
  OBVIOUS
<1>2. PICK n \in Bad : \A m \in Bad : n <= m
  <2>1. Bad \subseteq Nat
    OBVIOUS
  <2> HIDE DEF Bad
  <2>2. QED
    BY <1>1, <2>1, MinIsLeast
<1>3. CASE n = 0
  <2>1. IsFilling([i \in 0 .. 0 |-> x], 0, t, x)
    BY DEF IsFilling
  <2>2. QED
    BY <1>3, <2>1
<1>4. CASE n # 0
  <2>1. n - 1 \in Nat /\ n - 1 \notin Bad
    BY <1>2, <1>4
  <2>2. PICK h : IsFilling(h, n - 1, t, x)
    BY <2>1
  <2> DEFINE g == [i \in 0 .. n |-> IF i = n THEN Filled(t, h[n - 1], n) ELSE h[i]]
  <2>3. \A i \in 0 .. n - 1 : h[i] = IF i = 0 THEN x ELSE Filled(t, h[i - 1], i)
    BY <2>2 DEF IsFilling
  <2>4. \A i \in 0 .. n : g[i] = IF i = 0 THEN x ELSE Filled(t, g[i - 1], i)
    BY <1>4, <2>1, <2>3
  <2>5. IsFilling(g, n, t, x)
    <3> HIDE DEF g
    <3>1. g = [i \in 0 .. n |-> g[i]]
      BY DEF g
    <3>2. QED
      BY <3>1, <2>4 DEF IsFilling
  <2>6. QED
    BY <2>5
<1>5. QED
  BY <1>3, <1>4

\* create_index inserts the documents node by node.
LEMMA IndexIsFilled ==
  ASSUME NEW t, NEW f, Len(t.nodes) \in Nat, NEW n, n = Len(t.nodes)
  PROVE  \E g : /\ IndexNodes(t, f) = g[n]
                /\ g[0] = [field |-> f, entries |-> <<>>]
                /\ \A i \in 1 .. n : g[i] = Outcome(WithEntry(g[i - 1], t.nodes[i], t.docs[t.nodes[i]]))
<1> DEFINE x == [field |-> f, entries |-> <<>>]
           g == CHOOSE g : IsFilling(g, n, t, x)
<1>1. IsFilling(g, n, t, x)
  BY FillingExists
<1>2. IndexNodes(t, f) = g[n]
  BY DEF IndexNodes, IsFilling, Filled
<1> HIDE DEF g, x
<1>3. \A i \in 0 .. n : g[i] = IF i = 0 THEN x ELSE Filled(t, g[i - 1], i)
  BY <1>1 DEF IsFilling
<1>4. g[0] = x /\ \A i \in 1 .. n : g[i] = Filled(t, g[i - 1], i)
  BY <1>3
<1>5. QED
  BY <1>2, <1>4 DEF x, Filled

\* The documents of the first n nodes.
FirstDocs(t, n) == [r \in {t.nodes[p] : p \in 1 .. n} |-> t.docs[r]]

\* One node more is one document more.
LEMMA MoreDocs ==
  ASSUME NEW t, Listed(t), NEW n \in 1 .. Len(t.nodes), NEW r, r = t.nodes[n]
  PROVE  /\ FirstDocs(t, n) = With(FirstDocs(t, n - 1), r, t.docs[r])
         /\ r \notin DOMAIN FirstDocs(t, n - 1)
<1> DEFINE a == FirstDocs(t, n)
           b == FirstDocs(t, n - 1)
           A == {t.nodes[p] : p \in 1 .. n}
           B == {t.nodes[p] : p \in 1 .. n - 1}
<1>1. DOMAIN t.nodes = 1 .. Len(t.nodes) /\ Len(t.nodes) \in Nat /\ IsInjective(t.nodes)
  BY DEF Listed
<1>2. A = B \cup {r}
  <2>1. \A p : p \in 1 .. n <=> p \in 1 .. n - 1 \/ p = n
    OBVIOUS
  <2>2. QED
    BY <2>1
<1>3. r \notin B
  <2>1. SUFFICES ASSUME NEW p \in 1 .. n - 1, t.nodes[p] = r PROVE FALSE
    OBVIOUS
  <2>2. p \in DOMAIN t.nodes /\ n \in DOMAIN t.nodes /\ p # n
    BY <1>1
  <2>3. QED
    BY <1>1, <2>1, <2>2 DEF IsInjective
<1>4. a = [x \in A |-> t.docs[x]] /\ b = [x \in B |-> t.docs[x]]
  BY DEF FirstDocs
<1> HIDE DEF a, b, A, B
<1>5. a = With(b, r, t.docs[r])
  BY <1>2, <1>3, <1>4 DEF With
<1>6. QED
  BY <1>3, <1>4, <1>5 DEF a, b

\* All nodes are all documents.
LEMMA AllDocs ==
  ASSUME NEW t, Listed(t), t.docs = [r \in DOMAIN t.docs |-> t.docs[r]]
  PROVE  FirstDocs(t, Len(t.nodes)) = t.docs
<1>1. DOMAIN t.nodes = 1 .. Len(t.nodes)
  BY DEF Listed
<1>2. {t.nodes[p] : p \in 1 .. Len(t.nodes)} = DOMAIN t.docs
  BY <1>1 DEF Listed, Range
<1>3. QED
  BY <1>2 DEF FirstDocs

\* So the new index is coherent,
LEMMA FilledIsCoherent ==
  ASSUME NEW t, NEW K, Sound(t, K), NEW f \in DOMAIN K \cap Names, NEW x, x = IndexNodes(t, f)
  PROVE  x \in IndexRecords /\ x.field = f /\ Coherent(x.entries, f, t.docs)
<1> DEFINE n == Len(t.nodes)
<1>1. Len(t.nodes) \in Nat /\ Listed(t)
  BY DEF Sound, Listed
<1>2. PICK g : /\ x = g[n]
               /\ g[0] = [field |-> f, entries |-> <<>>]
               /\ \A i \in 1 .. n : g[i] = Outcome(WithEntry(g[i - 1], t.nodes[i], t.docs[t.nodes[i]]))
  BY <1>1, IndexIsFilled
<1> DEFINE Good(i) == /\ g[i] \in IndexRecords /\ g[i].field = f
                      /\ Coherent(g[i].entries, f, FirstDocs(t, i))
           Bad == {i \in 0 .. n : ~Good(i)}
<1>3. Good(0)
  <2>1. <<>> \in Seq(EntriesOf(Refs))
    OBVIOUS
  <2>2. g[0] \in IndexRecords /\ g[0].field = f /\ g[0].entries = <<>>
    BY <1>2, <2>1 DEF IndexRecords
  <2>3. DOMAIN FirstDocs(t, 0) = {}
    BY DEF FirstDocs
  <2>4. Coherent(<<>>, f, FirstDocs(t, 0))
    BY <2>3 DEF Coherent, Current, Complete, Distinct, Sorted
  <2>5. QED
    BY <2>2, <2>4
<1>4. Bad = {}
  <2>1. SUFFICES ASSUME Bad # {} PROVE FALSE
    OBVIOUS
  <2>2. PICK i \in Bad : \A j \in Bad : i <= j
    <3>1. Bad \subseteq Nat
      BY <1>1
    <3> HIDE DEF Bad
    <3>2. QED
      BY <2>1, <3>1, MinIsLeast
  <2>3. i # 0
    BY <1>3
  <2>4. i \in 1 .. n /\ i - 1 \in 0 .. n /\ i - 1 \notin Bad
    BY <1>1, <2>2, <2>3
  <2>5. Good(i - 1)
    BY <2>4
  <2> DEFINE r == t.nodes[i]
             d == t.docs[r]
             before == FirstDocs(t, i - 1)
             ix == g[i - 1]
  <2>6. r \in DOMAIN t.docs /\ r \in Refs
    BY <1>1, <2>4, NodeIs, NodesAreFinite, DatabaseAssumption
  <2>7. IsDocument(d)
    BY <2>6 DEF Sound, Plain, IsStore
  <2>8. FirstDocs(t, i) = With(before, r, d) /\ r \notin DOMAIN before
    BY <1>1, <2>4, MoreDocs
  <2>9. OfKind(K[f], f, FirstDocs(t, i))
    <3>1. OfKind(K[f], f, t.docs)
      BY PlainIsOfKind DEF Sound
    <3>2. \A p \in 1 .. i : t.nodes[p] \in DOMAIN t.docs
      BY <1>1, <2>4, NodeIs
    <3>3. QED
      BY <3>1, <3>2 DEF OfKind, FirstDocs
  <2>10. g[i] = Outcome(WithEntry(ix, r, d))
    BY <1>2, <2>4
  <2>11. ix \in IndexRecords /\ ix.field = f /\ Coherent(ix.entries, ix.field, before)
    BY <2>5
  <2> HIDE DEF r, d, before, ix
  <2>12. g[i] \in WithEntry(ix, r, d)
    BY <2>7, <2>10, <2>11, WithEntryExists, OutcomeIs DEF Chosen
  <2>13. g[i] \in IndexRecords /\ g[i].field = f
    BY <2>6, <2>7, <2>11, <2>12, WithEntryType
  <2>14. Coherent(g[i].entries, g[i].field, With(before, r, d))
    BY <2>6, <2>8, <2>9, <2>11, <2>12, WithEntryKeepsCoherence
  <2>15. Good(i)
    BY <2>8, <2>13, <2>14
  <2>16. QED
    BY <2>2, <2>15
<1>5. Good(n)
  BY <1>1, <1>4
<1>6. FirstDocs(t, n) = t.docs
  BY <1>1, AllDocs DEF Sound, Plain, IsStore
<1>7. QED
  BY <1>2, <1>5, <1>6

\* and a collection with it is sound.
LEMMA SoundCreateIndex ==
  ASSUME NEW t, NEW K, Sound(t, K), NEW f \in DOMAIN K \cap Names, NEW u, u = TableCreateIndex(t, f)
  PROVE  Sound(u, K) /\ u.docs = t.docs /\ u.id = t.id
<1> DEFINE x == IndexNodes(t, f)
           ixs == Append(t.indices, x)
<1>1. u.nodes = t.nodes /\ u.docs = t.docs /\ u.id = t.id /\ u.indices = ixs
  BY DEF TableCreateIndex, Sound, Listed, IsTable, Record
<1>2. x \in IndexRecords /\ x.field = f /\ Coherent(x.entries, f, t.docs)
  BY FilledIsCoherent
<1>3. Listed(u)
  BY ListedCreateIndex DEF Sound
<1>4. t.indices \in Seq(IndexRecords) /\ Len(t.indices) \in Nat \ {0} /\ DOMAIN t.indices = 1 .. Len(t.indices)
  BY DEF Sound, Indexed
<1> HIDE DEF x
<1>5. /\ ixs \in Seq(IndexRecords)
      /\ Len(ixs) = Len(t.indices) + 1
      /\ DOMAIN ixs = 1 .. Len(t.indices) + 1
      /\ ixs[Len(t.indices) + 1] = x
      /\ \A i \in 1 .. Len(t.indices) : ixs[i] = t.indices[i]
  BY <1>2, <1>4
<1> HIDE DEF ixs
<1>6. ASSUME NEW i \in 1 .. Len(ixs)
      PROVE  ixs[i].field \in DOMAIN K /\ Coherent(ixs[i].entries, ixs[i].field, t.docs)
  <2>1. CASE i = Len(t.indices) + 1
    BY <1>2, <1>5, <2>1
  <2>2. CASE i # Len(t.indices) + 1
    <3>1. i \in 1 .. Len(t.indices) /\ ixs[i] = t.indices[i]
      BY <1>4, <1>5, <2>2
    <3>2. QED
      BY <1>4, <3>1 DEF Sound, Indexed, AllCoherent
  <2>3. QED
    BY <2>1, <2>2
<1>7. ixs # <<>> /\ ixs[1].field = Id
  BY <1>4, <1>5 DEF Sound, Indexed
<1>8. AllCoherent(ixs, t.docs)
  BY <1>5, <1>6 DEF AllCoherent
<1>9. Indexed(u.indices, u.docs, K)
  BY <1>1, <1>5, <1>6, <1>7, <1>8 DEF Indexed
<1>10. QED
  BY <1>1, <1>3, <1>9 DEF Sound
-----------------------------------------------------------------------------
(***************************************************************************)
(* What a drop does to the documents as text has them.                     *)
(***************************************************************************)
RowsMatch(rows, q) == {x \in rows : Satisfies(x, q)}

\* The rows that match are the documents that match.
LEMMA MatchesOfRows ==
  ASSUME NEW docs, NEW K, Plain(docs, K), NEW q \in QueryRecords
  PROVE  RowsMatch(RowsOf(docs), q) = {AsText(docs[r]) : r \in MatchingIn(docs, q)}
<1>1. \A r \in DOMAIN docs : Satisfies(AsText(docs[r]), q) <=> Satisfies(docs[r], q)
  BY SatisfiesAsText DEF Plain, PlainDoc
<1>2. QED
  BY <1>1 DEF RowsMatch, RowsOf, MatchingIn

\* They are finitely many, and as many.
LEMMA RowsCounted ==
  ASSUME NEW t, NEW K, Sound(t, K), NEW q \in QueryRecords
  PROVE  /\ IsFiniteSet(RowsMatch(RowsOf(t.docs), q))
         /\ Cardinality(RowsMatch(RowsOf(t.docs), q)) = Cardinality(Matching(t, q))
         /\ Cardinality(Matching(t, q)) \in Nat
         /\ Cardinality(DOMAIN t.docs) \in Nat
         /\ Cardinality(Matching(t, q)) <= Cardinality(DOMAIN t.docs)
<1> DEFINE M == MatchingIn(t.docs, q)
           R == RowsMatch(RowsOf(t.docs), q)
           f == [r \in M |-> AsText(t.docs[r])]
<1>1. IsFiniteSet(DOMAIN t.docs) /\ M \subseteq DOMAIN t.docs /\ M = Matching(t, q)
  BY NodesAreFinite DEF Sound, MatchingIn, Matching
<1>2. IsFiniteSet(M) /\ Cardinality(M) <= Cardinality(DOMAIN t.docs)
  BY <1>1, FS_Subset
<1>3. R = {AsText(t.docs[r]) : r \in M}
  BY MatchesOfRows DEF Sound
<1>4. \A r, s \in M : AsText(t.docs[r]) = AsText(t.docs[s]) => r = s
  BY <1>1, RowsAreDistinct, IdsAreDistinct DEF Sound
<1> HIDE DEF M, R
<1>5. f \in Bijection(M, R)
  <2>1. f \in [M -> R]
    BY <1>3
  <2>2. \A r, s \in M : f[r] = f[s] => r = s
    BY <1>4
  <2>3. \A x \in R : \E r \in M : f[r] = x
    BY <1>3
  <2> HIDE DEF f
  <2>4. QED
    BY <2>1, <2>2, <2>3 DEF Bijection, Injection, Surjection, IsInjective
<1>6. ExistsBijection(M, R)
  BY <1>5 DEF ExistsBijection
<1>7. IsFiniteSet(R) /\ Cardinality(R) = Cardinality(M)
  BY <1>2, <1>6, FS_Bijection
<1>8. Cardinality(M) \in Nat /\ Cardinality(DOMAIN t.docs) \in Nat
  BY <1>1, <1>2, FS_CardinalityType
<1>9. QED
  BY <1>1, <1>2, <1>7, <1>8 DEF R

\* Which index answers depends on the fields of the indices alone.
LEMMA SameFirstIndex ==
  ASSUME NEW a, NEW b, SameFields(a, b), NEW q
  PROVE  ById(a, q) <=> ById(b, q)
<1> DEFINE f == q.field
           A == {i \in 1 .. Len(a) : a[i].field = f}
           B == {i \in 1 .. Len(b) : b[i].field = f}
<1>1. A = B
  BY DEF SameFields
<1>2. FirstIndexIn(a, f) = (IF A # {} THEN Min(A) ELSE 0) /\ FirstIndexIn(b, f) = (IF B # {} THEN Min(B) ELSE 0)
  BY DEF FirstIndexIn, SelectInSeq
<1> HIDE DEF A, B
<1>3. FirstIndexIn(a, f) = FirstIndexIn(b, f)
  BY <1>1, <1>2
<1>4. QED
  BY <1>3 DEF ById

\* Indices on the same fields as others, on the same as third ones.
LEMMA FieldsAlike ==
  ASSUME NEW a, NEW b, NEW c, SameFields(a, b), SameFields(b, c)
  PROVE  SameFields(a, c)
BY DEF SameFields

\* A round of drop takes a row that matches, the first one by "_id", if there is any.
LEMMA DropRound ==
  ASSUME NEW t, NEW K, Sound(t, K), NEW q, Fine(q, K), NEW u, u = DropOne(t, q),
         NEW rows, rows = RowsOf(t.docs)
  PROVE  /\ Sound(u, K)
         /\ SameFields(u.indices, t.indices)
         /\ u.id = t.id
         /\ \/ RowsMatch(rows, q) = {} /\ RowsOf(u.docs) = rows
            \/ \E x \in RowsMatch(rows, q) :
                 /\ RowsOf(u.docs) = rows \ {x}
                 /\ ById(t.indices, q) => \A y \in RowsMatch(rows, q) : IdOf(x) <= IdOf(y)
<1> DEFINE M == MatchingIn(t.docs, q)
           F == FirstMatchIn(t, q)
<1>1. /\ F \subseteq M
      /\ F = {} <=> M = {}
      /\ ById(t.indices, q) => \A r \in F, s \in M : IdOf(t.docs[r]) <= IdOf(t.docs[s])
  BY FoundFirst DEF Sound, FirstMatchIn
<1>2. RowsMatch(rows, q) = {AsText(t.docs[r]) : r \in M}
  BY MatchesOfRows DEF Sound, Fine
<1>3. \A r \in M : r \in DOMAIN t.docs /\ IdOf(AsText(t.docs[r])) = IdOf(t.docs[r])
  BY PlainIds DEF MatchingIn, Sound
<1> HIDE DEF M
<1>4. CASE F = {}
  <2>1. u = t
    BY <1>4 DEF DropOne
  <2>2. QED
    BY <1>1, <1>2, <1>4, <2>1 DEF SameFields
<1>5. CASE F # {}
  <2> DEFINE r == First(t, q)
             x == AsText(t.docs[r])
  <2>1. r \in F
    BY <1>5, FirstOf
  <2> HIDE DEF F
  <2>2. Sound(u, K) /\ RowsOf(u.docs) = rows \ {x} /\ SameFields(u.indices, t.indices) /\ u.id = t.id
    BY <1>5, SoundDropOne DEF F
  <2>3. x \in RowsMatch(rows, q)
    BY <1>1, <1>2, <2>1
  <2>4. ASSUME ById(t.indices, q), NEW y \in RowsMatch(rows, q)
        PROVE  IdOf(x) <= IdOf(y)
    <3>1. PICK s \in M : y = AsText(t.docs[s])
      BY <1>2
    <3>2. IdOf(t.docs[r]) <= IdOf(t.docs[s])
      BY <1>1, <2>1, <2>4
    <3>3. QED
      BY <1>1, <1>3, <2>1, <3>1, <3>2
  <2>5. QED
    BY <2>2, <2>3, <2>4
<1>6. QED
  BY <1>4, <1>5
-----------------------------------------------------------------------------
\* G is the first of M by "_id".
Earliest(G, M) == \A x \in G, y \in M \ G : IdOf(x) <= IdOf(y)

\* The rows that are gone from rows after i rounds of a drop.
Gone(G, M, left, rows, i) ==
  /\ G \in SUBSET M
  /\ left = rows \ G
  /\ Cardinality(G) = i \/ (G = M /\ Cardinality(M) <= i)

\* The collection t after i rounds of a drop.
AfterRounds(u, t, K, q, i) ==
  /\ Sound(u, K)
  /\ SameFields(u.indices, t.indices)
  /\ u.id = t.id
  /\ \E G : /\ Gone(G, RowsMatch(RowsOf(t.docs), q), RowsOf(u.docs), RowsOf(t.docs), i)
            /\ ById(t.indices, q) => Earliest(G, RowsMatch(RowsOf(t.docs), q))

\* After another round another row is gone, or all that match were.
LEMMA OneMoreGone ==
  ASSUME NEW rows, NEW q, NEW M, M = RowsMatch(rows, q), IsFiniteSet(M), NEW i \in Nat,
         NEW left, NEW G, Gone(G, M, left, rows, i), NEW rest,
         \/ RowsMatch(left, q) = {} /\ rest = left
         \/ \E x \in RowsMatch(left, q) : rest = left \ {x}
  PROVE  \E H : /\ Gone(H, M, rest, rows, i + 1)
                /\ (/\ Earliest(G, M)
                    /\ \A x \in RowsMatch(left, q) : rest = left \ {x} =>
                         \A y \in RowsMatch(left, q) : IdOf(x) <= IdOf(y))
                   => Earliest(H, M)
<1>1. RowsMatch(left, q) = M \ G
  BY DEF Gone, RowsMatch
<1>2. IsFiniteSet(G) /\ Cardinality(G) \in Nat /\ Cardinality(M) \in Nat
  <2>1. IsFiniteSet(G)
    BY FS_Subset DEF Gone
  <2>2. QED
    BY <2>1, FS_CardinalityType
<1>3. CASE RowsMatch(left, q) = {} /\ rest = left
  <2>1. G = M
    BY <1>1, <1>3 DEF Gone
  <2>2. Cardinality(M) <= i + 1
    BY <1>2, <2>1 DEF Gone
  <2>3. Gone(G, M, rest, rows, i + 1)
    BY <1>3, <2>1, <2>2 DEF Gone
  <2>4. QED
    BY <2>3
<1>4. ASSUME NEW x \in RowsMatch(left, q), rest = left \ {x}
      PROVE  \E H : /\ Gone(H, M, rest, rows, i + 1)
                    /\ (/\ Earliest(G, M)
                        /\ \A y \in RowsMatch(left, q) : IdOf(x) <= IdOf(y))
                       => Earliest(H, M)
  <2> DEFINE H == G \cup {x}
  <2>1. x \in M /\ x \notin G
    BY <1>1
  <2>2. Cardinality(G) = i
    BY <2>1 DEF Gone
  <2>3. Cardinality(H) = i + 1
    BY <1>2, <2>1, <2>2, FS_AddElement
  <2>4. H \in SUBSET M /\ rest = rows \ H
    BY <1>4, <2>1 DEF Gone
  <2>5. Gone(H, M, rest, rows, i + 1)
    BY <2>3, <2>4 DEF Gone
  <2>6. ASSUME Earliest(G, M), \A y \in RowsMatch(left, q) : IdOf(x) <= IdOf(y)
        PROVE  Earliest(H, M)
    <3>1. \A z \in H : z \in G \/ z = x
      OBVIOUS
    <3>2. \A y \in M \ H : y \in M \ G /\ y \in RowsMatch(left, q)
      BY <1>1
    <3>3. QED
      BY <2>6, <3>1, <3>2 DEF Earliest
  <2>7. QED
    BY <2>5, <2>6
<1>5. QED
  BY <1>3, <1>4

\* What a round does to the rows.
OneRound(t, u, K, q) ==
  /\ Sound(u, K)
  /\ SameFields(u.indices, t.indices)
  /\ u.id = t.id
  /\ \/ RowsMatch(RowsOf(t.docs), q) = {} /\ RowsOf(u.docs) = RowsOf(t.docs)
     \/ \E x \in RowsMatch(RowsOf(t.docs), q) :
          /\ RowsOf(u.docs) = RowsOf(t.docs) \ {x}
          /\ ById(t.indices, q) => \A y \in RowsMatch(RowsOf(t.docs), q) : IdOf(x) <= IdOf(y)

\* A round of drop is such a round.
LEMMA RoundIsOne ==
  ASSUME NEW t, NEW K, Sound(t, K), NEW q, Fine(q, K), NEW u, u = DropOne(t, q)
  PROVE  OneRound(t, u, K, q)
<1>1. PICK rows : rows = RowsOf(t.docs)
  OBVIOUS
<1>2. /\ Sound(u, K)
      /\ SameFields(u.indices, t.indices)
      /\ u.id = t.id
      /\ \/ RowsMatch(rows, q) = {} /\ RowsOf(u.docs) = rows
         \/ \E x \in RowsMatch(rows, q) :
              /\ RowsOf(u.docs) = rows \ {x}
              /\ ById(t.indices, q) => \A y \in RowsMatch(rows, q) : IdOf(x) <= IdOf(y)
  BY <1>1, DropRound, SMTT(60)
<1>3. QED
  BY <1>1, <1>2 DEF OneRound

\* A round after i rounds is the next one.
LEMMA AnotherRound ==
  ASSUME NEW t, NEW K, Sound(t, K), NEW q, Fine(q, K), NEW i \in Nat,
         NEW v, AfterRounds(v, t, K, q, i), NEW u, u = DropOne(v, q)
  PROVE  AfterRounds(u, t, K, q, i + 1)
<1> DEFINE rows == RowsOf(t.docs)
           M == RowsMatch(rows, q)
           left == RowsOf(v.docs)
           rest == RowsOf(u.docs)
<1>1. PICK G : Gone(G, M, left, rows, i) /\ (ById(t.indices, q) => Earliest(G, M))
  BY DEF AfterRounds
<1>2. Sound(v, K) /\ SameFields(v.indices, t.indices) /\ v.id = t.id
  BY DEF AfterRounds
<1>3. /\ Sound(u, K)
      /\ SameFields(u.indices, v.indices)
      /\ u.id = v.id
      /\ \/ RowsMatch(left, q) = {} /\ rest = left
         \/ \E x \in RowsMatch(left, q) :
              /\ rest = left \ {x}
              /\ ById(v.indices, q) => \A y \in RowsMatch(left, q) : IdOf(x) <= IdOf(y)
  <2>1. OneRound(v, u, K, q)
    BY <1>2, RoundIsOne
  <2>2. QED
    BY <2>1 DEF OneRound
<1>4. IsFiniteSet(M)
  BY RowsCounted DEF Fine
<1>5. ById(v.indices, q) <=> ById(t.indices, q)
  BY <1>2, SameFirstIndex
<1> HIDE DEF M, left, rest, rows
<1>6. PICK H : /\ Gone(H, M, rest, rows, i + 1)
               /\ (/\ Earliest(G, M)
                   /\ \A x \in RowsMatch(left, q) : rest = left \ {x} =>
                        \A y \in RowsMatch(left, q) : IdOf(x) <= IdOf(y))
                  => Earliest(H, M)
  BY <1>1, <1>3, <1>4, OneMoreGone DEF M
<1>7. ASSUME ById(t.indices, q)
      PROVE  Earliest(H, M)
  <2>1. ASSUME NEW x \in RowsMatch(left, q), rest = left \ {x}
        PROVE  \A y \in RowsMatch(left, q) : IdOf(x) <= IdOf(y)
    <3>1. PICK z \in RowsMatch(left, q) : rest = left \ {z} /\ \A y \in RowsMatch(left, q) : IdOf(z) <= IdOf(y)
      BY <1>3, <1>5, <1>7, <2>1
    <3>2. x \in left /\ z \in left
      BY <3>1 DEF RowsMatch
    <3>3. x = z
      BY <2>1, <3>1, <3>2
    <3>4. QED
      BY <3>1, <3>3
  <2>2. QED
    BY <1>1, <1>6, <1>7, <2>1
<1>8. SameFields(u.indices, t.indices)
  BY <1>2, <1>3, FieldsAlike
<1>9. QED
  BY <1>2, <1>3, <1>6, <1>7, <1>8 DEF AfterRounds, M, left, rest, rows

\* What a drop of at most that many documents leaves of the rows.
Leaves(t, u, q, limit) ==
  \E G \in SUBSET RowsMatch(RowsOf(t.docs), q) :
    /\ RowsOf(u.docs) = RowsOf(t.docs) \ G
    /\ Cardinality(G) = Taken(limit, Cardinality(RowsMatch(RowsOf(t.docs), q)))
    /\ ById(t.indices, q) => Earliest(G, RowsMatch(RowsOf(t.docs), q))

\* So drop takes as many rows as match, up to its limit, the first ones by "_id".
LEMMA DropLeaves ==
  ASSUME NEW t, NEW K, Sound(t, K), NEW q, Fine(q, K), NEW limit \in Nat,
         NEW u, u = TableDrop(t, q, limit)
  PROVE  /\ Sound(u, K)
         /\ SameFields(u.indices, t.indices)
         /\ u.id = t.id
         /\ Leaves(t, u, q, limit)
<1>0a. PICK rows : rows = RowsOf(t.docs)
  OBVIOUS
<1>0b. PICK M : M = RowsMatch(rows, q)
  OBVIOUS
<1> DEFINE c == Cardinality(DOMAIN t.docs)
           m == Cardinality(M)
<1>1. IsFiniteSet(M) /\ m \in Nat /\ c \in Nat /\ m <= c
  BY <1>0a, <1>0b, RowsCounted DEF Fine
<1>2. PICK rounds \in Nat : rounds = Taken(limit, c)
  BY <1>1 DEF Taken
<1>3. PICK g : /\ u = g[rounds]
               /\ g[0] = t
               /\ \A i \in 1 .. rounds : g[i] = DropOne(g[i - 1], q)
  BY <1>2, TableDropRounds
<1>4. AfterRounds(t, t, K, q, 0)
  <2>1. Cardinality({}) = 0
    BY FS_EmptySet
  <2>2. Gone({}, M, rows, rows, 0) /\ Earliest({}, M)
    BY <2>1 DEF Gone, Earliest
  <2>3. SameFields(t.indices, t.indices)
    BY DEF SameFields
  <2>4. QED
    BY <1>0a, <1>0b, <2>2, <2>3 DEF AfterRounds
<1> DEFINE Bad == {i \in 0 .. rounds : ~AfterRounds(g[i], t, K, q, i)}
<1>5. Bad = {}
  <2>1. SUFFICES ASSUME Bad # {} PROVE FALSE
    OBVIOUS
  <2>2. PICK i \in Bad : \A j \in Bad : i <= j
    <3>1. Bad \subseteq Nat
      OBVIOUS
    <3> HIDE DEF Bad
    <3>2. QED
      BY <2>1, <3>1, MinIsLeast
  <2>3. i # 0
    BY <1>3, <1>4
  <2>4. i \in 1 .. rounds /\ i - 1 \in 0 .. rounds /\ i - 1 \notin Bad /\ i - 1 \in Nat /\ (i - 1) + 1 = i
    BY <2>2, <2>3
  <2>5. AfterRounds(g[i - 1], t, K, q, i - 1) /\ g[i] = DropOne(g[i - 1], q)
    BY <1>3, <2>4
  <2>6. AfterRounds(g[i], t, K, q, i)
    BY <2>4, <2>5, AnotherRound
  <2>7. QED
    BY <2>2, <2>6
<1>6. AfterRounds(u, t, K, q, rounds)
  BY <1>3, <1>5
<1>7. PICK G : Gone(G, M, RowsOf(u.docs), rows, rounds) /\ (ById(t.indices, q) => Earliest(G, M))
  BY <1>0a, <1>0b, <1>6 DEF AfterRounds
<1> HIDE DEF c
<1>8. Cardinality(G) = Taken(limit, m)
  <2>1. Cardinality(G) \in Nat /\ Cardinality(G) <= m
    BY <1>1, <1>7, FS_Subset, FS_CardinalityType DEF Gone
  <2> HIDE DEF m
  <2>2. CASE Cardinality(G) = rounds
    BY <1>1, <1>2, <2>1, <2>2 DEF Taken
  <2>3. CASE G = M /\ Cardinality(M) <= rounds
    <3>1. m <= rounds /\ Cardinality(G) = m
      BY <2>3 DEF m
    <3>2. QED
      BY <1>1, <1>2, <3>1 DEF Taken
  <2>4. QED
    BY <1>7, <2>2, <2>3 DEF Gone
<1>9. QED
  BY <1>0a, <1>0b, <1>6, <1>7, <1>8 DEF AfterRounds, Gone, Leaves, m
-----------------------------------------------------------------------------
(***************************************************************************)
(* Two collections with the same rows show clients the same, and change    *)
(* alike.                                                                  *)
(***************************************************************************)
\* What content has of a collection.
View(t) == [p \in DOMAIN t.nodes |-> AsText(t.docs[t.nodes[p]])]

\* No two documents of M have the same "_id".
UniqueIds(M) == \A x, y \in M : IdOf(x) \in Int /\ (IdOf(x) = IdOf(y) => x = y)

\* No two rows have the same "_id".
LEMMA RowsHaveUniqueIds ==
  ASSUME NEW t, NEW K, Sound(t, K)
  PROVE  UniqueIds(RowsOf(t.docs))
<1>1. SUFFICES ASSUME NEW x \in RowsOf(t.docs), NEW y \in RowsOf(t.docs)
               PROVE  IdOf(x) \in Int /\ (IdOf(x) = IdOf(y) => x = y)
  BY DEF UniqueIds
<1>2. PICK r \in DOMAIN t.docs, s \in DOMAIN t.docs : x = AsText(t.docs[r]) /\ y = AsText(t.docs[s])
  BY DEF RowsOf
<1>3. /\ IdOf(x) = IdOf(t.docs[r]) /\ IdOf(t.docs[r]) \in Nat
      /\ IdOf(y) = IdOf(t.docs[s])
  BY <1>2, PlainIds DEF Sound
<1>4. IdOf(x) = IdOf(y) => r = s
  BY <1>3, IdsAreDistinct DEF DistinctIds
<1>5. QED
  BY <1>2, <1>3, <1>4

\* All that match, none, or the same number of first ones: the same rows are taken.
LEMMA TakenAlike ==
  ASSUME NEW M, IsFiniteSet(M), UniqueIds(M), NEW G \in SUBSET M, NEW H \in SUBSET M,
         Cardinality(G) = Cardinality(H),
         Cardinality(G) \in {0, Cardinality(M)} \/ (Earliest(G, M) /\ Earliest(H, M))
  PROVE  G = H
<1>1. IsFiniteSet(G) /\ IsFiniteSet(H)
  BY FS_Subset
<1>2. CASE Cardinality(G) = 0
  <2>1. G = {}
    BY <1>1, <1>2, FS_EmptySet
  <2>2. H = {}
    BY <1>1, <1>2, FS_EmptySet
  <2>3. QED
    BY <2>1, <2>2
<1>3. CASE Cardinality(G) = Cardinality(M)
  <2>1. G = M
    BY <1>3, FS_Subset
  <2>2. H = M
    BY <1>3, FS_Subset
  <2>3. QED
    BY <2>1, <2>2
<1>4. CASE Earliest(G, M) /\ Earliest(H, M)
  <2>1. SUFFICES ASSUME G # H
                 PROVE  FALSE
    OBVIOUS
  <2>2. ~(G \subseteq H)
    BY <1>1, <2>1, FS_Subset
  <2>3. ~(H \subseteq G)
    BY <1>1, <2>1, FS_Subset
  <2>4. PICK x \in G, y \in H : x \notin H /\ y \notin G
    BY <2>2, <2>3
  <2>5. IdOf(x) <= IdOf(y) /\ IdOf(y) <= IdOf(x)
    BY <1>4, <2>4 DEF Earliest
  <2>6. IdOf(x) \in Int /\ IdOf(y) \in Int
    BY <2>4 DEF UniqueIds
  <2>7. x = y
    BY <2>4, <2>5, <2>6 DEF UniqueIds
  <2>8. QED
    BY <2>4, <2>7
<1>5. QED
  BY <1>2, <1>3, <1>4

\* Some documents that match: which depends on the rows alone, if they are all or the first.
WholeOrById(taken, n, q, a, b) == taken \in {0, n} \/ (ById(a, q) /\ ById(b, q))

\* Two collections with the same rows have the same rows after drops that take as many.
LEMMA DropsAlike ==
  ASSUME NEW K, NEW t, Sound(t, K), NEW u, Sound(u, K), NEW rows,
         RowsOf(t.docs) = rows, RowsOf(u.docs) = rows, NEW q, Fine(q, K),
         NEW a \in Nat, NEW b \in Nat, NEW n, n = Cardinality(Matching(t, q)),
         Taken(a, n) = Taken(b, n), WholeOrById(Taken(a, n), n, q, t.indices, u.indices),
         NEW v, v = TableDrop(t, q, a), NEW w, w = TableDrop(u, q, b)
  PROVE  RowsOf(v.docs) = RowsOf(w.docs)
<1>1. PICK M : M = RowsMatch(rows, q)
  OBVIOUS
<1>2. IsFiniteSet(M) /\ Cardinality(M) = n
  BY <1>1, RowsCounted DEF Fine
<1>3. PICK G \in SUBSET M : /\ RowsOf(v.docs) = rows \ G
                            /\ Cardinality(G) = Taken(a, n)
                            /\ ById(t.indices, q) => Earliest(G, M)
  <2>1. Leaves(t, v, q, a)
    BY DropLeaves
  <2>2. QED
    BY <1>1, <1>2, <2>1 DEF Leaves
<1>4. PICK H \in SUBSET M : /\ RowsOf(w.docs) = rows \ H
                            /\ Cardinality(H) = Taken(b, n)
                            /\ ById(u.indices, q) => Earliest(H, M)
  <2>1. Leaves(u, w, q, b)
    BY DropLeaves
  <2>2. QED
    BY <1>1, <1>2, <2>1 DEF Leaves
<1>5. UniqueIds(M)
  BY <1>1, RowsHaveUniqueIds DEF UniqueIds, RowsMatch
<1>6. Cardinality(G) \in {0, Cardinality(M)} \/ (Earliest(G, M) /\ Earliest(H, M))
  BY <1>2, <1>3, <1>4 DEF WholeOrById
<1>7. G = H
  BY <1>2, <1>3, <1>4, <1>5, <1>6, TakenAlike
<1>8. QED
  BY <1>3, <1>4, <1>7
-----------------------------------------------------------------------------
\* The row that update finds matches, and is the first one if "_id" leads to it.
LEMMA FirstRow ==
  ASSUME NEW K, NEW t, Sound(t, K), NEW q, Fine(q, K), FirstMatchIn(t, q) # {},
         NEW rows, rows = RowsOf(t.docs), NEW x, x = AsText(t.docs[First(t, q)])
  PROVE  /\ x \in RowsMatch(rows, q)
         /\ ById(t.indices, q) => \A y \in RowsMatch(rows, q) : IdOf(x) <= IdOf(y)
<1> DEFINE M == MatchingIn(t.docs, q)
           F == FirstMatchIn(t, q)
<1>1. /\ F \subseteq M
      /\ ById(t.indices, q) => \A r \in F, s \in M : IdOf(t.docs[r]) <= IdOf(t.docs[s])
  BY FoundFirst DEF Sound, FirstMatchIn
<1>2. RowsMatch(rows, q) = {AsText(t.docs[r]) : r \in M}
  BY MatchesOfRows DEF Sound, Fine
<1>3. \A r \in M : r \in DOMAIN t.docs /\ IdOf(AsText(t.docs[r])) = IdOf(t.docs[r])
  BY PlainIds DEF MatchingIn, Sound
<1>4. PICK r \in F : r = First(t, q) /\ r \in M
  BY <1>1, FirstOf
<1> HIDE DEF M, F
<1>5. x \in RowsMatch(rows, q)
  BY <1>2, <1>4
<1>6. ASSUME ById(t.indices, q), NEW y \in RowsMatch(rows, q)
      PROVE  IdOf(x) <= IdOf(y)
  <2>1. PICK s \in M : y = AsText(t.docs[s])
    BY <1>2
  <2>2. IdOf(t.docs[r]) <= IdOf(t.docs[s])
    BY <1>1, <1>4, <1>6
  <2>3. QED
    BY <1>3, <1>4, <2>1, <2>2
<1>7. QED
  BY <1>5, <1>6

\* update finds nothing just if no row matches.
LEMMA NoFirstRow ==
  ASSUME NEW K, NEW t, Sound(t, K), NEW q, Fine(q, K)
  PROVE  FirstMatchIn(t, q) = {} <=> RowsMatch(RowsOf(t.docs), q) = {}
<1> DEFINE M == MatchingIn(t.docs, q)
<1>1. FirstMatchIn(t, q) = {} <=> M = {}
  BY FoundFirst DEF Sound, FirstMatchIn
<1>2. RowsMatch(RowsOf(t.docs), q) = {AsText(t.docs[r]) : r \in M}
  BY MatchesOfRows DEF Sound, Fine
<1>3. QED
  BY <1>1, <1>2

\* Of at most one there are no two.
LEMMA AtMostOne ==
  ASSUME NEW M, IsFiniteSet(M), Cardinality(M) <= 1, NEW x \in M, NEW y \in M
  PROVE  x = y
<1>1. Cardinality(M) \in Nat /\ Cardinality(M) # 0
  BY FS_CardinalityType, FS_EmptySet
<1>2. Cardinality(M) = 1
  BY <1>1
<1>3. QED
  BY <1>2, FS_Singleton

\* Two collections with the same rows find the same row first.
LEMMA FirstAlike ==
  ASSUME NEW K, NEW t, Sound(t, K), NEW u, Sound(u, K), NEW rows,
         RowsOf(t.docs) = rows, RowsOf(u.docs) = rows, NEW q, Fine(q, K),
         Cardinality(Matching(t, q)) <= 1 \/ (ById(t.indices, q) /\ ById(u.indices, q)),
         FirstMatchIn(t, q) # {}, FirstMatchIn(u, q) # {}
  PROVE  AsText(t.docs[First(t, q)]) = AsText(u.docs[First(u, q)])
<1>1. PICK x : x = AsText(t.docs[First(t, q)])
  OBVIOUS
<1>2. PICK y : y = AsText(u.docs[First(u, q)])
  OBVIOUS
<1>3. PICK M : M = RowsMatch(rows, q)
  OBVIOUS
<1>4. x \in M /\ (ById(t.indices, q) => \A z \in M : IdOf(x) <= IdOf(z))
  BY <1>1, <1>3, FirstRow
<1>5. y \in M /\ (ById(u.indices, q) => \A z \in M : IdOf(y) <= IdOf(z))
  BY <1>2, <1>3, FirstRow
<1>6. IsFiniteSet(M) /\ Cardinality(M) = Cardinality(Matching(t, q))
  BY <1>3, RowsCounted DEF Fine
<1>7. UniqueIds(M)
  BY <1>3, RowsHaveUniqueIds DEF UniqueIds, RowsMatch
<1>8. CASE Cardinality(Matching(t, q)) <= 1
  BY <1>1, <1>2, <1>4, <1>5, <1>6, <1>8, AtMostOne
<1>9. CASE ById(t.indices, q) /\ ById(u.indices, q)
  <2>1. IdOf(x) <= IdOf(y) /\ IdOf(y) <= IdOf(x) /\ IdOf(x) \in Int /\ IdOf(y) \in Int
    BY <1>4, <1>5, <1>7, <1>9 DEF UniqueIds
  <2>2. x = y
    BY <1>4, <1>5, <1>7, <2>1 DEF UniqueIds
  <2>3. QED
    BY <1>1, <1>2, <2>2
<1>10. QED
  BY <1>8, <1>9

\* The rows after update.
LEMMA RowsUpdated ==
  ASSUME NEW K, NEW t, Sound(t, K), NEW q, FirstMatchIn(t, q) # {}, NEW patch, Brought(patch, K)
  PROVE  RowsOf(TableUpdate(t, q, patch).docs) =
           (RowsOf(t.docs) \ {AsText(t.docs[First(t, q)])}) \cup {AsText(Merged(t.docs[First(t, q)], patch))}
<1>1. PICK r : r = First(t, q)
  OBVIOUS
<1>2. PICK d : d = Merged(t.docs[r], patch)
  OBVIOUS
<1>3. PICK u : u = TableUpdate(t, q, patch)
  OBVIOUS
<1>4. RowsOf(u.docs) = (RowsOf(t.docs) \ {AsText(t.docs[r])}) \cup {AsText(d)}
  BY <1>1, <1>2, <1>3, SoundUpdate
<1>5. QED
  BY <1>1, <1>2, <1>3, <1>4

\* Two collections with the same rows have the same rows after the same update.
LEMMA UpdatesAlike ==
  ASSUME NEW K, NEW t, Sound(t, K), NEW u, Sound(u, K), NEW rows,
         RowsOf(t.docs) = rows, RowsOf(u.docs) = rows, NEW q, Fine(q, K),
         Cardinality(Matching(t, q)) <= 1 \/ (ById(t.indices, q) /\ ById(u.indices, q)),
         NEW patch, Brought(patch, K), NEW text, text = AsText(patch),
         NEW v, v = TableUpdate(t, q, patch), NEW w, w = TableUpdate(u, q, text)
  PROVE  RowsOf(v.docs) = RowsOf(w.docs)
<1>1. FirstMatchIn(t, q) = {} <=> FirstMatchIn(u, q) = {}
  BY NoFirstRow
<1>2. CASE FirstMatchIn(t, q) = {}
  <2>1. v = t /\ w = u
    BY <1>1, <1>2 DEF TableUpdate
  <2>2. QED
    BY <2>1
<1>3. CASE FirstMatchIn(t, q) # {}
  <2>1. PICK x : x = t.docs[First(t, q)]
    OBVIOUS
  <2>2. PICK y : y = u.docs[First(u, q)]
    OBVIOUS
  <2>3. AsText(x) = AsText(y)
    BY <1>1, <1>3, <2>1, <2>2, FirstAlike
  <2>4. Brought(text, K)
    BY AsTextIsBrought
  <2>5. \A z \in DOMAIN patch : PlainValue(patch[z])
    BY DEF Brought, PlainMembers
  <2>6. AsText(Merged(y, text)) = AsText(Merged(x, patch))
    BY <2>3, <2>5, MergedAsText
  <2>7. RowsOf(v.docs) = (rows \ {AsText(x)}) \cup {AsText(Merged(x, patch))}
    BY <1>3, <2>1, RowsUpdated
  <2>8. RowsOf(w.docs) = (rows \ {AsText(y)}) \cup {AsText(Merged(y, text))}
    BY <1>1, <1>3, <2>2, <2>4, RowsUpdated
  <2>9. QED
    BY <2>3, <2>6, <2>7, <2>8
<1>4. QED
  BY <1>2, <1>3
-----------------------------------------------------------------------------
\* The rows up to x.
UpTo(rows, x) == {y \in rows : IdOf(y) <= IdOf(x)}

\* What content has of a collection: the rows by their nodes.
LEMMA ViewIs ==
  ASSUME NEW t, NEW K, Sound(t, K)
  PROVE  /\ DOMAIN View(t) = 1 .. Len(t.nodes) /\ Len(t.nodes) \in Nat
         /\ View(t) = [p \in 1 .. Len(t.nodes) |-> View(t)[p]]
         /\ \A p \in 1 .. Len(t.nodes) : /\ View(t)[p] = AsText(t.docs[t.nodes[p]])
                                         /\ View(t)[p] \in RowsOf(t.docs)
                                         /\ IdOf(View(t)[p]) = IdOf(t.docs[t.nodes[p]])
                                         /\ IdOf(View(t)[p]) \in Nat
<1>1. DOMAIN t.nodes = 1 .. Len(t.nodes) /\ Len(t.nodes) \in Nat
  BY DEF Sound, Listed
<1>2. View(t) = [p \in 1 .. Len(t.nodes) |-> AsText(t.docs[t.nodes[p]])]
  BY <1>1 DEF View
<1>3. ASSUME NEW p \in 1 .. Len(t.nodes)
      PROVE  /\ View(t)[p] = AsText(t.docs[t.nodes[p]])
             /\ View(t)[p] \in RowsOf(t.docs)
             /\ IdOf(View(t)[p]) = IdOf(t.docs[t.nodes[p]])
             /\ IdOf(View(t)[p]) \in Nat
  <2>1. t.nodes[p] \in DOMAIN t.docs
    BY NodeIs DEF Sound
  <2>2. View(t)[p] = AsText(t.docs[t.nodes[p]])
    BY <1>2
  <2>3. IdOf(t.docs[t.nodes[p]]) \in Nat /\ IdOf(AsText(t.docs[t.nodes[p]])) = IdOf(t.docs[t.nodes[p]])
    BY <2>1, PlainIds DEF Sound
  <2>4. QED
    BY <2>1, <2>2, <2>3 DEF RowsOf
<1>4. QED
  BY <1>1, <1>2, <1>3

\* Every row has a place,
LEMMA RowPlace ==
  ASSUME NEW t, NEW K, Sound(t, K), NEW x \in RowsOf(t.docs)
  PROVE  \E p \in 1 .. Len(t.nodes) : View(t)[p] = x
<1>1. PICK r \in DOMAIN t.docs : x = AsText(t.docs[r])
  BY DEF RowsOf
<1>2. PICK p \in 1 .. Len(t.nodes) : t.nodes[p] = r
  BY NodeOf DEF Sound
<1>3. View(t)[p] = AsText(t.docs[t.nodes[p]])
  BY ViewIs
<1>4. QED
  BY <1>1, <1>2, <1>3

\* in the order of "_id"s,
LEMMA ViewInOrder ==
  ASSUME NEW t, NEW K, Sound(t, K), NEW a \in 1 .. Len(t.nodes), NEW b \in 1 .. Len(t.nodes), a < b
  PROVE  IdOf(View(t)[a]) < IdOf(View(t)[b])
<1>1. IdOf(t.docs[t.nodes[a]]) < IdOf(t.docs[t.nodes[b]])
  BY DEF Sound, InOrder
<1>2. QED
  BY <1>1, ViewIs

\* which is the number of the rows up to it.
LEMMA PlaceOfRow ==
  ASSUME NEW t, NEW K, Sound(t, K), NEW p \in 1 .. Len(t.nodes), NEW x, x = View(t)[p]
  PROVE  Cardinality(UpTo(RowsOf(t.docs), x)) = p
<1>1. PICK v : v = View(t)
  OBVIOUS
<1>2. PICK n \in Nat : n = Len(t.nodes)
  BY ViewIs
<1>3. PICK S : S = UpTo(RowsOf(t.docs), x)
  OBVIOUS
<1> DEFINE f == [i \in 1 .. p |-> v[i]]
<1>4. p \in 1 .. n /\ x = v[p]
  BY <1>1, <1>2
<1>5. \A i \in 1 .. n : v[i] \in RowsOf(t.docs) /\ IdOf(v[i]) \in Nat
  BY <1>1, <1>2, ViewIs
<1>6. \A a, b \in 1 .. n : a < b => IdOf(v[a]) < IdOf(v[b])
  BY <1>1, <1>2, ViewInOrder
<1>7. \A y \in RowsOf(t.docs) : \E a \in 1 .. n : v[a] = y
  BY <1>1, <1>2, RowPlace
<1>8. \A i \in 1 .. p : v[i] \in S
  <2> TAKE i \in 1 .. p
  <2>1. i \in 1 .. n /\ (i = p \/ i < p)
    BY <1>4
  <2>2. IdOf(v[i]) <= IdOf(x)
    BY <1>4, <1>5, <1>6, <2>1
  <2>3. QED
    BY <1>3, <1>5, <2>1, <2>2 DEF UpTo
<1>9. \A i, j \in 1 .. p : v[i] = v[j] => i = j
  <2> TAKE i \in 1 .. p, j \in 1 .. p
  <2>1. i \in 1 .. n /\ j \in 1 .. n /\ (i = j \/ i < j \/ j < i)
    BY <1>4
  <2>2. v[i] = v[j] => ~(i < j) /\ ~(j < i)
    BY <1>5, <1>6, <2>1
  <2>3. QED
    BY <2>1, <2>2
<1>10. \A y \in S : \E i \in 1 .. p : v[i] = y
  <2> TAKE y \in S
  <2>1. y \in RowsOf(t.docs) /\ IdOf(y) <= IdOf(x)
    BY <1>3 DEF UpTo
  <2>2. PICK a \in 1 .. n : v[a] = y
    BY <1>7, <2>1
  <2>3. ~(p < a)
    <3>1. p < a => IdOf(x) < IdOf(y)
      BY <1>4, <1>6, <2>2
    <3>2. IdOf(x) \in Nat /\ IdOf(y) \in Nat
      BY <1>4, <1>5, <2>2
    <3>3. QED
      BY <2>1, <3>1, <3>2
  <2>4. a \in 1 .. p
    BY <1>4, <2>2, <2>3
  <2>5. QED
    BY <2>2, <2>4
<1>11. f \in Bijection(1 .. p, S)
  <2>1. f \in [1 .. p -> S]
    BY <1>8
  <2>2. \A i, j \in 1 .. p : f[i] = f[j] => i = j
    BY <1>9
  <2>3. \A y \in S : \E i \in 1 .. p : f[i] = y
    BY <1>10
  <2> HIDE DEF f
  <2>4. QED
    BY <2>1, <2>2, <2>3 DEF Bijection, Injection, Surjection, IsInjective
<1>12. ExistsBijection(1 .. p, S)
  BY <1>11 DEF ExistsBijection
<1>13. IsFiniteSet(1 .. p) /\ Cardinality(1 .. p) = p
  <2>1. p \in Int /\ 1 \in Int /\ p >= 1
    BY <1>4
  <2>2. QED
    BY <2>1, FS_Interval
<1>14. QED
  BY <1>3, <1>12, <1>13, FS_Bijection

\* So collections with the same rows have them in the same order.
LEMMA ViewsAlike ==
  ASSUME NEW K, NEW t, Sound(t, K), NEW u, Sound(u, K), RowsOf(t.docs) = RowsOf(u.docs)
  PROVE  View(t) = View(u)
<1>1. ASSUME NEW a, NEW b, Sound(a, K), Sound(b, K), RowsOf(a.docs) = RowsOf(b.docs),
             NEW p \in 1 .. Len(a.nodes)
      PROVE  p \in 1 .. Len(b.nodes) /\ View(b)[p] = View(a)[p]
  <2>1. PICK x : x = View(a)[p]
    OBVIOUS
  <2>2. x \in RowsOf(b.docs)
    BY <1>1, <2>1, ViewIs
  <2>3. PICK q \in 1 .. Len(b.nodes) : View(b)[q] = x
    BY <1>1, <2>2, RowPlace
  <2>4. Cardinality(UpTo(RowsOf(a.docs), x)) = p
    BY <1>1, <2>1, PlaceOfRow
  <2>5. Cardinality(UpTo(RowsOf(b.docs), x)) = q
    BY <1>1, <2>3, PlaceOfRow
  <2>6. p = q
    BY <1>1, <2>4, <2>5
  <2>7. QED
    BY <2>1, <2>3, <2>6
<1>2. PICK m \in Nat : m = Len(t.nodes)
  BY ViewIs
<1>3. PICK n \in Nat : n = Len(u.nodes)
  BY ViewIs
<1>4. \A p \in 1 .. m : p \in 1 .. n /\ View(u)[p] = View(t)[p]
  BY <1>1, <1>2, <1>3
<1>5. \A p \in 1 .. n : p \in 1 .. m
  BY <1>1, <1>2, <1>3
<1>6. 1 .. m = 1 .. n
  BY <1>4, <1>5
<1>7. View(t) = [p \in 1 .. m |-> View(t)[p]] /\ View(u) = [p \in 1 .. n |-> View(u)[p]]
  BY <1>2, <1>3, ViewIs
<1>8. QED
  BY <1>4, <1>6, <1>7

\* The list is empty just if there are no rows.
LEMMA NoRows ==
  ASSUME NEW t, NEW K, Sound(t, K)
  PROVE  t.nodes = <<>> <=> RowsOf(t.docs) = {}
<1>1. t.nodes \in Seq(Nat) /\ DOMAIN t.nodes = 1 .. Len(t.nodes) /\ Len(t.nodes) \in Nat
  BY DEF Sound, Listed
<1>2. t.nodes = <<>> => RowsOf(t.docs) = {}
  <2>1. t.nodes = <<>> => 1 .. Len(t.nodes) = {}
    BY <1>1
  <2>2. QED
    BY <2>1, RowPlace
<1>3. t.nodes # <<>> => 1 \in 1 .. Len(t.nodes)
  BY <1>1
<1>4. 1 \in 1 .. Len(t.nodes) => RowsOf(t.docs) # {}
  BY ViewIs
<1>5. QED
  BY <1>2, <1>3, <1>4
-----------------------------------------------------------------------------
(***************************************************************************)
(* Databases whose collections are sound, and what tells two of them apart.*)
(***************************************************************************)
ClientKinds == CHOOSE kinds \in [IndexFields \cup {Id} -> {"number", "string", "other"}] : KindsAgree(kinds)

\* The kinds of value in key-value pairs.
PairKinds == [f \in {Id, "k"} |-> IF f = Id THEN "number" ELSE "string"]

\* The kinds of value in the fields of a collection that can have an index.
KindsOf(m) == IF m = Kv THEN PairKinds ELSE ClientKinds

\* The documents of the collection m, as text has them.
RowsIn(d, m) == RowsOf(TableOf(d, m).docs)

\* No key has two pairs.
Keyed(rows) == \A key \in Keys : \A x, y \in RowsMatch(rows, KeyQuery(key)) : x = y

GoodDb(d) ==
  /\ IsDirectory(d)
  /\ \A m \in AllNames : Sound(TableOf(d, m), KindsOf(m))
  /\ Keyed(RowsIn(d, Kv))

\* As replay has it: no index but those on "_id" and of the key-value pairs.
BareDb(d) == \A c \in Collections : Len(TableOf(d, c).indices) = 1

\* The same rows in every collection.
Alike(d, e) == \A m \in AllNames : RowsIn(d, m) = RowsIn(e, m)

\* There are kinds of value that clients keep to.
LEMMA ClientKindsAgree ==
  /\ ClientKinds \in [IndexFields \cup {Id} -> {"number", "string", "other"}]
  /\ KindsAgree(ClientKinds)
<1>1. \E kinds \in [IndexFields \cup {Id} -> {"number", "string", "other"}] : KindsAgree(kinds)
  BY DatabaseAssumption
<1>2. QED
  BY <1>1 DEF ClientKinds

\* An "_id" is a number in every collection.
LEMMA KindsAre ==
  ASSUME NEW m
  PROVE  /\ Id \in DOMAIN KindsOf(m)
         /\ KindsOf(m)[Id] = "number"
<1>1. CASE m = Kv
  BY <1>1 DEF KindsOf, PairKinds
<1>2. CASE m # Kv
  <2>1. KindsOf(m) = ClientKinds
    BY <1>2 DEF KindsOf
  <2>2. QED
    BY <2>1, ClientKindsAgree DEF KindsAgree
<1>3. QED
  BY <1>1, <1>2

\* The fields of the collections of clients.
LEMMA FieldsOfClients ==
  ASSUME NEW c \in Collections
  PROVE  c # Kv /\ KindsOf(c) = ClientKinds /\ DOMAIN KindsOf(c) = IndexFields \cup {Id}
         /\ IndexFields \subseteq Names
<1>1. c # Kv /\ IndexFields \subseteq Names
  BY DatabaseAssumption
<1>2. QED
  BY <1>1, ClientKindsAgree DEF KindsOf

\* What clients append and merge is what they may bring.
LEMMA InputsAreBrought ==
  ASSUME NEW c \in Collections, NEW d \in (Inputs \ {NotAnObject}) \cup Patches
  PROVE  Brought(d, KindsOf(c))
<1>1. IsDocument(d) /\ PlainMembers(d)
  BY DocumentsAssumption, DatabaseAssumption
<1>2. \A f \in IndexFields \cap DOMAIN d : Kind(d[f]) = ClientKinds[f]
  BY ClientKindsAgree DEF KindsAgree
<1>3. Id \notin DOMAIN d
  BY <1>1 DEF PlainMembers
<1>4. DOMAIN KindsOf(c) = IndexFields \cup {Id} /\ KindsOf(c) = ClientKinds
  BY FieldsOfClients
<1>5. \A f \in DOMAIN KindsOf(c) : f \in DOMAIN d => Kind(d[f]) = KindsOf(c)[f]
  BY <1>2, <1>3, <1>4
<1>6. QED
  BY <1>1, <1>5 DEF Brought

\* Their queries have their bounds in order.
LEMMA QueriesAreFine ==
  ASSUME NEW c \in Collections, NEW q \in Queries
  PROVE  Fine(q, KindsOf(c))
<1>1. q \in QueryRecords
  BY DocumentsAssumption
<1>2. q.field \in DOMAIN ClientKinds => BoundsInOrder(q, ClientKinds[q.field])
  BY ClientKindsAgree DEF KindsAgree
<1>3. QED
  BY <1>1, <1>2, FieldsOfClients DEF Fine

\* A key is a string.
LEMMA KeyIsString ==
  ASSUME NEW key \in Keys
  PROVE  key \in Values /\ key.type = "string" /\ key.n \in Int /\ Kind(key) = "string" /\ PlainValue(key)
BY DatabaseAssumption DEF PlainValue, Values, Kind, IsNumeric, IsString, NumericTypes

\* The query for a key has its bounds in order.
LEMMA KeyQueryIsFine ==
  ASSUME NEW key \in Keys
  PROVE  Fine(KeyQuery(key), KindsOf(Kv)) /\ KeyQuery(key).op = "eq" /\ KeyQuery(key).field = "k"
         /\ KeyQuery(key).v = key
<1>1. PICK q : q = KeyQuery(key)
  OBVIOUS
<1>2. q = [op |-> "eq", field |-> "k", v |-> key, hi |-> key]
  BY <1>1 DEF KeyQuery
<1>3. key \in Values /\ "k" \in Names
  BY KeyIsString, DatabaseAssumption DEF Names
<1>4. q.op = "eq" /\ q.field = "k" /\ q.v = key /\ q.hi = key
  BY <1>2
<1>5. q \in QueryRecords
  BY <1>2, <1>3 DEF QueryRecords, QueryOps
<1>6. QED
  BY <1>1, <1>4, <1>5 DEF Fine, BoundsInOrder, BoundsOfKind

\* A key-value pair is a document that can be brought.
LEMMA PairIsBrought ==
  ASSUME NEW key \in Keys, NEW value \in KeyValues
  PROVE  Brought(Pair(key, value), KindsOf(Kv)) /\ Accepted(Pair(key, value))
<1>1. PICK d : d = Pair(key, value)
  OBVIOUS
<1>2. DOMAIN d = {"k", "v"} /\ d["k"] = key /\ d["v"] = value /\ d = [x \in {"k", "v"} |-> d[x]]
  BY <1>1 DEF Pair
<1>3. /\ {"k", "v"} \subseteq Fields /\ Id \notin Fields /\ PlainValue(value) /\ PlainValue(key)
      /\ Kind(key) = "string"
  BY DatabaseAssumption, DocumentsAssumption, KeyIsString
<1>4. DOMAIN d \subseteq Names /\ Id \notin DOMAIN d /\ \A x \in DOMAIN d : PlainValue(d[x]) /\ d[x] \in Values
  BY <1>2, <1>3 DEF Names, PlainValue
<1>5. d \in [DOMAIN d -> Values]
  BY <1>2, <1>4
<1>6. KindsOf(Kv) = PairKinds /\ DOMAIN PairKinds = {Id, "k"} /\ PairKinds["k"] = "string"
  BY DEF KindsOf, PairKinds, Id
<1>7. Brought(d, KindsOf(Kv))
  BY <1>2, <1>3, <1>4, <1>5, <1>6 DEF Brought, IsDocument, PlainMembers
<1>8. d # NotAnObject
  BY <1>4, <1>5, DatabaseAssumption
<1>9. QED
  BY <1>1, <1>4, <1>7, <1>8 DEF Accepted

\* A document has a key if its member "k" is that string.
LEMMA HasKey ==
  ASSUME NEW key \in Keys, NEW x
  PROVE  Satisfies(x, KeyQuery(key)) <=> /\ "k" \in DOMAIN x /\ x["k"].type = "string"
                                         /\ x["k"].n = key.n
<1>1. PICK q : q = KeyQuery(key)
  OBVIOUS
<1>2. q.op = "eq" /\ q.field = "k" /\ q.v = key
  BY <1>1, KeyQueryIsFine
<1>3. Satisfies(x, q) <=> Eq(Member(x, "k"), key)
  BY <1>2 DEF Satisfies
<1>4. key.type = "string"
  BY KeyIsString
<1>5. ASSUME NEW v
      PROVE  Eq(v, key) <=> v.type = "string" /\ v.n = key.n
  BY <1>4 DEF Eq, Comparable, Rank, IsString, IsNumeric, NumericTypes
<1>6. Invalid.type # "string"
  BY DEF Invalid
<1>7. QED
  BY <1>1, <1>3, <1>5, <1>6 DEF Member
-----------------------------------------------------------------------------
\* The collections of a good database are sound.
LEMMA GoodTable ==
  ASSUME NEW d, GoodDb(d), NEW m \in AllNames
  PROVE  Sound(TableOf(d, m), KindsOf(m)) /\ IsDirectory(d)
BY DEF GoodDb

\* A new collection is sound and has no rows.
LEMMA NewIsSound ==
  ASSUME NEW m
  PROVE  /\ Sound(NewTable(<<>>), KindsOf(m))
         /\ RowsOf(NewTable(<<>>).docs) = {}
         /\ Len(NewTable(<<>>).indices) = 1
<1>1. PICK t : t = NewTable(<<>>)
  OBVIOUS
<1>2. PICK fields : fields = <<>>
  OBVIOUS
<1>3. fields \in Seq(DOMAIN KindsOf(m) \cap Names) /\ Len(fields) = 0
  BY <1>2
<1>4. t = NewTable(fields)
  BY <1>1, <1>2
<1>5. Sound(t, KindsOf(m)) /\ RowsOf(t.docs) = {} /\ Len(t.indices) = Len(fields) + 1
  BY <1>3, <1>4, KindsAre, SoundNew
<1>6. QED
  BY <1>1, <1>3, <1>5

\* A good database in which a collection has changed.
LEMMA GoodPut ==
  ASSUME NEW d, GoodDb(d), NEW m \in AllNames, NEW t, Sound(t, KindsOf(m)),
         NEW rows, rows = RowsOf(t.docs), m = Kv => Keyed(rows), NEW e, e = WithTable(d, m, t)
  PROVE  /\ GoodDb(e)
         /\ \A x : RowsIn(e, x) = IF x = m THEN rows ELSE RowsIn(d, x)
<1>1. /\ IsDirectory(e)
      /\ \A x : TableOf(e, x) = IF x = m THEN t ELSE TableOf(d, x)
  BY Put DEF GoodDb
<1>2. \A x : RowsIn(e, x) = IF x = m THEN rows ELSE RowsIn(d, x)
  BY <1>1 DEF RowsIn
<1>3. \A x \in AllNames : Sound(TableOf(e, x), KindsOf(x))
  BY <1>1 DEF GoodDb
<1>4. Keyed(RowsIn(e, Kv))
  BY <1>2 DEF GoodDb
<1>5. QED
  BY <1>1, <1>2, <1>3, <1>4 DEF GoodDb

\* No index has come to it.
LEMMA BarePut ==
  ASSUME NEW d, GoodDb(d), BareDb(d), NEW m \in AllNames, NEW t, SameFields(t.indices, TableOf(d, m).indices)
  PROVE  BareDb(WithTable(d, m, t))
<1>1. PICK e : e = WithTable(d, m, t)
  OBVIOUS
<1>2. \A x : TableOf(e, x) = IF x = m THEN t ELSE TableOf(d, x)
  BY <1>1, Put DEF GoodDb
<1>3. BareDb(e)
  BY <1>2 DEF BareDb, SameFields
<1>4. QED
  BY <1>1, <1>3

\* A good database without a collection.
LEMMA GoodDropped ==
  ASSUME NEW d, GoodDb(d), NEW c \in Collections, NEW e, e = DropCollectionFrom(d, c)
  PROVE  /\ GoodDb(e)
         /\ \A x : RowsIn(e, x) = IF x = c THEN {} ELSE RowsIn(d, x)
         /\ BareDb(d) => BareDb(e)
<1>0. c # Kv /\ c \in AllNames
  BY FieldsOfClients DEF AllNames
<1>1. PICK t : t = NewTable(<<>>)
  OBVIOUS
<1>2. /\ IsDirectory(e)
      /\ \A x : TableOf(e, x) = IF x = c THEN t ELSE TableOf(d, x)
  BY <1>0, <1>1, Dropped DEF GoodDb
<1>3. RowsOf(t.docs) = {} /\ Len(t.indices) = 1 /\ \A m : Sound(t, KindsOf(m))
  BY <1>1, NewIsSound
<1>4. \A x : RowsIn(e, x) = IF x = c THEN {} ELSE RowsIn(d, x)
  BY <1>2, <1>3 DEF RowsIn
<1>5. \A x \in AllNames : Sound(TableOf(e, x), KindsOf(x))
  BY <1>2, <1>3 DEF GoodDb
<1>6. Keyed(RowsIn(e, Kv))
  BY <1>0, <1>4 DEF GoodDb
<1>7. BareDb(d) => BareDb(e)
  BY <1>2, <1>3 DEF BareDb
<1>8. QED
  BY <1>2, <1>4, <1>5, <1>6, <1>7 DEF GoodDb

\* A collection that is not there has no rows.
LEMMA NoneThere ==
  ASSUME NEW d, GoodDb(d), NEW m, ~HasCollection(d, m)
  PROVE  RowsIn(d, m) = {}
BY NoneInDirectory, NewIsSound DEF GoodDb, RowsIn

\* Without rows no key has two pairs.
LEMMA NoRowsKeyed == Keyed({})
BY DEF Keyed, RowsMatch

\* A process begins with a good database.
LEMMA GoodEmpty ==
  /\ GoodDb(EmptyDatabase) /\ BareDb(EmptyDatabase)
  /\ \A m \in AllNames : RowsIn(EmptyDatabase, m) = {}
<1>1. PICK d : d = EmptyDatabase
  OBVIOUS
<1>2. PICK t : t = NewTable(<<"k">>)
  OBVIOUS
<1>3. IsDirectory(d)
  BY <1>1, NeatEmpty DEF NeatDb
<1>4. d = <<[name |-> Kv, table |-> t]>>
  BY <1>1, <1>2 DEF EmptyDatabase
<1>5. Len(d) = 1 /\ d[1].name = Kv /\ d[1].table = t
  BY <1>4
<1>6. Sound(t, KindsOf(Kv)) /\ RowsOf(t.docs) = {}
  <2>1. PICK fields : fields = <<"k">>
    OBVIOUS
  <2>2. "k" \in Names /\ "k" \in DOMAIN KindsOf(Kv)
    BY DatabaseAssumption DEF Names, KindsOf, PairKinds
  <2>3. fields \in Seq(DOMAIN KindsOf(Kv) \cap Names)
    BY <2>1, <2>2
  <2>4. t = NewTable(fields)
    BY <1>2, <2>1
  <2>5. QED
    BY <2>3, <2>4, KindsAre, SoundNew
<1>7. TableOf(d, Kv) = t
  BY <1>3, <1>5, TableAt
<1>8. ASSUME NEW c \in Collections
      PROVE  TableOf(d, c) = NewTable(<<>>)
  <2>1. ~HasCollection(d, c)
    BY <1>3, <1>5, HasIsThere, FieldsOfClients
  <2>2. QED
    BY <1>3, <2>1, NoneInDirectory
<1>9. ASSUME NEW m \in AllNames
      PROVE  Sound(TableOf(d, m), KindsOf(m)) /\ RowsIn(d, m) = {}
  <2>1. CASE m = Kv
    BY <2>1, <1>6, <1>7 DEF RowsIn
  <2>2. CASE m \in Collections
    BY <2>2, <1>8, NewIsSound DEF RowsIn
  <2>3. QED
    BY <2>1, <2>2 DEF AllNames
<1>10. BareDb(d)
  BY <1>8, NewIsSound DEF BareDb
<1>11. Keyed(RowsIn(d, Kv))
  BY <1>9, NoRowsKeyed DEF AllNames
<1>12. QED
  BY <1>1, <1>3, <1>9, <1>10, <1>11 DEF GoodDb

\* The collections that have any documents.
Peopled(d) == {m \in AllNames : RowsIn(d, m) # {}}

\* The content of a good database: the rows of its collections, in order.
LEMMA ContentIs ==
  ASSUME NEW d, GoodDb(d)
  PROVE  Content(d) = [m \in Peopled(d) |-> View(TableOf(d, m))]
<1>1. IsDirectory(d) /\ DOMAIN d = 1 .. Len(d) /\ \A i \in 1 .. Len(d) : d[i].name \in AllNames
  BY DirectoryElements DEF GoodDb
<1>2. PICK filled : filled = {i \in DOMAIN d : d[i].table.nodes # <<>>}
  OBVIOUS
<1>3. ASSUME NEW i \in filled
      PROVE  d[i].name \in Peopled(d)
  <2>1. i \in 1 .. Len(d) /\ d[i].table.nodes # <<>> /\ d[i].name \in AllNames
    BY <1>1, <1>2
  <2>2. TableOf(d, d[i].name) = d[i].table
    BY <1>1, <2>1, TableAt
  <2>3. RowsIn(d, d[i].name) # {}
    BY <2>1, <2>2, NoRows, GoodTable DEF RowsIn
  <2>4. QED
    BY <2>1, <2>3 DEF Peopled
<1>4. ASSUME NEW m \in Peopled(d)
      PROVE  \E i \in filled : d[i].name = m
  <2>1. m \in AllNames /\ RowsIn(d, m) # {}
    BY DEF Peopled
  <2>2. HasCollection(d, m)
    BY <2>1, NoneThere
  <2>3. PICK i \in 1 .. Len(d) : d[i].name = m
    BY <1>1, <2>2, HasIsThere
  <2>4. TableOf(d, m) = d[i].table
    BY <1>1, <2>3, TableAt
  <2>5. d[i].table.nodes # <<>>
    BY <2>1, <2>4, NoRows, GoodTable DEF RowsIn
  <2>6. QED
    BY <1>1, <1>2, <2>3, <2>5
<1>5. {d[i].name : i \in filled} = Peopled(d)
  BY <1>3, <1>4
<1>6. Content(d) = [m \in {d[i].name : i \in filled} |-> View(TableOf(d, m))]
  BY <1>2 DEF Content, View
<1>7. QED
  BY <1>5, <1>6

\* Databases with the same rows have the same content.
LEMMA ContentAlike ==
  ASSUME NEW d, GoodDb(d), NEW e, GoodDb(e), Alike(d, e)
  PROVE  Content(d) = Content(e)
<1>1. Peopled(d) = Peopled(e)
  BY DEF Peopled, Alike
<1>2. \A m \in Peopled(d) : View(TableOf(d, m)) = View(TableOf(e, m))
  <2> TAKE m \in Peopled(d)
  <2>1. m \in AllNames
    BY DEF Peopled
  <2>2. Sound(TableOf(d, m), KindsOf(m)) /\ Sound(TableOf(e, m), KindsOf(m))
    BY <2>1, GoodTable
  <2>3. RowsOf(TableOf(d, m).docs) = RowsOf(TableOf(e, m).docs)
    BY <2>1 DEF Alike, RowsIn
  <2>4. QED
    BY <2>2, <2>3, ViewsAlike
<1>3. Content(d) = [m \in Peopled(d) |-> View(TableOf(d, m))] /\ Content(e) = [m \in Peopled(e) |-> View(TableOf(e, m))]
  BY ContentIs
<1>4. QED
  BY <1>1, <1>2, <1>3
-----------------------------------------------------------------------------
(***************************************************************************)
(* The changes calls are made of keep a database good.                     *)
(***************************************************************************)
\* A change that can be made on database d.
AptAppend(d, name, x) ==
  /\ Accepted(x) => Brought(x, KindsOf(name))
  /\ TableOf(d, name).id < MaxId
  /\ name = Kv => \E key \in Keys, value \in KeyValues :
                    x = Pair(key, value) /\ RowsMatch(RowsIn(d, Kv), KeyQuery(key)) = {}

\* A drop of documents, of pairs by their key and without a limit.
AptDrop(name, q, limit) ==
  /\ Fine(q, KindsOf(name))
  /\ limit \in Nat
  /\ name = Kv => limit >= 1 /\ \E key \in Keys : q = KeyQuery(key)

Apt(d, c) ==
  /\ c.cmd \in Commands /\ c.on \in AllNames
  /\ c.cmd = "append" => AptAppend(d, c.on, c.document)
  /\ c.cmd = "update" => c.on # Kv /\ Fine(c.query, KindsOf(c.on)) /\ Brought(c.document, KindsOf(c.on))
  /\ c.cmd = "drop" => AptDrop(c.on, c.query, c.limit)
  /\ c.cmd = "dropCollection" => c.on \in Collections

\* Indices that have not changed.
LEMMA NoChange ==
  ASSUME NEW a
  PROVE  SameFields(a, a)
BY DEF SameFields

\* append of an accepted document, of which only the "_id" is the collection's,
LEMMA AppendIsSound ==
  ASSUME NEW t, NEW K, Sound(t, K), K[Id] = "number", NEW d, Accepted(d), Brought(d, K), t.id < MaxId,
         NEW u, u = TableAppend(t, d)
  PROVE  /\ Sound(u, K)
         /\ SameFields(u.indices, t.indices)
         /\ RowsOf(u.docs) = RowsOf(t.docs) \cup {AsText(Numbered(d, t.id))}
<1>1. PICK stored : stored = Numbered(d, t.id)
  OBVIOUS
<1>2. t.id \in Nat
  BY DEF Sound
<1>3. PlainDoc(stored, K) /\ IdOf(stored) = t.id
  BY <1>1, <1>2, NumberedIsPlain
<1>4. IdOf(stored) < MaxId /\ \A r \in DOMAIN t.docs : IdOf(t.docs[r]) < IdOf(stored)
  BY <1>3 DEF Sound
<1>5. Sound(u, K) /\ RowsOf(u.docs) = RowsOf(t.docs) \cup {AsText(stored)} /\ SameFields(u.indices, t.indices)
  BY <1>1, <1>3, <1>4, SoundAppend
<1>6. QED
  BY <1>1, <1>5

\* and update, whether it finds a document or not, keep a collection sound.
LEMMA UpdateIsSound ==
  ASSUME NEW t, NEW K, Sound(t, K), NEW q, NEW patch, Brought(patch, K),
         NEW u, u = TableUpdate(t, q, patch)
  PROVE  Sound(u, K) /\ SameFields(u.indices, t.indices)
<1>1. CASE FirstMatchIn(t, q) = {}
  <2>1. u = t
    BY <1>1 DEF TableUpdate
  <2>2. QED
    BY <2>1, NoChange
<1>2. CASE FirstMatchIn(t, q) # {}
  <2>1. PICK r : r = First(t, q)
    OBVIOUS
  <2>2. PICK d : d = Merged(t.docs[r], patch)
    OBVIOUS
  <2>3. QED
    BY <1>2, <2>1, <2>2, SoundUpdate
<1>3. QED
  BY <1>1, <1>2

\* A stored pair satisfies the query for its own key only.
LEMMA KeyOfPair ==
  ASSUME NEW key \in Keys, NEW value \in KeyValues, NEW n, NEW x, x = AsText(Numbered(Pair(key, value), n))
  PROVE  \A other \in Keys : Satisfies(x, KeyQuery(other)) <=> other.n = key.n
<1>1. PICK d : d = Numbered(Pair(key, value), n)
  OBVIOUS
<1>2. Id # "k" /\ key.type = "string"
  BY KeyIsString, DatabaseAssumption, DocumentsAssumption
<1>3. "k" \in DOMAIN d /\ d["k"] = key
  BY <1>1, <1>2 DEF Numbered, With, Pair
<1>4. "k" \in DOMAIN x /\ x["k"] = ValueAsText(key)
  BY <1>1, <1>3, AsTextOf
<1>5. ValueAsText(key) = key
  BY <1>2 DEF ValueAsText
<1>6. QED
  BY <1>2, <1>4, <1>5, HasKey

\* With a pair for a key that had none no key has two pairs.
LEMMA KeyedWith ==
  ASSUME NEW rows, Keyed(rows), NEW key \in Keys, NEW value \in KeyValues,
         RowsMatch(rows, KeyQuery(key)) = {}, NEW n, NEW x, x = AsText(Numbered(Pair(key, value), n))
  PROVE  Keyed(rows \cup {x})
<1>1. SUFFICES ASSUME NEW other \in Keys, NEW a \in rows \cup {x}, NEW b \in rows \cup {x},
                      Satisfies(a, KeyQuery(other)), Satisfies(b, KeyQuery(other))
               PROVE  a = b
  BY DEF Keyed, RowsMatch
<1>2. ASSUME NEW y \in rows, Satisfies(y, KeyQuery(other))
      PROVE  ~Satisfies(x, KeyQuery(other))
  <2>1. ~Satisfies(y, KeyQuery(key))
    BY <1>2 DEF RowsMatch
  <2>2. other.n # key.n
    BY <1>2, <2>1, HasKey
  <2>3. QED
    BY <2>2, KeyOfPair
<1>3. CASE a \in rows /\ b \in rows
  BY <1>1, <1>3 DEF Keyed, RowsMatch
<1>4. CASE a = x \/ b = x
  BY <1>1, <1>2, <1>4
<1>5. QED
  BY <1>3, <1>4

\* Without some pairs neither.
LEMMA KeyedSubset ==
  ASSUME NEW rows, Keyed(rows), NEW rest \in SUBSET rows
  PROVE  Keyed(rest)
BY DEF Keyed, RowsMatch

\* Of a key's pairs there is one at most.
LEMMA OnePair ==
  ASSUME NEW rows, Keyed(rows), NEW key \in Keys, IsFiniteSet(RowsMatch(rows, KeyQuery(key)))
  PROVE  Cardinality(RowsMatch(rows, KeyQuery(key))) \in {0, 1}
<1>1. PICK M : M = RowsMatch(rows, KeyQuery(key))
  OBVIOUS
<1>2. \A x, y \in M : x = y
  BY <1>1 DEF Keyed
<1>3. CASE M = {}
  BY <1>1, <1>3, FS_EmptySet
<1>4. CASE M # {}
  <2>1. PICK x : M = {x}
    BY <1>2, <1>4
  <2>2. Cardinality({x}) = 1
    BY FS_Singleton
  <2>3. QED
    BY <1>1, <2>1, <2>2
<1>5. QED
  BY <1>3, <1>4
-----------------------------------------------------------------------------
\* The collection that a change is made on, after it.
After(t, c) ==
  CASE c.cmd = "append" -> TableAppend(t, c.document)
    [] c.cmd = "update" -> TableUpdate(t, c.query, c.document)
    [] c.cmd = "drop" -> TableDrop(t, c.query, c.limit)
    [] c.cmd = "dropCollection" -> NewTable(<<>>)

\* An append that is apt keeps its collection good,
LEMMA AppendIsGood ==
  ASSUME NEW d, GoodDb(d), NEW m \in AllNames, NEW x, AptAppend(d, m, x),
         NEW t, t = TableOf(d, m), NEW u, u = TableAppend(t, x)
  PROVE  /\ Sound(u, KindsOf(m))
         /\ SameFields(u.indices, t.indices)
         /\ m = Kv => Keyed(RowsOf(u.docs))
<1>1. Sound(t, KindsOf(m)) /\ KindsOf(m)[Id] = "number"
  BY GoodTable, KindsAre
<1>2. CASE ~Accepted(x)
  <2>1. u = t
    BY <1>2 DEF TableAppend
  <2>2. m = Kv => Keyed(RowsOf(t.docs))
    BY DEF GoodDb, RowsIn
  <2>3. QED
    BY <1>1, <2>1, <2>2, NoChange
<1>3. CASE Accepted(x)
  <2>1. Brought(x, KindsOf(m)) /\ t.id < MaxId
    BY <1>3 DEF AptAppend
  <2>2. /\ Sound(u, KindsOf(m))
        /\ SameFields(u.indices, t.indices)
        /\ RowsOf(u.docs) = RowsOf(t.docs) \cup {AsText(Numbered(x, t.id))}
    BY <1>1, <1>3, <2>1, AppendIsSound
  <2>3. ASSUME m = Kv
        PROVE  Keyed(RowsOf(u.docs))
    <3>1. PICK key \in Keys, value \in KeyValues :
            x = Pair(key, value) /\ RowsMatch(RowsIn(d, Kv), KeyQuery(key)) = {}
      BY <2>3 DEF AptAppend
    <3>2. PICK rows : rows = RowsOf(t.docs)
      OBVIOUS
    <3>3. Keyed(rows) /\ RowsMatch(rows, KeyQuery(key)) = {}
      BY <2>3, <3>1, <3>2 DEF GoodDb, RowsIn
    <3>4. Keyed(rows \cup {AsText(Numbered(Pair(key, value), t.id))})
      BY <3>3, KeyedWith
    <3>5. QED
      BY <2>2, <3>1, <3>2, <3>4
  <2>4. QED
    BY <2>2, <2>3
<1>4. QED
  BY <1>2, <1>3

\* so does a drop, which leaves no pair that matches,
LEMMA DropIsGood ==
  ASSUME NEW d, GoodDb(d), NEW m \in AllNames, NEW q, NEW limit, AptDrop(m, q, limit),
         NEW t, t = TableOf(d, m), NEW u, u = TableDrop(t, q, limit)
  PROVE  /\ Sound(u, KindsOf(m))
         /\ SameFields(u.indices, t.indices)
         /\ u.id = t.id
         /\ m = Kv => Keyed(RowsOf(u.docs)) /\ RowsMatch(RowsOf(u.docs), q) = {}
<1>1. Sound(t, KindsOf(m)) /\ Fine(q, KindsOf(m)) /\ limit \in Nat
  BY GoodTable DEF AptDrop
<1>2. Sound(u, KindsOf(m)) /\ SameFields(u.indices, t.indices) /\ u.id = t.id /\ Leaves(t, u, q, limit)
  BY <1>1, DropLeaves
<1>3. PICK rows : rows = RowsOf(t.docs)
  OBVIOUS
<1>4. PICK M : M = RowsMatch(rows, q)
  OBVIOUS
<1>5. PICK G \in SUBSET M : RowsOf(u.docs) = rows \ G /\ Cardinality(G) = Taken(limit, Cardinality(M))
  BY <1>2, <1>3, <1>4 DEF Leaves
<1>6. ASSUME m = Kv
      PROVE  Keyed(RowsOf(u.docs)) /\ RowsMatch(RowsOf(u.docs), q) = {}
  <2>1. PICK key \in Keys : q = KeyQuery(key)
    BY <1>6 DEF AptDrop
  <2>2. Keyed(rows) /\ limit >= 1
    BY <1>3, <1>6 DEF GoodDb, RowsIn, AptDrop
  <2>3. IsFiniteSet(M)
    BY <1>1, <1>3, <1>4, RowsCounted DEF Fine
  <2>4. Cardinality(M) \in {0, 1}
    BY <1>4, <2>1, <2>2, <2>3, OnePair
  <2>5. Taken(limit, Cardinality(M)) = Cardinality(M)
    BY <1>1, <2>2, <2>4 DEF Taken
  <2>6. G = M
    BY <1>5, <2>3, <2>5, FS_Subset
  <2>7. RowsMatch(RowsOf(u.docs), q) = {}
    BY <1>4, <1>5, <2>6 DEF RowsMatch
  <2>8. Keyed(RowsOf(u.docs))
    BY <1>5, <2>2, KeyedSubset
  <2>9. QED
    BY <2>7, <2>8
<1>7. QED
  BY <1>2, <1>6

\* and so does every change.
LEMMA AfterIsGood ==
  ASSUME NEW d, GoodDb(d), NEW c, Apt(d, c), NEW t, t = TableOf(d, c.on), NEW u, u = After(t, c)
  PROVE  /\ Sound(u, KindsOf(c.on))
         /\ c.cmd # "dropCollection" => SameFields(u.indices, t.indices)
         /\ c.on = Kv => Keyed(RowsOf(u.docs))
         /\ c.cmd = "drop" => u.id = t.id
         /\ c.cmd = "drop" /\ c.on = Kv => RowsMatch(RowsOf(u.docs), c.query) = {}
<1>0. c.on \in AllNames /\ c.cmd \in Commands
  BY DEF Apt
<1>1. CASE c.cmd = "append"
  <2>1. u = TableAppend(t, c.document) /\ AptAppend(d, c.on, c.document)
    BY <1>1 DEF After, Apt
  <2>2. QED
    BY <1>0, <1>1, <2>1, AppendIsGood
<1>2. CASE c.cmd = "update"
  <2>1. u = TableUpdate(t, c.query, c.document)
    BY <1>2 DEF After
  <2>2. Sound(t, KindsOf(c.on))
    BY <1>0, GoodTable
  <2>3. c.on # Kv /\ Brought(c.document, KindsOf(c.on))
    BY <1>2 DEF Apt
  <2>4. Sound(u, KindsOf(c.on)) /\ SameFields(u.indices, t.indices)
    BY <2>1, <2>2, <2>3, UpdateIsSound
  <2>5. QED
    BY <1>2, <2>3, <2>4
<1>3. CASE c.cmd = "drop"
  <2>1. u = TableDrop(t, c.query, c.limit) /\ AptDrop(c.on, c.query, c.limit)
    BY <1>3 DEF After, Apt
  <2>2. PICK q : q = c.query
    OBVIOUS
  <2>3. PICK limit : limit = c.limit
    OBVIOUS
  <2>4. PICK m \in AllNames : m = c.on
    BY <1>0
  <2>5. AptDrop(m, q, limit) /\ t = TableOf(d, m) /\ u = TableDrop(t, q, limit)
    BY <2>1, <2>2, <2>3, <2>4
  <2>6. /\ Sound(u, KindsOf(m))
        /\ SameFields(u.indices, t.indices)
        /\ u.id = t.id
        /\ m = Kv => Keyed(RowsOf(u.docs)) /\ RowsMatch(RowsOf(u.docs), q) = {}
    BY <2>5, DropIsGood
  <2>7. QED
    BY <1>3, <2>2, <2>4, <2>6
<1>4. CASE c.cmd = "dropCollection"
  <2>1. u = NewTable(<<>>) /\ c.on # Kv
    BY <1>4, FieldsOfClients DEF After, Apt
  <2>2. QED
    BY <1>4, <2>1, NewIsSound
<1>5. QED
  BY <1>0, <1>1, <1>2, <1>3, <1>4 DEF Commands

\* What a change makes of the database.
LEMMA AppliedIs ==
  ASSUME NEW c, c.cmd \in Commands, NEW t, t = TableOf(db, c.on)
  PROVE  Applied(c) = IF c.cmd = "dropCollection" THEN DropCollectionFrom(db, c.on)
                      ELSE WithTable(db, c.on, After(t, c))
BY DEF Applied, After, Commands

\* An apt change keeps the database good, and changes the rows of its collection only.
LEMMA AppliedIsGood ==
  ASSUME GoodDb(db), NEW c, Apt(db, c), NEW e, e = Applied(c), NEW u, u = After(TableOf(db, c.on), c)
  PROVE  /\ GoodDb(e)
         /\ \A m : RowsIn(e, m) = IF m = c.on THEN RowsOf(u.docs) ELSE RowsIn(db, m)
<1>1. PICK t : t = TableOf(db, c.on)
  OBVIOUS
<1>2. PICK d : d = db
  OBVIOUS
<1>3. c.cmd \in Commands /\ c.on \in AllNames /\ GoodDb(d) /\ Apt(d, c) /\ t = TableOf(d, c.on) /\ u = After(t, c)
  BY <1>1, <1>2 DEF Apt
<1>4. e = IF c.cmd = "dropCollection" THEN DropCollectionFrom(d, c.on) ELSE WithTable(d, c.on, u)
  BY <1>1, <1>2, <1>3, AppliedIs
<1>5. Sound(u, KindsOf(c.on)) /\ (c.on = Kv => Keyed(RowsOf(u.docs)))
  BY <1>3, AfterIsGood
<1>6. CASE c.cmd = "dropCollection"
  <2>1. c.on \in Collections /\ u = NewTable(<<>>)
    BY <1>3, <1>6 DEF Apt, After
  <2>2. RowsOf(u.docs) = {}
    BY <2>1, NewIsSound
  <2>3. GoodDb(e) /\ \A m : RowsIn(e, m) = IF m = c.on THEN {} ELSE RowsIn(d, m)
    <3>1. PICK n \in Collections : n = c.on
      BY <2>1
    <3>2. e = DropCollectionFrom(d, n)
      BY <1>4, <1>6, <3>1
    <3>3. GoodDb(e) /\ \A m : RowsIn(e, m) = IF m = n THEN {} ELSE RowsIn(d, m)
      BY <1>3, <3>2, GoodDropped
    <3>4. QED
      BY <3>1, <3>3
  <2>4. QED
    BY <1>2, <2>2, <2>3
<1>7. CASE c.cmd # "dropCollection"
  <2>1. e = WithTable(d, c.on, u)
    BY <1>4, <1>7
  <2>2. PICK rows : rows = RowsOf(u.docs)
    OBVIOUS
  <2>3. GoodDb(e) /\ \A m : RowsIn(e, m) = IF m = c.on THEN rows ELSE RowsIn(d, m)
    BY <1>3, <1>5, <2>1, <2>2, GoodPut
  <2>4. QED
    BY <1>2, <2>2, <2>3
<1>8. QED
  BY <1>6, <1>7
-----------------------------------------------------------------------------
(***************************************************************************)
(* A line has on the database of a replay the effect its change had on the *)
(* one of the client.                                                      *)
(***************************************************************************)
LEMMA IdsOfRows ==
  ASSUME NEW t, NEW K, Sound(t, K), NEW u, Sound(u, K), RowsOf(t.docs) = RowsOf(u.docs),
         NEW r \in DOMAIN u.docs
  PROVE  \E s \in DOMAIN t.docs : IdOf(u.docs[r]) = IdOf(t.docs[s])
<1>1. AsText(u.docs[r]) \in RowsOf(t.docs)
  BY DEF RowsOf
<1>2. PICK s \in DOMAIN t.docs : AsText(u.docs[r]) = AsText(t.docs[s])
  BY <1>1 DEF RowsOf
<1>3. IdOf(AsText(u.docs[r])) = IdOf(u.docs[r]) /\ IdOf(AsText(t.docs[s])) = IdOf(t.docs[s])
  BY PlainIds DEF Sound
<1>4. QED
  BY <1>2, <1>3

\* A replayed append adds the same row, "_id" included.
LEMMA AppendReplays ==
  ASSUME NEW K, K[Id] = "number", NEW t, Sound(t, K), NEW u, Sound(u, K), RowsOf(t.docs) = RowsOf(u.docs),
         NEW x, Accepted(x), Brought(x, K), t.id < MaxId, NEW text, text = AsText(Numbered(x, t.id)),
         NEW v, v = TableAppend(t, x), NEW w, w = TableAppend(u, text)
  PROVE  Sound(w, K) /\ SameFields(w.indices, u.indices) /\ RowsOf(v.docs) = RowsOf(w.docs)
<1>1. PICK stored : stored = Numbered(x, t.id)
  OBVIOUS
<1>2. t.id \in Nat
  BY DEF Sound
<1>3. PlainDoc(stored, K) /\ IdOf(stored) = t.id
  BY <1>1, <1>2, NumberedIsPlain
<1>4. PlainDoc(text, K) /\ IdOf(text) = t.id /\ AsText(text) = text /\ text = AsText(stored)
  BY <1>1, <1>3, AsTextIsPlain
<1>5. Accepted(text) /\ text = Numbered(text, u.id)
  BY <1>4, PlainIsNumbered
<1>6. IdOf(text) < MaxId /\ \A r \in DOMAIN u.docs : IdOf(u.docs[r]) < IdOf(text)
  <2>1. \A s \in DOMAIN t.docs : IdOf(t.docs[s]) < t.id
    BY DEF Sound
  <2>2. \A r \in DOMAIN u.docs : \E s \in DOMAIN t.docs : IdOf(u.docs[r]) = IdOf(t.docs[s])
    BY IdsOfRows
  <2>3. QED
    BY <1>4, <2>1, <2>2
<1>7. Sound(w, K) /\ RowsOf(w.docs) = RowsOf(u.docs) \cup {AsText(text)} /\ SameFields(w.indices, u.indices)
  BY <1>4, <1>5, <1>6, SoundAppend
<1>8. RowsOf(v.docs) = RowsOf(t.docs) \cup {AsText(stored)}
  BY <1>1, AppendIsSound
<1>9. QED
  BY <1>4, <1>7, <1>8

\* A collection with no index but the one on "_id" finds documents in its order.
LEMMA BareIsById ==
  ASSUME NEW ixs, Len(ixs) = 1, NEW q
  PROVE  ById(ixs, q)
<1>1. FirstIndexIn(ixs, q.field) \in 0 .. 1
  BY FirstIndexIs
<1>2. QED
  BY <1>1 DEF ById

\* A replayed update changes the same row to the same.
LEMMA UpdateReplays ==
  ASSUME NEW K, NEW t, Sound(t, K), NEW u, Sound(u, K), RowsOf(t.docs) = RowsOf(u.docs),
         Len(u.indices) = 1, NEW q, Fine(q, K), NEW patch, Brought(patch, K),
         Cardinality(Matching(t, q)) <= 1 \/ ById(t.indices, q),
         NEW text, text = AsText(patch),
         NEW v, v = TableUpdate(t, q, patch), NEW w, w = TableUpdate(u, q, text)
  PROVE  Sound(w, K) /\ SameFields(w.indices, u.indices) /\ RowsOf(v.docs) = RowsOf(w.docs)
<1>1. Brought(text, K)
  BY AsTextIsBrought
<1>2. Sound(w, K) /\ SameFields(w.indices, u.indices)
  BY <1>1, UpdateIsSound
<1>3. Cardinality(Matching(t, q)) <= 1 \/ (ById(t.indices, q) /\ ById(u.indices, q))
  BY BareIsById
<1>4. PICK rows : RowsOf(t.docs) = rows /\ RowsOf(u.docs) = rows
  OBVIOUS
<1>5. RowsOf(v.docs) = RowsOf(w.docs)
  BY <1>3, <1>4, UpdatesAlike
<1>6. QED
  BY <1>2, <1>5

\* The limit that is read back takes as many documents from either database.
LEMMA LimitsAlike ==
  ASSUME NEW limit, NEW n \in Nat, NEW t, NEW u, limit \in Int,
         Cardinality(DOMAIN t.docs) \in Nat, Cardinality(DOMAIN u.docs) \in Nat,
         n <= Cardinality(DOMAIN t.docs), n <= Cardinality(DOMAIN u.docs)
  PROVE  /\ LimitRead(limit, u) \in Nat
         /\ Taken(LimitRead(limit, u), n) = Taken(LimitRead(limit, t), n)
<1>1. CASE limit < 1
  <2>1. LimitRead(limit, u) = Cardinality(DOMAIN u.docs) + 1 /\ LimitRead(limit, t) = Cardinality(DOMAIN t.docs) + 1
    BY <1>1 DEF LimitRead
  <2>2. Taken(LimitRead(limit, u), n) = n /\ Taken(LimitRead(limit, t), n) = n
    BY <2>1 DEF Taken
  <2>3. QED
    BY <2>1, <2>2
<1>2. CASE ~(limit < 1)
  BY <1>2 DEF LimitRead
<1>3. QED
  BY <1>1, <1>2

\* Drops of as many take the same rows.
LEMMA SameDrops ==
  ASSUME NEW K, NEW t, Sound(t, K), NEW u, Sound(u, K), RowsOf(t.docs) = RowsOf(u.docs), NEW q, Fine(q, K),
         NEW a \in Nat, NEW b \in Nat, NEW n, n = Cardinality(Matching(t, q)),
         Taken(a, n) = Taken(b, n), WholeOrById(Taken(a, n), n, q, t.indices, u.indices)
  PROVE  RowsOf(TableDrop(t, q, a).docs) = RowsOf(TableDrop(u, q, b).docs)
<1>1. PICK rows : RowsOf(t.docs) = rows /\ RowsOf(u.docs) = rows
  OBVIOUS
<1>2. PICK v : v = TableDrop(t, q, a)
  OBVIOUS
<1>3. PICK w : w = TableDrop(u, q, b)
  OBVIOUS
<1>4. RowsOf(v.docs) = RowsOf(w.docs)
  BY <1>1, <1>2, <1>3, DropsAlike
<1>5. QED
  BY <1>2, <1>3, <1>4

\* A replayed drop takes the same rows, and does not throw.
LEMMA DropReplays ==
  ASSUME NEW K, NEW t, Sound(t, K), NEW u, Sound(u, K), RowsOf(t.docs) = RowsOf(u.docs),
         NEW q, Fine(q, K), NEW limit \in Nat, NEW n, n = Cardinality(Matching(t, q)),
         Taken(limit, n) = Taken(LimitRead(AsInt(limit), t), n),
         WholeOrById(Taken(limit, n), n, q, t.indices, u.indices),
         Malformed(q) => t.nodes = <<>>, NEW read, read = LimitRead(AsInt(limit), u),
         NEW v, v = TableDrop(t, q, limit), NEW w, w = TableDrop(u, q, read)
  PROVE  /\ Sound(w, K) /\ SameFields(w.indices, u.indices) /\ RowsOf(v.docs) = RowsOf(w.docs)
         /\ ~DropThrowsOn(u, q, read)
<1>1. /\ Cardinality(DOMAIN t.docs) \in Nat /\ n \in Nat /\ n <= Cardinality(DOMAIN t.docs)
      /\ Cardinality(RowsMatch(RowsOf(t.docs), q)) = n
  BY RowsCounted DEF Fine
<1>2. /\ Cardinality(DOMAIN u.docs) \in Nat /\ n <= Cardinality(DOMAIN u.docs)
  BY <1>1, RowsCounted DEF Fine
<1>3. AsInt(limit) \in Int
  BY LimitsAreInts
<1>4. read \in Nat /\ Taken(read, n) = Taken(limit, n)
  BY <1>1, <1>2, <1>3, LimitsAlike
<1>5. Sound(w, K) /\ SameFields(w.indices, u.indices)
  BY <1>4, DropLeaves
<1>6. RowsOf(TableDrop(t, q, limit).docs) = RowsOf(TableDrop(u, q, read).docs)
  BY <1>4, SameDrops
<1>7. RowsOf(v.docs) = RowsOf(w.docs)
  BY <1>6
<1>8. ~DropThrowsOn(u, q, read)
  <2>1. SUFFICES ASSUME Malformed(q)
                 PROVE  u.nodes = <<>>
    BY DEF DropThrowsOn
  <2>2. RowsOf(t.docs) = {}
    BY <2>1, NoRows
  <2>3. QED
    BY <2>2, NoRows
<1>9. QED
  BY <1>5, <1>7, <1>8
-----------------------------------------------------------------------------
\* The collection that a line is replayed on, after it.
AfterLine(u, l) ==
  CASE l.cmd = "append" -> TableAppend(u, l.document)
    [] l.cmd = "update" -> TableUpdate(u, l.query, l.document)
    [] l.cmd = "drop" -> TableDrop(u, l.query, LimitRead(l.limit, u))
    [] l.cmd = "dropCollection" -> NewTable(<<>>)

\* The line l does to the collection u what the change c did, which left v behind.
DoesAlike(l, u, c, v) ==
  /\ l.cmd = c.cmd /\ l.on = c.on
  /\ Sound(AfterLine(u, l), KindsOf(c.on))
  /\ RowsOf(AfterLine(u, l).docs) = RowsOf(v.docs)
  /\ c.cmd # "dropCollection" => SameFields(AfterLine(u, l).indices, u.indices)
  /\ l.cmd = "drop" => ~DropThrowsOn(u, l.query, LimitRead(l.limit, u))

\* The line of an append does what the append did,
LEMMA AppendDoesAlike ==
  ASSUME NEW name \in AllNames, NEW t, Sound(t, KindsOf(name)), NEW u, Sound(u, KindsOf(name)),
         RowsOf(t.docs) = RowsOf(u.docs), NEW c, c.cmd = "append", c.on = name, Accepted(c.document),
         Brought(c.document, KindsOf(name)), t.id < MaxId,
         NEW l, l = Line(name, AppendCommand(AsText(Numbered(c.document, t.id))))
  PROVE  DoesAlike(l, u, c, After(t, c))
<1>1. PICK x : x = c.document
  OBVIOUS
<1>2. PICK text : text = AsText(Numbered(x, t.id))
  OBVIOUS
<1>3. PICK v : v = TableAppend(t, x)
  OBVIOUS
<1>4. PICK w : w = TableAppend(u, text)
  OBVIOUS
<1>5. PICK K : K = KindsOf(name)
  OBVIOUS
<1>6. Sound(t, K) /\ Sound(u, K) /\ Brought(x, K) /\ Accepted(x) /\ K[Id] = "number"
  BY <1>1, <1>5, KindsAre
<1>7. Sound(w, K) /\ SameFields(w.indices, u.indices) /\ RowsOf(v.docs) = RowsOf(w.docs)
  BY <1>2, <1>3, <1>4, <1>6, AppendReplays
<1>8. l.cmd = "append" /\ l.on = name /\ l.document = text
  BY <1>1, <1>2, AppendLine
<1>9. AfterLine(u, l) = w /\ After(t, c) = v
  BY <1>1, <1>3, <1>4, <1>8 DEF AfterLine, After
<1>10. QED
  BY <1>5, <1>7, <1>8, <1>9 DEF DoesAlike

\* that of an update,
LEMMA UpdateDoesAlike ==
  ASSUME NEW name \in AllNames, NEW t, Sound(t, KindsOf(name)), NEW u, Sound(u, KindsOf(name)),
         RowsOf(t.docs) = RowsOf(u.docs), Len(u.indices) = 1, NEW c, c.cmd = "update", c.on = name,
         Fine(c.query, KindsOf(name)), Brought(c.document, KindsOf(name)),
         Cardinality(Matching(t, c.query)) <= 1 \/ ById(t.indices, c.query),
         NEW l, l = Line(name, UpdateCommand(c.query, AsText(c.document)))
  PROVE  DoesAlike(l, u, c, After(t, c))
<1>1. PICK x : x = c.document
  OBVIOUS
<1>2. PICK text : text = AsText(x)
  OBVIOUS
<1>3. PICK q : q = c.query
  OBVIOUS
<1>4. PICK v : v = TableUpdate(t, q, x)
  OBVIOUS
<1>5. PICK w : w = TableUpdate(u, q, text)
  OBVIOUS
<1>6. PICK K : K = KindsOf(name)
  OBVIOUS
<1>7. /\ Sound(t, K) /\ Sound(u, K) /\ Brought(x, K) /\ Fine(q, K)
      /\ Cardinality(Matching(t, q)) <= 1 \/ ById(t.indices, q)
  BY <1>1, <1>3, <1>6
<1>8. Sound(w, K) /\ SameFields(w.indices, u.indices) /\ RowsOf(v.docs) = RowsOf(w.docs)
  BY <1>2, <1>4, <1>5, <1>7, UpdateReplays
<1>9. l.cmd = "update" /\ l.on = name /\ l.query = q /\ l.document = text
  BY <1>1, <1>2, <1>3, UpdateLine
<1>10. AfterLine(u, l) = w /\ After(t, c) = v
  BY <1>1, <1>3, <1>4, <1>5, <1>9 DEF AfterLine, After
<1>11. QED
  BY <1>6, <1>8, <1>9, <1>10 DEF DoesAlike

\* and that of a drop.
LEMMA DropDoesAlike ==
  ASSUME NEW name \in AllNames, NEW t, Sound(t, KindsOf(name)), NEW u, Sound(u, KindsOf(name)),
         RowsOf(t.docs) = RowsOf(u.docs), NEW c, c.cmd = "drop", c.on = name,
         Fine(c.query, KindsOf(name)), c.limit \in Nat,
         NEW n, n = Cardinality(Matching(t, c.query)),
         Taken(c.limit, n) = Taken(LimitRead(AsInt(c.limit), t), n),
         WholeOrById(Taken(c.limit, n), n, c.query, t.indices, u.indices),
         Malformed(c.query) => t.nodes = <<>>,
         NEW l, l = Line(name, DropCommand(c.query, c.limit))
  PROVE  DoesAlike(l, u, c, After(t, c))
<1>1. PICK limit \in Nat : limit = c.limit
  OBVIOUS
<1>2. PICK q : q = c.query
  OBVIOUS
<1>3. PICK read : read = LimitRead(AsInt(limit), u)
  OBVIOUS
<1>4. PICK v : v = TableDrop(t, q, limit)
  OBVIOUS
<1>5. PICK w : w = TableDrop(u, q, read)
  OBVIOUS
<1>6. PICK K : K = KindsOf(name)
  OBVIOUS
<1>7. /\ Sound(t, K) /\ Sound(u, K) /\ Fine(q, K)
      /\ n = Cardinality(Matching(t, q))
      /\ Taken(limit, n) = Taken(LimitRead(AsInt(limit), t), n)
      /\ WholeOrById(Taken(limit, n), n, q, t.indices, u.indices)
      /\ Malformed(q) => t.nodes = <<>>
  BY <1>1, <1>2, <1>6
<1>8. /\ Sound(w, K) /\ SameFields(w.indices, u.indices) /\ RowsOf(v.docs) = RowsOf(w.docs)
      /\ ~DropThrowsOn(u, q, read)
  BY <1>3, <1>4, <1>5, <1>7, DropReplays
<1>9. l.cmd = "drop" /\ l.on = name /\ l.query = q /\ l.limit = AsInt(limit)
  BY <1>1, <1>2, DropLine
<1>10. AfterLine(u, l) = w /\ After(t, c) = v
  BY <1>1, <1>2, <1>3, <1>4, <1>5, <1>9 DEF AfterLine, After
<1>11. QED
  BY <1>3, <1>6, <1>8, <1>9, <1>10 DEF DoesAlike
-----------------------------------------------------------------------------
\* Documents are found in the order replay finds them in.
LEMMA OrderIsById ==
  ASSUME NEW name, name # Kv, NEW t, NEW q, SameOrder(name, t, q)
  PROVE  ById(t.indices, q)
BY DEF SameOrder, ById

\* A drop takes all, none or the first ones of what matches; of pairs there is one.
LEMMA DropTakesAlike ==
  ASSUME NEW d, GoodDb(d), NEW r, BareDb(r), NEW name \in AllNames, NEW q, NEW limit, AptDrop(name, q, limit),
         NEW t, t = TableOf(d, name), NEW u, u = TableOf(r, name),
         NEW n, n = Cardinality(Matching(t, q)),
         Taken(limit, n) \in {0, n} \/ SameOrder(name, t, q)
  PROVE  WholeOrById(Taken(limit, n), n, q, t.indices, u.indices)
<1>1. CASE name = Kv
  <2>1. PICK key \in Keys : q = KeyQuery(key)
    BY <1>1 DEF AptDrop
  <2>2. PICK rows : rows = RowsOf(t.docs)
    OBVIOUS
  <2>3. Sound(t, KindsOf(name)) /\ Fine(q, KindsOf(name)) /\ Keyed(rows)
    BY <1>1, <2>2, GoodTable DEF AptDrop, GoodDb, RowsIn
  <2>4. IsFiniteSet(RowsMatch(rows, q)) /\ Cardinality(RowsMatch(rows, q)) = n
    BY <2>2, <2>3, RowsCounted DEF Fine
  <2>5. n \in {0, 1}
    BY <2>1, <2>3, <2>4, OnePair
  <2>6. Taken(limit, n) = n
    BY <1>1, <2>5 DEF AptDrop, Taken
  <2>7. QED
    BY <2>6 DEF WholeOrById
<1>2. CASE name # Kv
  <2>1. Len(u.indices) = 1
    BY <1>2 DEF AllNames, BareDb
  <2>2. ById(u.indices, q)
    BY <2>1, BareIsById
  <2>3. SameOrder(name, t, q) => ById(t.indices, q)
    BY <1>2, OrderIsById
  <2>4. QED
    BY <2>2, <2>3 DEF WholeOrById
<1>3. QED
  BY <1>1, <1>2

\* The line of a change does on a database with the same rows what the change did.
LEMMA ChangeDoesAlike ==
  ASSUME GoodDb(db), NEW r, GoodDb(r), BareDb(r), Alike(db, r), NEW c, Apt(db, c), ~LeavesNoTrace(c),
         ReplaysAlike(c, TableOf(db, c.on))
  PROVE  DoesAlike(LineOf(c), TableOf(r, c.on), c, After(TableOf(db, c.on), c))
<1>1. PICK name \in AllNames : name = c.on
  BY DEF Apt
<1>2. PICK d : d = db
  OBVIOUS
<1>3. PICK t : t = TableOf(d, name)
  OBVIOUS
<1>4. PICK u : u = TableOf(r, name)
  OBVIOUS
<1>5. PICK l : l = LineOf(c)
  OBVIOUS
<1>6. /\ Sound(t, KindsOf(name)) /\ Sound(u, KindsOf(name))
      /\ RowsOf(t.docs) = RowsOf(u.docs)
  <2>1. GoodDb(d) /\ Alike(d, r)
    BY <1>2
  <2>2. QED
    BY <1>3, <1>4, <2>1, GoodTable DEF Alike, RowsIn
<1>7. name # Kv => Len(u.indices) = 1
  BY <1>4 DEF AllNames, BareDb
<1>8. /\ t = TableOf(db, c.on) /\ u = TableOf(r, c.on)
      /\ c.cmd \in Commands /\ ReplaysAlike(c, t)
  BY <1>1, <1>2, <1>3, <1>4 DEF Apt
<1>9. CASE c.cmd = "append"
  <2>1. Accepted(c.document)
    BY <1>9 DEF LeavesNoTrace
  <2>2. Brought(c.document, KindsOf(name)) /\ t.id < MaxId
    BY <1>1, <1>8, <1>9, <2>1 DEF Apt, AptAppend
  <2>3. l = Line(name, AppendCommand(AsText(Numbered(c.document, t.id))))
    BY <1>1, <1>5, <1>8, <1>9 DEF LineOf
  <2>4. DoesAlike(l, u, c, After(t, c))
    BY <1>1, <1>6, <1>9, <2>1, <2>2, <2>3, AppendDoesAlike
  <2>5. QED
    BY <1>5, <1>8, <2>4
<1>10. CASE c.cmd = "update"
  <2>1. name # Kv /\ Fine(c.query, KindsOf(name)) /\ Brought(c.document, KindsOf(name))
    BY <1>1, <1>10 DEF Apt
  <2>2. Cardinality(Matching(t, c.query)) <= 1 \/ ById(t.indices, c.query)
    BY <1>1, <1>8, <1>10, <2>1, OrderIsById DEF ReplaysAlike
  <2>3. l = Line(name, UpdateCommand(c.query, AsText(c.document)))
    BY <1>1, <1>5, <1>10 DEF LineOf
  <2>4. DoesAlike(l, u, c, After(t, c))
    BY <1>1, <1>6, <1>7, <1>10, <2>1, <2>2, <2>3, UpdateDoesAlike
  <2>5. QED
    BY <1>5, <1>8, <2>4
<1>11. CASE c.cmd = "drop"
  <2>1. AptDrop(name, c.query, c.limit)
    BY <1>1, <1>11 DEF Apt
  <2>2. PICK n : n = Cardinality(Matching(t, c.query))
    OBVIOUS
  <2>3. /\ Taken(c.limit, n) = Taken(LimitRead(AsInt(c.limit), t), n)
        /\ Taken(c.limit, n) \in {0, n} \/ SameOrder(name, t, c.query)
        /\ Malformed(c.query) => t.nodes = <<>>
    BY <1>1, <1>8, <1>11, <2>2 DEF ReplaysAlike
  <2>4. WholeOrById(Taken(c.limit, n), n, c.query, t.indices, u.indices)
    <3>1. GoodDb(d)
      BY <1>2
    <3>2. QED
      BY <1>3, <1>4, <2>1, <2>2, <2>3, <3>1, DropTakesAlike
  <2>5. l = Line(name, DropCommand(c.query, c.limit))
    BY <1>1, <1>5, <1>11 DEF LineOf
  <2>6. Fine(c.query, KindsOf(name)) /\ c.limit \in Nat
    BY <2>1 DEF AptDrop
  <2>7. DoesAlike(l, u, c, After(t, c))
    BY <1>1, <1>6, <1>11, <2>2, <2>3, <2>4, <2>5, <2>6, DropDoesAlike
  <2>8. QED
    BY <1>5, <1>8, <2>7
<1>12. CASE c.cmd = "dropCollection"
  <2>1. l = c
    BY <1>5, <1>12 DEF LineOf
  <2>2. AfterLine(u, l) = NewTable(<<>>) /\ After(t, c) = NewTable(<<>>)
    BY <1>12, <2>1 DEF AfterLine, After
  <2>3. Sound(NewTable(<<>>), KindsOf(c.on))
    BY NewIsSound
  <2>4. DoesAlike(l, u, c, After(t, c))
    BY <1>12, <2>1, <2>2, <2>3 DEF DoesAlike
  <2>5. QED
    BY <1>5, <1>8, <2>4
<1>13. QED
  BY <1>8, <1>9, <1>10, <1>11, <1>12 DEF Commands

\* What execute makes of a database.
LEMMA ExecuteIs ==
  ASSUME NEW r, NEW l, l.cmd \in Commands, NEW u, u = TableOf(r, l.on)
  PROVE  /\ Execute(r, l) = IF l.cmd = "dropCollection" THEN DropCollectionFrom(r, l.on)
                            ELSE WithTable(r, l.on, AfterLine(u, l))
         /\ l.cmd = "drop" /\ ~DropThrowsOn(u, l.query, LimitRead(l.limit, u)) => ~ExecuteThrows(r, l)
         /\ l.cmd # "drop" => ~ExecuteThrows(r, l)
<1>1. l # Torn
  BY DEF Torn, Commands
<1>2. QED
  BY <1>1 DEF Execute, AfterLine, Commands, ExecuteThrows

\* Replaying the line l on r gives a database like e.
Gives(r, l, e) ==
  /\ ~ExecuteThrows(r, l)
  /\ GoodDb(Execute(r, l)) /\ BareDb(Execute(r, l))
  /\ Alike(e, Execute(r, l))

\* A line replayed on a database with the same rows gives one with the same rows.
LEMMA LineReplays ==
  ASSUME GoodDb(db), NEW r, GoodDb(r), BareDb(r), Alike(db, r), NEW c, Apt(db, c), ~LeavesNoTrace(c),
         ReplaysAlike(c, TableOf(db, c.on))
  PROVE  Gives(r, LineOf(c), Applied(c))
<1>1. PICK l : l = LineOf(c)
  OBVIOUS
<1>2. PICK u : u = TableOf(r, c.on)
  OBVIOUS
<1>3. PICK v : v = After(TableOf(db, c.on), c)
  OBVIOUS
<1>4. PICK e : e = Applied(c)
  OBVIOUS
<1>5. PICK d : d = db
  OBVIOUS
<1>6. DoesAlike(l, u, c, v) /\ c.on \in AllNames /\ c.cmd \in Commands
  BY <1>1, <1>2, <1>3, ChangeDoesAlike DEF Apt
<1>7. GoodDb(e) /\ \A m : RowsIn(e, m) = IF m = c.on THEN RowsOf(v.docs) ELSE RowsIn(d, m)
  BY <1>3, <1>4, <1>5, AppliedIsGood
<1>8. PICK w : w = AfterLine(u, l)
  OBVIOUS
<1>9. PICK f : f = Execute(r, l)
  OBVIOUS
<1>10. Alike(d, r)
  BY <1>5
<1>11. l.cmd = c.cmd /\ l.on = c.on /\ l.cmd \in Commands /\ u = TableOf(r, l.on)
  BY <1>2, <1>6 DEF DoesAlike
<1>12. ~ExecuteThrows(r, l)
  BY <1>6, <1>11, ExecuteIs DEF DoesAlike
<1>13. PICK rows : rows = RowsOf(v.docs)
  OBVIOUS
<1>14. RowsIn(e, c.on) = rows /\ \A m : m # c.on => RowsIn(e, m) = RowsIn(d, m)
  BY <1>7, <1>13
<1>15. Sound(w, KindsOf(c.on)) /\ RowsOf(w.docs) = rows
  BY <1>6, <1>8, <1>13 DEF DoesAlike
<1>16. c.on = Kv => Keyed(rows)
  BY <1>7, <1>14 DEF GoodDb
<1>17. CASE l.cmd = "dropCollection"
  <2>1. f = DropCollectionFrom(r, c.on) /\ c.on \in Collections
    BY <1>9, <1>11, <1>17, ExecuteIs DEF Apt
  <2>2. PICK n \in Collections : n = c.on
    BY <2>1
  <2>3. /\ GoodDb(f)
        /\ \A x : RowsIn(f, x) = IF x = n THEN {} ELSE RowsIn(r, x)
        /\ BareDb(f)
    <3>1. f = DropCollectionFrom(r, n)
      BY <2>1, <2>2
    <3>2. GoodDb(f) /\ \A x : RowsIn(f, x) = IF x = n THEN {} ELSE RowsIn(r, x)
      BY <3>1, GoodDropped
    <3>3. BareDb(f)
      BY <3>1, GoodDropped
    <3>4. QED
      BY <3>2, <3>3
  <2>4. w = NewTable(<<>>)
    BY <1>8, <1>17 DEF AfterLine
  <2>5. rows = {}
    BY <1>15, <2>4, NewIsSound
  <2>6. Alike(e, f)
    BY <1>10, <1>14, <2>2, <2>3, <2>5 DEF Alike
  <2>7. QED
    BY <1>1, <1>4, <1>9, <1>12, <2>3, <2>6 DEF Gives
<1>18. CASE l.cmd # "dropCollection"
  <2>1. f = WithTable(r, c.on, w)
    BY <1>8, <1>9, <1>11, <1>18, ExecuteIs
  <2>2. rows = RowsOf(w.docs)
    BY <1>15
  <2>3. GoodDb(f) /\ \A x : RowsIn(f, x) = IF x = c.on THEN rows ELSE RowsIn(r, x)
    BY <1>6, <1>15, <1>16, <2>1, <2>2, GoodPut
  <2>4. SameFields(w.indices, TableOf(r, c.on).indices)
    BY <1>2, <1>6, <1>8, <1>11, <1>18 DEF DoesAlike
  <2>5. BareDb(f)
    BY <1>6, <2>1, <2>4, BarePut
  <2>6. Alike(e, f)
    BY <1>10, <1>14, <2>3 DEF Alike
  <2>7. QED
    BY <1>1, <1>4, <1>9, <1>12, <2>3, <2>5, <2>6 DEF Gives
<1>19. QED
  BY <1>17, <1>18
-----------------------------------------------------------------------------
\* A change that leaves no trace has changed no row.
LEMMA NoTraceReplays ==
  ASSUME GoodDb(db), NEW c, Apt(db, c), LeavesNoTrace(c), NEW r, Alike(db, r)
  PROVE  Alike(Applied(c), r)
<1>1. PICK t : t = TableOf(db, c.on)
  OBVIOUS
<1>2. PICK v : v = After(t, c)
  OBVIOUS
<1>3. PICK e : e = Applied(c)
  OBVIOUS
<1>4. c.on \in AllNames /\ c.cmd \in Commands
  BY DEF Apt
<1>5. \A m : RowsIn(e, m) = IF m = c.on THEN RowsOf(v.docs) ELSE RowsIn(db, m)
  BY <1>1, <1>2, <1>3, AppliedIsGood
<1>6. RowsOf(v.docs) = RowsOf(t.docs)
  <2>1. CASE c.cmd = "append"
    <3>1. ~Accepted(c.document)
      BY <2>1 DEF LeavesNoTrace
    <3>2. v = t
      BY <1>2, <2>1, <3>1 DEF After, TableAppend
    <3>3. QED
      BY <3>2
  <2>2. CASE c.cmd = "update"
    <3>1. FirstMatchIn(t, c.query) = {}
      BY <1>1, <2>2 DEF LeavesNoTrace
    <3>2. v = t
      BY <1>2, <2>2, <3>1 DEF After, TableUpdate
    <3>3. QED
      BY <3>2
  <2>3. CASE c.cmd = "drop"
    BY <2>3 DEF LeavesNoTrace
  <2>4. CASE c.cmd = "dropCollection"
    <3>1. ~HasCollection(db, c.on)
      BY <2>4 DEF LeavesNoTrace
    <3>2. t = NewTable(<<>>)
      BY <1>1, <3>1, NoneInDirectory DEF GoodDb
    <3>3. v = NewTable(<<>>)
      BY <1>2, <2>4 DEF After
    <3>4. QED
      BY <3>2, <3>3
  <2>5. QED
    BY <1>4, <2>1, <2>2, <2>3, <2>4 DEF Commands
<1>7. \A m : RowsIn(e, m) = RowsIn(db, m)
  BY <1>1, <1>5, <1>6 DEF RowsIn
<1>8. Alike(e, r)
  BY <1>7 DEF Alike
<1>9. QED
  BY <1>3, <1>8

\* create_index changes no row.
LEMMA IndexIsCreated ==
  ASSUME NEW d, GoodDb(d), NEW c \in Collections, NEW f \in IndexFields,
         NEW e, e = WithTable(d, c, TableCreateIndex(TableOf(d, c), f))
  PROVE  GoodDb(e) /\ \A m : RowsIn(e, m) = RowsIn(d, m)
<1>1. PICK t : t = TableOf(d, c)
  OBVIOUS
<1>2. PICK u : u = TableCreateIndex(t, f)
  OBVIOUS
<1>3. c \in AllNames /\ c # Kv
  BY FieldsOfClients DEF AllNames
<1>4. f \in DOMAIN KindsOf(c) \cap Names
  BY FieldsOfClients
<1>5. Sound(t, KindsOf(c))
  BY <1>1, <1>3, GoodTable
<1>6. Sound(u, KindsOf(c)) /\ u.docs = t.docs
  BY <1>2, <1>4, <1>5, SoundCreateIndex
<1>7. PICK rows : rows = RowsOf(u.docs)
  OBVIOUS
<1>8. e = WithTable(d, c, u)
  BY <1>1, <1>2
<1>9. GoodDb(e) /\ \A x : RowsIn(e, x) = IF x = c THEN rows ELSE RowsIn(d, x)
  BY <1>3, <1>6, <1>7, <1>8, GoodPut
<1>10. rows = RowsIn(d, c)
  BY <1>1, <1>6, <1>7 DEF RowsIn
<1>11. QED
  BY <1>9, <1>10
-----------------------------------------------------------------------------
(***************************************************************************)
(* The changes of a call that are still to be made: one, or a drop of what *)
(* the document that is appended replaces.                                 *)
(***************************************************************************)
Replaces(d, c, e) ==
  /\ c.cmd = "drop" /\ e.cmd = "append" /\ e.on = c.on
  /\ Accepted(e.document) => Brought(e.document, KindsOf(e.on))
  /\ TableOf(d, e.on).id < MaxId
  /\ e.on = Kv => \E key \in Keys, value \in KeyValues :
                    e.document = Pair(key, value) /\ c.query = KeyQuery(key)

\* What is still to be made of a call.
Pending(d, s) ==
  \/ s = <<>>
  \/ \E c : s = <<c>> /\ Apt(d, c)
  \/ \E c, e : s = <<c, e>> /\ Apt(d, c) /\ Replaces(d, c, e)

\* The next change of a call is apt, and after it the rest still is.
LEMMA PendingNext ==
  ASSUME GoodDb(db), NEW s, Pending(db, s), s # <<>>
  PROVE  Apt(db, Head(s)) /\ Pending(Applied(Head(s)), Tail(s))
<1>1. CASE \E c : s = <<c>> /\ Apt(db, c)
  <2>1. PICK c : s = <<c>> /\ Apt(db, c)
    BY <1>1
  <2>2. Head(s) = c /\ Tail(s) = <<>>
    BY <2>1
  <2>3. QED
    BY <2>1, <2>2 DEF Pending
<1>2. CASE \E c, e : s = <<c, e>> /\ Apt(db, c) /\ Replaces(db, c, e)
  <2>1. PICK c, e : s = <<c, e>> /\ Apt(db, c) /\ Replaces(db, c, e)
    BY <1>2
  <2>2. Head(s) = c /\ Tail(s) = <<e>>
    BY <2>1
  <2>3. PICK t : t = TableOf(db, c.on)
    OBVIOUS
  <2>4. PICK u : u = After(t, c)
    OBVIOUS
  <2>5. PICK a : a = Applied(c)
    OBVIOUS
  <2>6. c.cmd = "drop" /\ e.cmd = "append" /\ e.on = c.on /\ c.on \in AllNames
    BY <2>1 DEF Replaces, Apt
  <2>7. u.id = t.id /\ (c.on = Kv => RowsMatch(RowsOf(u.docs), c.query) = {})
    BY <2>1, <2>3, <2>4, <2>6, AfterIsGood
  <2>8. a = WithTable(db, c.on, u)
    BY <2>3, <2>4, <2>5, <2>6, AppliedIs DEF Apt, Commands
  <2>9. TableOf(a, c.on) = u
    BY <2>6, <2>8, Put DEF GoodDb
  <2>10. AptAppend(a, e.on, e.document)
    <3>1. TableOf(a, e.on).id < MaxId
      BY <2>1, <2>3, <2>6, <2>7, <2>9 DEF Replaces
    <3>2. ASSUME e.on = Kv
          PROVE  \E key \in Keys, value \in KeyValues :
                   e.document = Pair(key, value) /\ RowsMatch(RowsIn(a, Kv), KeyQuery(key)) = {}
      <4>1. PICK key \in Keys, value \in KeyValues : e.document = Pair(key, value) /\ c.query = KeyQuery(key)
        BY <2>1, <3>2 DEF Replaces
      <4>2. RowsMatch(RowsIn(a, Kv), KeyQuery(key)) = {}
        BY <2>6, <2>7, <2>9, <3>2, <4>1 DEF RowsIn
      <4>3. QED
        BY <4>1, <4>2
    <3>3. Accepted(e.document) => Brought(e.document, KindsOf(e.on))
      BY <2>1 DEF Replaces
    <3>4. QED
      BY <3>1, <3>2, <3>3 DEF AptAppend
  <2>11. Apt(a, e)
    BY <2>6, <2>10 DEF Apt, Commands
  <2>12. Pending(a, Tail(s))
    BY <2>2, <2>11 DEF Pending
  <2>13. QED
    BY <2>1, <2>2, <2>5, <2>12
<1>3. QED
  BY <1>1, <1>2 DEF Pending
-----------------------------------------------------------------------------
(***************************************************************************)
(* What each call of a client leaves to be made.                           *)
(***************************************************************************)
LEMMA AppendingIs ==
  ASSUME NEW name, NEW d, NEW c, c = Appending(name, d)
  PROVE  c.cmd = "append" /\ c.on = name /\ c.document = d
BY DEF Appending

\* of an update,
LEMMA UpdatingIs ==
  ASSUME NEW name, NEW q, NEW patch, NEW c, c = Updating(name, q, patch)
  PROVE  c.cmd = "update" /\ c.on = name /\ c.query = q /\ c.document = patch
BY DEF Updating

\* of a drop,
LEMMA DroppingIs ==
  ASSUME NEW name, NEW q, NEW limit, NEW c, c = Dropping(name, q, limit)
  PROVE  c.cmd = "drop" /\ c.on = name /\ c.query = q /\ c.limit = limit
BY DEF Dropping

\* and of a drop_collection.
LEMMA DroppingCollectionIs ==
  ASSUME NEW name, NEW c, c = DroppingCollection(name)
  PROVE  c.cmd = "dropCollection" /\ c.on = name
BY DEF DroppingCollection

\* A drop is apt if its parts are.
LEMMA DroppingIsApt ==
  ASSUME NEW d, NEW m \in AllNames, NEW q, NEW limit, AptDrop(m, q, limit), NEW c, c = Dropping(m, q, limit)
  PROVE  Apt(d, c)
<1>1. c.cmd = "drop" /\ c.on = m /\ c.query = q /\ c.limit = limit
  BY DroppingIs
<1>2. QED
  BY <1>1 DEF Apt, Commands

\* A call of append is of an apt change,
LEMMA AppendIsPending ==
  ASSUME NEW name \in Collections, NEW d \in Inputs, AppendDocument(name, d)
  PROVE  Pending(db, changes')
<1>1. PICK c : c = Appending(name, d)
  OBVIOUS
<1>2. c.cmd = "append" /\ c.on = name /\ c.document = d
  BY <1>1, AppendingIs
<1>3. PICK made : made = <<c>>
  OBVIOUS
<1>4. 1 \in DOMAIN made /\ made[1] = c
  BY <1>3
<1>5. Call("append", made)
  BY <1>1, <1>3 DEF AppendDocument
<1>6. TableOf(db, made[1].on).id < MaxId /\ changes' = made
  BY <1>2, <1>4, <1>5 DEF Call
<1>7. Accepted(d) => Brought(d, KindsOf(name))
  BY InputsAreBrought DEF Accepted
<1>8. name # Kv /\ name \in AllNames
  BY FieldsOfClients DEF AllNames
<1>9. Apt(db, c)
  BY <1>2, <1>4, <1>6, <1>7, <1>8 DEF Apt, AptAppend, Commands
<1>10. QED
  BY <1>3, <1>6, <1>9 DEF Pending

\* so is one of update,
LEMMA UpdateIsPending ==
  ASSUME NEW name \in Collections, NEW q \in Queries, NEW patch \in Patches, UpdateDocument(name, q, patch)
  PROVE  Pending(db, changes')
<1>1. PICK c : c = Updating(name, q, patch)
  OBVIOUS
<1>2. c.cmd = "update" /\ c.on = name /\ c.query = q /\ c.document = patch
  BY <1>1, UpdatingIs
<1>3. changes' = <<c>>
  BY <1>1 DEF UpdateDocument, Call
<1>4. Brought(patch, KindsOf(name)) /\ Fine(q, KindsOf(name))
  BY InputsAreBrought, QueriesAreFine
<1>5. name # Kv /\ name \in AllNames
  BY FieldsOfClients DEF AllNames
<1>6. Apt(db, c)
  BY <1>2, <1>4, <1>5 DEF Apt, Commands
<1>7. QED
  BY <1>3, <1>6 DEF Pending

\* of drop,
LEMMA DropIsPending ==
  ASSUME NEW name \in Collections, NEW q \in Queries, NEW limit \in Limits, DropDocuments(name, q, limit)
  PROVE  Pending(db, changes')
<1>1. PICK c : c = Dropping(name, q, limit)
  OBVIOUS
<1>2. changes' = <<c>>
  BY <1>1 DEF DropDocuments, Call
<1>3. name # Kv /\ name \in AllNames /\ Fine(q, KindsOf(name))
  BY FieldsOfClients, QueriesAreFine DEF AllNames
<1>4. limit \in Nat
  BY DocumentsAssumption
<1>5. AptDrop(name, q, limit)
  BY <1>3, <1>4 DEF AptDrop
<1>6. Apt(db, c)
  BY <1>1, <1>3, <1>5, DroppingIsApt
<1>7. QED
  BY <1>2, <1>6 DEF Pending

\* of drop_collection,
LEMMA DropCollectionIsPending ==
  ASSUME NEW name \in Collections, DropCollection(name)
  PROVE  Pending(db, changes')
<1>1. PICK c : c = DroppingCollection(name)
  OBVIOUS
<1>2. c.cmd = "dropCollection" /\ c.on = name
  BY <1>1, DroppingCollectionIs
<1>3. changes' = <<c>>
  BY <1>1 DEF DropCollection, Call
<1>4. Apt(db, c)
  BY <1>2 DEF Apt, Commands, AllNames
<1>5. QED
  BY <1>3, <1>4 DEF Pending

\* of upsert, which drops before it appends,
LEMMA UpsertIsPending ==
  ASSUME NEW name \in Collections, NEW q \in Queries, NEW d \in Inputs, Upsert(name, q, d)
  PROVE  Pending(db, changes')
<1>1. PICK c : c = Dropping(name, q, DefaultLimit)
  OBVIOUS
<1>2. PICK e : e = Appending(name, d)
  OBVIOUS
<1>3. PICK made : made = <<c, e>>
  OBVIOUS
<1>4. c.cmd = "drop" /\ c.on = name /\ c.query = q
  BY <1>1, DroppingIs
<1>5. e.cmd = "append" /\ e.on = name /\ e.document = d
  BY <1>2, AppendingIs
<1>6. 2 \in DOMAIN made /\ made[2] = e
  BY <1>3
<1>7. Call("upsert", made)
  BY <1>1, <1>2, <1>3 DEF Upsert
<1>8. TableOf(db, made[2].on).id < MaxId /\ changes' = made
  BY <1>5, <1>6, <1>7 DEF Call
<1>9. name # Kv /\ name \in AllNames /\ Fine(q, KindsOf(name))
  BY FieldsOfClients, QueriesAreFine DEF AllNames
<1>10. DefaultLimit \in Nat
  BY DEF DefaultLimit
<1>11. AptDrop(name, q, DefaultLimit)
  BY <1>9, <1>10 DEF AptDrop
<1>12. Apt(db, c)
  BY <1>1, <1>9, <1>11, DroppingIsApt
<1>13. Accepted(d) => Brought(d, KindsOf(name))
  BY InputsAreBrought DEF Accepted
<1>14. Replaces(db, c, e)
  BY <1>4, <1>5, <1>6, <1>8, <1>9, <1>13 DEF Replaces
<1>15. QED
  BY <1>3, <1>8, <1>12, <1>14 DEF Pending

\* and of set_int_value and its kin, which drop the old pair before they append the new.
LEMMA SetValueIsPending ==
  ASSUME NEW key \in Keys, NEW value \in KeyValues, SetValue(key, value)
  PROVE  Pending(db, changes')
<1>1. PICK limit : limit = 2 * IntHalf - 1
  OBVIOUS
<1>2. limit \in Nat /\ limit >= 1
  BY <1>1, DocumentsAssumption
<1>3. PICK q : q = KeyQuery(key)
  OBVIOUS
<1>4. PICK c : c = Dropping(Kv, q, limit)
  OBVIOUS
<1>5. PICK e : e = Appending(Kv, Pair(key, value))
  OBVIOUS
<1>6. PICK made : made = <<c, e>>
  OBVIOUS
<1>7. c.cmd = "drop" /\ c.on = Kv /\ c.query = q
  BY <1>4, DroppingIs
<1>8. e.cmd = "append" /\ e.on = Kv /\ e.document = Pair(key, value)
  BY <1>5, AppendingIs
<1>9. 2 \in DOMAIN made /\ made[2] = e
  BY <1>6
<1>10. Call("setValue", made)
  BY <1>1, <1>3, <1>4, <1>5, <1>6 DEF SetValue
<1>11. TableOf(db, made[2].on).id < MaxId /\ changes' = made
  BY <1>8, <1>9, <1>10 DEF Call
<1>12. AptDrop(Kv, q, limit)
  BY <1>2, <1>3, KeyQueryIsFine DEF AptDrop
<1>13. Kv \in AllNames
  BY DEF AllNames
<1>14. Apt(db, c)
  BY <1>4, <1>12, <1>13, DroppingIsApt
<1>15. Brought(e.document, KindsOf(e.on))
  BY <1>8, PairIsBrought
<1>16. Replaces(db, c, e)
  BY <1>3, <1>7, <1>8, <1>9, <1>11, <1>15 DEF Replaces
<1>17. QED
  BY <1>6, <1>11, <1>14, <1>16 DEF Pending
-----------------------------------------------------------------------------
(***************************************************************************)
(* Replaying a journal, line by line.                                      *)
(***************************************************************************)
ReplayStep(before, l) ==
  IF before = Lost \/ ExecuteThrows(before, l) THEN Lost ELSE Execute(before, l)

\* g is the replay, line by line.
IsReplaying(g, n, d, s) == g = [i \in 0 .. n |-> IF i = 0 THEN d ELSE ReplayStep(g[i - 1], s[i])]

\* The recursive function of the replay exists.
LEMMA ReplayingExists ==
  ASSUME NEW d, NEW s
  PROVE  \A n \in Nat : \E g : IsReplaying(g, n, d, s)
<1> DEFINE Bad == {n \in Nat : ~ \E g : IsReplaying(g, n, d, s)}
<1>1. SUFFICES ASSUME Bad # {} PROVE FALSE
  OBVIOUS
<1>2. PICK n \in Bad : \A m \in Bad : n <= m
  <2>1. Bad \subseteq Nat
    OBVIOUS
  <2> HIDE DEF Bad
  <2>2. QED
    BY <1>1, <2>1, MinIsLeast
<1>3. CASE n = 0
  <2>1. IsReplaying([i \in 0 .. 0 |-> d], 0, d, s)
    BY DEF IsReplaying
  <2>2. QED
    BY <1>3, <2>1
<1>4. CASE n # 0
  <2>1. n - 1 \in Nat /\ n - 1 \notin Bad
    BY <1>2, <1>4
  <2>2. PICK e : IsReplaying(e, n - 1, d, s)
    BY <2>1
  <2> DEFINE g == [i \in 0 .. n |-> IF i = n THEN ReplayStep(e[n - 1], s[n]) ELSE e[i]]
  <2>3. \A i \in 0 .. n - 1 : e[i] = IF i = 0 THEN d ELSE ReplayStep(e[i - 1], s[i])
    BY <2>2 DEF IsReplaying
  <2>4. \A i \in 0 .. n : g[i] = IF i = 0 THEN d ELSE ReplayStep(g[i - 1], s[i])
    BY <1>4, <2>1, <2>3
  <2>5. IsReplaying(g, n, d, s)
    <3> HIDE DEF g
    <3>1. g = [i \in 0 .. n |-> g[i]]
      BY DEF g
    <3>2. QED
      BY <3>1, <2>4 DEF IsReplaying
  <2>6. QED
    BY <2>5
<1>5. QED
  BY <1>3, <1>4

\* g is what the first lines give on d.
ReplaysLines(g, d, s) ==
  /\ g[0] = d
  /\ \A i \in 1 .. Len(s) : g[i] = ReplayStep(g[i - 1], s[i])

\* A replay is one line after another.
LEMMA ReplayedIs ==
  ASSUME NEW d, NEW s, Len(s) \in Nat
  PROVE  \E g : ReplaysLines(g, d, s) /\ Replayed(d, s) = g[Len(s)]
<1> DEFINE n == Len(s)
           g == CHOOSE g : IsReplaying(g, n, d, s)
<1>1. IsReplaying(g, n, d, s)
  BY ReplayingExists
<1>2. Replayed(d, s) = g[n]
  BY DEF Replayed, IsReplaying, ReplayStep
<1> HIDE DEF g
<1>3. \A i \in 0 .. n : g[i] = IF i = 0 THEN d ELSE ReplayStep(g[i - 1], s[i])
  BY <1>1 DEF IsReplaying
<1>4. QED
  BY <1>2, <1>3 DEF ReplaysLines

\* g goes on with the first n lines.
ReplaysTo(g, s, n) == \A i \in 1 .. n : g[i] = ReplayStep(g[i - 1], s[i])

\* Two such replays agree as far as the lines and the start do.
LEMMA ReplaysAgree ==
  ASSUME NEW n \in Nat, NEW g, NEW h, g[0] = h[0], NEW s, ReplaysTo(g, s, n), ReplaysTo(h, s, n)
  PROVE  g[n] = h[n]
<1> DEFINE Bad == {i \in 0 .. n : g[i] # h[i]}
<1>1. SUFFICES ASSUME Bad # {} PROVE FALSE
  OBVIOUS
<1>2. PICK i \in Bad : \A j \in Bad : i <= j
  <2>1. Bad \subseteq Nat
    OBVIOUS
  <2> HIDE DEF Bad
  <2>2. QED
    BY <1>1, <2>1, MinIsLeast
<1>3. i # 0
  BY <1>2
<1>4. i \in 1 .. n /\ i - 1 \in 0 .. n /\ i - 1 \notin Bad
  BY <1>2, <1>3
<1>5. g[i - 1] = h[i - 1]
  BY <1>4
<1>6. g[i] = h[i]
  BY <1>4, <1>5 DEF ReplaysTo
<1>7. QED
  BY <1>2, <1>6

\* No lines change nothing.
LEMMA ReplayedNothing ==
  ASSUME NEW d
  PROVE  Replayed(d, <<>>) = d
<1>1. PICK s : s = <<>>
  OBVIOUS
<1>2. Len(s) = 0
  BY <1>1
<1>3. PICK g : ReplaysLines(g, d, s) /\ Replayed(d, s) = g[Len(s)]
  BY <1>2, ReplayedIs
<1>4. QED
  BY <1>1, <1>2, <1>3 DEF ReplaysLines

\* One line more is executed on what the others gave.
LEMMA ReplayedOneMore ==
  ASSUME NEW S, NEW s \in Seq(S), NEW l, NEW d, NEW u, u = s \o <<l>>
  PROVE  Replayed(d, u) = ReplayStep(Replayed(d, s), l)
<1>1. PICK n \in Nat : n = Len(s)
  OBVIOUS
<1>2. Len(u) = n + 1 /\ (\A i \in 1 .. n : u[i] = s[i]) /\ u[n + 1] = l
  BY <1>1
<1>3. PICK g : ReplaysLines(g, d, s) /\ Replayed(d, s) = g[n]
  BY <1>1, ReplayedIs
<1>4. PICK h : ReplaysLines(h, d, u) /\ Replayed(d, u) = h[n + 1]
  <2>1. Len(u) \in Nat
    BY <1>2
  <2>2. QED
    BY <1>2, <2>1, ReplayedIs
<1>5. g[0] = h[0] /\ ReplaysTo(g, s, n)
  BY <1>1, <1>3, <1>4 DEF ReplaysLines, ReplaysTo
<1>6. ReplaysTo(h, s, n)
  BY <1>2, <1>4 DEF ReplaysLines, ReplaysTo
<1>7. g[n] = h[n]
  BY <1>5, <1>6, ReplaysAgree
<1>8. n + 1 \in 1 .. Len(u) /\ (n + 1) - 1 = n
  BY <1>2
<1>9. h[n + 1] = ReplayStep(h[n], l)
  BY <1>2, <1>4, <1>8 DEF ReplaysLines
<1>10. QED
  BY <1>3, <1>4, <1>7, <1>9

\* What is lost stays lost.
LEMMA LostStaysLost ==
  ASSUME NEW d, NEW s, Len(s) \in Nat, NEW g, ReplaysLines(g, d, s), NEW k \in 0 .. Len(s), g[k] = Lost
  PROVE  g[Len(s)] = Lost
<1> DEFINE Bad == {i \in k .. Len(s) : g[i] # Lost}
<1>1. SUFFICES ASSUME Bad # {} PROVE FALSE
  OBVIOUS
<1>2. PICK i \in Bad : \A j \in Bad : i <= j
  <2>1. Bad \subseteq Nat
    OBVIOUS
  <2> HIDE DEF Bad
  <2>2. QED
    BY <1>1, <2>1, MinIsLeast
<1>3. i # k
  BY <1>2
<1>4. i \in 1 .. Len(s) /\ i - 1 \in k .. Len(s) /\ i - 1 \notin Bad
  BY <1>2, <1>3
<1>5. g[i - 1] = Lost
  BY <1>4
<1>6. g[i] = ReplayStep(g[i - 1], s[i])
  BY <1>4 DEF ReplaysLines
<1>7. QED
  BY <1>2, <1>5, <1>6 DEF ReplayStep

\* The next line of a replay that comes to its end.
LEMMA ReplayedFirst ==
  ASSUME NEW S, NEW s \in Seq(S), s # <<>>, NEW d, Replayed(d, s) # Lost
  PROVE  /\ ~ExecuteThrows(d, Head(s))
         /\ Replayed(Execute(d, Head(s)), Tail(s)) = Replayed(d, s)
<1>1. PICK t \in Seq(S) : t = Tail(s)
  <2>1. s # <<>> => Tail(s) \in Seq(S)
    OBVIOUS
  <2>2. QED
    BY <2>1
<1>2. PICK n \in Nat : n = Len(t)
  OBVIOUS
<1>3. Len(s) = n + 1 /\ Head(s) = s[1] /\ \A i \in 1 .. n : t[i] = s[i + 1]
  BY <1>1, <1>2
<1>4. PICK g : ReplaysLines(g, d, s) /\ Replayed(d, s) = g[n + 1]
  BY <1>3, ReplayedIs
<1>5. 1 \in 1 .. Len(s) /\ 1 - 1 = 0
  BY <1>3
<1>6. g[1] = ReplayStep(d, Head(s))
  BY <1>3, <1>4, <1>5 DEF ReplaysLines
<1>7. g[1] # Lost
  <2>1. PICK k \in 0 .. Len(s) : k = 1
    BY <1>3
  <2>2. Len(s) \in Nat /\ g[Len(s)] # Lost
    BY <1>3, <1>4
  <2>3. g[k] # Lost
    BY <1>4, <2>2, LostStaysLost
  <2>4. QED
    BY <2>1, <2>3
<1>8. ~ExecuteThrows(d, Head(s)) /\ g[1] = Execute(d, Head(s))
  BY <1>6, <1>7 DEF ReplayStep
<1>9. PICK e : e = Execute(d, Head(s))
  OBVIOUS
<1>10. PICK h : ReplaysLines(h, e, t) /\ Replayed(e, t) = h[n]
  BY <1>2, ReplayedIs
<1> DEFINE f == [i \in 0 .. n |-> g[i + 1]]
<1>11. f[0] = h[0] /\ f[n] = g[n + 1]
  BY <1>8, <1>9, <1>10 DEF ReplaysLines
<1>12. ReplaysTo(h, t, n)
  BY <1>2, <1>10 DEF ReplaysLines, ReplaysTo
<1>13. ASSUME NEW i \in 1 .. n
       PROVE  f[i] = ReplayStep(f[i - 1], t[i])
  <2>1. i + 1 \in 1 .. Len(s) /\ (i + 1) - 1 = i
    BY <1>3
  <2>2. g[i + 1] = ReplayStep(g[i], s[i + 1])
    BY <1>4, <2>1 DEF ReplaysLines
  <2>3. f[i] = g[i + 1] /\ f[i - 1] = g[i]
    <3>1. i \in 0 .. n /\ i - 1 \in 0 .. n /\ (i - 1) + 1 = i
      OBVIOUS
    <3>2. QED
      BY <3>1
  <2>4. QED
    BY <1>3, <2>2, <2>3
<1> HIDE DEF f
<1>14. f[n] = h[n]
  <2>1. ReplaysTo(f, t, n)
    BY <1>13 DEF ReplaysTo
  <2>2. QED
    BY <1>11, <1>12, <2>1, ReplaysAgree
<1>15. Replayed(e, t) = Replayed(d, s)
  BY <1>4, <1>10, <1>11, <1>14
<1>16. QED
  BY <1>1, <1>8, <1>9, <1>15
-----------------------------------------------------------------------------
(***************************************************************************)
(* Loading a file part by part.                                            *)
(***************************************************************************)
LoadsTo(g, f, n) == \A i \in 1 .. n : g[i] = LoadField(g[i - 1], f[i])

\* From the same state the same fields load the same.
LEMMA LoadsAgree ==
  ASSUME NEW n \in Nat, NEW g, NEW h, g[0] = h[0], NEW f, LoadsTo(g, f, n), LoadsTo(h, f, n)
  PROVE  g[n] = h[n]
<1> DEFINE Bad == {i \in 0 .. n : g[i] # h[i]}
<1>1. SUFFICES ASSUME Bad # {} PROVE FALSE
  OBVIOUS
<1>2. PICK i \in Bad : \A j \in Bad : i <= j
  <2>1. Bad \subseteq Nat
    OBVIOUS
  <2> HIDE DEF Bad
  <2>2. QED
    BY <1>1, <2>1, MinIsLeast
<1>3. i # 0
  BY <1>2
<1>4. i \in 1 .. n /\ i - 1 \in 0 .. n /\ i - 1 \notin Bad
  BY <1>2, <1>3
<1>5. g[i - 1] = h[i - 1]
  BY <1>4
<1>6. g[i] = h[i]
  BY <1>4, <1>5 DEF LoadsTo
<1>7. QED
  BY <1>2, <1>6

\* No fields change nothing.
LEMMA LoadNothing ==
  ASSUME NEW r
  PROVE  LoadFields(r, <<>>) = r
<1>1. PICK f : f = <<>>
  OBVIOUS
<1>2. Len(f) = 0
  BY <1>1
<1>3. PICK g : Reads(g, r, f) /\ LoadFields(r, f) = g[Len(f)]
  BY <1>2, LoadFieldsReads
<1>4. QED
  BY <1>1, <1>2, <1>3 DEF Reads

\* A field on its own.
LEMMA LoadOne ==
  ASSUME NEW r, NEW x
  PROVE  LoadFields(r, <<x>>) = LoadField(r, x)
<1>1. PICK f : f = <<x>>
  OBVIOUS
<1>2. Len(f) = 1 /\ f[1] = x
  BY <1>1
<1>3. PICK g : Reads(g, r, f) /\ LoadFields(r, f) = g[Len(f)]
  BY <1>2, LoadFieldsReads
<1>4. g[1] = LoadField(g[0], f[1])
  <2>1. 1 \in 1 .. Len(f) /\ 1 - 1 = 0
    BY <1>2
  <2>2. QED
    BY <1>3, <2>1 DEF Reads
<1>5. QED
  BY <1>1, <1>2, <1>3, <1>4 DEF Reads

\* Two parts of a file are loaded one after the other,
LEMMA LoadSplit ==
  ASSUME NEW S, NEW a \in Seq(S), NEW b \in Seq(S)
  PROVE  \A r : LoadFields(r, a \o b) = LoadFields(LoadFields(r, a), b)
<1> TAKE r
<1>0. PICK c : c = a \o b
  OBVIOUS
<1>1. PICK m \in Nat, n \in Nat : m = Len(a) /\ n = Len(b)
  OBVIOUS
<1>2. Len(c) = m + n /\ (\A i \in 1 .. m : c[i] = a[i]) /\ (\A i \in 1 .. n : c[m + i] = b[i])
  BY <1>0, <1>1
<1>3. Len(c) \in Nat /\ Len(a) \in Nat /\ Len(b) \in Nat
  BY <1>1, <1>2
<1>4. PICK g : Reads(g, r, a) /\ LoadFields(r, a) = g[m]
  BY <1>1, <1>3, LoadFieldsReads
<1>5. PICK s : s = LoadFields(r, a)
  OBVIOUS
<1>6. PICK h : Reads(h, s, b) /\ LoadFields(s, b) = h[n]
  BY <1>1, <1>3, LoadFieldsReads
<1>7. PICK k : Reads(k, r, c) /\ LoadFields(r, c) = k[m + n]
  <2>1. PICK k : Reads(k, r, c) /\ LoadFields(r, c) = k[Len(c)]
    BY <1>3, LoadFieldsReads
  <2>2. LoadFields(r, c) = k[m + n]
    BY <1>2, <2>1
  <2>3. QED
    BY <2>1, <2>2
<1>8. k[m] = s
  <2>1. LoadsTo(g, a, m)
    BY <1>1, <1>4 DEF Reads, LoadsTo
  <2>2. LoadsTo(k, a, m)
    <3>1. SUFFICES ASSUME NEW i \in 1 .. m
                   PROVE  k[i] = LoadField(k[i - 1], a[i])
      BY DEF LoadsTo
    <3>2. i \in 1 .. Len(c)
      BY <1>2
    <3>3. k[i] = LoadField(k[i - 1], c[i])
      BY <1>7, <3>2 DEF Reads
    <3>4. QED
      BY <1>2, <3>3
  <2>3. k[0] = g[0]
    BY <1>4, <1>7 DEF Reads
  <2>4. k[m] = g[m]
    BY <2>1, <2>2, <2>3, LoadsAgree
  <2>5. QED
    BY <1>4, <1>5, <2>4
<1> DEFINE f == [i \in 0 .. n |-> k[m + i]]
<1>9. f[0] = h[0] /\ f[n] = k[m + n]
  <2>1. m + 0 = m /\ 0 \in 0 .. n /\ n \in 0 .. n
    OBVIOUS
  <2>2. QED
    BY <2>1, <1>6, <1>8 DEF Reads
<1>10. LoadsTo(h, b, n)
  BY <1>1, <1>6 DEF Reads, LoadsTo
<1>11. ASSUME NEW i \in 1 .. n
       PROVE  f[i] = LoadField(f[i - 1], b[i])
  <2>1. m + i \in 1 .. Len(c) /\ (m + i) - 1 = m + (i - 1)
    BY <1>2
  <2>2. k[m + i] = LoadField(k[m + (i - 1)], c[m + i])
    BY <1>7, <2>1 DEF Reads
  <2>3. i \in 0 .. n /\ i - 1 \in 0 .. n
    OBVIOUS
  <2>4. QED
    BY <1>2, <2>2, <2>3
<1> HIDE DEF f
<1>12. LoadsTo(f, b, n)
  BY <1>11 DEF LoadsTo
<1>13. f[n] = h[n]
  BY <1>9, <1>10, <1>12, LoadsAgree
<1>14. QED
  BY <1>0, <1>5, <1>6, <1>7, <1>9, <1>13

\* What load has after each part of a file.
LoadsParts(g, r, ss) ==
  /\ g[0] = r
  /\ LoadFields(r, FlattenSeq(ss)) = g[Len(ss)]
  /\ \A i \in 1 .. Len(ss) : g[i] = LoadFields(g[i - 1], ss[i])

\* and so are any number of them.
LEMMA LoadParts ==
  ASSUME NEW T, NEW ss \in Seq(T), NEW S, \A i \in 1 .. Len(ss) : ss[i] \in Seq(S), NEW r
  PROVE  \E g : LoadsParts(g, r, ss)
<1>1. PICK f : IsBuildUp(f, ss, S)
  BY FlattenParts
<1>2. PICK n \in Nat : n = Len(ss)
  OBVIOUS
<1> DEFINE g == [i \in 0 .. n |-> LoadFields(r, f[i])]
<1>3. g[0] = r
  <2>1. f[0] = <<>>
    BY <1>1 DEF IsBuildUp
  <2>2. g[0] = LoadFields(r, f[0])
    OBVIOUS
  <2>3. QED
    BY <2>1, <2>2, LoadNothing
<1>4. LoadFields(r, FlattenSeq(ss)) = g[n]
  BY <1>1, <1>2 DEF IsBuildUp
<1>5. ASSUME NEW i \in 1 .. n
      PROVE  g[i] = LoadFields(g[i - 1], ss[i])
  <2>1. i \in 0 .. n /\ i - 1 \in 0 .. n
    OBVIOUS
  <2>2. f[i - 1] \in Seq(S) /\ ss[i] \in Seq(S) /\ f[i] = f[i - 1] \o ss[i]
    BY <1>1, <1>2, <2>1 DEF IsBuildUp
  <2>3. LoadFields(r, f[i]) = LoadFields(LoadFields(r, f[i - 1]), ss[i])
    <3>1. PICK a \in Seq(S) : a = f[i - 1]
      BY <2>2
    <3>2. PICK b \in Seq(S) : b = ss[i]
      BY <2>2
    <3>3. LoadFields(r, a \o b) = LoadFields(LoadFields(r, a), b)
      BY LoadSplit
    <3>4. QED
      BY <2>2, <3>1, <3>2, <3>3
  <2>4. QED
    BY <2>1, <2>3
<1> HIDE DEF g
<1>6. QED
  BY <1>2, <1>3, <1>4, <1>5 DEF LoadsParts

\* A sequence of one.
LEMMA Single ==
  ASSUME NEW S, NEW x \in S
  PROVE  <<x>> \in Seq(S)
OBVIOUS

\* Two sequences as one.
LEMMA Joined ==
  ASSUME NEW S, NEW a \in Seq(S), NEW b \in Seq(S)
  PROVE  a \o b \in Seq(S)
OBVIOUS
-----------------------------------------------------------------------------
\* Two fields as a sequence.
LEMMA Pairwise ==
  ASSUME NEW a, NEW b
  PROVE  <<a>> \o <<b>> = <<a, b>>
<1> DEFINE S == {a, b}
<1>1. <<a>> \in Seq(S) /\ <<b>> \in Seq(S) /\ <<a, b>> \in Seq(S)
  OBVIOUS
<1>2. PICK s : s = <<a>> \o <<b>>
  OBVIOUS
<1>3. s \in Seq(S) /\ Len(s) = 2 /\ s[1] = a /\ s[2] = b
  BY <1>2
<1>4. PICK t : t = <<a, b>>
  OBVIOUS
<1>5. t \in Seq(S) /\ Len(t) = 2 /\ t[1] = a /\ t[2] = b
  BY <1>4
<1> HIDE DEF S
<1>6. s = t
  BY <1>3, <1>5, SeqEqual
<1>7. QED
  BY <1>2, <1>4, <1>6

\* Two fields are loaded one after the other,
LEMMA LoadTwo ==
  ASSUME NEW r, NEW a, NEW b
  PROVE  LoadFields(r, <<a, b>>) = LoadField(LoadField(r, a), b)
<1> DEFINE S == {a, b}
<1>1. <<a>> \in Seq(S) /\ <<b>> \in Seq(S)
  OBVIOUS
<1> HIDE DEF S
<1>2. PICK x \in Seq(S) : x = <<a>>
  BY <1>1
<1>3. PICK y \in Seq(S) : y = <<b>>
  BY <1>1
<1>4. LoadFields(r, x \o y) = LoadFields(LoadFields(r, x), y)
  BY LoadSplit
<1>5. PICK q : q = LoadField(r, a)
  OBVIOUS
<1>6. LoadFields(r, x) = q /\ LoadFields(q, y) = LoadField(q, b)
  BY <1>2, <1>3, <1>5, LoadOne
<1>7. x \o y = <<a, b>>
  BY <1>2, <1>3, Pairwise
<1>8. QED
  BY <1>4, <1>5, <1>6, <1>7

\* and three.
LEMMA LoadThree ==
  ASSUME NEW r, NEW a, NEW b, NEW c
  PROVE  LoadFields(r, <<a, b, c>>) = LoadField(LoadField(LoadField(r, a), b), c)
<1> DEFINE S == {a, b, c}
<1>1. <<a, b>> \in Seq(S) /\ <<c>> \in Seq(S)
  OBVIOUS
<1> HIDE DEF S
<1>2. PICK x \in Seq(S) : x = <<a, b>>
  BY <1>1
<1>3. PICK y \in Seq(S) : y = <<c>>
  BY <1>1
<1>4. LoadFields(r, x \o y) = LoadFields(LoadFields(r, x), y)
  BY LoadSplit
<1>5. PICK q : q = LoadField(LoadField(r, a), b)
  OBVIOUS
<1>6. LoadFields(r, x) = q
  BY <1>2, <1>5, LoadTwo
<1>7. LoadFields(q, y) = LoadField(q, c)
  BY <1>3, LoadOne
<1>8. x \o y = <<a, b, c>>
  BY <1>2, <1>3, Three
<1>9. QED
  BY <1>4, <1>5, <1>6, <1>7, <1>8
-----------------------------------------------------------------------------
(***************************************************************************)
(* Loading a member.                                                       *)
(***************************************************************************)
\* The loader is about to read a member of a document with members m.
Between(o, m) == o \in ReaderRecord(m, "type", o.type, o.name)

\* The loader is in a document with members m of collection c.
InMember(r, d, c, m) == r \in LoaderRecord(d, "member", c, r.object) /\ Between(r.object, m)

\* A field of a member changes what is read of the document.
LEMMA MemberField ==
  ASSUME NEW r, NEW d, NEW c, NEW q, r \in LoaderRecord(d, "member", c, q), NEW x,
         NEW o, o = ReadField(q, x), o.expects # "nothing", NEW u, u = LoadField(r, x)
  PROVE  u \in LoaderRecord(d, "member", c, o) /\ u.object = o
<1>1. r.reads = "member" /\ r.object = q
  BY LoaderParts
<1>2. u = [r EXCEPT !.object = o]
  BY <1>1 DEF LoadField
<1>3. u \in LoaderRecord(d, "member", c, o)
  BY <1>2 DEF LoaderRecord
<1>4. QED
  BY <1>3, LoaderParts

\* A value that has been read is a member of the document.
LEMMA InsertedIs ==
  ASSUME NEW o, NEW m, NEW e, NEW type, NEW z, o \in ReaderRecord(m, e, type, z), NEW name, name \notin DOMAIN m,
         NEW n, NEW u, u = Inserted(o, name, n)
  PROVE  Between(u, With(m, name, ScalarRead(type, n))) /\ u.expects = "type"
<1>1. o.members = m /\ o.expects = e /\ o.type = type /\ o.name = z
  BY ReaderParts
<1>2. PICK w : w = With(m, name, ScalarRead(type, n))
  OBVIOUS
<1>3. u = [o EXCEPT !.members = w, !.expects = "type"]
  BY <1>1, <1>2 DEF Inserted
<1>4. u \in ReaderRecord(w, "type", type, z)
  BY <1>3 DEF ReaderRecord
<1>5. u.type = type /\ u.name = z /\ u.expects = "type"
  BY <1>4, ReaderParts
<1>6. QED
  BY <1>2, <1>4, <1>5 DEF Between

\* A type byte makes a reader expect a name,
LEMMA TypeIsRead ==
  ASSUME NEW o, NEW m, Between(o, m), NEW type \in FlatTypes, NEW u, u = ReadField(o, Byte(type))
  PROVE  u \in ReaderRecord(m, "name", type, o.name)
<1>1. o.expects = "type"
  BY ReaderParts DEF Between
<1>2. Byte(type) # Zero /\ Byte(type).v = type
  BY DEF Byte, Zero, FlatTypes, NumericTypes
<1>3. u = [o EXCEPT !.type = type, !.expects = "name"]
  BY <1>1, <1>2 DEF ReadField
<1>4. QED
  BY <1>3 DEF Between, ReaderRecord

\* and a name a value.
LEMMA NameIsRead ==
  ASSUME NEW o, NEW m, NEW type, NEW z, o \in ReaderRecord(m, "name", type, z), type # "null", NEW name,
         NEW u, u = ReadField(o, Name(name))
  PROVE  u \in ReaderRecord(m, "scalar", type, name)
<1>1. o.expects = "name" /\ o.type = type
  BY ReaderParts
<1>2. Name(name).v = name
  BY DEF Name
<1>3. u = [o EXCEPT !.name = name, !.expects = "scalar"]
  BY <1>1, <1>2 DEF ReadField
<1>4. QED
  BY <1>3 DEF ReaderRecord

\* A member that is written is read as it was, value and type.
LEMMA MemberLoads ==
  ASSUME NEW r, NEW d, NEW c, NEW m, InMember(r, d, c, m), NEW name, name \notin DOMAIN m,
         NEW v, v \in Values, v.type \in FlatTypes, v.type = "null" => v.n = 0,
         NEW u, u = LoadFields(r, EncodeMember(name, v))
  PROVE  InMember(u, d, c, With(m, name, v))
<1>1. PICK type \in FlatTypes : type = v.type
  OBVIOUS
<1>2. PICK o : o = r.object
  OBVIOUS
<1>3. r \in LoaderRecord(d, "member", c, o) /\ Between(o, m)
  BY <1>2 DEF InMember
<1>4. PICK a : a = LoadField(r, Byte(type))
  OBVIOUS
<1>5. PICK oa : oa = ReadField(o, Byte(type))
  OBVIOUS
<1>6. oa \in ReaderRecord(m, "name", type, o.name)
  BY <1>3, <1>5, TypeIsRead
<1>7. oa.expects = "name" /\ oa.type = type
  BY <1>6, ReaderParts
<1>8. a \in LoaderRecord(d, "member", c, oa) /\ a.object = oa
  BY <1>3, <1>4, <1>5, <1>7, MemberField
<1>9. PICK b : b = LoadField(a, Name(name))
  OBVIOUS
<1>10. PICK ob : ob = ReadField(oa, Name(name))
  OBVIOUS
<1>11. v = [type |-> v.type, n |-> v.n]
  BY DEF Values
<1>12. v = ScalarRead(type, v.n)
  BY <1>1, <1>11 DEF ScalarRead
<1>13. CASE type = "null"
  <2>1. EncodeMember(name, v) = <<Byte(type), Name(name)>>
    BY <1>1, <1>13 DEF EncodeMember
  <2>2. u = b
    BY <1>4, <1>9, <2>1, LoadTwo
  <2>3. ob = Inserted(oa, name, 0)
    BY <1>7, <1>10, <1>13 DEF ReadField, Name
  <2>4. Between(ob, With(m, name, ScalarRead(type, 0))) /\ ob.expects = "type"
    BY <1>6, <2>3, InsertedIs
  <2>5. b \in LoaderRecord(d, "member", c, ob) /\ b.object = ob
    BY <1>8, <1>9, <1>10, <2>4, MemberField
  <2>6. ScalarRead(type, 0) = v
    BY <1>1, <1>12, <1>13
  <2>7. QED
    BY <2>2, <2>4, <2>5, <2>6 DEF InMember
<1>14. CASE type # "null"
  <2>1. EncodeMember(name, v) = <<Byte(type), Name(name)>> \o <<Scalar(v.n)>>
    BY <1>1, <1>14 DEF EncodeMember
  <2>2. EncodeMember(name, v) = <<Byte(type), Name(name), Scalar(v.n)>>
    BY <2>1, Three
  <2>3. PICK s : s = Scalar(v.n)
    OBVIOUS
  <2>4. u = LoadField(b, s)
    BY <1>4, <1>9, <2>2, <2>3, LoadThree
  <2>5. ob \in ReaderRecord(m, "scalar", type, name)
    BY <1>6, <1>10, <1>14, NameIsRead
  <2>6. ob.expects = "scalar" /\ ob.name = name
    BY <2>5, ReaderParts
  <2>7. b \in LoaderRecord(d, "member", c, ob) /\ b.object = ob
    BY <1>8, <1>9, <1>10, <2>6, MemberField
  <2>8. PICK oc : oc = ReadField(ob, s)
    OBVIOUS
  <2>9. oc = Inserted(ob, name, v.n)
    BY <2>3, <2>6, <2>8 DEF ReadField, Scalar
  <2>10. Between(oc, With(m, name, ScalarRead(type, v.n))) /\ oc.expects = "type"
    BY <2>5, <2>9, InsertedIs
  <2>11. u \in LoaderRecord(d, "member", c, oc) /\ u.object = oc
    BY <2>4, <2>7, <2>8, <2>10, MemberField
  <2>12. QED
    BY <1>12, <2>10, <2>11 DEF InMember
<1>15. QED
  BY <1>13, <1>14
-----------------------------------------------------------------------------
(***************************************************************************)
(* Loading a document.                                                     *)
(***************************************************************************)
\* The members of d whose names are among the first n.
MembersTo(d, n) == [x \in {NameOrder[j] : j \in 1 .. n} \cap DOMAIN d |-> d[x]]

\* Before any name nothing is written,
LEMMA MembersToNone ==
  ASSUME NEW d
  PROVE  MembersTo(d, 0) = <<>>
BY DEF MembersTo

\* after all of them the document,
LEMMA MembersToAll ==
  ASSUME NEW d, IsDocument(d)
  PROVE  MembersTo(d, Len(NameOrder)) = d
<1>1. DOMAIN d \subseteq Names /\ d = [x \in DOMAIN d |-> d[x]]
  BY DEF IsDocument
<1>2. Names \subseteq Range(NameOrder)
  BY DatabaseAssumption
<1>3. Range(NameOrder) = {NameOrder[j] : j \in 1 .. Len(NameOrder)}
  BY NameOrderIsSeq DEF Range
<1>4. {NameOrder[j] : j \in 1 .. Len(NameOrder)} \cap DOMAIN d = DOMAIN d
  BY <1>1, <1>2, <1>3
<1>5. QED
  BY <1>1, <1>4 DEF MembersTo

\* and with each name its member.
LEMMA MembersToNext ==
  ASSUME NEW d, NEW n \in 1 .. Len(NameOrder), NEW name, name = NameOrder[n]
  PROVE  IF name \in DOMAIN d
         THEN /\ name \notin DOMAIN MembersTo(d, n - 1)
              /\ MembersTo(d, n) = With(MembersTo(d, n - 1), name, d[name])
         ELSE MembersTo(d, n) = MembersTo(d, n - 1)
<1>1. n \in Nat /\ n - 1 \in Nat
  BY NameOrderIsSeq
<1>2. \A j \in 1 .. n - 1 : NameOrder[j] # name
  <2>1. IsInjective(NameOrder)
    BY DatabaseAssumption
  <2>2. QED
    BY <2>1, <1>1, NameOrderIsSeq DEF IsInjective
<1>3. {NameOrder[j] : j \in 1 .. n} = {NameOrder[j] : j \in 1 .. n - 1} \cup {name}
  <2>1. \A j \in 1 .. n : j \in 1 .. n - 1 \/ j = n
    BY <1>1
  <2>2. \A j \in 1 .. n - 1 : j \in 1 .. n
    BY <1>1
  <2>3. n \in 1 .. n
    BY <1>1
  <2>4. QED
    BY <2>1, <2>2, <2>3
<1>4. PICK A : A = {NameOrder[j] : j \in 1 .. n - 1}
  OBVIOUS
<1>5. name \notin A
  BY <1>2, <1>4
<1>6. MembersTo(d, n - 1) = [x \in A \cap DOMAIN d |-> d[x]]
  BY <1>4 DEF MembersTo
<1>7. MembersTo(d, n) = [x \in (A \cup {name}) \cap DOMAIN d |-> d[x]]
  BY <1>3, <1>4 DEF MembersTo
<1>8. CASE name \in DOMAIN d
  <2>1. (A \cup {name}) \cap DOMAIN d = (A \cap DOMAIN d) \cup {name}
    BY <1>8
  <2>2. QED
    BY <1>5, <1>6, <1>7, <1>8, <2>1 DEF With
<1>9. CASE name \notin DOMAIN d
  <2>1. (A \cup {name}) \cap DOMAIN d = A \cap DOMAIN d
    BY <1>9
  <2>2. QED
    BY <1>6, <1>7, <1>9, <2>1
<1>10. QED
  BY <1>8, <1>9

\* A document that can be written and read.
Storable(x) == IsDocument(x) /\ \A f \in DOMAIN x : PlainValue(x[f])

\* A document that can be stored has no objects in it.
LEMMA StorableIsFlat ==
  ASSUME NEW x, Storable(x)
  PROVE  FlatDoc(x) /\ \A f \in DOMAIN x : /\ x[f] \in Values /\ x[f].type \in FlatTypes
                                           /\ x[f].type = "null" => x[f].n = 0
BY DEF Storable, PlainValue, FlatDoc, FlatTypes, Values

\* The members that are written are read as the document they were of.
LEMMA MembersLoad ==
  ASSUME NEW r, NEW d, NEW c, InMember(r, d, c, <<>>), NEW x, Storable(x),
         NEW u, u = LoadFields(r, FlattenSeq(EncodedMembers(x)))
  PROVE  InMember(u, d, c, x)
<1>1. PICK ss : ss = EncodedMembers(x)
  OBVIOUS
<1>2. FlatDoc(x) /\ IsDocument(x)
  BY StorableIsFlat DEF Storable
<1>3. PICK n \in Nat : n = Len(NameOrder)
  BY NameOrderIsSeq
<1>4. ss \in Seq(Seq(FileFields)) /\ Len(ss) = n /\ \A i \in 1 .. Len(ss) : ss[i] \in Seq(FileFields)
  BY <1>1, <1>2, <1>3, EncodedMembersPass
<1>5. PICK g : LoadsParts(g, r, ss)
  BY <1>4, LoadParts
<1>6. ASSUME NEW i \in 1 .. n, InMember(g[i - 1], d, c, MembersTo(x, i - 1))
      PROVE  InMember(g[i], d, c, MembersTo(x, i))
  <2>1. PICK name : name = NameOrder[i]
    OBVIOUS
  <2>2. g[i] = LoadFields(g[i - 1], ss[i])
    BY <1>4, <1>5 DEF LoadsParts
  <2>3. i \in DOMAIN NameOrder /\ i \in 1 .. Len(NameOrder)
    BY <1>3, NameOrderIsSeq
  <2>4. ss[i] = IF name \in DOMAIN x THEN EncodeMember(name, x[name]) ELSE <<>>
    BY <1>1, <2>1, <2>3 DEF EncodedMembers
  <2>5. PICK m : m = MembersTo(x, i - 1)
    OBVIOUS
  <2>6. CASE name \in DOMAIN x
    <3>1. PICK v : v = x[name]
      OBVIOUS
    <3>2. v \in Values /\ v.type \in FlatTypes /\ (v.type = "null" => v.n = 0)
      BY <2>6, <3>1, StorableIsFlat
    <3>3. name \notin DOMAIN m /\ MembersTo(x, i) = With(m, name, v)
      BY <2>1, <2>3, <2>5, <2>6, <3>1, MembersToNext
    <3>4. PICK p : p = g[i - 1]
      OBVIOUS
    <3>5. PICK q : q = g[i]
      OBVIOUS
    <3>6. InMember(p, d, c, m) /\ q = LoadFields(p, EncodeMember(name, v))
      BY <1>6, <2>2, <2>4, <2>5, <2>6, <3>1, <3>4, <3>5
    <3>7. InMember(q, d, c, With(m, name, v))
      BY <3>2, <3>3, <3>6, MemberLoads
    <3>8. QED
      BY <3>3, <3>5, <3>7
  <2>7. CASE name \notin DOMAIN x
    <3>1. MembersTo(x, i) = m
      BY <2>1, <2>3, <2>5, <2>7, MembersToNext
    <3>2. g[i] = g[i - 1]
      BY <2>2, <2>4, <2>7, LoadNothing
    <3>3. QED
      BY <1>6, <2>5, <3>1, <3>2
  <2>8. QED
    BY <2>6, <2>7
<1> DEFINE Bad == {i \in 0 .. n : ~InMember(g[i], d, c, MembersTo(x, i))}
<1>7. Bad = {}
  <2>1. SUFFICES ASSUME Bad # {} PROVE FALSE
    OBVIOUS
  <2>2. PICK i \in Bad : \A j \in Bad : i <= j
    <3>1. Bad \subseteq Nat
      OBVIOUS
    <3> HIDE DEF Bad
    <3>2. QED
      BY <2>1, <3>1, MinIsLeast
  <2>3. i # 0
    BY <1>5, <2>2, MembersToNone DEF LoadsParts
  <2>4. i \in 1 .. n /\ i - 1 \in 0 .. n /\ i - 1 \notin Bad
    BY <1>3, <2>2, <2>3
  <2>5. QED
    BY <1>6, <2>2, <2>4
<1>8. InMember(g[n], d, c, MembersTo(x, n))
  BY <1>3, <1>7
<1>9. MembersTo(x, n) = x
  BY <1>2, <1>3, MembersToAll
<1>10. QED
  BY <1>1, <1>4, <1>5, <1>8, <1>9 DEF LoadsParts

\* The loader is between two documents of collection c.
InObjects(r, d, c) == r \in LoaderRecord(d, "object", c, r.object)

\* A zero byte ends a document, which is appended.
LEMMA ObjectEnds ==
  ASSUME NEW r, NEW d, NEW c, NEW x, InMember(r, d, c, x), NEW u, u = LoadField(r, Zero)
  PROVE  InObjects(u, Loaded(d, c, x), c)
<1>1. PICK q : q = r.object
  OBVIOUS
<1>2. r \in LoaderRecord(d, "member", c, q) /\ Between(q, x)
  BY <1>1 DEF InMember
<1>3. r.reads = "member" /\ r.object = q /\ r.db = d /\ r.name = c
  BY <1>2, LoaderParts
<1>4. q.expects = "type"
  BY <1>2, ReaderParts DEF Between
<1>5. PICK o : o = ReadField(q, Zero)
  OBVIOUS
<1>6. o = [q EXCEPT !.expects = "nothing"]
  BY <1>4, <1>5 DEF ReadField
<1>7. o \in ReaderRecord(x, "nothing", q.type, q.name)
  BY <1>2, <1>6 DEF Between, ReaderRecord
<1>8. o.expects = "nothing" /\ o.members = x
  BY <1>7, ReaderParts
<1>9. PICK e : e = Loaded(d, c, x)
  OBVIOUS
<1>10. u = [r EXCEPT !.db = e, !.reads = "object"]
  BY <1>3, <1>5, <1>8, <1>9 DEF LoadField
<1>11. u \in LoaderRecord(e, "object", c, q)
  BY <1>2, <1>10 DEF LoaderRecord
<1>12. u.object = q
  BY <1>11, LoaderParts
<1>13. QED
  BY <1>9, <1>11, <1>12 DEF InObjects

\* A type byte begins one.
LEMMA ObjectBegins ==
  ASSUME NEW r, NEW d, NEW c, InObjects(r, d, c), NEW u, u = LoadField(r, Byte("object"))
  PROVE  InMember(u, d, c, <<>>)
<1>1. r \in LoaderRecord(d, "object", c, r.object)
  BY DEF InObjects
<1>2. r.reads = "object"
  BY <1>1, LoaderParts
<1>3. PICK o : o = Unread
  OBVIOUS
<1>4. u = [r EXCEPT !.object = o, !.reads = "member"]
  BY <1>2, <1>3 DEF LoadField
<1>5. u \in LoaderRecord(d, "member", c, o)
  BY <1>1, <1>4 DEF LoaderRecord
<1>6. u.object = o
  BY <1>5, LoaderParts
<1>7. o \in ReaderRecord(<<>>, "type", "invalid", Garbled)
  BY <1>3 DEF Unread, ReaderRecord
<1>8. Between(o, <<>>)
  <2>1. PICK m : m = <<>>
    OBVIOUS
  <2>2. o.type = "invalid" /\ o.name = Garbled
    BY <1>7, ReaderParts
  <2>3. QED
    BY <1>7, <2>2 DEF Between
<1>9. QED
  BY <1>5, <1>6, <1>8 DEF InMember

\* So a document that is written is appended as it was.
LEMMA DocumentLoads ==
  ASSUME NEW r, NEW d, NEW c, InObjects(r, d, c), NEW x, Storable(x), NEW u, u = LoadFields(r, DocumentField(x))
  PROVE  InObjects(u, Loaded(d, c, x), c)
<1>1. FlatDoc(x)
  BY StorableIsFlat
<1>2. PICK a \in Seq(FileFields) : a = <<Byte("object")>>
  BY ZeroIsField, Single
<1>3. PICK f \in Seq(FileFields) : f = FlattenSeq(EncodedMembers(x))
  <2>1. PICK ss : ss = EncodedMembers(x)
    OBVIOUS
  <2>2. ss \in Seq(Seq(FileFields)) /\ \A i \in 1 .. Len(ss) : ss[i] \in Seq(FileFields) /\ Passes("type", ss[i], "type")
    BY <1>1, <2>1, EncodedMembersPass
  <2>3. FlattenSeq(ss) \in Seq(FileFields)
    BY <2>2, PassesAll
  <2>4. QED
    BY <2>1, <2>3
<1>4. PICK z \in Seq(FileFields) : z = <<Zero>>
  BY ZeroIsField, Single
<1>5. PICK e \in Seq(FileFields) : e = f \o z
  BY Joined
<1>6. Encode(x) = e
  BY <1>3, <1>4, <1>5 DEF Encode, EncodedMembers
<1>7. DocumentField(x) = a \o e
  BY <1>2, <1>6 DEF DocumentField
<1>8. PICK p : p = LoadFields(r, a)
  OBVIOUS
<1>9. InMember(p, d, c, <<>>)
  BY <1>2, <1>8, LoadOne, ObjectBegins
<1>10. PICK q : q = LoadFields(p, f)
  OBVIOUS
<1>11. InMember(q, d, c, x)
  BY <1>3, <1>9, <1>10, MembersLoad
<1>12. LoadFields(r, a \o e) = LoadFields(p, e)
  BY <1>8, LoadSplit
<1>13. LoadFields(p, f \o z) = LoadFields(q, z)
  BY <1>10, LoadSplit
<1>14. u = LoadFields(q, z)
  BY <1>5, <1>7, <1>12, <1>13
<1>15. u = LoadField(q, Zero)
  BY <1>4, <1>14, LoadOne
<1>16. QED
  BY <1>11, <1>15, ObjectEnds
-----------------------------------------------------------------------------
(***************************************************************************)
(* Loading a collection.                                                   *)
(***************************************************************************)
FirstRows(t, n) == {View(t)[p] : p \in 1 .. n}

\* The rows of the first nodes, node by node.
LEMMA FirstRowsAre ==
  ASSUME NEW t, NEW K, Sound(t, K)
  PROVE  /\ FirstRows(t, 0) = {}
         /\ FirstRows(t, Len(t.nodes)) = RowsOf(t.docs)
         /\ \A n \in 1 .. Len(t.nodes) : FirstRows(t, n) = FirstRows(t, n - 1) \cup {View(t)[n]}
         /\ \A n \in 0 .. Len(t.nodes) : FirstRows(t, n) \in SUBSET RowsOf(t.docs)
<1>1. Len(t.nodes) \in Nat /\ \A p \in 1 .. Len(t.nodes) : View(t)[p] \in RowsOf(t.docs)
  BY ViewIs
<1>2. \A x \in RowsOf(t.docs) : \E p \in 1 .. Len(t.nodes) : View(t)[p] = x
  BY RowPlace
<1>3. FirstRows(t, 0) = {}
  BY DEF FirstRows
<1>4. FirstRows(t, Len(t.nodes)) = RowsOf(t.docs)
  BY <1>1, <1>2 DEF FirstRows
<1>5. ASSUME NEW n \in 1 .. Len(t.nodes)
      PROVE  FirstRows(t, n) = FirstRows(t, n - 1) \cup {View(t)[n]}
  <2>1. n \in 1 .. n /\ (\A p \in 1 .. n : p \in 1 .. n - 1 \/ p = n) /\ \A p \in 1 .. n - 1 : p \in 1 .. n
    BY <1>1
  <2>2. QED
    BY <2>1 DEF FirstRows
<1>6. ASSUME NEW n \in 0 .. Len(t.nodes)
      PROVE  FirstRows(t, n) \in SUBSET RowsOf(t.docs)
  <2>1. \A p \in 1 .. n : p \in 1 .. Len(t.nodes)
    BY <1>1
  <2>2. QED
    BY <1>1, <2>1 DEF FirstRows
<1>7. QED
  BY <1>3, <1>4, <1>5, <1>6

\* A document of the database can be stored.
LEMMA StoredIsStorable ==
  ASSUME NEW K, NEW x, PlainDoc(x, K)
  PROVE  Storable(x)
BY DEF PlainDoc, Storable

\* The loader has the first n documents of t in collection c of e, which had none.
HasFirst(r, e, c, t, n, d) ==
  /\ InObjects(r, e, c)
  /\ GoodDb(e) /\ BareDb(e)
  /\ \A m : RowsIn(e, m) = IF m = c THEN FirstRows(t, n) ELSE RowsIn(d, m)

\* load appends the next document behind those it has, with its "_id".
LEMMA NextDocumentLoads ==
  ASSUME NEW c \in AllNames, NEW t, Sound(t, KindsOf(c)), c = Kv => Keyed(RowsOf(t.docs)),
         NEW d, NEW r, NEW e, NEW n \in 1 .. Len(t.nodes), HasFirst(r, e, c, t, n - 1, d),
         NEW u, u = LoadFields(r, DocumentField(t.docs[t.nodes[n]]))
  PROVE  \E f : HasFirst(u, f, c, t, n, d)
<1>1. PICK x : x = t.docs[t.nodes[n]]
  OBVIOUS
<1>2. PICK K : K = KindsOf(c)
  OBVIOUS
<1>3. Sound(t, K) /\ K[Id] = "number"
  BY <1>2, KindsAre
<1>4. Listed(t) /\ Plain(t.docs, K) /\ InOrder(t.nodes, t.docs)
      /\ \A q \in DOMAIN t.docs : IdOf(t.docs[q]) < MaxId
  BY <1>3 DEF Sound
<1>5. t.nodes[n] \in DOMAIN t.docs
  BY <1>4, NodeIs
<1>6. PlainDoc(x, K) /\ IdOf(x) < MaxId
  BY <1>1, <1>4, <1>5 DEF Plain
<1>7. PICK w : w = TableOf(e, c)
  OBVIOUS
<1>8. Sound(w, K) /\ RowsOf(w.docs) = FirstRows(t, n - 1) /\ GoodDb(e) /\ BareDb(e) /\ InObjects(r, e, c)
  BY <1>2, <1>7, GoodTable DEF HasFirst, RowsIn
<1>9. Numbered(x, w.id) = x /\ Accepted(x)
  BY <1>6, PlainIsNumbered
<1>10. ASSUME NEW q \in DOMAIN w.docs
       PROVE  IdOf(w.docs[q]) < IdOf(x)
  <2>1. AsText(w.docs[q]) \in FirstRows(t, n - 1)
    BY <1>8 DEF RowsOf
  <2>2. PICK p \in 1 .. n - 1 : AsText(w.docs[q]) = View(t)[p]
    BY <2>1 DEF FirstRows
  <2>3. Len(t.nodes) \in Nat /\ p \in 1 .. Len(t.nodes) /\ p < n
    BY <1>4, NodeIs
  <2>4. IdOf(View(t)[p]) = IdOf(t.docs[t.nodes[p]])
    BY <1>3, <2>3, ViewIs
  <2>5. IdOf(AsText(w.docs[q])) = IdOf(w.docs[q])
    BY <1>8, PlainIds DEF Sound
  <2>6. IdOf(t.docs[t.nodes[p]]) < IdOf(x)
    BY <1>1, <1>4, <2>3 DEF InOrder
  <2>7. QED
    BY <2>2, <2>4, <2>5, <2>6
<1>11. PICK v : v = TableAppend(w, x)
  OBVIOUS
<1>12. Sound(v, K) /\ RowsOf(v.docs) = RowsOf(w.docs) \cup {AsText(x)} /\ SameFields(v.indices, w.indices)
  <2>1. x = Numbered(x, w.id)
    BY <1>9
  <2>2. QED
    BY <1>6, <1>8, <1>9, <1>10, <1>11, <2>1, SoundAppend
<1>13. PICK rows : rows = RowsOf(v.docs)
  OBVIOUS
<1>14. AsText(x) = View(t)[n]
  BY <1>1, <1>3, ViewIs
<1>15. rows = FirstRows(t, n) /\ rows \in SUBSET RowsOf(t.docs)
  <2>1. FirstRows(t, n) = FirstRows(t, n - 1) \cup {View(t)[n]}
    BY <1>3, FirstRowsAre
  <2>2. n \in 0 .. Len(t.nodes)
    OBVIOUS
  <2>3. FirstRows(t, n) \in SUBSET RowsOf(t.docs)
    BY <1>3, <2>2, FirstRowsAre
  <2>4. QED
    BY <1>8, <1>12, <1>13, <1>14, <2>1, <2>3
<1>16. c = Kv => Keyed(rows)
  BY <1>15, KeyedSubset
<1>17. PICK f : f = WithTable(e, c, v)
  OBVIOUS
<1>18. GoodDb(f) /\ \A m : RowsIn(f, m) = IF m = c THEN rows ELSE RowsIn(e, m)
  <2>1. Sound(v, KindsOf(c))
    BY <1>2, <1>12
  <2>2. GoodDb(e)
    BY <1>8
  <2>3. QED
    BY <1>13, <1>16, <1>17, <2>1, <2>2, GoodPut
<1>19. BareDb(f)
  BY <1>7, <1>8, <1>12, <1>17, BarePut
<1>20. f = Loaded(e, c, x)
  BY <1>7, <1>11, <1>17 DEF Loaded
<1>21. InObjects(u, f, c)
  <2>1. Storable(x)
    BY <1>6, StoredIsStorable
  <2>2. u = LoadFields(r, DocumentField(x))
    BY <1>1
  <2>3. InObjects(u, Loaded(e, c, x), c)
    BY <1>8, <2>1, <2>2, DocumentLoads
  <2>4. QED
    BY <1>20, <2>3
<1>22. \A m : RowsIn(f, m) = IF m = c THEN FirstRows(t, n) ELSE RowsIn(d, m)
  BY <1>15, <1>18 DEF HasFirst
<1>23. QED
  BY <1>18, <1>19, <1>21, <1>22 DEF HasFirst

\* The documents of a collection are parts of a file.
LEMMA DocumentsAreFields ==
  ASSUME NEW t, Listed(t), \A r \in DOMAIN t.docs : FlatDoc(t.docs[r])
  PROVE  /\ DocumentFields(t) \in Seq(Seq(FileFields))
         /\ Len(DocumentFields(t)) = Len(t.nodes)
         /\ \A i \in 1 .. Len(t.nodes) : /\ DocumentFields(t)[i] = DocumentField(t.docs[t.nodes[i]])
                                         /\ DocumentFields(t)[i] \in Seq(FileFields)
<1>1. PICK n \in Nat : n = Len(t.nodes) /\ DOMAIN t.nodes = 1 .. n
  BY DEF Listed
<1>2. PICK ss : ss = DocumentFields(t)
  OBVIOUS
<1>3. ASSUME NEW p \in 1 .. n
      PROVE  ss[p] = DocumentField(t.docs[t.nodes[p]]) /\ ss[p] \in Seq(FileFields)
  <2>1. FlatDoc(t.docs[t.nodes[p]])
    BY <1>1, NodeIs
  <2>2. ss[p] = DocumentField(t.docs[t.nodes[p]])
    BY <1>1, <1>2 DEF DocumentFields
  <2>3. QED
    BY <2>1, <2>2, DocumentPasses
<1>4. ss = [p \in 1 .. n |-> ss[p]] /\ DOMAIN ss = 1 .. n
  BY <1>1, <1>2 DEF DocumentFields
<1>5. ss \in [1 .. n -> Seq(FileFields)]
  BY <1>3, <1>4
<1>6. ss \in Seq(Seq(FileFields)) /\ Len(ss) = n
  BY <1>5
<1>7. QED
  BY <1>1, <1>2, <1>3, <1>6

\* So it appends all documents of a collection.
LEMMA DocumentsLoad ==
  ASSUME NEW c \in AllNames, NEW t, Sound(t, KindsOf(c)), c = Kv => Keyed(RowsOf(t.docs)),
         NEW d, GoodDb(d), BareDb(d), RowsIn(d, c) = {}, NEW r, InObjects(r, d, c),
         NEW u, u = LoadFields(r, FlattenSeq(DocumentFields(t)))
  PROVE  \E f : HasFirst(u, f, c, t, Len(t.nodes), d)
<1>1. PICK ss : ss = DocumentFields(t)
  OBVIOUS
<1>2. Listed(t) /\ Plain(t.docs, KindsOf(c))
  BY DEF Sound
<1>3. \A q \in DOMAIN t.docs : FlatDoc(t.docs[q])
  BY <1>2, StoredIsStorable, StorableIsFlat DEF Plain
<1>4. PICK n \in Nat : n = Len(t.nodes)
  BY <1>2 DEF Listed
<1>5. ss \in Seq(Seq(FileFields)) /\ Len(ss) = n /\ \A i \in 1 .. n : ss[i] = DocumentField(t.docs[t.nodes[i]])
                                                               /\ ss[i] \in Seq(FileFields)
  BY <1>1, <1>2, <1>3, <1>4, DocumentsAreFields
<1>6. PICK g : LoadsParts(g, r, ss)
  BY <1>5, LoadParts
<1> DEFINE Bad == {i \in 0 .. n : ~ \E f : HasFirst(g[i], f, c, t, i, d)}
<1>7. Bad = {}
  <2>1. SUFFICES ASSUME Bad # {} PROVE FALSE
    OBVIOUS
  <2>2. PICK i \in Bad : \A j \in Bad : i <= j
    <3>1. Bad \subseteq Nat
      OBVIOUS
    <3> HIDE DEF Bad
    <3>2. QED
      BY <2>1, <3>1, MinIsLeast
  <2>3. i # 0
    <3>1. FirstRows(t, 0) = {}
      BY FirstRowsAre
    <3>2. g[0] = r
      BY <1>6 DEF LoadsParts
    <3>3. HasFirst(r, d, c, t, 0, d)
      BY <3>1 DEF HasFirst
    <3>4. QED
      BY <2>2, <3>2, <3>3
  <2>4. i \in 1 .. n /\ i - 1 \in 0 .. n /\ i - 1 \notin Bad
    BY <2>2, <2>3
  <2>5. PICK e : HasFirst(g[i - 1], e, c, t, i - 1, d)
    BY <2>4
  <2>6. PICK p : p = g[i - 1]
    OBVIOUS
  <2>7. PICK q : q = g[i]
    OBVIOUS
  <2>8. q = LoadFields(p, DocumentField(t.docs[t.nodes[i]]))
    BY <1>5, <1>6, <2>4, <2>6, <2>7 DEF LoadsParts
  <2>9. HasFirst(p, e, c, t, i - 1, d) /\ i \in 1 .. Len(t.nodes)
    BY <1>4, <2>4, <2>5, <2>6
  <2>10. \E f : HasFirst(q, f, c, t, i, d)
    BY <2>8, <2>9, NextDocumentLoads
  <2>11. QED
    BY <2>2, <2>7, <2>10
<1>8. \E f : HasFirst(g[n], f, c, t, n, d)
  BY <1>4, <1>7
<1>9. u = g[n]
  BY <1>1, <1>5, <1>6 DEF LoadsParts
<1>10. QED
  BY <1>4, <1>8, <1>9
-----------------------------------------------------------------------------
\* The loader is between two collections, or before the first one.
InArrays(r, d) == r \in LoaderRecord(d, "array", r.name, r.object)

\* load gets the collection whose name it has read.
LEMMA CollectionBegins ==
  ASSUME NEW r, NEW d, InArrays(r, d), NEW c, NEW u, u = LoadFields(r, <<Byte("array"), Name(c)>>)
  PROVE  InObjects(u, GetCollection(d, c), c)
<1>1. r \in LoaderRecord(d, "array", r.name, r.object)
  BY DEF InArrays
<1>2. r.reads = "array"
  BY <1>1, LoaderParts
<1>3. PICK p : p = LoadField(r, Byte("array"))
  OBVIOUS
<1>4. p = [r EXCEPT !.reads = "name"]
  BY <1>2, <1>3 DEF LoadField
<1>5. p \in LoaderRecord(d, "name", r.name, r.object)
  BY <1>1, <1>4 DEF LoaderRecord
<1>6. p.reads = "name" /\ p.db = d
  BY <1>5, LoaderParts
<1>7. Name(c).v = c
  BY DEF Name
<1>8. u = LoadField(p, Name(c))
  BY <1>3, LoadTwo
<1>9. PICK e : e = GetCollection(d, c)
  OBVIOUS
<1>10. u = [p EXCEPT !.db = e, !.name = c, !.reads = "object"]
  BY <1>6, <1>7, <1>8, <1>9 DEF LoadField
<1>11. u \in LoaderRecord(e, "object", c, r.object)
  BY <1>5, <1>10 DEF LoaderRecord
<1>12. u.object = r.object
  BY <1>11, LoaderParts
<1>13. QED
  BY <1>9, <1>11, <1>12 DEF InObjects

\* A zero byte ends a collection.
LEMMA CollectionEnds ==
  ASSUME NEW r, NEW d, NEW c, InObjects(r, d, c), NEW u, u = LoadField(r, Zero)
  PROVE  InArrays(u, d)
<1>1. r \in LoaderRecord(d, "object", c, r.object)
  BY DEF InObjects
<1>2. r.reads = "object"
  BY <1>1, LoaderParts
<1>3. Zero # Byte("object")
  BY DEF Zero, Byte
<1>4. u = [r EXCEPT !.reads = "array"]
  BY <1>2, <1>3 DEF LoadField
<1>5. u \in LoaderRecord(d, "array", c, r.object)
  BY <1>1, <1>4 DEF LoaderRecord
<1>6. u.object = r.object /\ u.name = c
  BY <1>5, LoaderParts
<1>7. QED
  BY <1>5, <1>6 DEF InArrays

\* The collection that load gets changes no row.
LEMMA GotIsGood ==
  ASSUME NEW d, GoodDb(d), BareDb(d), NEW c \in AllNames, NEW e, e = GetCollection(d, c)
  PROVE  /\ GoodDb(e) /\ BareDb(e)
         /\ \A m : RowsIn(e, m) = RowsIn(d, m)
<1>1. IsDirectory(e) /\ \A m : TableOf(e, m) = TableOf(d, m)
  BY Got DEF GoodDb
<1>2. \A m : RowsIn(e, m) = RowsIn(d, m)
  BY <1>1 DEF RowsIn
<1>3. QED
  BY <1>1, <1>2 DEF GoodDb, BareDb

\* The loader has a collection c of the given documents besides those of d.
HasOneMore(u, f, d, c, rows) ==
  /\ InArrays(u, f)
  /\ GoodDb(f) /\ BareDb(f)
  /\ \A m : RowsIn(f, m) = IF m = c THEN rows ELSE RowsIn(d, m)

\* So a collection that is written is loaded with its rows.
LEMMA CollectionLoads ==
  ASSUME NEW c \in AllNames, NEW t, Sound(t, KindsOf(c)), c = Kv => Keyed(RowsOf(t.docs)),
         NEW d, GoodDb(d), BareDb(d), RowsIn(d, c) = {}, NEW r, InArrays(r, d),
         NEW x, x.name = c, x.table = t, NEW u, u = LoadFields(r, CollectionField(x))
  PROVE  \E f : HasOneMore(u, f, d, c, RowsOf(t.docs))
<1>1. PICK h \in Seq(FileFields) : h = <<Byte("array"), Name(c)>>
  <2>1. PICK a \in FileFields : a = Byte("array")
    BY ZeroIsField
  <2>2. PICK b \in FileFields : b = Name(c)
    BY DEF Name, FileFields, FileValues
  <2>3. <<a>> \in Seq(FileFields) /\ <<b>> \in Seq(FileFields)
    BY Single
  <2>4. <<a>> \o <<b>> \in Seq(FileFields)
    BY <2>3, Joined
  <2>5. QED
    BY <2>1, <2>2, <2>4, Pairwise
<1>2. Listed(t) /\ Plain(t.docs, KindsOf(c))
  BY DEF Sound
<1>3. \A q \in DOMAIN t.docs : FlatDoc(t.docs[q])
  BY <1>2, StoredIsStorable, StorableIsFlat DEF Plain
<1>4. PICK f \in Seq(FileFields) : f = FlattenSeq(DocumentFields(t))
  <2>1. PICK ss : ss = DocumentFields(t)
    OBVIOUS
  <2>2. ss \in Seq(Seq(FileFields)) /\ Len(ss) = Len(t.nodes)
        /\ \A i \in 1 .. Len(t.nodes) : ss[i] = DocumentField(t.docs[t.nodes[i]]) /\ ss[i] \in Seq(FileFields)
    BY <1>2, <1>3, <2>1, DocumentsAreFields
  <2>3. ASSUME NEW i \in 1 .. Len(ss)
        PROVE  ss[i] \in Seq(FileFields) /\ Passes("object", ss[i], "object")
    <3>1. FlatDoc(t.docs[t.nodes[i]])
      BY <1>2, <1>3, <2>2, NodeIs
    <3>2. Passes("object", DocumentField(t.docs[t.nodes[i]]), "object")
      BY <3>1, DocumentPasses
    <3>3. QED
      BY <2>2, <3>2
  <2>4. FlattenSeq(ss) \in Seq(FileFields)
    BY <2>2, <2>3, PassesAll
  <2>5. QED
    BY <2>1, <2>4
<1>5. PICK z \in Seq(FileFields) : z = <<Zero>>
  BY ZeroIsField, Single
<1>6. PICK b \in Seq(FileFields) : b = f \o z
  BY Joined
<1>7. TableImage(t) = b
  BY <1>4, <1>5, <1>6 DEF TableImage, DocumentFields, DocumentField
<1>8. CollectionField(x) = h \o b
  BY <1>1, <1>7 DEF CollectionField
<1>9. PICK p : p = LoadFields(r, h)
  OBVIOUS
<1>10. PICK e : e = GetCollection(d, c)
  OBVIOUS
<1>11. InObjects(p, e, c)
  BY <1>1, <1>9, <1>10, CollectionBegins
<1>12. GoodDb(e) /\ BareDb(e) /\ \A m : RowsIn(e, m) = RowsIn(d, m)
  BY <1>10, GotIsGood
<1>13. PICK q : q = LoadFields(p, f)
  OBVIOUS
<1>14. PICK k : HasFirst(q, k, c, t, Len(t.nodes), e)
  <2>1. RowsIn(e, c) = {} /\ q = LoadFields(p, FlattenSeq(DocumentFields(t)))
    BY <1>4, <1>12, <1>13
  <2>2. QED
    BY <1>11, <1>12, <2>1, DocumentsLoad
<1>15. LoadFields(r, h \o b) = LoadFields(p, b)
  BY <1>9, LoadSplit
<1>16. LoadFields(p, f \o z) = LoadFields(q, z)
  BY <1>13, LoadSplit
<1>17. u = LoadFields(q, z)
  BY <1>6, <1>8, <1>15, <1>16
<1>18. u = LoadField(q, Zero)
  BY <1>5, <1>17, LoadOne
<1>19. InArrays(u, k)
  BY <1>14, <1>18, CollectionEnds DEF HasFirst
<1>20. FirstRows(t, Len(t.nodes)) = RowsOf(t.docs)
  BY FirstRowsAre
<1>21. \A m : RowsIn(k, m) = IF m = c THEN RowsOf(t.docs) ELSE RowsIn(d, m)
  BY <1>12, <1>14, <1>20 DEF HasFirst
<1>22. QED
  BY <1>14, <1>19, <1>21 DEF HasFirst, HasOneMore
-----------------------------------------------------------------------------
(***************************************************************************)
(* What save writes, load reads.                                           *)
(***************************************************************************)
NamesTo(d, n) == {d[j].name : j \in 1 .. n}

\* The loader has the first n collections of d.
HasLoaded(u, f, d, n) ==
  /\ InArrays(u, f)
  /\ GoodDb(f) /\ BareDb(f)
  /\ \A m \in AllNames : RowsIn(f, m) = IF m \in NamesTo(d, n) THEN RowsIn(d, m) ELSE {}

\* load reads the next collection behind those it has.
LEMMA NextCollectionLoads ==
  ASSUME NEW d, GoodDb(d), NEW n \in 1 .. Len(d), NEW r, NEW e, HasLoaded(r, e, d, n - 1),
         NEW u, u = LoadFields(r, CollectionField(d[n]))
  PROVE  \E f : HasLoaded(u, f, d, n)
<1>1. /\ Len(d) \in Nat \ {0}
      /\ \A i \in 1 .. Len(d) : d[i].name \in AllNames
      /\ \A i, j \in 1 .. Len(d) : d[i].name = d[j].name => i = j
  BY DirectoryElements DEF GoodDb
<1>2. PICK c \in AllNames : c = d[n].name
  BY <1>1
<1>3. PICK t : t = d[n].table
  OBVIOUS
<1>4. TableOf(d, c) = t
  BY <1>2, <1>3, TableAt DEF GoodDb
<1>5. Sound(t, KindsOf(c)) /\ RowsIn(d, c) = RowsOf(t.docs)
  BY <1>4, GoodTable DEF RowsIn
<1>6. c = Kv => Keyed(RowsOf(t.docs))
  BY <1>5 DEF GoodDb
<1>7. c \notin NamesTo(d, n - 1)
  <2>1. \A j \in 1 .. n - 1 : j \in 1 .. Len(d) /\ j # n
    BY <1>1
  <2>2. QED
    BY <1>1, <1>2, <2>1 DEF NamesTo
<1>8. NamesTo(d, n) = NamesTo(d, n - 1) \cup {c}
  <2>1. n \in 1 .. n /\ (\A p \in 1 .. n : p \in 1 .. n - 1 \/ p = n) /\ \A p \in 1 .. n - 1 : p \in 1 .. n
    BY <1>1
  <2>2. QED
    BY <1>2, <2>1 DEF NamesTo
<1>9. GoodDb(e) /\ BareDb(e) /\ InArrays(r, e) /\ RowsIn(e, c) = {}
  BY <1>7 DEF HasLoaded
<1>10. PICK x : x = d[n]
  OBVIOUS
<1>11. PICK rows : rows = RowsOf(t.docs)
  OBVIOUS
<1>12. x.name = c /\ x.table = t /\ u = LoadFields(r, CollectionField(x))
  BY <1>2, <1>3, <1>10
<1>13. PICK f : HasOneMore(u, f, e, c, RowsOf(t.docs))
  BY <1>5, <1>6, <1>9, <1>12, CollectionLoads
<1>14. \A m \in AllNames : RowsIn(f, m) = IF m \in NamesTo(d, n) THEN RowsIn(d, m) ELSE {}
  BY <1>5, <1>8, <1>13 DEF HasOneMore, HasLoaded
<1>15. QED
  BY <1>13, <1>14 DEF HasOneMore, HasLoaded

\* A good database is neat: what save writes of it is a file.
LEMMA GoodIsNeat ==
  ASSUME NEW d, GoodDb(d)
  PROVE  NeatDb(d)
<1>1. ASSUME NEW m \in AllNames
      PROVE  Neat(TableOf(d, m))
  <2>1. PICK t : t = TableOf(d, m)
    OBVIOUS
  <2>2. Sound(t, KindsOf(m))
    BY <2>1, GoodTable
  <2>3. Listed(t) /\ Plain(t.docs, KindsOf(m)) /\ t.id \in Nat
    BY <2>2 DEF Sound
  <2>4. \A q \in DOMAIN t.docs : FlatDoc(t.docs[q])
    BY <2>3, StoredIsStorable, StorableIsFlat DEF Plain
  <2>5. QED
    BY <2>1, <2>3, <2>4 DEF Neat
<1>2. QED
  BY <1>1 DEF NeatDb, GoodDb

\* The collections of a database are parts of a file.
LEMMA CollectionsAreFields ==
  ASSUME NEW d, NeatDb(d)
  PROVE  /\ CollectionFields(d) \in Seq(Seq(FileFields))
         /\ Len(CollectionFields(d)) = Len(d)
         /\ \A i \in 1 .. Len(d) : /\ CollectionFields(d)[i] = CollectionField(d[i])
                                   /\ CollectionFields(d)[i] \in Seq(FileFields)
                                   /\ Passes("array", CollectionFields(d)[i], "array")
<1>1. /\ Len(d) \in Nat \ {0}
      /\ DOMAIN d = 1 .. Len(d)
      /\ \A i \in 1 .. Len(d) : d[i].name \in AllNames
  BY DirectoryElements DEF NeatDb
<1>2. PICK ss : ss = CollectionFields(d)
  OBVIOUS
<1>3. ASSUME NEW i \in 1 .. Len(d)
      PROVE  /\ ss[i] = CollectionField(d[i])
             /\ ss[i] \in Seq(FileFields) /\ Passes("array", ss[i], "array")
  <2>1. TableOf(d, d[i].name) = d[i].table
    BY <1>1, TableAt DEF NeatDb
  <2>2. Neat(d[i].table)
    BY <1>1, <2>1 DEF NeatDb
  <2>3. ss[i] = CollectionField(d[i])
    BY <1>1, <1>2 DEF CollectionFields
  <2>4. QED
    BY <1>1, <2>2, <2>3, CollectionPasses
<1>4. ss = [i \in 1 .. Len(d) |-> ss[i]]
  BY <1>1, <1>2 DEF CollectionFields
<1>5. ss \in [1 .. Len(d) -> Seq(FileFields)]
  BY <1>3, <1>4
<1>6. ss \in Seq(Seq(FileFields)) /\ Len(ss) = Len(d)
  BY <1>1, <1>5
<1>7. QED
  BY <1>2, <1>3, <1>6

\* load begins with no collections but that of the pairs.
LEMMA UnloadedIs == InArrays(Unloaded, EmptyDatabase)
<1>1. PICK d : d = EmptyDatabase
  OBVIOUS
<1>2. PICK o : o = Unread
  OBVIOUS
<1>3. PICK r : r = Unloaded
  OBVIOUS
<1>4. r = [db |-> d, reads |-> "array", name |-> Kv, object |-> o]
  BY <1>1, <1>2, <1>3 DEF Unloaded
<1>5. r \in LoaderRecord(d, "array", Kv, o)
  BY <1>4 DEF LoaderRecord
<1>6. r.name = Kv /\ r.object = o
  BY <1>5, LoaderParts
<1>7. QED
  BY <1>1, <1>3, <1>5, <1>6 DEF InArrays

\* The last byte ends the file.
LEMMA LoaderStops ==
  ASSUME NEW r, NEW d, InArrays(r, d), NEW u, u = LoadField(r, Zero)
  PROVE  u.reads = "nothing" /\ u.db = d
<1>1. r \in LoaderRecord(d, "array", r.name, r.object)
  BY DEF InArrays
<1>2. r.reads = "array"
  BY <1>1, LoaderParts
<1>3. Zero # Byte("array")
  BY DEF Zero, Byte
<1>4. u = [r EXCEPT !.reads = "nothing"]
  BY <1>2, <1>3 DEF LoadField
<1>5. u \in LoaderRecord(d, "nothing", r.name, r.object)
  BY <1>1, <1>4 DEF LoaderRecord
<1>6. QED
  BY <1>5, LoaderParts

\* What the files hold is a database with no index of its clients, like d.
IsLike(e, d) == GoodDb(e) /\ BareDb(e) /\ Alike(d, e)

\* What save writes of a good database load reads back: the same rows in every
\* collection, no "_id" repeated, no index but those on "_id" and of the pairs.
LEMMA ImageLoads ==
  ASSUME NEW d, GoodDb(d)
  PROVE  ~Load(Image(d)).hangs /\ IsLike(Load(Image(d)).db, d)
<1>1. PICK ss : ss = CollectionFields(d)
  OBVIOUS
<1>2. Len(d) \in Nat \ {0}
  BY DirectoryElements DEF GoodDb
<1>3. PICK n \in Nat : n = Len(d)
  BY <1>2
<1>4. ss \in Seq(Seq(FileFields)) /\ Len(ss) = n
      /\ \A i \in 1 .. n : ss[i] = CollectionField(d[i]) /\ ss[i] \in Seq(FileFields) /\ Passes("array", ss[i], "array")
  BY <1>1, <1>3, GoodIsNeat, CollectionsAreFields
<1>5. PICK r : r = Unloaded
  OBVIOUS
<1>6. PICK g : LoadsParts(g, r, ss)
  BY <1>4, LoadParts
<1> DEFINE Bad == {i \in 0 .. n : ~ \E f : HasLoaded(g[i], f, d, i)}
<1>7. Bad = {}
  <2>1. SUFFICES ASSUME Bad # {} PROVE FALSE
    OBVIOUS
  <2>2. PICK i \in Bad : \A j \in Bad : i <= j
    <3>1. Bad \subseteq Nat
      OBVIOUS
    <3> HIDE DEF Bad
    <3>2. QED
      BY <2>1, <3>1, MinIsLeast
  <2>3. i # 0
    <3>1. PICK e : e = EmptyDatabase
      OBVIOUS
    <3>2. GoodDb(e) /\ BareDb(e) /\ \A m \in AllNames : RowsIn(e, m) = {}
      BY <3>1, GoodEmpty
    <3>3. InArrays(r, e)
      BY <1>5, <3>1, UnloadedIs
    <3>4. NamesTo(d, 0) = {}
      BY DEF NamesTo
    <3>5. g[0] = r
      BY <1>6 DEF LoadsParts
    <3>6. HasLoaded(r, e, d, 0)
      BY <3>2, <3>3, <3>4 DEF HasLoaded
    <3>7. QED
      BY <2>2, <3>5, <3>6
  <2>4. i \in 1 .. n /\ i - 1 \in 0 .. n /\ i - 1 \notin Bad
    BY <2>2, <2>3
  <2>5. PICK e : HasLoaded(g[i - 1], e, d, i - 1)
    BY <2>4
  <2>6. PICK p : p = g[i - 1]
    OBVIOUS
  <2>7. PICK q : q = g[i]
    OBVIOUS
  <2>8. q = LoadFields(p, CollectionField(d[i]))
    BY <1>4, <1>6, <2>4, <2>6, <2>7 DEF LoadsParts
  <2>9. HasLoaded(p, e, d, i - 1) /\ i \in 1 .. Len(d)
    BY <1>3, <2>4, <2>5, <2>6
  <2>10. \E f : HasLoaded(q, f, d, i)
    BY <2>8, <2>9, NextCollectionLoads
  <2>11. QED
    BY <2>2, <2>7, <2>10
<1>8. PICK e : HasLoaded(g[n], e, d, n)
  BY <1>3, <1>7
<1> HIDE DEF Bad
<1>9. PICK f \in Seq(FileFields) : f = FlattenSeq(ss)
  BY <1>4, PassesAll
<1>10. PICK z \in Seq(FileFields) : z = <<Zero>>
  BY ZeroIsField, Single
<1>11. Image(d) = f \o z
  BY <1>1, <1>9, <1>10 DEF Image, CollectionFields, CollectionField
<1>12. PICK p : p = LoadFields(r, f)
  OBVIOUS
<1>13. p = g[n]
  BY <1>4, <1>6, <1>9, <1>12 DEF LoadsParts
<1>14. LoadFields(r, f \o z) = LoadFields(p, z)
  BY <1>12, LoadSplit
<1>15. PICK u : u = LoadField(p, Zero)
  OBVIOUS
<1>16. LoadFields(r, f \o z) = u
  BY <1>10, <1>14, <1>15, LoadOne
<1>17. u.reads = "nothing" /\ u.db = e
  BY <1>8, <1>13, <1>15, LoaderStops DEF HasLoaded
<1>18. LoadFields(Unloaded, Image(d)) = u
  BY <1>5, <1>11, <1>16
<1>19. PICK l : l = Load(Image(d))
  OBVIOUS
<1>20. ~l.hangs /\ l.db = e
  BY <1>17, <1>18, <1>19 DEF Load
<1>21. Alike(d, e)
  <2>1. SUFFICES ASSUME NEW m \in AllNames PROVE RowsIn(d, m) = RowsIn(e, m)
    BY DEF Alike
  <2>2. RowsIn(e, m) = IF m \in NamesTo(d, n) THEN RowsIn(d, m) ELSE {}
    BY <1>8 DEF HasLoaded
  <2>3. CASE m \in NamesTo(d, n)
    BY <2>2, <2>3
  <2>4. CASE m \notin NamesTo(d, n)
    <3>1. \A i \in 1 .. Len(d) : d[i].name # m
      BY <1>3, <2>4 DEF NamesTo
    <3>2. ~HasCollection(d, m)
      BY <3>1, HasIsThere DEF GoodDb
    <3>3. RowsIn(d, m) = {}
      BY <3>2, NoneThere
    <3>4. QED
      BY <2>2, <2>4, <3>3
  <2>5. QED
    BY <2>3, <2>4
<1>22. QED
  BY <1>8, <1>19, <1>20, <1>21 DEF HasLoaded, IsLike
-----------------------------------------------------------------------------
(***************************************************************************)
(* The files and the memory, step by step.                                 *)
(***************************************************************************)
Starting == {"down", "loaded", "journalling", "replaying"}

\* A data file that was cut short, in a process that goes on: no call is made before the next
\* save, and memory still has what is recorded.
CutIsHarmless ==
  /\ changes = <<>> /\ line = <<>>
  /\ excuses = {"cut"} => committed = Content(db)

\* Unless the files are lost, memory is as far as it should be.
MemoryIsGood ==
  /\ pc \notin {"hung", "failed"}
  /\ pc \in Starting => excuses = {}
  /\ pc \in {"ready", "saving", "writing", "written"} => GoodDb(db)
  /\ pc = "ready" => Pending(db, changes)
  /\ pc = "written" /\ "cut" \notin excuses => snapshot = Image(db)
  /\ "cut" \in excuses => CutIsHarmless

\* What the files give back, and how far memory is from it.
HeldBy(R) ==
  /\ GoodDb(R) /\ BareDb(R) /\ Content(R) = committed
  /\ pc \in {"loaded", "journalling"} => db = Load(snapshot).db
  /\ pc = "replaying" => Replayed(db, changes) = R
  /\ pc \in {"ready", "saving"} => IF line = <<>> THEN Alike(db, R) ELSE Gives(R, line[1], db)

\* Without an excuse the files give what is recorded; while they are written memory has it.
FilesAreGood ==
  excuses = {} => IF Saving THEN committed = Content(db) ELSE HeldBy(Recovered(snapshot, journal))

\* The inductive invariant: nothing is claimed of files that are lost.
RecoveryInvariant == "lost" \notin excuses => MemoryIsGood /\ FilesAreGood

\* A good database is not lost.
LEMMA NotLost ==
  ASSUME NEW R, GoodDb(R)
  PROVE  R # Lost
BY DEF GoodDb, IsDirectory, Lost

\* If the files are not lost they load and replay.
LEMMA LoadsUnlessLost ==
  ASSUME NEW f, NEW lines, NEW R, R = Recovered(f, lines), R # Lost
  PROVE  ~Load(f).hangs /\ Replayed(Load(f).db, lines) = R
<1>1. PICK l : l = Load(f)
  OBVIOUS
<1>2. R = IF l.hangs THEN Lost ELSE Replayed(l.db, lines)
  BY <1>1 DEF Recovered
<1>3. QED
  BY <1>1, <1>2

\* It holds when the first process is started,
LEMMA RecoveryStarts == Init => RecoveryInvariant
<1> SUFFICES ASSUME Init PROVE RecoveryInvariant
  OBVIOUS
<1>1. PICK e : e = EmptyDatabase
  OBVIOUS
<1>2. PICK r : r = Unloaded
  OBVIOUS
<1>3. PICK f : f = <<>>
  OBVIOUS
<1>4. r \in LoaderRecord(e, "array", r.name, r.object)
  BY <1>1, <1>2, UnloadedIs DEF InArrays
<1>5. r.reads = "array" /\ r.db = e
  BY <1>4, LoaderParts
<1>6. LoadFields(r, f) = r
  BY <1>3, LoadNothing
<1>7. PICK l : l = Load(f)
  OBVIOUS
<1>8. ~l.hangs /\ l.db = e
  BY <1>2, <1>5, <1>6, <1>7 DEF Load
<1>9. Replayed(e, <<>>) = e
  BY ReplayedNothing
<1>10. Recovered(f, <<>>) = e
  BY <1>7, <1>8, <1>9 DEF Recovered
<1>11. GoodDb(e) /\ BareDb(e)
  BY <1>1, GoodEmpty
<1>12. HeldBy(e)
  BY <1>1, <1>11 DEF Init, HeldBy
<1>13. FilesAreGood
  BY <1>3, <1>10, <1>12 DEF Init, FilesAreGood, Saving
<1>14. MemoryIsGood
  BY DEF Init, MemoryIsGood, Starting
<1>15. QED
  BY <1>13, <1>14 DEF RecoveryInvariant
-----------------------------------------------------------------------------
\* when a call is made of changes,
LEMMA CallKeepsFiles ==
  ASSUME RecoveryInvariant, NEW op, NEW made, Call(op, made), Pending(db, changes')
  PROVE  RecoveryInvariant'
<1>1. pc = "ready" /\ line = <<>> /\ excuses = {}
  BY DEF Call, Idle
<1>2. /\ db' = db /\ snapshot' = snapshot /\ journal' = journal /\ pc' = pc /\ line' = line
      /\ committed' = committed /\ excuses' = excuses
  BY DEF Call, memory, files, history
<1>3. MemoryIsGood /\ FilesAreGood
  BY <1>1 DEF RecoveryInvariant
<1>4. MemoryIsGood'
  BY <1>1, <1>2, <1>3 DEF MemoryIsGood, CutIsHarmless, Starting
<1>5. PICK R : R = Recovered(snapshot, journal)
  OBVIOUS
<1>6. HeldBy(R)
  BY <1>1, <1>3, <1>5 DEF FilesAreGood, Saving
<1>7. HeldBy(R)'
  BY <1>1, <1>2, <1>6 DEF HeldBy
<1>8. FilesAreGood'
  BY <1>1, <1>2, <1>5, <1>7 DEF FilesAreGood, Saving
<1>9. QED
  BY <1>4, <1>8 DEF RecoveryInvariant

\* when an index is created,
LEMMA CreateIndexKeepsFiles ==
  ASSUME RecoveryInvariant, NEW name \in Collections, NEW f \in IndexFields, CreateIndex(name, f)
  PROVE  RecoveryInvariant'
<1>1. pc = "ready" /\ line = <<>> /\ excuses = {} /\ changes = <<>>
  BY DEF CreateIndex, Idle
<1>2. /\ db' = WithTable(db, name, TableCreateIndex(TableOf(db, name), f))
      /\ snapshot' = snapshot /\ journal' = journal /\ pc' = pc /\ line' = line
      /\ committed' = committed /\ excuses' = excuses /\ changes' = changes
  BY DEF CreateIndex, files, history
<1>3. MemoryIsGood /\ FilesAreGood
  BY <1>1 DEF RecoveryInvariant
<1>4. PICK d : d = db
  OBVIOUS
<1>5. PICK e : e = WithTable(d, name, TableCreateIndex(TableOf(d, name), f))
  OBVIOUS
<1>6. GoodDb(d)
  BY <1>1, <1>3, <1>4 DEF MemoryIsGood
<1>7. GoodDb(e) /\ \A m : RowsIn(e, m) = RowsIn(d, m)
  BY <1>5, <1>6, IndexIsCreated
<1>8. db' = e
  BY <1>2, <1>4, <1>5
<1>9. Pending(e, <<>>)
  BY DEF Pending
<1>10. MemoryIsGood'
  BY <1>1, <1>2, <1>7, <1>8, <1>9 DEF MemoryIsGood, Starting
<1>11. PICK R : R = Recovered(snapshot, journal)
  OBVIOUS
<1>12. HeldBy(R)
  BY <1>1, <1>3, <1>11 DEF FilesAreGood, Saving
<1>13. Alike(d, R)
  BY <1>1, <1>4, <1>12 DEF HeldBy
<1>14. Alike(e, R)
  BY <1>7, <1>13 DEF Alike
<1>15. HeldBy(R)'
  BY <1>1, <1>2, <1>8, <1>12, <1>14 DEF HeldBy
<1>16. FilesAreGood'
  BY <1>1, <1>2, <1>11, <1>15 DEF FilesAreGood, Saving
<1>17. QED
  BY <1>10, <1>16 DEF RecoveryInvariant

\* when a client calls save,
LEMMA SaveCallKeepsFiles ==
  ASSUME RecoveryInvariant, Save
  PROVE  RecoveryInvariant'
<1>1. /\ pc = "ready" /\ pc' = "saving"
      /\ db' = db /\ snapshot' = snapshot /\ journal' = journal /\ line' = line
      /\ committed' = committed /\ excuses' = excuses /\ changes' = changes
  BY DEF Save, memory, files, history
<1>2. SUFFICES ASSUME "lost" \notin excuses'
               PROVE  MemoryIsGood' /\ FilesAreGood'
  BY DEF RecoveryInvariant
<1>3. MemoryIsGood /\ FilesAreGood
  BY <1>1, <1>2 DEF RecoveryInvariant
<1>4. MemoryIsGood'
  BY <1>1, <1>3 DEF MemoryIsGood, CutIsHarmless, Starting
<1>5. PICK R : R = Recovered(snapshot, journal)
  OBVIOUS
<1>6. ASSUME excuses = {}
      PROVE  HeldBy(R)'
  <2>1. HeldBy(R)
    BY <1>1, <1>3, <1>5, <1>6 DEF FilesAreGood, Saving
  <2>2. QED
    BY <1>1, <2>1 DEF HeldBy
<1>7. FilesAreGood'
  BY <1>1, <1>5, <1>6 DEF FilesAreGood, Saving
<1>8. QED
  BY <1>4, <1>7

\* whatever it calls,
LEMMA CallsKeepFiles ==
  ASSUME RecoveryInvariant, Calls
  PROVE  RecoveryInvariant'
<1>1. ASSUME NEW name \in Collections, NEW d \in Inputs, AppendDocument(name, d)
      PROVE  RecoveryInvariant'
  BY <1>1, AppendIsPending, CallKeepsFiles DEF AppendDocument
<1>2. ASSUME NEW name \in Collections, NEW q \in Queries, NEW patch \in Patches,
             UpdateDocument(name, q, patch)
      PROVE  RecoveryInvariant'
  BY <1>2, UpdateIsPending, CallKeepsFiles DEF UpdateDocument
<1>3. ASSUME NEW name \in Collections, NEW q \in Queries, NEW limit \in Limits,
             DropDocuments(name, q, limit)
      PROVE  RecoveryInvariant'
  BY <1>3, DropIsPending, CallKeepsFiles DEF DropDocuments
<1>4. ASSUME NEW name \in Collections, NEW q \in Queries, NEW d \in Inputs, Upsert(name, q, d)
      PROVE  RecoveryInvariant'
  BY <1>4, UpsertIsPending, CallKeepsFiles DEF Upsert
<1>5. ASSUME NEW name \in Collections, DropCollection(name)
      PROVE  RecoveryInvariant'
  BY <1>5, DropCollectionIsPending, CallKeepsFiles DEF DropCollection
<1>6. ASSUME NEW key \in Keys, NEW value \in KeyValues, SetValue(key, value)
      PROVE  RecoveryInvariant'
  BY <1>6, SetValueIsPending, CallKeepsFiles DEF SetValue
<1>7. QED
  BY <1>1, <1>2, <1>3, <1>4, <1>5, <1>6, CreateIndexKeepsFiles, SaveCallKeepsFiles DEF Calls
-----------------------------------------------------------------------------
\* when a process loads the data file,
LEMMA LoadSnapshotKeepsFiles ==
  ASSUME TypeInvariant, RecoveryInvariant, LoadSnapshot
  PROVE  RecoveryInvariant'
<1>1. /\ pc = "down" /\ db' = Load(snapshot).db
      /\ pc' = IF Load(snapshot).hangs THEN "hung" ELSE "loaded"
      /\ snapshot' = snapshot /\ journal' = journal
      /\ committed' = committed /\ excuses' = excuses
  BY DEF LoadSnapshot, files, history
<1>2. SUFFICES ASSUME "lost" \notin excuses
               PROVE  MemoryIsGood' /\ FilesAreGood'
  BY <1>1 DEF RecoveryInvariant
<1>3. MemoryIsGood /\ FilesAreGood /\ excuses = {}
  BY <1>1, <1>2 DEF RecoveryInvariant, MemoryIsGood, Starting
<1>4. PICK R : R = Recovered(snapshot, journal)
  OBVIOUS
<1>5. HeldBy(R)
  BY <1>1, <1>3, <1>4 DEF FilesAreGood, Saving
<1>6. R # Lost
  BY <1>5, NotLost DEF HeldBy
<1>7. ~Load(snapshot).hangs
  BY <1>4, <1>6, LoadsUnlessLost
<1>8. MemoryIsGood'
  BY <1>1, <1>3, <1>7 DEF MemoryIsGood, Starting
<1>9. HeldBy(R)'
  BY <1>1, <1>5, <1>7 DEF HeldBy
<1>10. FilesAreGood'
  BY <1>1, <1>4, <1>7, <1>9 DEF FilesAreGood, Saving
<1>11. QED
  BY <1>8, <1>10

\* when it turns the journal on,
LEMMA EnableJournalKeepsFiles ==
  ASSUME RecoveryInvariant, EnableJournal
  PROVE  RecoveryInvariant'
<1>1. /\ pc = "loaded" /\ pc' = "journalling" /\ db' = db /\ snapshot' = snapshot /\ journal' = journal
      /\ committed' = committed /\ excuses' = excuses
  BY DEF EnableJournal, files, history
<1>2. SUFFICES ASSUME "lost" \notin excuses
               PROVE  MemoryIsGood' /\ FilesAreGood'
  BY <1>1 DEF RecoveryInvariant
<1>3. MemoryIsGood /\ FilesAreGood /\ excuses = {}
  BY <1>1, <1>2 DEF RecoveryInvariant, MemoryIsGood, Starting
<1>4. PICK R : R = Recovered(snapshot, journal)
  OBVIOUS
<1>5. HeldBy(R)
  BY <1>1, <1>3, <1>4 DEF FilesAreGood, Saving
<1>6. MemoryIsGood'
  BY <1>1, <1>3 DEF MemoryIsGood, Starting
<1>7. HeldBy(R)'
  BY <1>1, <1>5 DEF HeldBy
<1>8. FilesAreGood'
  BY <1>1, <1>4, <1>7 DEF FilesAreGood, Saving
<1>9. QED
  BY <1>6, <1>8

\* when it begins to replay,
LEMMA ConsolidateKeepsFiles ==
  ASSUME RecoveryInvariant, Consolidate
  PROVE  RecoveryInvariant'
<1>1. /\ pc = "journalling" /\ pc' = "replaying" /\ db' = db /\ snapshot' = snapshot /\ journal' = journal
      /\ committed' = committed /\ excuses' = excuses /\ changes' = journal
  BY DEF Consolidate, files, history
<1>2. SUFFICES ASSUME "lost" \notin excuses
               PROVE  MemoryIsGood' /\ FilesAreGood'
  BY <1>1 DEF RecoveryInvariant
<1>3. MemoryIsGood /\ FilesAreGood /\ excuses = {}
  BY <1>1, <1>2 DEF RecoveryInvariant, MemoryIsGood, Starting
<1>4. PICK R : R = Recovered(snapshot, journal)
  OBVIOUS
<1>5. HeldBy(R)
  BY <1>1, <1>3, <1>4 DEF FilesAreGood, Saving
<1>6. R # Lost
  BY <1>5, NotLost DEF HeldBy
<1>7. Replayed(Load(snapshot).db, journal) = R
  BY <1>4, <1>6, LoadsUnlessLost
<1>8. Replayed(db, journal) = R
  BY <1>1, <1>5, <1>7 DEF HeldBy
<1>9. MemoryIsGood'
  BY <1>1, <1>3 DEF MemoryIsGood, Starting
<1>10. HeldBy(R)'
  BY <1>1, <1>5, <1>8 DEF HeldBy
<1>11. FilesAreGood'
  BY <1>1, <1>4, <1>10 DEF FilesAreGood, Saving
<1>12. QED
  BY <1>9, <1>11

\* While lines are replayed, what is left of them gives what the files hold.
LEMMA WhileReplaying ==
  ASSUME TypeInvariant, RecoveryInvariant, pc = "replaying", "lost" \notin excuses,
         NEW R, R = Recovered(snapshot, journal)
  PROVE  /\ MemoryIsGood /\ excuses = {} /\ ~jw /\ line = <<>> /\ IsJournal(changes)
         /\ GoodDb(R) /\ BareDb(R) /\ Content(R) = committed /\ Replayed(db, changes) = R /\ R # Lost
<1>1. MemoryIsGood /\ FilesAreGood /\ excuses = {}
  BY DEF RecoveryInvariant, MemoryIsGood, Starting
<1>2. HeldBy(R)
  BY <1>1 DEF FilesAreGood, Saving
<1>3. ~jw /\ line = <<>> /\ IsJournal(changes)
  BY DEF TypeInvariant, CallRuns, CallFits, Replays
<1>4. QED
  BY <1>1, <1>2, <1>3, NotLost DEF HeldBy

\* The next line does not throw, and the rest gives the same on what it gives.
LEMMA NextLine ==
  ASSUME NEW s, IsJournal(s), s # <<>>, NEW d, Replayed(d, s) # Lost
  PROVE  /\ ~ExecuteThrows(d, Head(s))
         /\ Replayed(Execute(d, Head(s)), Tail(s)) = Replayed(d, s)
<1>1. PICK S : s \in Seq(S)
  BY DEF IsJournal
<1>2. ~ExecuteThrows(d, Head(s))
  BY <1>1, ReplayedFirst
<1>3. Replayed(Execute(d, Head(s)), Tail(s)) = Replayed(d, s)
  BY <1>1, ReplayedFirst
<1>4. QED
  BY <1>2, <1>3

\* when it replays, which never throws,
LEMMA ReplayKeepsFiles ==
  ASSUME TypeInvariant, RecoveryInvariant, ReplayLine \/ ReplayThrows \/ ReplayEnds
  PROVE  RecoveryInvariant'
<1>1. pc = "replaying" /\ snapshot' = snapshot /\ line' = line /\ committed' = committed /\ excuses' = excuses
  BY DEF ReplayLine, ReplayThrows, ReplayEnds, Replaying, files, history
<1>2. SUFFICES ASSUME "lost" \notin excuses
               PROVE  MemoryIsGood' /\ FilesAreGood'
  BY <1>1 DEF RecoveryInvariant
<1>3. PICK R : R = Recovered(snapshot, journal)
  OBVIOUS
<1>4. /\ MemoryIsGood /\ excuses = {} /\ ~jw /\ line = <<>> /\ IsJournal(changes)
      /\ GoodDb(R) /\ BareDb(R) /\ Content(R) = committed /\ Replayed(db, changes) = R /\ R # Lost
  BY <1>1, <1>2, <1>3, WhileReplaying
<1>5. PICK d : d = db
  OBVIOUS
<1>6. PICK s : s = changes
  OBVIOUS
<1>7. s # <<>> => /\ ~ExecuteThrows(d, Head(s))
                  /\ Replayed(Execute(d, Head(s)), Tail(s)) = R
  <2>1. IsJournal(s) /\ Replayed(d, s) # Lost /\ Replayed(d, s) = R
    BY <1>4, <1>5, <1>6
  <2>2. s # <<>> => ~ExecuteThrows(d, Head(s))
    BY <2>1, NextLine
  <2>3. s # <<>> => Replayed(Execute(d, Head(s)), Tail(s)) = R
    BY <2>1, NextLine
  <2>4. QED
    BY <2>2, <2>3
<1>8. CASE ReplayLine
  <2>1. /\ changes # <<>> /\ db' = Execute(db, Head(changes)) /\ changes' = Tail(changes) /\ pc' = pc
        /\ journal' = journal
    BY <1>4, <1>8 DEF ReplayLine, Replaying
  <2>2. Replayed(db', changes') = R
    BY <1>5, <1>6, <1>7, <2>1
  <2>3. MemoryIsGood'
    BY <1>1, <1>4, <2>1 DEF MemoryIsGood, Starting
  <2>4. HeldBy(R)'
    BY <1>1, <1>4, <2>1, <2>2 DEF HeldBy
  <2>5. FilesAreGood'
    BY <1>1, <1>3, <2>1, <2>4 DEF FilesAreGood, Saving
  <2>6. QED
    BY <2>3, <2>5
<1>9. CASE ReplayThrows
  BY <1>5, <1>6, <1>7, <1>9 DEF ReplayThrows, Replaying
<1>10. CASE ReplayEnds
  <2>1. changes = <<>> /\ pc' = "saving" /\ db' = db /\ journal' = journal
    BY <1>10 DEF ReplayEnds, files
  <2>2. Replayed(d, <<>>) = d
    BY ReplayedNothing
  <2>3. db = R
    BY <1>4, <1>5, <2>1, <2>2
  <2>4. MemoryIsGood'
    BY <1>1, <1>4, <2>1, <2>3 DEF MemoryIsGood, Starting
  <2>5. Alike(R, R)
    BY DEF Alike
  <2>6. HeldBy(R)'
    BY <1>1, <1>4, <2>1, <2>3, <2>5 DEF HeldBy
  <2>7. FilesAreGood'
    BY <1>1, <1>3, <2>1, <2>6 DEF FilesAreGood, Saving
  <2>8. QED
    BY <2>4, <2>7
<1>11. QED
  BY <1>8, <1>9, <1>10
-----------------------------------------------------------------------------
\* Before save begins to write, memory is what the files hold.
LEMMA BeforeSaving ==
  ASSUME MemoryIsGood, FilesAreGood, excuses = {}, pc \in {"ready", "saving"}, line = <<>>
  PROVE  committed = Content(db)
<1>1. PICK R : R = Recovered(snapshot, journal)
  OBVIOUS
<1>2. HeldBy(R)
  BY <1>1 DEF FilesAreGood, Saving
<1>3. PICK d : d = db
  OBVIOUS
<1>4. GoodDb(d) /\ GoodDb(R) /\ Alike(d, R) /\ Content(R) = committed
  BY <1>2, <1>3 DEF HeldBy, MemoryIsGood
<1>5. Content(d) = Content(R)
  BY <1>4, ContentAlike
<1>6. QED
  BY <1>3, <1>4, <1>5

\* The files after save has written the one and emptied the other.
LEMMA FilesAfterSaving ==
  ASSUME NEW d, GoodDb(d), NEW R, R = Recovered(Image(d), <<>>)
  PROVE  GoodDb(R) /\ BareDb(R) /\ Alike(d, R) /\ Content(R) = Content(d)
<1>1. PICK l : l = Load(Image(d))
  OBVIOUS
<1>2. ~l.hangs /\ GoodDb(l.db) /\ BareDb(l.db) /\ Alike(d, l.db)
  BY <1>1, ImageLoads DEF IsLike
<1>3. PICK e : e = l.db
  OBVIOUS
<1>4. Replayed(e, <<>>) = e
  BY ReplayedNothing
<1>5. R = e
  BY <1>1, <1>2, <1>3, <1>4 DEF Recovered
<1>6. Content(d) = Content(e)
  BY <1>2, <1>3, ContentAlike
<1>7. QED
  BY <1>2, <1>3, <1>5, <1>6

\* when it saves,
LEMMA SaveKeepsFiles ==
  ASSUME TypeInvariant, RecoveryInvariant, SaveOpens \/ SaveFails \/ SaveWrites \/ SaveFallsShort
  PROVE  RecoveryInvariant'
<1>1. /\ pc \in {"saving", "writing"} /\ db' = db /\ journal' = journal /\ line' = line /\ changes' = changes
      /\ committed' = committed /\ ("lost" \in excuses' <=> "lost" \in excuses)
  BY DEF SaveOpens, SaveFails, SaveWrites, SaveFallsShort, memory, files, history
<1>2. SUFFICES ASSUME "lost" \notin excuses
               PROVE  MemoryIsGood' /\ FilesAreGood'
  BY <1>1 DEF RecoveryInvariant
<1>3. MemoryIsGood /\ FilesAreGood
  BY <1>2 DEF RecoveryInvariant
<1>4. line = <<>> /\ changes = <<>>
  BY <1>1 DEF TypeInvariant, CallRuns
<1>5. CASE SaveOpens
  <2>1. pc = "saving" /\ pc' = "writing" /\ excuses' = excuses
    BY <1>5 DEF SaveOpens, history
  <2>2. excuses = {} => committed = Content(db)
    BY <1>3, <1>4, <2>1, BeforeSaving
  <2>3. MemoryIsGood'
    BY <1>1, <1>3, <2>1 DEF MemoryIsGood, CutIsHarmless, Starting
  <2>4. FilesAreGood'
    BY <1>1, <2>1, <2>2 DEF FilesAreGood, Saving
  <2>5. QED
    BY <2>3, <2>4
<1>6. CASE SaveFails
  <2>1. pc = "saving" /\ pc' = "ready" /\ snapshot' = snapshot /\ excuses' = excuses
    BY <1>6 DEF SaveFails, files, history
  <2>2. PICK R : R = Recovered(snapshot, journal)
    OBVIOUS
  <2>3. Pending(db, <<>>)
    BY DEF Pending
  <2>4. MemoryIsGood'
    BY <1>1, <1>3, <1>4, <2>1, <2>3 DEF MemoryIsGood, CutIsHarmless, Starting
  <2>5. ASSUME excuses = {}
        PROVE  HeldBy(R)'
    <3>1. HeldBy(R)
      BY <1>3, <2>1, <2>2, <2>5 DEF FilesAreGood, Saving
    <3>2. QED
      BY <1>1, <2>1, <3>1 DEF HeldBy
  <2>6. FilesAreGood'
    BY <1>1, <2>1, <2>2, <2>5 DEF FilesAreGood, Saving
  <2>7. QED
    BY <2>4, <2>6
<1>7. excuses \subseteq {"cut"} => committed = Content(db)
  <2>1. CASE excuses = {}
    BY <1>1, <1>3, <1>4, <2>1, BeforeSaving DEF FilesAreGood, Saving
  <2>2. CASE excuses = {"cut"}
    BY <1>3, <2>2 DEF MemoryIsGood, CutIsHarmless
  <2>3. QED
    BY <2>1, <2>2
<1>8. CASE SaveWrites
  <2>1. /\ pc = "writing" /\ pc' = "written" /\ snapshot' = Image(db)
        /\ excuses' = excuses \ {"cut"}
    BY <1>8 DEF SaveWrites
  <2>2. MemoryIsGood'
    BY <1>1, <1>3, <2>1 DEF MemoryIsGood, Starting
  <2>3. FilesAreGood'
    BY <1>1, <1>7, <2>1 DEF FilesAreGood, Saving
  <2>4. QED
    BY <2>2, <2>3
<1>9. CASE SaveFallsShort
  <2>1. pc = "writing" /\ pc' = "written" /\ excuses' = excuses \cup {"cut"}
    BY <1>9 DEF SaveFallsShort
  <2>2. CutIsHarmless'
    BY <1>1, <1>4, <1>7, <2>1 DEF CutIsHarmless
  <2>3. MemoryIsGood'
    BY <1>1, <1>3, <2>1, <2>2 DEF MemoryIsGood, Starting
  <2>4. FilesAreGood'
    BY <2>1 DEF FilesAreGood
  <2>5. QED
    BY <2>3, <2>4
<1>10. QED
  BY <1>5, <1>6, <1>8, <1>9

\* when it empties the journal, whose lines the data file now has,
LEMMA SaveEmptiesJournalKeepsFiles ==
  ASSUME TypeInvariant, RecoveryInvariant, SaveEmptiesJournal
  PROVE  RecoveryInvariant'
<1>1. /\ pc = "written" /\ pc' = "ready" /\ db' = db /\ snapshot' = snapshot /\ line' = line
      /\ changes' = changes
      /\ journal' = IF jw THEN <<>> ELSE journal
      /\ committed' = IF jw /\ excuses # {} THEN Content(db) ELSE committed
      /\ excuses' = IF jw THEN excuses \cap {"lost", "cut"}
                    ELSE IF journal = <<>> THEN excuses ELSE excuses \cup {"unemptied"}
  BY DEF SaveEmptiesJournal, memory
<1>2. SUFFICES ASSUME "lost" \notin excuses'
               PROVE  MemoryIsGood' /\ FilesAreGood'
  BY DEF RecoveryInvariant
<1>3. "lost" \notin excuses
  BY <1>1, <1>2
<1>4. MemoryIsGood /\ FilesAreGood
  BY <1>3 DEF RecoveryInvariant
<1>5. line = <<>> /\ changes = <<>>
  BY <1>1 DEF TypeInvariant, CallRuns
<1>6. GoodDb(db) /\ ("cut" \notin excuses => snapshot = Image(db))
      /\ (excuses \subseteq {"cut"} => committed = Content(db))
  <2>1. excuses \subseteq {"cut"} <=> excuses = {} \/ excuses = {"cut"}
    OBVIOUS
  <2>2. QED
    BY <1>1, <1>4, <2>1 DEF MemoryIsGood, CutIsHarmless, FilesAreGood, Saving
<1>7. Pending(db, <<>>)
  BY DEF Pending
<1>8. MemoryIsGood'
  <2>1. excuses' = {"cut"} => committed' = Content(db)
    BY <1>1, <1>6
  <2>2. CutIsHarmless'
    BY <1>1, <1>5, <2>1 DEF CutIsHarmless
  <2>3. QED
    BY <1>1, <1>5, <1>6, <1>7, <2>2 DEF MemoryIsGood, Starting
<1>9. ASSUME excuses' = {}
      PROVE  journal' = <<>> /\ committed' = Content(db) /\ snapshot = Image(db)
  BY <1>1, <1>6, <1>9
<1>10. PICK d : d = db
  OBVIOUS
<1>11. PICK R : R = Recovered(Image(d), <<>>)
  OBVIOUS
<1>12. GoodDb(R) /\ BareDb(R) /\ Alike(d, R) /\ Content(R) = Content(d)
  BY <1>6, <1>10, <1>11, FilesAfterSaving
<1>13. ASSUME excuses' = {}
       PROVE  HeldBy(R)'
  BY <1>1, <1>5, <1>9, <1>10, <1>12, <1>13 DEF HeldBy
<1>14. FilesAreGood'
  BY <1>1, <1>6, <1>9, <1>10, <1>11, <1>13 DEF FilesAreGood, Saving
<1>15. QED
  BY <1>8, <1>14
-----------------------------------------------------------------------------
\* when a change is made and its line is still to be written,
LEMMA MakeChangeKeepsFiles ==
  ASSUME RecoveryInvariant, MakeChange
  PROVE  RecoveryInvariant'
<1>1. PICK c : c = Head(changes)
  OBVIOUS
<1>2. PICK t : t = TableOf(db, c.on)
  OBVIOUS
<1>3. PICK e : e = Applied(c)
  OBVIOUS
<1>4. PICK trace \in BOOLEAN : trace = (jw /\ ~LeavesNoTrace(c))
  OBVIOUS
<1>5. /\ pc = "ready" /\ pc' = pc /\ changes # <<>> /\ changes' = Tail(changes) /\ line = <<>>
      /\ db' = e
      /\ line' = IF trace THEN <<LineOf(c)>> ELSE <<>>
      /\ excuses' = excuses \cup (IF trace \/ LeavesNoTrace(c) THEN Excused(c, t) ELSE {"unwritten"})
      /\ snapshot' = snapshot /\ journal' = journal /\ committed' = committed
  BY <1>1, <1>2, <1>3, <1>4 DEF MakeChange, Changing, files
<1>6. SUFFICES ASSUME "lost" \notin excuses'
               PROVE  MemoryIsGood' /\ FilesAreGood'
  BY DEF RecoveryInvariant
<1>7. MemoryIsGood /\ FilesAreGood
  BY <1>5, <1>6 DEF RecoveryInvariant
<1>8. GoodDb(db) /\ Pending(db, changes)
  BY <1>5, <1>7 DEF MemoryIsGood
<1>9. Apt(db, c) /\ Pending(e, Tail(changes))
  BY <1>1, <1>3, <1>5, <1>8, PendingNext
<1>10. GoodDb(e)
  BY <1>3, <1>8, <1>9, AppliedIsGood
<1>11. MemoryIsGood'
  <2>1. "cut" \notin excuses
    BY <1>5, <1>7 DEF MemoryIsGood, CutIsHarmless
  <2>2. "cut" \notin excuses'
    BY <1>5, <2>1 DEF Excused
  <2>3. QED
    BY <1>5, <1>9, <1>10, <2>2 DEF MemoryIsGood, Starting
<1>12. PICK R : R = Recovered(snapshot, journal)
  OBVIOUS
<1>13. ASSUME excuses' = {}
       PROVE  HeldBy(R)'
  <2>1. excuses = {} /\ (trace \/ LeavesNoTrace(c)) /\ ReplaysAlike(c, t)
    BY <1>5, <1>13 DEF Excused
  <2>2. HeldBy(R)
    BY <1>5, <1>7, <1>12, <2>1 DEF FilesAreGood, Saving
  <2>3. GoodDb(R) /\ BareDb(R) /\ Content(R) = committed /\ Alike(db, R)
    BY <1>5, <2>2 DEF HeldBy
  <2>4. CASE trace
    <3>1. ~LeavesNoTrace(c)
      BY <1>4, <2>4
    <3>2. Gives(R, LineOf(c), e)
      BY <1>2, <1>3, <1>8, <1>9, <2>1, <2>3, <3>1, LineReplays
    <3>3. PICK l : l = LineOf(c)
      OBVIOUS
    <3>4. line' = <<l>> /\ line' # <<>> /\ line'[1] = l
      BY <1>5, <2>4, <3>3
    <3>5. QED
      BY <1>5, <2>3, <3>2, <3>3, <3>4 DEF HeldBy
  <2>5. CASE ~trace
    <3>1. Alike(e, R)
      BY <1>3, <1>8, <1>9, <2>1, <2>3, <2>5, NoTraceReplays
    <3>2. line' = <<>>
      BY <1>5, <2>5
    <3>3. QED
      BY <1>5, <2>3, <3>1, <3>2 DEF HeldBy
  <2>6. QED
    BY <2>4, <2>5
<1>14. FilesAreGood'
  BY <1>5, <1>12, <1>13 DEF FilesAreGood, Saving
<1>15. QED
  BY <1>11, <1>14

\* when a change throws,
LEMMA ChangeFailsKeepsFiles ==
  ASSUME RecoveryInvariant, ChangeFails
  PROVE  RecoveryInvariant'
<1>1. /\ pc = "ready" /\ pc' = pc /\ changes' = <<>> /\ line = <<>> /\ line' = line /\ db' = db
      /\ snapshot' = snapshot /\ journal' = journal /\ committed' = committed /\ excuses' = excuses
  BY DEF ChangeFails, Changing, files, history
<1>2. SUFFICES ASSUME "lost" \notin excuses
               PROVE  MemoryIsGood' /\ FilesAreGood'
  BY <1>1 DEF RecoveryInvariant
<1>3. MemoryIsGood /\ FilesAreGood
  BY <1>2 DEF RecoveryInvariant
<1>4. Pending(db, <<>>)
  BY DEF Pending
<1>5. MemoryIsGood'
  BY <1>1, <1>3, <1>4 DEF MemoryIsGood, CutIsHarmless, Starting
<1>6. PICK R : R = Recovered(snapshot, journal)
  OBVIOUS
<1>7. ASSUME excuses = {}
      PROVE  HeldBy(R)'
  <2>1. HeldBy(R)
    BY <1>1, <1>3, <1>6, <1>7 DEF FilesAreGood, Saving
  <2>2. QED
    BY <1>1, <2>1 DEF HeldBy
<1>8. FilesAreGood'
  BY <1>1, <1>6, <1>7 DEF FilesAreGood, Saving
<1>9. QED
  BY <1>5, <1>8

\* With a line at its end the journal gives what the line makes of what it gave before.
LEMMA LineIsRecovered ==
  ASSUME NEW f, NEW s, IsJournal(s), NEW l, NEW R, R = Recovered(f, s), R # Lost, ~ExecuteThrows(R, l)
  PROVE  Recovered(f, s \o <<l>>) = Execute(R, l)
<1>1. PICK S : s \in Seq(S)
  BY DEF IsJournal
<1>2. PICK u : u = s \o <<l>>
  OBVIOUS
<1>3. PICK d : d = Load(f).db
  OBVIOUS
<1>4. ~Load(f).hangs /\ Replayed(d, s) = R
  BY <1>3, LoadsUnlessLost
<1>5. Replayed(d, u) = ReplayStep(R, l)
  <2>1. Replayed(d, u) = ReplayStep(Replayed(d, s), l)
    BY <1>1, <1>2, ReplayedOneMore
  <2>2. QED
    BY <1>4, <2>1
<1>6. ReplayStep(R, l) = Execute(R, l)
  BY DEF ReplayStep
<1>7. PICK x : x = Load(f)
  OBVIOUS
<1>8. Recovered(f, u) = Replayed(d, u)
  BY <1>3, <1>4, <1>7 DEF Recovered
<1>9. QED
  BY <1>2, <1>5, <1>6, <1>8

\* A sequence of at most one line that is not empty.
LEMMA OnlyLine ==
  ASSUME NEW S, NEW w \in Seq(S), w # <<>>, Len(w) <= 1, NEW l, l = w[1]
  PROVE  w = <<l>>
<1>1. PICK n \in Nat : n = Len(w)
  OBVIOUS
<1>2. n = 1
  BY <1>1, EmptySeq
<1>3. l \in S
  BY <1>1, <1>2
<1>4. PICK v : v = <<l>>
  OBVIOUS
<1>5. v \in Seq(S) /\ Len(v) = 1 /\ v[1] = l
  BY <1>3, <1>4
<1>6. w = v
  <2>1. Len(w) = Len(v)
    BY <1>1, <1>2, <1>5
  <2>2. \A i \in 1 .. Len(w) : w[i] = v[i]
    BY <1>1, <1>2, <1>5
  <2>3. QED
    BY <1>5, <2>1, <2>2, SeqEqual, Zenon
<1>7. QED
  BY <1>4, <1>6

\* when a line is written,
LEMMA WriteLineKeepsFiles ==
  ASSUME TypeInvariant, RecoveryInvariant, WriteLine
  PROVE  RecoveryInvariant'
<1>1. /\ line # <<>> /\ line' = <<>> /\ journal' = journal \o line /\ committed' = Content(db)
      /\ pc' = pc /\ changes' = changes /\ db' = db /\ snapshot' = snapshot /\ excuses' = excuses
  BY DEF WriteLine, memory
<1>2. pc = "ready" /\ IsJournal(line) /\ Len(line) <= 1 /\ IsJournal(journal)
  BY <1>1 DEF TypeInvariant, CallRuns
<1>3. SUFFICES ASSUME "lost" \notin excuses
               PROVE  MemoryIsGood' /\ FilesAreGood'
  BY <1>1 DEF RecoveryInvariant
<1>4. MemoryIsGood /\ FilesAreGood
  BY <1>3 DEF RecoveryInvariant
<1>5. MemoryIsGood'
  BY <1>1, <1>2, <1>4 DEF MemoryIsGood, CutIsHarmless, Starting
<1>6. PICK l : l = line[1]
  OBVIOUS
<1>7. line = <<l>>
  <2>1. PICK S : line \in Seq(S)
    BY <1>2 DEF IsJournal
  <2>2. PICK w \in Seq(S) : w = line
    BY <2>1
  <2>3. w # <<>> /\ Len(w) <= 1 /\ l = w[1]
    BY <1>1, <1>2, <1>6, <2>2
  <2>4. w = <<l>>
    BY <2>2, <2>3, OnlyLine
  <2>5. QED
    BY <2>2, <2>4
<1>8. PICK R : R = Recovered(snapshot, journal)
  OBVIOUS
<1>9. PICK Q : Q = Execute(R, l)
  OBVIOUS
<1>10. ASSUME excuses = {}
       PROVE  Recovered(snapshot, journal') = Q /\ HeldBy(Q)'
  <2>1. HeldBy(R)
    BY <1>2, <1>4, <1>8, <1>10 DEF FilesAreGood, Saving
  <2>2. GoodDb(R) /\ Gives(R, l, db)
    BY <1>1, <1>2, <1>6, <2>1 DEF HeldBy
  <2>3. GoodDb(Q) /\ BareDb(Q) /\ Alike(db, Q) /\ ~ExecuteThrows(R, l)
    BY <1>9, <2>2 DEF Gives
  <2>4. R # Lost
    BY <2>2, NotLost
  <2>5. Recovered(snapshot, journal \o <<l>>) = Q
    BY <1>2, <1>8, <1>9, <2>3, <2>4, LineIsRecovered
  <2>6. Recovered(snapshot, journal') = Q
    BY <1>1, <1>7, <2>5
  <2>7. PICK d : d = db
    OBVIOUS
  <2>8. GoodDb(d)
    BY <1>2, <1>4, <2>7 DEF MemoryIsGood
  <2>9. Content(d) = Content(Q)
    BY <2>3, <2>7, <2>8, ContentAlike
  <2>10. HeldBy(Q)'
    BY <1>1, <1>2, <2>3, <2>7, <2>9 DEF HeldBy
  <2>11. QED
    BY <2>6, <2>10
<1>11. FilesAreGood'
  BY <1>1, <1>10 DEF FilesAreGood
<1>12. QED
  BY <1>5, <1>11

\* when it is lost,
LEMMA LineIsLostKeepsFiles ==
  ASSUME TypeInvariant, RecoveryInvariant, LineIsLost
  PROVE  RecoveryInvariant'
<1>1. /\ line # <<>> /\ pc' = pc /\ changes' = changes /\ db' = db /\ snapshot' = snapshot
      /\ excuses' = excuses \cup {"unwritten"}
  BY DEF LineIsLost, memory, files
<1>2. pc = "ready"
  BY <1>1 DEF TypeInvariant, CallRuns
<1>3. SUFFICES ASSUME "lost" \notin excuses
               PROVE  MemoryIsGood' /\ FilesAreGood'
  BY <1>1 DEF RecoveryInvariant
<1>4. MemoryIsGood
  BY <1>3 DEF RecoveryInvariant
<1>5. MemoryIsGood'
  BY <1>1, <1>2, <1>4 DEF MemoryIsGood, CutIsHarmless, Starting
<1>6. FilesAreGood'
  BY <1>1 DEF FilesAreGood
<1>7. QED
  BY <1>5, <1>6
-----------------------------------------------------------------------------
\* A process that dies, and leaves files that give what is recorded.
LEMMA DyingKeepsFiles ==
  ASSUME pc' = "down", NEW R, R = Recovered(snapshot, journal)', GoodDb(R), BareDb(R),
         Content(R) = committed', excuses' = {}
  PROVE  RecoveryInvariant'
<1>1. HeldBy(R)'
  BY DEF HeldBy
<1>2. FilesAreGood'
  BY <1>1 DEF FilesAreGood, Saving
<1>3. MemoryIsGood'
  BY DEF MemoryIsGood, Starting
<1>4. QED
  BY <1>2, <1>3 DEF RecoveryInvariant

\* when a process dies between writes,
LEMMA CrashKeepsFiles ==
  ASSUME RecoveryInvariant, Crash
  PROVE  RecoveryInvariant'
<1>1. /\ pc \notin {"writing", "written"} /\ pc' = "down" /\ committed' = committed
      /\ excuses' = Died(excuses)
      /\ snapshot' = snapshot /\ journal' = journal
  BY DEF Crash, Dies, files
<1>2. CASE excuses = {}
  <2>1. FilesAreGood
    BY <1>2 DEF RecoveryInvariant
  <2>2. PICK R : R = Recovered(snapshot, journal)
    OBVIOUS
  <2>3. HeldBy(R)
    BY <1>1, <1>2, <2>1, <2>2 DEF FilesAreGood, Saving
  <2>4. GoodDb(R) /\ BareDb(R) /\ Content(R) = committed'
    BY <1>1, <2>3 DEF HeldBy
  <2>5. R = Recovered(snapshot, journal)'
    BY <1>1, <2>2
  <2>6. QED
    BY <1>1, <1>2, <2>4, <2>5, DyingKeepsFiles DEF Died
<1>3. CASE excuses # {}
  BY <1>1, <1>3 DEF RecoveryInvariant, Died
<1>4. QED
  BY <1>2, <1>3

\* while it saves,
LEMMA CrashSavingKeepsFiles ==
  ASSUME TypeInvariant, RecoveryInvariant, CrashSaving
  PROVE  RecoveryInvariant'
<1>1. pc' = "down" /\ committed' = committed /\ journal' = journal
  BY DEF CrashSaving, Dies
<1>2. CASE "lost" \in excuses'
  BY <1>2 DEF RecoveryInvariant
<1>3. CASE "lost" \notin excuses'
  <2>1. pc = "written" /\ journal = <<>> /\ excuses = {} /\ excuses' = {} /\ snapshot' = snapshot
    BY <1>3 DEF CrashSaving, Died
  <2>2. MemoryIsGood /\ FilesAreGood
    BY <2>1 DEF RecoveryInvariant
  <2>3. PICK d : d = db
    OBVIOUS
  <2>4. GoodDb(d) /\ snapshot = Image(d) /\ committed = Content(d)
    BY <2>1, <2>2, <2>3 DEF MemoryIsGood, FilesAreGood, Saving
  <2>5. PICK R : R = Recovered(Image(d), <<>>)
    OBVIOUS
  <2>6. GoodDb(R) /\ BareDb(R) /\ Content(R) = Content(d)
    BY <2>4, <2>5, FilesAfterSaving
  <2>7. R = Recovered(snapshot, journal)'
    BY <1>1, <2>1, <2>4, <2>5
  <2>8. Content(R) = committed'
    BY <1>1, <2>4, <2>6
  <2>9. QED
    BY <1>1, <2>1, <2>6, <2>7, <2>8, DyingKeepsFiles
<1>4. QED
  BY <1>2, <1>3

\* while it writes a line;
LEMMA CrashWritingLineKeepsFiles ==
  ASSUME CrashWritingLine
  PROVE  RecoveryInvariant'
BY DEF CrashWritingLine, Died, RecoveryInvariant

\* hence at every step.
LEMMA FilesArePreserved ==
  ASSUME TypeInvariant, RecoveryInvariant, [Next]_vars
  PROVE  RecoveryInvariant'
<1>1. CASE UNCHANGED vars
  BY <1>1 DEF vars, RecoveryInvariant, MemoryIsGood, CutIsHarmless, FilesAreGood, HeldBy, Saving
<1>2. CASE Calls
  BY <1>2, CallsKeepFiles
<1>3. CASE Steps
  BY <1>3, LoadSnapshotKeepsFiles, EnableJournalKeepsFiles, ConsolidateKeepsFiles, ReplayKeepsFiles,
     SaveKeepsFiles, SaveEmptiesJournalKeepsFiles, MakeChangeKeepsFiles, ChangeFailsKeepsFiles,
     WriteLineKeepsFiles, LineIsLostKeepsFiles DEF Steps
<1>4. QED
  BY <1>1, <1>2, <1>3, CrashKeepsFiles, CrashSavingKeepsFiles, CrashWritingLineKeepsFiles DEF Next
-----------------------------------------------------------------------------
\* It says more than FilesHoldCommitted,
LEMMA FilesHold ==
  ASSUME RecoveryInvariant
  PROVE  FilesHoldCommitted
<1> SUFFICES ASSUME ~Saving, excuses = {}
             PROVE  Content(Recovered(snapshot, journal)) = committed
  BY DEF FilesHoldCommitted
<1>1. PICK R : R = Recovered(snapshot, journal)
  OBVIOUS
<1>2. HeldBy(R)
  BY <1>1 DEF RecoveryInvariant, FilesAreGood
<1>3. QED
  BY <1>1, <1>2 DEF HeldBy

\* than ClientSeesCommitted,
LEMMA ClientSees ==
  ASSUME RecoveryInvariant
  PROVE  ClientSeesCommitted
<1> SUFFICES ASSUME Idle, excuses = {}
             PROVE  Content(db) = committed
  BY DEF ClientSeesCommitted
<1>1. MemoryIsGood /\ FilesAreGood
  BY DEF RecoveryInvariant
<1>2. QED
  BY <1>1, BeforeSaving DEF Idle

\* and than KeysAreUnique.
LEMMA KeysUnique ==
  ASSUME RecoveryInvariant
  PROVE  KeysAreUnique
<1> SUFFICES ASSUME Idle, excuses = {}, NEW key \in Keys
             PROVE  Cardinality(Matching(TableOf(db, Kv), KeyQuery(key))) <= 1
  BY DEF KeysAreUnique
<1>1. PICK d : d = db
  OBVIOUS
<1>2. GoodDb(d)
  BY <1>1 DEF RecoveryInvariant, MemoryIsGood, Idle
<1>3. PICK t : t = TableOf(d, Kv)
  OBVIOUS
<1>4. PICK q : q = KeyQuery(key)
  OBVIOUS
<1>5. PICK rows : rows = RowsOf(t.docs)
  OBVIOUS
<1>6. PICK n : n = Cardinality(Matching(t, q))
  OBVIOUS
<1>7. Kv \in AllNames
  BY DEF AllNames
<1>8. Sound(t, KindsOf(Kv)) /\ Keyed(rows)
  BY <1>2, <1>3, <1>5, <1>7, GoodTable DEF GoodDb, RowsIn
<1>9. q \in QueryRecords
  BY <1>4, KeyQueryIsFine DEF Fine
<1>10. IsFiniteSet(RowsMatch(rows, q)) /\ Cardinality(RowsMatch(rows, q)) = n
  BY <1>5, <1>6, <1>8, <1>9, RowsCounted
<1>11. n \in {0, 1}
  BY <1>4, <1>8, <1>10, OnePair
<1>12. QED
  BY <1>1, <1>3, <1>4, <1>6, <1>11

\* Whatever clients call and wherever the process dies outside of save: the data
\* file with the journal replayed over it gives the documents memory had when the
\* last line was written, in their order, unless an excuse is on record.
THEOREM FilesHoldWhatIsCommitted == Spec => []FilesHoldCommitted
<1>1. Init => TypeInvariant /\ RecoveryInvariant
  BY TypeInvariantStarts, RecoveryStarts
<1>2. TypeInvariant /\ RecoveryInvariant /\ [Next]_vars => (TypeInvariant /\ RecoveryInvariant)'
  BY TypesArePreserved, FilesArePreserved
<1>3. RecoveryInvariant => FilesHoldCommitted
  BY FilesHold
<1>4. QED
  BY <1>1, <1>2, <1>3, PTL DEF Spec

\* Between two calls memory is what is recorded, in a first life and after any
\* number of restarts, unless an excuse is on record.
THEOREM ClientsSeeWhatIsCommitted == Spec => []ClientSeesCommitted
<1>1. Init => TypeInvariant /\ RecoveryInvariant
  BY TypeInvariantStarts, RecoveryStarts
<1>2. TypeInvariant /\ RecoveryInvariant /\ [Next]_vars => (TypeInvariant /\ RecoveryInvariant)'
  BY TypesArePreserved, FilesArePreserved
<1>3. RecoveryInvariant => ClientSeesCommitted
  BY ClientSees
<1>4. QED
  BY <1>1, <1>2, <1>3, PTL DEF Spec

\* No key has two values between two calls, whichever pairs are set, in memory and
\* after any number of restarts, unless an excuse is on record.
THEOREM KeysStayUnique == Spec => []KeysAreUnique
<1>1. Init => TypeInvariant /\ RecoveryInvariant
  BY TypeInvariantStarts, RecoveryStarts
<1>2. TypeInvariant /\ RecoveryInvariant /\ [Next]_vars => (TypeInvariant /\ RecoveryInvariant)'
  BY TypesArePreserved, FilesArePreserved
<1>3. RecoveryInvariant => KeysAreUnique
  BY KeysUnique
<1>4. QED
  BY <1>1, <1>2, <1>3, PTL DEF Spec
=============================================================================
