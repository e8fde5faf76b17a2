-------------------------- MODULE IndexingProofs ---------------------------
(***************************************************************************)
(* Lemmas about indices, for collections and databases alike: an index     *)
(* that was coherent is coherent again once a document has gained or lost  *)
(* its entry, and its plans select what satisfies the query, provided the  *)
(* values of its field are of one kind.                                    *)
(***************************************************************************)
EXTENDS Indexing, SequenceTheorems, WellFoundedInduction, TLAPS

\* Field f holds values of one kind throughout docs.
OfKind(kind, f, docs) ==
  \A r \in DOMAIN docs :
    f \in DOMAIN docs[r] => docs[r][f] \in Values /\ Kind(docs[r][f]) = kind

\* A value has an integer rank, whatever its type.
LEMMA RankIsInt ==
  ASSUME NEW v \in Values
  PROVE  Rank(v) \in Int
BY MaxExactAssumption DEF Rank, AsDouble, Values

\* operator< orders the values of one kind: a strict weak order.
LEMMA OneKindIsOrdered ==
  ASSUME NEW a \in Values, NEW b \in Values, NEW c \in Values,
         Kind(a) = Kind(b), Kind(b) = Kind(c)
  PROVE  /\ ~Less(a, a)
         /\ Less(a, b) => ~Less(b, a)
         /\ Less(a, c) => Less(a, b) \/ Less(b, c)
<1>1. Rank(a) \in Int /\ Rank(b) \in Int /\ Rank(c) \in Int
  BY RankIsInt
<1>2. Less(a, c) => Comparable(a, b) /\ Comparable(b, c)
  BY DEF Less, Comparable, Kind
<1>3. QED
  BY <1>1, <1>2 DEF Less

\* t is s with e at position i and what was there and behind moved up.
IsInsertion(t, s, i, e) ==
  /\ Len(t) = Len(s) + 1
  /\ DOMAIN t = 1 .. Len(s) + 1
  /\ \A j \in 1 .. Len(s) + 1 :
       t[j] = IF j < i THEN s[j] ELSE IF j = i THEN e ELSE s[j - 1]

\* The elements of two sequences, one behind the other.
LEMMA Concatenation ==
  ASSUME NEW S, NEW a \in Seq(S), NEW b \in Seq(S), NEW m, m = Len(a), NEW n, n = Len(a) + Len(b)
  PROVE  /\ a \o b \in Seq(S)
         /\ Len(a \o b) = n
         /\ \A j \in 1 .. n : (a \o b)[j] = IF j <= m THEN a[j] ELSE b[j - m]
OBVIOUS

\* What InsertAt returns.
LEMMA InsertAtElements ==
  ASSUME NEW S, NEW s \in Seq(S), NEW i \in 1 .. Len(s) + 1, NEW e \in S
  PROVE  InsertAt(s, i, e) \in Seq(S) /\ IsInsertion(InsertAt(s, i, e), s, i, e)
<1> DEFINE front == SubSeq(s, 1, i - 1)
           back == SubSeq(s, i, Len(s))
           head == front \o <<e>>
<1>1. /\ front \in Seq(S)
      /\ Len(front) = i - 1
      /\ \A j \in 1 .. i - 1 : front[j] = s[j]
  OBVIOUS
<1>2. /\ back \in Seq(S)
      /\ Len(back) = Len(s) - i + 1
      /\ \A j \in 1 .. Len(s) - i + 1 : back[j] = s[i + j - 1]
  OBVIOUS
<1>3. <<e>> \in Seq(S) /\ Len(<<e>>) = 1 /\ <<e>>[1] = e
  OBVIOUS
<1> HIDE DEF front, back
<1>4. /\ head \in Seq(S)
      /\ Len(head) = i
      /\ \A j \in 1 .. i : head[j] = IF j < i THEN s[j] ELSE e
  BY <1>1, <1>3
<1> HIDE DEF head
<1>5. InsertAt(s, i, e) = head \o back
  BY DEF InsertAt, front, back, head
<1>6. /\ head \o back \in Seq(S)
      /\ Len(head \o back) = Len(s) + 1
      /\ \A j \in 1 .. Len(s) + 1 :
           (head \o back)[j] = IF j <= i THEN head[j] ELSE back[j - i]
  BY <1>2, <1>4, Concatenation
<1>7. \A j \in 1 .. Len(s) + 1 : j > i => back[j - i] = s[j - 1]
  BY <1>2
<1>8. DOMAIN (head \o back) = 1 .. Len(s) + 1
  BY <1>6
<1>9. QED
  BY <1>4, <1>5, <1>6, <1>7, <1>8 DEF IsInsertion

\* RemoveAt takes out position i and moves up what was behind.
LEMMA RemoveAtElements ==
  ASSUME NEW S, NEW s \in Seq(S), NEW i \in 1 .. Len(s)
  PROVE  /\ RemoveAt(s, i) \in Seq(S)
         /\ Len(RemoveAt(s, i)) = Len(s) - 1
         /\ \A j \in 1 .. Len(s) - 1 :
              RemoveAt(s, i)[j] = IF j < i THEN s[j] ELSE s[j + 1]
<1> DEFINE front == SubSeq(s, 1, i - 1)
           back == SubSeq(s, i + 1, Len(s))
<1>1. /\ front \in Seq(S)
      /\ Len(front) = i - 1
      /\ \A j \in 1 .. i - 1 : front[j] = s[j]
  OBVIOUS
<1>2. /\ back \in Seq(S)
      /\ Len(back) = Len(s) - i
      /\ \A j \in 1 .. Len(s) - i : back[j] = s[i + j]
  OBVIOUS
<1> HIDE DEF front, back
<1>3. RemoveAt(s, i) = front \o back
  BY DEF RemoveAt, front, back
<1>4. /\ front \o back \in Seq(S)
      /\ Len(front \o back) = Len(s) - 1
      /\ \A j \in 1 .. Len(s) - 1 :
           (front \o back)[j] = IF j <= i - 1 THEN front[j] ELSE back[j - (i - 1)]
  <2>1. PICK m, n : m = i - 1 /\ n = Len(s) - 1
    OBVIOUS
  <2>2. front \in Seq(S) /\ back \in Seq(S) /\ m = Len(front) /\ n = Len(front) + Len(back)
    BY <1>1, <1>2, <2>1
  <2>3. /\ front \o back \in Seq(S)
        /\ Len(front \o back) = n
        /\ \A j \in 1 .. n : (front \o back)[j] = IF j <= m THEN front[j] ELSE back[j - m]
    BY <2>2, Concatenation
  <2>4. QED
    BY <2>1, <2>3
<1>5. \A j \in 1 .. Len(s) - 1 : j > i - 1 => back[j - (i - 1)] = s[j + 1]
  BY <1>2, SMTT(60)
<1>6. \A j \in 1 .. Len(s) - 1 : (front \o back)[j] = IF j < i THEN s[j] ELSE s[j + 1]
  <2> TAKE j \in 1 .. Len(s) - 1
  <2>1. CASE j < i
    BY <1>1, <1>4, <2>1
  <2>2. CASE ~(j < i)
    BY <1>4, <1>5, <2>2
  <2>3. QED
    BY <2>1, <2>2
<1>7. QED
  BY <1>3, <1>4, <1>6

(***************************************************************************)
(* insert_index_entries: the index of a collection that gains document d.  *)
(***************************************************************************)
LEMMA InsertKeepsCoherence ==
  ASSUME NEW R, NEW docs, NEW f, NEW kind, NEW d,
         NEW es \in Seq(EntriesOf(R)),
         NEW r \in R, r \notin DOMAIN docs,
         f \in DOMAIN d, d[f] \in Values, Kind(d[f]) = kind,
         OfKind(kind, f, docs),
         Coherent(es, f, docs),
         NEW new \in InsertEntry(es, d[f], r)
  PROVE  /\ new \in Seq(EntriesOf(R))
         /\ Coherent(new, f, With(docs, r, d))
<1> DEFINE grown == With(docs, r, d)
           e == Entry(d[f], r)
<1>1. PICK p \in UpperBounds(es, d[f]) : new = InsertAt(es, p + 1, e)
  BY DEF InsertEntry
<1>2. p \in 0 .. Len(es) /\ p + 1 \in 1 .. Len(es) + 1
  BY DEF UpperBounds
<1>3. e \in EntriesOf(R) /\ e.key = d[f] /\ e.ref = r
  BY DEF Entry, EntriesOf
<1>4. /\ new \in Seq(EntriesOf(R))
      /\ Len(new) = Len(es) + 1
      /\ DOMAIN new = 1 .. Len(es) + 1
      /\ \A j \in 1 .. Len(es) + 1 :
           new[j] = IF j < p + 1 THEN es[j] ELSE IF j = p + 1 THEN e ELSE es[j - 1]
  <2> DEFINE i == p + 1
  <2>1. i \in 1 .. Len(es) + 1 /\ e \in EntriesOf(R) /\ new = InsertAt(es, i, e)
    BY <1>1, <1>2, <1>3
  <2> HIDE DEF i, e
  <2>2. new \in Seq(EntriesOf(R)) /\ IsInsertion(new, es, i, e)
    BY <2>1, InsertAtElements
  <2>3. QED
    BY <2>2 DEF IsInsertion, i
<1>5. DOMAIN es = 1 .. Len(es)
  OBVIOUS
<1>6. /\ DOMAIN grown = DOMAIN docs \cup {r}
      /\ grown[r] = d
      /\ \A s \in DOMAIN docs : grown[s] = docs[s]
  BY DEF With
<1> HIDE DEF grown, e
<1>7. \A j \in 1 .. Len(es) :
        /\ es[j].ref \in DOMAIN docs
        /\ f \in DOMAIN docs[es[j].ref]
        /\ es[j].key = docs[es[j].ref][f]
        /\ es[j].key \in Values
        /\ Kind(es[j].key) = kind
  BY <1>5 DEF Coherent, Current, OfKind
<1>8. Current(new, f, grown)
  <2> SUFFICES ASSUME NEW j \in 1 .. Len(es) + 1
               PROVE  /\ new[j].ref \in DOMAIN grown
                      /\ f \in DOMAIN grown[new[j].ref]
                      /\ new[j].key = grown[new[j].ref][f]
    BY <1>4 DEF Current
  <2>1. CASE j < p + 1
    BY <2>1, <1>2, <1>4, <1>6, <1>7
  <2>2. CASE j = p + 1
    BY <2>2, <1>3, <1>4, <1>6
  <2>3. CASE j > p + 1
    <3>1. j - 1 \in 1 .. Len(es) /\ new[j] = es[j - 1]
      BY <2>3, <1>2, <1>4
    <3>2. QED
      BY <3>1, <1>6, <1>7
  <2>4. QED
    BY <2>1, <2>2, <2>3, <1>2
<1>9. Complete(new, f, grown)
  <2> SUFFICES ASSUME NEW s \in DOMAIN grown, f \in DOMAIN grown[s]
               PROVE  \E j \in DOMAIN new : new[j].ref = s
    BY DEF Complete
  <2>1. CASE s = r
    <3>1. p + 1 \in DOMAIN new /\ new[p + 1] = e
      BY <1>2, <1>4
    <3>2. QED
      BY <3>1, <2>1, <1>3
  <2>2. CASE s # r
    <3>1. PICK j \in 1 .. Len(es) : es[j].ref = s
      BY <2>2, <1>5, <1>6 DEF Coherent, Complete
    <3>2. CASE j < p + 1
      BY <3>1, <3>2, <1>4
    <3>3. CASE j >= p + 1
      <4>1. j + 1 \in 1 .. Len(es) + 1 /\ new[j + 1] = es[j]
        BY <3>3, <1>2, <1>4
      <4>2. QED
        BY <4>1, <3>1, <1>4
    <3>4. QED
      BY <3>2, <3>3, <1>2
  <2>3. QED
    BY <2>1, <2>2
<1>10. Distinct(new)
  <2>1. \A j \in 1 .. Len(es) : es[j].ref # r
    BY <1>7
  <2>2. \A i, j \in 1 .. Len(es) : es[i].ref = es[j].ref => i = j
    BY <1>5 DEF Coherent, Distinct
  <2> SUFFICES ASSUME NEW i \in 1 .. Len(es) + 1, NEW j \in 1 .. Len(es) + 1,
                      new[i].ref = new[j].ref
               PROVE  i = j
    BY <1>4 DEF Distinct
  <2>3. CASE i = p + 1 \/ j = p + 1
    <3>1. \A m \in 1 .. Len(es) + 1 : m # p + 1 => new[m].ref # r
      <4> SUFFICES ASSUME NEW m \in 1 .. Len(es) + 1, m # p + 1
                   PROVE  new[m].ref # r
        OBVIOUS
      <4>1. CASE m < p + 1
        BY <4>1, <2>1, <1>2, <1>4
      <4>2. CASE m > p + 1
        <5>1. m - 1 \in 1 .. Len(es) /\ new[m] = es[m - 1]
          BY <4>2, <1>2, <1>4
        <5>2. QED
          BY <5>1, <2>1
      <4>3. QED
        BY <4>1, <4>2, <1>2
    <3>2. new[p + 1].ref = r
      BY <1>2, <1>3, <1>4, SMTT(60)
    <3>3. QED
      BY <3>1, <3>2, <2>3
  <2>4. CASE i # p + 1 /\ j # p + 1
    <3> DEFINE old(m) == IF m < p + 1 THEN m ELSE m - 1
    <3>1. \A m \in 1 .. Len(es) + 1 :
            m # p + 1 => old(m) \in 1 .. Len(es) /\ new[m] = es[old(m)]
      BY <1>2, <1>4
    <3>2. old(i) = old(j)
      BY <3>1, <2>2, <2>4, SMTT(60)
    <3>3. QED
      BY <3>2, <2>4, <1>2
  <2>5. QED
    BY <2>3, <2>4
<1>11. Sorted(new)
  <2>1. \A i, j \in 1 .. Len(es) : i < j => ~Less(es[j].key, es[i].key)
    BY <1>5 DEF Coherent, Sorted
  <2>2. \A j \in 1 .. Len(es) : j <= p => ~Less(d[f], es[j].key)
    <3> SUFFICES ASSUME NEW j \in 1 .. Len(es), j <= p, Less(d[f], es[j].key)
                 PROVE  FALSE
      OBVIOUS
    <3>1. p \in 1 .. Len(es) /\ ~Less(d[f], es[p].key)
      BY <1>2 DEF UpperBounds
    <3>2. ~Less(es[p].key, es[j].key)
      BY <3>1, <2>1, <1>7, OneKindIsOrdered
    <3>3. QED
      BY <3>1, <3>2, <1>7, OneKindIsOrdered
  <2>3. \A j \in 1 .. Len(es) : j > p => ~Less(es[j].key, d[f])
    <3> SUFFICES ASSUME NEW j \in 1 .. Len(es), j > p, Less(es[j].key, d[f])
                 PROVE  FALSE
      OBVIOUS
    <3>1. p + 1 \in 1 .. Len(es) /\ Less(d[f], es[p + 1].key)
      BY <1>2 DEF UpperBounds
    <3>2. ~Less(es[j].key, es[p + 1].key)
      BY <3>1, <2>1, <1>2, <1>7, OneKindIsOrdered
    <3>3. ~Less(es[p + 1].key, d[f])
      BY <3>1, <1>7, OneKindIsOrdered
    <3>4. QED
      BY <3>1, <3>2, <3>3, <1>7, OneKindIsOrdered
  <2> SUFFICES ASSUME NEW i \in 1 .. Len(es) + 1, NEW j \in 1 .. Len(es) + 1, i < j
               PROVE  ~Less(new[j].key, new[i].key)
    BY <1>4 DEF Sorted
  <2>4. CASE i = p + 1
    <3>1. j - 1 \in 1 .. Len(es) /\ j - 1 > p /\ new[j] = es[j - 1]
      BY <2>4, <1>2, <1>4
    <3>2. QED
      BY <3>1, <2>3, <2>4, <1>3, <1>4
  <2>5. CASE j = p + 1
    <3>1. i \in 1 .. Len(es) /\ i <= p /\ new[i] = es[i]
      BY <2>5, <1>2, <1>4
    <3>2. QED
      BY <3>1, <2>2, <2>5, <1>3, <1>4
  <2>6. CASE i # p + 1 /\ j # p + 1
    <3> DEFINE old(m) == IF m < p + 1 THEN m ELSE m - 1
    <3>1. \A m \in 1 .. Len(es) + 1 :
            m # p + 1 => old(m) \in 1 .. Len(es) /\ new[m] = es[old(m)]
      BY <1>2, <1>4
    <3>2. old(i) < old(j)
      BY <2>6, <1>2
    <3>3. QED
      BY <3>1, <3>2, <2>1, <2>6
  <2>7. QED
    BY <2>4, <2>5, <2>6
<1>12. QED
  BY <1>4, <1>8, <1>9, <1>10, <1>11 DEF Coherent, grown

(***************************************************************************)
(* remove_index_entries finds what it looks for: in a coherent index the   *)
(* one entry of list node r lies inside equal_range of the document's key. *)
(***************************************************************************)
LEMMA EraseFindsTheEntry ==
  ASSUME NEW R, NEW docs, NEW f, NEW kind,
         NEW es \in Seq(EntriesOf(R)),
         NEW r \in DOMAIN docs, f \in DOMAIN docs[r],
         OfKind(kind, f, docs),
         Coherent(es, f, docs)
  PROVE  \E q \in 1 .. Len(es) :
           es[q].ref = r /\ EraseEntry(es, docs[r][f], r) \subseteq {RemoveAt(es, q)}
<1>1. DOMAIN es = 1 .. Len(es)
  OBVIOUS
<1>2. PICK q \in 1 .. Len(es) : es[q].ref = r
  BY <1>1 DEF Coherent, Complete
<1>3. \A j \in 1 .. Len(es) :
        /\ es[j].key = docs[es[j].ref][f]
        /\ es[j].key \in Values
        /\ Kind(es[j].key) = kind
  BY <1>1 DEF Coherent, Current, OfKind
<1>4. \A i, j \in 1 .. Len(es) : i <= j => ~Less(es[j].key, es[i].key)
  <2>1. \A i, j \in 1 .. Len(es) : i < j => ~Less(es[j].key, es[i].key)
    BY <1>1 DEF Coherent, Sorted
  <2>2. \A i \in 1 .. Len(es) : ~Less(es[i].key, es[i].key)
    BY <1>3, OneKindIsOrdered
  <2>3. QED
    BY <2>1, <2>2
<1> DEFINE k == docs[r][f]
<1>5. es[q].key = k
  BY <1>2, <1>3
<1>6. ASSUME NEW c \in EqualRanges(es, k)
      PROVE  {p \in c[1] + 1 .. c[2] : es[p].ref = r} = {q}
  <2>1. c[1] \in LowerBounds(es, k) /\ c[2] \in UpperBounds(es, k)
    BY <1>6 DEF EqualRanges
  <2>2. c[1] \in 0 .. Len(es) /\ c[2] \in 0 .. Len(es)
    BY <2>1 DEF LowerBounds, UpperBounds
  <2>3. c[1] < q
    <3> SUFFICES ASSUME q <= c[1]
                 PROVE  FALSE
      BY <2>2
    <3>1. c[1] \in 1 .. Len(es) /\ Less(es[c[1]].key, k)
      BY <2>1, <2>2 DEF LowerBounds
    <3>2. QED
      BY <3>1, <1>4, <1>5
  <2>4. q <= c[2]
    <3> SUFFICES ASSUME c[2] < q
                 PROVE  FALSE
      BY <2>2
    <3>1. c[2] + 1 \in 1 .. Len(es) /\ c[2] + 1 <= q /\ Less(k, es[c[2] + 1].key)
      BY <2>1, <2>2 DEF UpperBounds
    <3>2. QED
      BY <3>1, <1>4, <1>5
  <2>5. \A p \in 1 .. Len(es) : es[p].ref = r => p = q
    BY <1>1, <1>2 DEF Coherent, Distinct
  <2>6. QED
    BY <2>2, <2>3, <2>4, <2>5, <1>2
<1>7. ASSUME NEW new \in EraseEntry(es, k, r)
      PROVE  new = RemoveAt(es, q)
  <2>1. PICK c \in EqualRanges(es, k) :
          LET hits == {p \in c[1] + 1 .. c[2] : es[p].ref = r}
          IN  new = IF hits = {} THEN es
                    ELSE RemoveAt(es, Min(hits))
    BY <1>7 DEF EraseEntry
  <2>2. new = RemoveAt(es, Min({q}))
    BY <2>1, <1>6
  <2>3. Min({q}) = q
    BY DEF Min
  <2>4. QED
    BY <2>2, <2>3
<1>8. QED
  BY <1>2, <1>7

(***************************************************************************)
(* remove_index_entries: the index of a collection that loses list node r. *)
(***************************************************************************)
LEMMA EraseKeepsCoherence ==
  ASSUME NEW R, NEW docs, NEW f, NEW kind,
         NEW es \in Seq(EntriesOf(R)),
         NEW r \in DOMAIN docs, f \in DOMAIN docs[r],
         OfKind(kind, f, docs),
         Coherent(es, f, docs),
         NEW new \in EraseEntry(es, docs[r][f], r)
  PROVE  /\ new \in Seq(EntriesOf(R))
         /\ Coherent(new, f, Without(docs, r))
<1> DEFINE S == EntriesOf(R)
           left == Without(docs, r)
<1>1. PICK q \in 1 .. Len(es) : es[q].ref = r /\ new = RemoveAt(es, q)
  <2>1. \E q \in 1 .. Len(es) :
          es[q].ref = r /\ EraseEntry(es, docs[r][f], r) \subseteq {RemoveAt(es, q)}
    BY EraseFindsTheEntry
  <2>2. QED
    BY <2>1
<1>2. /\ new \in Seq(S)
      /\ Len(new) = Len(es) - 1
      /\ \A j \in 1 .. Len(es) - 1 : new[j] = IF j < q THEN es[j] ELSE es[j + 1]
  <2> HIDE DEF S
  <2>1. es \in Seq(S)
    BY DEF S
  <2>2. QED
    BY <2>1, <1>1, RemoveAtElements
<1>3. DOMAIN es = 1 .. Len(es) /\ DOMAIN new = 1 .. Len(es) - 1
  BY <1>2
<1> DEFINE old(j) == IF j < q THEN j ELSE j + 1
<1>4. \A j \in 1 .. Len(es) - 1 :
        old(j) \in 1 .. Len(es) /\ old(j) # q /\ new[j] = es[old(j)]
  BY <1>1, <1>2
<1>5. \A i, j \in 1 .. Len(es) - 1 : i < j => old(i) < old(j)
  OBVIOUS
<1>6. \A j \in 1 .. Len(es) : j # q => \E i \in 1 .. Len(es) - 1 : old(i) = j
  <2> SUFFICES ASSUME NEW j \in 1 .. Len(es), j # q
               PROVE  \E i \in 1 .. Len(es) - 1 : old(i) = j
    OBVIOUS
  <2>1. CASE j < q
    <3>1. j \in 1 .. Len(es) - 1 /\ old(j) = j
      BY <2>1, <1>1
    <3>2. QED
      BY <3>1
  <2>2. CASE j > q
    <3>1. j - 1 \in 1 .. Len(es) - 1 /\ old(j - 1) = j
      BY <2>2, <1>1
    <3>2. QED
      BY <3>1
  <2> HIDE DEF old
  <2>3. j < q \/ j > q
    OBVIOUS
  <2>4. QED
    BY <2>1, <2>2, <2>3
<1>7. DOMAIN left = DOMAIN docs \ {r} /\ \A s \in DOMAIN left : left[s] = docs[s]
  BY DEF Without
<1> HIDE DEF left, old, S
<1>8. \A i, j \in 1 .. Len(es) : es[i].ref = es[j].ref => i = j
  BY <1>3 DEF Coherent, Distinct
<1>9. Current(new, f, left)
  <2> SUFFICES ASSUME NEW j \in 1 .. Len(es) - 1
               PROVE  /\ new[j].ref \in DOMAIN left
                      /\ f \in DOMAIN left[new[j].ref]
                      /\ new[j].key = left[new[j].ref][f]
    BY <1>3 DEF Current
  <2>1. es[old(j)].ref # r
    BY <1>1, <1>4, <1>8
  <2>2. /\ es[old(j)].ref \in DOMAIN docs
        /\ f \in DOMAIN docs[es[old(j)].ref]
        /\ es[old(j)].key = docs[es[old(j)].ref][f]
    BY <1>3, <1>4 DEF Coherent, Current
  <2>3. QED
    BY <2>1, <2>2, <1>4, <1>7
<1>10. Complete(new, f, left)
  <2> SUFFICES ASSUME NEW s \in DOMAIN left, f \in DOMAIN left[s]
               PROVE  \E j \in DOMAIN new : new[j].ref = s
    BY DEF Complete
  <2>1. PICK j \in 1 .. Len(es) : es[j].ref = s
    BY <1>3, <1>7 DEF Coherent, Complete
  <2>2. j # q
    BY <2>1, <1>1, <1>7
  <2>3. QED
    BY <2>1, <2>2, <1>3, <1>4, <1>6
<1>11. Distinct(new)
  <2> SUFFICES ASSUME NEW i \in 1 .. Len(es) - 1, NEW j \in 1 .. Len(es) - 1,
                      new[i].ref = new[j].ref
               PROVE  i = j
    BY <1>3 DEF Distinct
  <2>1. old(i) = old(j)
    BY <1>4, <1>8
  <2>2. QED
    BY <2>1 DEF old
<1>12. Sorted(new)
  <2>1. \A i, j \in 1 .. Len(es) : i < j => ~Less(es[j].key, es[i].key)
    BY <1>3 DEF Coherent, Sorted
  <2>2. QED
    BY <2>1, <1>3, <1>4, <1>5 DEF Sorted
<1>13. QED
  BY <1>2, <1>9, <1>10, <1>11, <1>12 DEF Coherent, left, S
-----------------------------------------------------------------------------
\* A set of naturals that is not empty has a minimum.
LEMMA MinIsLeast ==
  ASSUME NEW T, T \subseteq Nat, T # {}
  PROVE  Min(T) \in T /\ \A y \in T : Min(T) <= y
<1> DEFINE R == OpToRel(<, Nat)
<1>1. \A x, y \in Nat : <<y, x>> \in R <=> y < x
  BY DEF OpToRel
<1>2. IsWellFoundedOn(R, Nat)
  BY NatLessThanWellFounded
<1> HIDE DEF R
<1>3. PICK x \in T : \A y \in T : ~ (<<y, x>> \in R)
  BY <1>2, WFMin
<1>4. \A y \in T : ~ (y < x)
  <2> TAKE y \in T
  <2>1. x \in Nat /\ y \in Nat
    OBVIOUS
  <2>2. QED
    BY <2>1, <1>1, <1>3, Zenon
<1>5. \A y \in T : x <= y
  BY <1>4
<1>6. QED
  BY <1>5 DEF Min

\* Often it is enough that it is one of them.
LEMMA MinIsAnElement ==
  ASSUME NEW T, T \subseteq Nat, T # {}
  PROVE  Min(T) \in T
BY MinIsLeast
-----------------------------------------------------------------------------
(***************************************************************************)
(* The functions documents are built with.                                 *)
(***************************************************************************)

\* A document that append accepts is stored as a document.
LEMMA NumberedIsDocument ==
  ASSUME NEW d \in Inputs, Accepted(d), NEW n \in Nat
  PROVE  IsDocument(Numbered(d, n))
<1>1. IsDocument(d)
  BY DocumentsAssumption DEF Accepted
<1>2. CASE Id \in DOMAIN d
  BY <1>1, <1>2 DEF Numbered
<1>3. CASE Id \notin DOMAIN d
  <2> DEFINE m == With(d, Id, Uint(n))
  <2>1. Uint(n) \in Values
    BY DEF Uint, Values, Types, NumericTypes
  <2>2. /\ DOMAIN m = DOMAIN d \cup {Id}
        /\ m = [x \in DOMAIN m |-> m[x]]
        /\ \A x \in DOMAIN m : m[x] = IF x = Id THEN Uint(n) ELSE d[x]
    BY DEF With
  <2> HIDE DEF m
  <2>3. \A x \in DOMAIN m : m[x] \in Values
    BY <1>1, <2>1, <2>2 DEF IsDocument
  <2>4. DOMAIN m \subseteq Names
    BY <1>1, <2>2 DEF IsDocument, Names
  <2>5. IsDocument(m)
    BY <2>2, <2>3, <2>4 DEF IsDocument
  <2>6. QED
    BY <2>5, <1>3 DEF Numbered, m
<1>4. QED
  BY <1>2, <1>3

\* A patch turns a document into a document.
LEMMA MergedIsDocument ==
  ASSUME NEW d, IsDocument(d), NEW patch \in Patches, patch # NotAnObject
  PROVE  IsDocument(Merged(d, patch))
<1>1. IsDocument(patch)
  BY DocumentsAssumption
<1> DEFINE m == Merged(d, patch)
<1>2. /\ DOMAIN m = DOMAIN d \cup DOMAIN patch
      /\ m = [x \in DOMAIN m |-> m[x]]
      /\ \A x \in DOMAIN m : m[x] = IF x \in DOMAIN patch THEN patch[x] ELSE d[x]
  BY DEF Merged, Overlaid
<1> HIDE DEF m
<1>3. \A x \in DOMAIN m : m[x] \in Values
  BY <1>1, <1>2 DEF IsDocument
<1>4. IsDocument(m)
  BY <1>1, <1>2, <1>3 DEF IsDocument
<1>5. QED
  BY <1>4 DEF m
-----------------------------------------------------------------------------
(***************************************************************************)
(* The sequence of indices after every index has gained or lost an entry.  *)
(***************************************************************************)

\* An index stays one, on the same field, when it gains an entry.
LEMMA WithEntryType ==
  ASSUME NEW ix \in IndexRecords, NEW r \in Refs, NEW d, IsDocument(d),
         NEW new \in WithEntry(ix, r, d)
  PROVE  new \in IndexRecords /\ new.field = ix.field
<1>1. CASE ix.field \in DOMAIN d
  <2>1. PICK es \in InsertEntry(ix.entries, d[ix.field], r) : new = [ix EXCEPT !.entries = es]
    BY <1>1 DEF WithEntry
  <2>2. PICK p \in UpperBounds(ix.entries, d[ix.field]) :
          es = InsertAt(ix.entries, p + 1, Entry(d[ix.field], r))
    BY <2>1 DEF InsertEntry
  <2> DEFINE i == p + 1
             e == Entry(d[ix.field], r)
  <2>3. ix.entries \in Seq(EntriesOf(Refs))
    BY DEF IndexRecords
  <2>4. i \in 1 .. Len(ix.entries) + 1
    BY <2>2, <2>3 DEF UpperBounds
  <2>5. e \in EntriesOf(Refs)
    BY <1>1 DEF Entry, EntriesOf, IsDocument
  <2>6. es = InsertAt(ix.entries, i, e)
    BY <2>2
  <2> HIDE DEF i, e
  <2>7. es \in Seq(EntriesOf(Refs))
    BY <2>3, <2>4, <2>5, <2>6, InsertAtElements
  <2>8. QED
    BY <2>1, <2>7 DEF IndexRecords
<1>2. CASE ix.field \notin DOMAIN d
  BY <1>2 DEF WithEntry
<1>3. QED
  BY <1>1, <1>2

\* An index stays one, on the same field, when it loses an entry.
LEMMA WithoutEntryType ==
  ASSUME NEW ix \in IndexRecords, NEW r \in Refs, NEW d,
         NEW new \in WithoutEntry(ix, r, d)
  PROVE  new \in IndexRecords /\ new.field = ix.field
<1>1. CASE ix.field \in DOMAIN d
  <2>1. PICK es \in EraseEntry(ix.entries, d[ix.field], r) : new = [ix EXCEPT !.entries = es]
    BY <1>1 DEF WithoutEntry
  <2>2. ix.entries \in Seq(EntriesOf(Refs))
    BY DEF IndexRecords
  <2>3. es \in Seq(EntriesOf(Refs))
    <3> DEFINE hits(c) == {p \in c[1] + 1 .. c[2] : ix.entries[p].ref = r}
    <3>1. PICK c \in EqualRanges(ix.entries, d[ix.field]) :
            es = IF hits(c) = {} THEN ix.entries ELSE RemoveAt(ix.entries, Min(hits(c)))
      BY <2>1 DEF EraseEntry
    <3>2. CASE hits(c) = {}
      BY <3>1, <3>2, <2>2
    <3>3. CASE hits(c) # {}
      <4>1. c[1] \in 0 .. Len(ix.entries) /\ c[2] \in 0 .. Len(ix.entries)
        BY DEF EqualRanges, LowerBounds, UpperBounds
      <4>2. hits(c) \subseteq 1 .. Len(ix.entries)
        BY <4>1, <2>2
      <4>3. Min(hits(c)) \in 1 .. Len(ix.entries)
        <5>1. hits(c) \subseteq Nat
          BY <4>2
        <5>2. QED
          BY <5>1, <4>2, <3>3, MinIsAnElement
      <4>4. QED
        BY <3>1, <3>3, <4>3, <2>2, RemoveAtElements
    <3>4. QED
      BY <3>2, <3>3
  <2>4. QED
    BY <2>1, <2>3 DEF IndexRecords
<1>2. CASE ix.field \notin DOMAIN d
  BY <1>2 DEF WithoutEntry
<1>3. QED
  BY <1>1, <1>2

\* A sequence of candidate sets has sequences of the same length to select.
LEMMA SelectionsElements ==
  ASSUME NEW S, NEW n \in Nat, NEW c, DOMAIN c = 1 .. n, \A i \in 1 .. n : c[i] \subseteq S,
         NEW new \in Selections(c)
  PROVE  /\ new \in Seq(S)
         /\ Len(new) = n
         /\ \A i \in 1 .. n : new[i] \in c[i]
<1> DEFINE U == UNION {c[i] : i \in DOMAIN c}
<1>1. new \in [1 .. n -> U] /\ \A i \in 1 .. n : new[i] \in c[i]
  BY DEF Selections
<1> HIDE DEF U
<1>2. new \in [1 .. n -> S]
  BY <1>1
<1>3. new \in Seq(S) /\ Len(new) = n
  BY <1>2
<1>4. QED
  BY <1>1, <1>3

\* insert_index_entries leaves the indices on the fields they were on.
LEMMA InsertIndexEntriesType ==
  ASSUME NEW ixs \in Seq(IndexRecords), NEW r \in Refs, NEW d, IsDocument(d),
         NEW new \in InsertIndexEntries(ixs, r, d)
  PROVE  /\ new \in Seq(IndexRecords)
         /\ Len(new) = Len(ixs)
         /\ \A i \in 1 .. Len(ixs) : new[i] \in WithEntry(ixs[i], r, d)
<1> DEFINE c == [i \in DOMAIN ixs |-> WithEntry(ixs[i], r, d)]
<1>1. Len(ixs) \in Nat /\ DOMAIN c = 1 .. Len(ixs)
  OBVIOUS
<1>2. \A i \in 1 .. Len(ixs) : c[i] = WithEntry(ixs[i], r, d) /\ c[i] \subseteq IndexRecords
  BY WithEntryType
<1>3. new \in Selections(c)
  BY DEF InsertIndexEntries
<1> HIDE DEF c
<1>4. QED
  BY <1>1, <1>2, <1>3, SelectionsElements

\* remove_index_entries leaves the indices on the fields they were on.
LEMMA RemoveIndexEntriesType ==
  ASSUME NEW ixs \in Seq(IndexRecords), NEW r \in Refs, NEW d,
         NEW new \in RemoveIndexEntries(ixs, r, d)
  PROVE  /\ new \in Seq(IndexRecords)
         /\ Len(new) = Len(ixs)
         /\ \A i \in 1 .. Len(ixs) : new[i] \in WithoutEntry(ixs[i], r, d)
<1> DEFINE c == [i \in DOMAIN ixs |-> WithoutEntry(ixs[i], r, d)]
<1>1. Len(ixs) \in Nat /\ DOMAIN c = 1 .. Len(ixs)
  OBVIOUS
<1>2. \A i \in 1 .. Len(ixs) : c[i] = WithoutEntry(ixs[i], r, d) /\ c[i] \subseteq IndexRecords
  BY WithoutEntryType
<1>3. new \in Selections(c)
  BY DEF RemoveIndexEntries
<1> HIDE DEF c
<1>4. QED
  BY <1>1, <1>2, <1>3, SelectionsElements

-----------------------------------------------------------------------------
\* An index that gains the entry of a document is coherent with it.
LEMMA WithEntryKeepsCoherence ==
  ASSUME NEW kind, NEW docs,
         NEW ix \in IndexRecords, Coherent(ix.entries, ix.field, docs),
         NEW r \in Refs, r \notin DOMAIN docs,
         NEW d, OfKind(kind, ix.field, With(docs, r, d)),
         NEW new \in WithEntry(ix, r, d)
  PROVE  Coherent(new.entries, new.field, With(docs, r, d))
<1>1. CASE ix.field \in DOMAIN d
  <2> DEFINE f == ix.field
             es == ix.entries
  <2>1. PICK es2 \in InsertEntry(es, d[f], r) : new = [ix EXCEPT !.entries = es2]
    BY <1>1 DEF WithEntry
  <2>2. es \in Seq(EntriesOf(Refs)) /\ new.entries = es2 /\ new.field = f
    BY <2>1 DEF IndexRecords
  <2>3. d[f] \in Values /\ Kind(d[f]) = kind
    BY <1>1 DEF OfKind, With
  <2>4. OfKind(kind, f, docs)
    BY DEF OfKind, With
  <2> HIDE DEF f, es
  <2>5. Coherent(es, f, docs) /\ f \in DOMAIN d
    BY <1>1 DEF f, es
  <2>6. Coherent(es2, f, With(docs, r, d))
    BY <2>1, <2>2, <2>3, <2>4, <2>5, InsertKeepsCoherence
  <2>7. QED
    BY <2>2, <2>6
<1>2. CASE ix.field \notin DOMAIN d
  <2>1. new = ix
    BY <1>2 DEF WithEntry
  <2>2. /\ DOMAIN With(docs, r, d) = DOMAIN docs \cup {r}
        /\ With(docs, r, d)[r] = d
        /\ \A s \in DOMAIN docs : With(docs, r, d)[s] = docs[s]
    BY DEF With
  <2>3. QED
    BY <1>2, <2>1, <2>2 DEF Coherent, Current, Complete
<1>3. QED
  BY <1>1, <1>2

\* An index that loses the entry of a document is coherent without it.
LEMMA WithoutEntryKeepsCoherence ==
  ASSUME NEW kind, NEW docs, NEW ix \in IndexRecords, OfKind(kind, ix.field, docs),
         Coherent(ix.entries, ix.field, docs),
         NEW r \in DOMAIN docs,
         NEW new \in WithoutEntry(ix, r, docs[r])
  PROVE  Coherent(new.entries, new.field, Without(docs, r))
<1>1. CASE ix.field \in DOMAIN docs[r]
  <2> DEFINE f == ix.field
             es == ix.entries
  <2>1. PICK es2 \in EraseEntry(es, docs[r][f], r) : new = [ix EXCEPT !.entries = es2]
    BY <1>1 DEF WithoutEntry
  <2>2. es \in Seq(EntriesOf(Refs)) /\ new.entries = es2 /\ new.field = f
    BY <2>1 DEF IndexRecords
  <2>3. OfKind(kind, f, docs)
    OBVIOUS
  <2> HIDE DEF f, es
  <2>4. Coherent(es, f, docs) /\ f \in DOMAIN docs[r]
    BY <1>1 DEF f, es
  <2>5. Coherent(es2, f, Without(docs, r))
    BY <2>1, <2>2, <2>3, <2>4, EraseKeepsCoherence
  <2>6. QED
    BY <2>2, <2>5
<1>2. CASE ix.field \notin DOMAIN docs[r]
  <2>1. new = ix
    BY <1>2 DEF WithoutEntry
  <2>2. /\ DOMAIN Without(docs, r) = DOMAIN docs \ {r}
        /\ \A s \in DOMAIN docs \ {r} : Without(docs, r)[s] = docs[s]
    BY DEF Without
  <2>3. QED
    BY <1>2, <2>1, <2>2 DEF Coherent, Current, Complete
<1>3. QED
  BY <1>1, <1>2

-----------------------------------------------------------------------------
\* Entries that are sorted and have keys of one kind.
Uniformly(es, kind) ==
  /\ \E R : es \in Seq(EntriesOf(R))
  /\ \A i \in 1 .. Len(es) : Kind(es[i].key) = kind
  /\ Sorted(es)

\* What there is to know of such entries, without the set their nodes are from.
LEMMA UniformEntries ==
  ASSUME NEW es, NEW kind, Uniformly(es, kind)
  PROVE  /\ Len(es) \in Nat
         /\ DOMAIN es = 1 .. Len(es)
         /\ \A i \in 1 .. Len(es) : es[i].key \in Values /\ Kind(es[i].key) = kind
         /\ \A i, j \in 1 .. Len(es) : i < j => ~Less(es[j].key, es[i].key)
<1>1. PICK R : es \in Seq(EntriesOf(R))
  BY DEF Uniformly
<1>2. \A i \in 1 .. Len(es) : es[i] \in EntriesOf(R)
  BY <1>1
<1>3. \A i \in 1 .. Len(es) : es[i].key \in Values
  BY <1>2 DEF EntriesOf
<1>4. QED
  BY <1>1, <1>3 DEF Uniformly, Sorted

\* A key of another kind is less than none and none is less than it.
LEMMA LessIsOfOneKind ==
  ASSUME NEW a \in Values, NEW b \in Values, Less(a, b)
  PROVE  Kind(a) = Kind(b) /\ Kind(a) # "other"
BY DEF Less, Comparable, Kind, IsNumeric, IsString, NumericTypes

\* Less than the last of three in order is at least one of the first two.
LEMMA LessSplits ==
  ASSUME NEW a \in Values, NEW b \in Values, NEW c \in Values,
         Kind(a) = Kind(b), Less(a, c)
  PROVE  Less(a, b) \/ Less(b, c)
<1>1. Kind(a) = Kind(c)
  BY LessIsOfOneKind
<1>2. QED
  BY <1>1, OneKindIsOrdered

\* Behind a key that is greater no smaller one comes.
LEMMA GreaterSplits ==
  ASSUME NEW a \in Values, NEW b \in Values, NEW c \in Values,
         Kind(b) = Kind(c), Less(a, c)
  PROVE  Less(a, b) \/ Less(b, c)
<1>1. Kind(a) = Kind(c)
  BY LessIsOfOneKind
<1>2. QED
  BY <1>1, OneKindIsOrdered

\* lower_bound divides the keys: those that are less come in front of it.
LEMMA LowerBoundDivides ==
  ASSUME NEW es, NEW kind, Uniformly(es, kind), NEW v \in Values,
         NEW p \in LowerBounds(es, v)
  PROVE  /\ p \in 0 .. Len(es)
         /\ \A i \in 1 .. Len(es) : i <= p <=> Less(es[i].key, v)
<1>1. /\ Len(es) \in Nat
      /\ \A i \in 1 .. Len(es) : es[i].key \in Values /\ Kind(es[i].key) = kind
      /\ \A i, j \in 1 .. Len(es) : i < j => ~Less(es[j].key, es[i].key)
  BY UniformEntries
<1>2. /\ p \in 0 .. Len(es)
      /\ p = 0 \/ Less(es[p].key, v)
      /\ p = Len(es) \/ ~Less(es[p + 1].key, v)
  BY DEF LowerBounds
<1>3. ASSUME NEW i \in 1 .. Len(es), i <= p
      PROVE  Less(es[i].key, v)
  <2>1. CASE i = p
    BY <1>1, <1>2, <2>1
  <2>2. CASE i < p
    <3>1. p \in 1 .. Len(es) /\ Less(es[p].key, v) /\ ~Less(es[p].key, es[i].key)
      BY <1>1, <1>2, <2>2
    <3>2. QED
      BY <1>1, <3>1, LessSplits
  <2>3. QED
    BY <1>1, <1>2, <1>3, <2>1, <2>2
<1>4. ASSUME NEW i \in 1 .. Len(es), ~(i <= p)
      PROVE  ~Less(es[i].key, v)
  <2>1. p + 1 \in 1 .. Len(es) /\ ~Less(es[p + 1].key, v)
    BY <1>1, <1>2, <1>4
  <2>2. CASE i = p + 1
    BY <2>1, <2>2
  <2>3. CASE p + 1 < i
    <3>1. ~Less(es[i].key, es[p + 1].key)
      BY <1>1, <2>1, <2>3
    <3>2. QED
      BY <1>1, <2>1, <3>1, LessSplits
  <2>4. QED
    BY <1>1, <1>2, <1>4, <2>2, <2>3
<1>5. QED
  BY <1>2, <1>3, <1>4

\* upper_bound divides them as well: those that are greater come behind it.
LEMMA UpperBoundDivides ==
  ASSUME NEW es, NEW kind, Uniformly(es, kind), NEW v \in Values,
         NEW p \in UpperBounds(es, v)
  PROVE  /\ p \in 0 .. Len(es)
         /\ \A i \in 1 .. Len(es) : i > p <=> Less(v, es[i].key)
<1>1. /\ Len(es) \in Nat
      /\ \A i \in 1 .. Len(es) : es[i].key \in Values /\ Kind(es[i].key) = kind
      /\ \A i, j \in 1 .. Len(es) : i < j => ~Less(es[j].key, es[i].key)
  BY UniformEntries
<1>2. /\ p \in 0 .. Len(es)
      /\ p = 0 \/ ~Less(v, es[p].key)
      /\ p = Len(es) \/ Less(v, es[p + 1].key)
  BY DEF UpperBounds
<1>3. ASSUME NEW i \in 1 .. Len(es), i > p
      PROVE  Less(v, es[i].key)
  <2>1. p + 1 \in 1 .. Len(es) /\ Less(v, es[p + 1].key)
    BY <1>1, <1>2, <1>3
  <2>2. CASE i = p + 1
    BY <2>1, <2>2
  <2>3. CASE p + 1 < i
    <3>1. ~Less(es[i].key, es[p + 1].key)
      BY <1>1, <2>1, <2>3
    <3>2. QED
      BY <1>1, <2>1, <3>1, GreaterSplits
  <2>4. QED
    BY <1>1, <1>2, <1>3, <2>2, <2>3
<1>4. ASSUME NEW i \in 1 .. Len(es), ~(i > p)
      PROVE  ~Less(v, es[i].key)
  <2>1. p \in 1 .. Len(es) /\ ~Less(v, es[p].key)
    BY <1>1, <1>2, <1>4
  <2>2. CASE i = p
    BY <2>1, <2>2
  <2>3. CASE i < p
    <3>1. ~Less(es[p].key, es[i].key)
      BY <1>1, <2>1, <2>3
    <3>2. QED
      BY <1>1, <2>1, <3>1, GreaterSplits
  <2>4. QED
    BY <1>1, <1>2, <1>4, <2>2, <2>3
<1>5. QED
  BY <1>2, <1>3, <1>4
-----------------------------------------------------------------------------
(***************************************************************************)
(* The plans of a query.                                                   *)
(***************************************************************************)

\* The walk of pl, which is one through es, meets the matching entries and stops.
Selects(pl, es, docs, q) ==
  /\ pl.entries = es
  /\ pl.lo \in 0 .. Len(es) /\ pl.hi \in 0 .. Len(es) /\ pl.lo <= pl.hi
  /\ \A p \in 1 .. Len(es) :
       Satisfies(docs[es[p].ref], q) <=>
         /\ pl.lo < p /\ p <= pl.hi
         /\ pl.test => Satisfies(docs[es[p].ref], q)

\* Equal values are neither less nor greater.
LEMMA EqualIsNotLess ==
  ASSUME NEW a \in Values, NEW b \in Values, Eq(a, b)
  PROVE  ~Less(a, b) /\ ~Less(b, a)
<1>1. Rank(a) \in Int /\ Rank(b) \in Int
  BY RankIsInt
<1>2. Rank(a) = Rank(b)
  <2>1. CASE a.type = b.type /\ a.type \in {"uint", "int"}
    BY <2>1 DEF Eq, Rank, AsDouble, IsString, Values
  <2>2. CASE ~(a.type = b.type /\ a.type \in {"uint", "int"})
    BY <2>2 DEF Eq
  <2>3. QED
    BY <2>1, <2>2
<1>3. QED
  BY <1>1, <1>2 DEF Less

\* Greater is less the other way round.
LEMMA GreaterIsLess ==
  ASSUME NEW a \in Values, NEW b \in Values
  PROVE  Greater(a, b) <=> Less(b, a)
<1>1. Rank(a) \in Int /\ Rank(b) \in Int
  BY RankIsInt
<1>2. QED
  BY <1>1 DEF Less, Greater, Comparable

\* Within a kind that has an order, what is not less is at least.
LEMMA NotLessIsAtLeast ==
  ASSUME NEW a \in Values, NEW b \in Values, Kind(a) = Kind(b), Kind(a) # "other"
  PROVE  /\ AtLeast(a, b) <=> ~Less(a, b)
         /\ AtMost(a, b) <=> ~Less(b, a)
<1>1. Rank(a) \in Int /\ Rank(b) \in Int
  BY RankIsInt
<1>2. Comparable(a, b) /\ Comparable(b, a)
  BY DEF Comparable, Kind, IsNumeric, IsString
<1>3. QED
  BY <1>1, <1>2 DEF Less, AtLeast, AtMost

\* Bounds in order keep the end of a walk from lying before its start.
LEMMA InOrderIsNotStray ==
  ASSUME NEW es, NEW kind, Uniformly(es, kind),
         NEW q \in QueryRecords, UsesIndex(q), BoundsInOrder(q, kind),
         NEW pl \in IndexPlans(es, q)
  PROVE  ~Stray(pl)
<1>1. /\ Len(es) \in Nat
      /\ \A i \in 1 .. Len(es) : es[i].key \in Values /\ Kind(es[i].key) = kind
      /\ q.v \in Values /\ q.hi \in Values
  BY UniformEntries DEF QueryRecords
<1>2. CASE q.op = "eq"
  <2>1. PICK c \in EqualRanges(es, q.v) : pl = Plan(es, c[1], c[2], TRUE)
    BY <1>2 DEF IndexPlans
  <2>2. c[1] \in 0 .. Len(es) /\ c[2] \in 0 .. Len(es) /\ c[1] <= c[2]
    BY <2>1 DEF EqualRanges, LowerBounds, UpperBounds
  <2>3. QED
    BY <1>1, <2>1, <2>2 DEF Plan, Stray
<1>3. CASE q.op = "gt"
  <2>1. PICK lo \in UpperBounds(es, q.v) : pl = Plan(es, lo, Len(es), FALSE)
    BY <1>3 DEF IndexPlans
  <2>2. lo \in 0 .. Len(es)
    BY <2>1 DEF UpperBounds
  <2>3. QED
    BY <1>1, <2>1, <2>2 DEF Plan, Stray
<1>4. CASE q.op = "lt"
  <2>1. PICK hi \in LowerBounds(es, q.v) : pl = Plan(es, 0, hi, FALSE)
    BY <1>4 DEF IndexPlans
  <2>2. hi \in 0 .. Len(es)
    BY <2>1 DEF LowerBounds
  <2>3. QED
    BY <1>1, <2>1, <2>2 DEF Plan, Stray
<1>5. CASE q.op = "range"
  <2>0. IndexPlans(es, q) =
          {Plan(es, c[1], c[2], FALSE) : c \in LowerBounds(es, q.v) \X UpperBounds(es, q.hi)}
    BY <1>5 DEF IndexPlans
  <2>1. PICK c \in LowerBounds(es, q.v) \X UpperBounds(es, q.hi) :
          pl = Plan(es, c[1], c[2], FALSE)
    BY <2>0
  <2> DEFINE lo == c[1]
             hi == c[2]
  <2>2. /\ lo \in 0 .. Len(es) /\ hi \in 0 .. Len(es)
        /\ \A i \in 1 .. Len(es) : i <= lo <=> Less(es[i].key, q.v)
        /\ \A i \in 1 .. Len(es) : i > hi <=> Less(q.hi, es[i].key)
    BY <1>1, <2>1, LowerBoundDivides, UpperBoundDivides
  <2>3. pl.lo = lo /\ pl.hi = hi
    BY <2>1 DEF Plan
  <2>4. SUFFICES ASSUME lo > hi
                 PROVE  FALSE
    BY <1>1, <2>2, <2>3 DEF Stray
  <2>5. lo \in 1 .. Len(es) /\ Less(es[lo].key, q.v) /\ Less(q.hi, es[lo].key)
    BY <1>1, <2>2, <2>4
  <2>6. Kind(q.hi) = Kind(es[lo].key) /\ Kind(es[lo].key) = Kind(q.v) /\ ~Less(q.hi, q.v)
    BY <1>1, <1>5, <2>5 DEF BoundsInOrder, BoundsOfKind
  <2>7. Rank(q.hi) \in Int /\ Rank(q.v) \in Int /\ Rank(es[lo].key) \in Int
    BY <1>1, <2>5, RankIsInt
  <2>8. Comparable(q.hi, q.v)
    BY <1>5 DEF BoundsInOrder, BoundsOfKind, Comparable, Kind, IsNumeric, IsString
  <2>9. QED
    BY <2>5, <2>6, <2>7, <2>8 DEF Less
<1>6. QED
  BY <1>2, <1>3, <1>4, <1>5 DEF UsesIndex

\* The plans of an index that is sorted.
LEMMA IndexPlansSelect ==
  ASSUME NEW es, NEW kind, Uniformly(es, kind),
         NEW q \in QueryRecords, UsesIndex(q), BoundsOfKind(q, kind),
         NEW docs, Current(es, q.field, docs),
         NEW pl \in IndexPlans(es, q), ~Stray(pl)
  PROVE  Selects(pl, es, docs, q)
<1>1. /\ Len(es) \in Nat
      /\ \A i \in 1 .. Len(es) : es[i].key \in Values /\ Kind(es[i].key) = kind
      /\ q.v \in Values /\ q.hi \in Values
  BY UniformEntries DEF QueryRecords
<1>1a. \A p \in 1 .. Len(es) : Member(docs[es[p].ref], q.field) = es[p].key
  BY UniformEntries DEF Current, Member
<1>2. CASE q.op = "eq"
  <2>0. IndexPlans(es, q) = {Plan(es, c[1], c[2], TRUE) : c \in EqualRanges(es, q.v)}
    BY <1>2 DEF IndexPlans
  <2>1. PICK c \in EqualRanges(es, q.v) : pl = Plan(es, c[1], c[2], TRUE)
    BY <2>0
  <2>2. c[1] \in LowerBounds(es, q.v) /\ c[2] \in UpperBounds(es, q.v) /\ c[1] <= c[2]
    BY <2>1 DEF EqualRanges
  <2>3. /\ c[1] \in 0 .. Len(es) /\ c[2] \in 0 .. Len(es)
        /\ \A i \in 1 .. Len(es) : i <= c[1] <=> Less(es[i].key, q.v)
        /\ \A i \in 1 .. Len(es) : i > c[2] <=> Less(q.v, es[i].key)
    BY <1>1, <2>2, LowerBoundDivides, UpperBoundDivides
  <2>4. /\ pl.entries = es /\ pl.lo = c[1] /\ pl.hi = c[2] /\ pl.test = TRUE
    BY <2>1 DEF Plan
  <2>5. ASSUME NEW p \in 1 .. Len(es), Satisfies(docs[es[p].ref], q)
        PROVE  pl.lo < p /\ p <= pl.hi
    <3>1. Eq(es[p].key, q.v)
      BY <1>1a, <1>2, <2>5 DEF Satisfies
    <3>2. ~Less(es[p].key, q.v) /\ ~Less(q.v, es[p].key)
      BY <1>1, <3>1, EqualIsNotLess
    <3>3. QED
      BY <1>1, <2>3, <2>4, <3>2
  <2>6. QED
    BY <2>2, <2>3, <2>4, <2>5 DEF Selects
<1>3. CASE q.op = "gt"
  <2>0. IndexPlans(es, q) = {Plan(es, lo, Len(es), FALSE) : lo \in UpperBounds(es, q.v)}
    BY <1>3 DEF IndexPlans
  <2>1. PICK lo \in UpperBounds(es, q.v) : pl = Plan(es, lo, Len(es), FALSE)
    BY <2>0
  <2>2. /\ lo \in 0 .. Len(es)
        /\ \A i \in 1 .. Len(es) : i > lo <=> Less(q.v, es[i].key)
    BY <1>1, <2>1, UpperBoundDivides
  <2>3. /\ pl.entries = es /\ pl.lo = lo /\ pl.hi = Len(es) /\ pl.test = FALSE
    BY <2>1 DEF Plan
  <2>4. ASSUME NEW p \in 1 .. Len(es)
        PROVE  Satisfies(docs[es[p].ref], q) <=> p > lo
    <3>1. Satisfies(docs[es[p].ref], q) <=> Greater(es[p].key, q.v)
      BY <1>1a, <1>3 DEF Satisfies
    <3>2. QED
      BY <1>1, <2>2, <3>1, GreaterIsLess
  <2>5. QED
    BY <1>1, <2>2, <2>3, <2>4 DEF Selects
<1>4. CASE q.op = "lt"
  <2>0. IndexPlans(es, q) = {Plan(es, 0, hi, FALSE) : hi \in LowerBounds(es, q.v)}
    BY <1>4 DEF IndexPlans
  <2>1. PICK hi \in LowerBounds(es, q.v) : pl = Plan(es, 0, hi, FALSE)
    BY <2>0
  <2>2. /\ hi \in 0 .. Len(es)
        /\ \A i \in 1 .. Len(es) : i <= hi <=> Less(es[i].key, q.v)
    BY <1>1, <2>1, LowerBoundDivides
  <2>3. /\ pl.entries = es /\ pl.lo = 0 /\ pl.hi = hi /\ pl.test = FALSE
    BY <2>1 DEF Plan
  <2>4. ASSUME NEW p \in 1 .. Len(es)
        PROVE  Satisfies(docs[es[p].ref], q) <=> p <= hi
    <3>1. Satisfies(docs[es[p].ref], q) <=> Less(es[p].key, q.v)
      BY <1>1a, <1>4 DEF Satisfies
    <3>2. QED
      BY <2>2, <3>1
  <2>5. QED
    BY <1>1, <2>2, <2>3, <2>4 DEF Selects
<1>5. CASE q.op = "range"
  <2>0. IndexPlans(es, q) =
          {Plan(es, c[1], c[2], FALSE) : c \in LowerBounds(es, q.v) \X UpperBounds(es, q.hi)}
    BY <1>5 DEF IndexPlans
  <2>1. PICK c \in LowerBounds(es, q.v) \X UpperBounds(es, q.hi) :
          pl = Plan(es, c[1], c[2], FALSE)
    BY <2>0
  <2> DEFINE lo == c[1]
             hi == c[2]
  <2>2. /\ lo \in 0 .. Len(es) /\ hi \in 0 .. Len(es)
        /\ \A i \in 1 .. Len(es) : i <= lo <=> Less(es[i].key, q.v)
        /\ \A i \in 1 .. Len(es) : i > hi <=> Less(q.hi, es[i].key)
    BY <1>1, <2>1, LowerBoundDivides, UpperBoundDivides
  <2>3. /\ pl.entries = es /\ pl.lo = lo /\ pl.hi = hi /\ pl.test = FALSE
    BY <2>1 DEF Plan
  <2>4. lo <= hi
    BY <1>1, <2>2, <2>3 DEF Stray
  <2>5. ASSUME NEW p \in 1 .. Len(es)
        PROVE  Satisfies(docs[es[p].ref], q) <=> p > lo /\ p <= hi
    <3>1. Satisfies(docs[es[p].ref], q) <=> AtLeast(es[p].key, q.v) /\ AtMost(es[p].key, q.hi)
      BY <1>1a, <1>5 DEF Satisfies
    <3>2. /\ AtLeast(es[p].key, q.v) <=> ~Less(es[p].key, q.v)
          /\ AtMost(es[p].key, q.hi) <=> ~Less(q.hi, es[p].key)
      BY <1>1, <1>5, NotLessIsAtLeast DEF BoundsOfKind
    <3>3. QED
      BY <1>1, <2>2, <3>1, <3>2
  <2>6. QED
    BY <1>1, <2>2, <2>3, <2>4, <2>5 DEF Selects
<1>6. QED
  BY <1>2, <1>3, <1>4, <1>5 DEF UsesIndex

\* The scan of an index that has every document.
LEMMA ScanSelects ==
  ASSUME NEW ixs, ixs # <<>>, Len(ixs[1].entries) \in Nat, NEW docs, NEW q
  PROVE  Selects(ScanPlan(ixs), ixs[1].entries, docs, q)
BY DEF ScanPlan, Plan, Selects

(***************************************************************************)
(* A plan that selects, through an index that is coherent and has every    *)
(* document that matches: its walk meets those documents once and no other *)
(* one, and no freed one.                                                  *)
(***************************************************************************)
LEMMA SelectedAreMatching ==
  ASSUME NEW R, NEW es \in Seq(EntriesOf(R)), NEW f, NEW docs, Coherent(es, f, docs),
         NEW q, NEW pl, Selects(pl, es, docs, q),
         \A r \in DOMAIN docs : Satisfies(docs[r], q) => f \in DOMAIN docs[r]
  PROVE  /\ ~GoesWild(docs, pl, q)
         /\ {pl.entries[p].ref : p \in {x \in Walk(pl) : Hit(docs, pl, q, x)}}
              = {r \in DOMAIN docs : Satisfies(docs[r], q)}
         /\ \A p1, p2 \in Walk(pl) : pl.entries[p1].ref = pl.entries[p2].ref => p1 = p2
<1>1. /\ Len(es) \in Nat /\ DOMAIN es = 1 .. Len(es)
      /\ pl.entries = es /\ pl.lo \in 0 .. Len(es) /\ pl.hi \in 0 .. Len(es) /\ pl.lo <= pl.hi
  BY DEF Selects
<1>2. ~Stray(pl) /\ Walk(pl) = pl.lo + 1 .. pl.hi /\ Walk(pl) \subseteq 1 .. Len(es)
  BY <1>1 DEF Stray, Walk
<1>3. \A p \in Walk(pl) : Live(docs, pl, p)
  BY <1>1, <1>2 DEF Live, Coherent, Current
<1>4. ~GoesWild(docs, pl, q)
  <2> DEFINE stops == {p \in Walk(pl) : Hit(docs, pl, q, p) \/ ~Live(docs, pl, p)}
  <2>1. StopAt(docs, pl, q) = IF stops = {} THEN 0 ELSE Min(stops)
    BY DEF StopAt
  <2>2. stops \subseteq Walk(pl) /\ stops \subseteq Nat
    BY <1>1, <1>2
  <2> HIDE DEF stops
  <2>3. CASE stops = {}
    BY <1>2, <2>1, <2>3 DEF GoesWild
  <2>4. CASE stops # {}
    <3> PICK m : m = Min(stops)
      OBVIOUS
    <3>1. m \in stops
      BY <2>2, <2>4, MinIsAnElement
    <3>2. m \in Walk(pl)
      BY <2>2, <3>1
    <3>3. m # 0
      BY <1>1, <1>2, <3>2
    <3>4. Live(docs, pl, m)
      BY <1>3, <3>2
    <3>5. StopAt(docs, pl, q) = m
      BY <2>1, <2>4
    <3>6. QED
      BY <3>3, <3>4, <3>5 DEF GoesWild
  <2>5. QED
    BY <2>3, <2>4
<1>5. \A p \in 1 .. Len(es) :
        Satisfies(docs[es[p].ref], q) <=> p \in Walk(pl) /\ Hit(docs, pl, q, p)
  <2> TAKE p \in 1 .. Len(es)
  <2>1. p \in Walk(pl) <=> pl.lo < p /\ p <= pl.hi
    BY <1>1, <1>2
  <2>2. Hit(docs, pl, q, p) <=> (pl.test => Satisfies(docs[es[p].ref], q))
    BY <1>1 DEF Hit, Live, Coherent, Current
  <2>3. Satisfies(docs[es[p].ref], q) <=>
          pl.lo < p /\ p <= pl.hi /\ (pl.test => Satisfies(docs[es[p].ref], q))
    BY DEF Selects
  <2>4. QED
    BY <2>1, <2>2, <2>3
<1>6. {pl.entries[p].ref : p \in {x \in Walk(pl) : Hit(docs, pl, q, x)}}
        \subseteq {r \in DOMAIN docs : Satisfies(docs[r], q)}
  <2> SUFFICES ASSUME NEW p \in Walk(pl), Hit(docs, pl, q, p)
               PROVE  es[p].ref \in DOMAIN docs /\ Satisfies(docs[es[p].ref], q)
    BY <1>1
  <2>1. QED
    BY <1>1, <1>2, <1>3, <1>5 DEF Live
<1>7. {r \in DOMAIN docs : Satisfies(docs[r], q)}
        \subseteq {pl.entries[p].ref : p \in {x \in Walk(pl) : Hit(docs, pl, q, x)}}
  <2> SUFFICES ASSUME NEW r \in DOMAIN docs, Satisfies(docs[r], q)
               PROVE  \E p \in Walk(pl) : Hit(docs, pl, q, p) /\ es[p].ref = r
    BY <1>1
  <2>1. PICK p \in 1 .. Len(es) : es[p].ref = r
    BY <1>1 DEF Coherent, Complete
  <2>2. QED
    BY <1>5, <2>1
<1>8. \A p1, p2 \in Walk(pl) : pl.entries[p1].ref = pl.entries[p2].ref => p1 = p2
  BY <1>1, <1>2 DEF Coherent, Distinct
<1>9. QED
  BY <1>4, <1>6, <1>7, <1>8
\* A comparison that holds is with a member the document has.
LEMMA MatchHasField ==
  ASSUME NEW d, NEW q, UsesIndex(q), Satisfies(d, q)
  PROVE  q.field \in DOMAIN d
<1>1. SUFFICES ASSUME q.field \notin DOMAIN d
               PROVE  FALSE
  OBVIOUS
<1>2. Member(d, q.field) = Invalid
  BY <1>1 DEF Member
<1>3. \A v : ~Comparable(Invalid, v) /\ Invalid.type \notin {"uint", "int"}
  BY DEF Comparable, Invalid, IsNumeric, IsString, NumericTypes
<1>4. \A v : /\ ~Eq(Invalid, v) /\ ~Greater(Invalid, v) /\ ~Less(Invalid, v)
             /\ ~AtLeast(Invalid, v)
  BY <1>3 DEF Eq, Greater, Less, AtLeast
<1>5. QED
  BY <1>2, <1>4 DEF Satisfies, UsesIndex


\* Where a walk stops is a position of it, and a stop.
LEMMA StopIsAStop ==
  ASSUME NEW docs, NEW pl, pl.lo \in Nat, NEW q
  PROVE  LET stops == {p \in Walk(pl) : Hit(docs, pl, q, p) \/ ~Live(docs, pl, p)}
         IN  IF stops = {} THEN StopAt(docs, pl, q) = 0
             ELSE StopAt(docs, pl, q) # 0 /\ StopAt(docs, pl, q) \in stops
<1> DEFINE stops == {p \in Walk(pl) : Hit(docs, pl, q, p) \/ ~Live(docs, pl, p)}
<1>1. StopAt(docs, pl, q) = IF stops = {} THEN 0 ELSE Min(stops)
  BY DEF StopAt
<1>2. stops \subseteq Nat \ {0}
  BY DEF Walk
<1> HIDE DEF stops
<1>3. stops # {} => Min(stops) \in stops
  BY <1>2, MinIsAnElement
<1>4. IF stops = {} THEN StopAt(docs, pl, q) = 0
      ELSE StopAt(docs, pl, q) # 0 /\ StopAt(docs, pl, q) \in stops
  BY <1>1, <1>2, <1>3
<1>5. QED
  BY <1>4 DEF stops

=============================================================================
