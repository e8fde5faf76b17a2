--------------------------- MODULE ObjectPoolProofs ---------------------------
(***************************************************************************)
(* The allocator never hands out a block that is in use, for every size of *)
(* buffer and every order of calls.                                        *)
(***************************************************************************)
EXTENDS ObjectPool, FiniteSetTheorems, TLAPS

Store == INSTANCE BlockStore

\* What every theorem assumes of the one constant.
GrowSizeAssumption == GrowSize \in Nat \ {0}

(***************************************************************************)
(* The invariant that is inductive.  Where the free list and the carving   *)
(* stand must agree: without a buffer nothing has been carved, so that the *)
(* first block of a new buffer is one nobody has seen.                     *)
(***************************************************************************)
PoolInvariant ==
  /\ PoolTypeOK
  /\ pool.buffers = 0 => pool.bufferedBlocks = 0
  /\ BlocksApart
  /\ CountsObjects

\* A pool of the right type, in which nothing is carved before there is a buffer.
Pools ==
  {p \in [freeBlocks : Seq(Blocks), buffers : Nat,
          bufferedBlocks : 0 .. GrowSize, n_allocated : Int] :
     p.buffers = 0 => p.bufferedBlocks = 0}

\* No block is twice in the list.
Distinct(s) == \A i, j \in DOMAIN s : s[i] = s[j] => i = j

\* The invariant as a statement about any pool p whose clients hold u.
Sound(p, u) ==
  /\ p \in Pools
  /\ u \subseteq Blocks
  /\ Distinct(p.freeBlocks)
  /\ FreeSet(p) \cap u = {}
  /\ FreeSet(p) \cup u = Carved(p)
  /\ IsFiniteSet(u)
  /\ p.n_allocated = Cardinality(u)

\* The invariant says of the pool and its users that they are sound.
LEMMA InvariantIsSound == PoolInvariant <=> Sound(pool, inUse)
  BY DEF PoolInvariant, Sound, Pools, PoolTypeOK, BlocksApart, CountsObjects, Distinct
-----------------------------------------------------------------------------
\* The members of a list without its head, and with one more in front.
LEMMA FreeListTail ==
  ASSUME NEW s \in Seq(Blocks), s # <<>>,
         \A i, j \in DOMAIN s : s[i] = s[j] => i = j
  PROVE  /\ Tail(s) \in Seq(Blocks)
         /\ \A i, j \in DOMAIN Tail(s) : Tail(s)[i] = Tail(s)[j] => i = j
         /\ {Tail(s)[i] : i \in DOMAIN Tail(s)} = {s[i] : i \in DOMAIN s} \ {Head(s)}
         /\ Head(s) \in {s[i] : i \in DOMAIN s}
<1> DEFINE t == Tail(s)
<1>1. /\ t \in Seq(Blocks)
      /\ Len(s) \in Nat \ {0}
      /\ DOMAIN t = 1 .. Len(s) - 1
      /\ DOMAIN s = 1 .. Len(s)
      /\ \A i \in 1 .. Len(s) - 1 : t[i] = s[i + 1]
      /\ Head(s) = s[1]
  OBVIOUS
<1> HIDE DEF t
<1>2. \A i, j \in DOMAIN t : t[i] = t[j] => i = j
  <2> SUFFICES ASSUME NEW i \in DOMAIN t, NEW j \in DOMAIN t, t[i] = t[j]
               PROVE  i = j
    OBVIOUS
  <2>1. s[i + 1] = s[j + 1] /\ i + 1 \in DOMAIN s /\ j + 1 \in DOMAIN s
    BY <1>1
  <2>2. i + 1 = j + 1
    BY <2>1
  <2> QED  BY <2>2, <1>1
<1>3. {t[i] : i \in DOMAIN t} \subseteq {s[i] : i \in DOMAIN s} \ {Head(s)}
  <2> SUFFICES ASSUME NEW i \in DOMAIN t
               PROVE  /\ t[i] \in {s[k] : k \in DOMAIN s}
                      /\ t[i] # Head(s)
    OBVIOUS
  <2>1. t[i] = s[i + 1] /\ i + 1 \in DOMAIN s /\ 1 \in DOMAIN s /\ i + 1 # 1
    BY <1>1
  <2> QED  BY <2>1, <1>1
<1>4. {s[i] : i \in DOMAIN s} \ {Head(s)} \subseteq {t[i] : i \in DOMAIN t}
  <2> SUFFICES ASSUME NEW i \in DOMAIN s, s[i] # Head(s)
               PROVE  s[i] \in {t[k] : k \in DOMAIN t}
    OBVIOUS
  <2>1. i - 1 \in DOMAIN t /\ t[i - 1] = s[i]
    BY <1>1
  <2> QED  BY <2>1
<1>5. Head(s) \in {s[i] : i \in DOMAIN s}
  BY <1>1
<1> QED  BY <1>1, <1>2, <1>3, <1>4, <1>5 DEF t

\* A block that is not in a list, put in front of it.
LEMMA FreeListPush ==
  ASSUME NEW s \in Seq(Blocks), NEW b \in Blocks,
         b \notin {s[i] : i \in DOMAIN s},
         \A i, j \in DOMAIN s : s[i] = s[j] => i = j
  PROVE  /\ <<b>> \o s \in Seq(Blocks)
         /\ \A i, j \in DOMAIN (<<b>> \o s) :
              (<<b>> \o s)[i] = (<<b>> \o s)[j] => i = j
         /\ {(<<b>> \o s)[i] : i \in DOMAIN (<<b>> \o s)}
              = {s[i] : i \in DOMAIN s} \cup {b}
<1> DEFINE t == <<b>> \o s
<1>1. /\ t \in Seq(Blocks)
      /\ Len(s) \in Nat
      /\ DOMAIN t = 1 .. Len(s) + 1
      /\ DOMAIN s = 1 .. Len(s)
      /\ t[1] = b
      /\ \A i \in 2 .. Len(s) + 1 : t[i] = s[i - 1]
  OBVIOUS
<1> HIDE DEF t
<1>2. \A i \in DOMAIN t : i = 1 \/ (i - 1 \in DOMAIN s /\ t[i] = s[i - 1])
  BY <1>1
<1>3. \A i, j \in DOMAIN t : t[i] = t[j] => i = j
  <2> SUFFICES ASSUME NEW i \in DOMAIN t, NEW j \in DOMAIN t, t[i] = t[j]
               PROVE  i = j
    OBVIOUS
  <2>1. i \in Int /\ j \in Int
    BY <1>1
  <2>2. CASE i = 1 \/ j = 1
    BY <1>1, <1>2, <2>2
  <2>3. CASE i # 1 /\ j # 1
    <3>1. i - 1 = j - 1
      BY <1>2, <2>3
    <3> QED  BY <3>1, <2>1
  <2> QED  BY <2>2, <2>3
<1>4. {t[i] : i \in DOMAIN t} \subseteq {s[i] : i \in DOMAIN s} \cup {b}
  BY <1>1, <1>2
<1>5. {s[i] : i \in DOMAIN s} \cup {b} \subseteq {t[i] : i \in DOMAIN t}
  <2>1. \A i \in DOMAIN s : i + 1 \in DOMAIN t /\ t[i + 1] = s[i]
    BY <1>1
  <2>2. 1 \in DOMAIN t /\ t[1] = b
    BY <1>1
  <2> QED  BY <2>1, <2>2
<1> QED  BY <1>1, <1>3, <1>4, <1>5 DEF t
-----------------------------------------------------------------------------
\* The carved blocks, among all blocks.
LEMMA CarvedBlocks ==
  ASSUME GrowSizeAssumption, NEW p \in Pools
  PROVE  Carved(p) = {b \in Blocks : \/ b[1] < p.buffers
                                     \/ b[1] = p.buffers /\ b[2] < p.bufferedBlocks}
<1>1. p.buffers \in Nat
  BY DEF Pools
<1>2. \A k \in Int, i \in Int :
        (k \in 1 .. p.buffers /\ (k < p.buffers \/ i < p.bufferedBlocks))
          <=> (k \in Nat \ {0} /\ (k < p.buffers \/ (k = p.buffers /\ i < p.bufferedBlocks)))
  BY <1>1
<1>3. \A b : b \in (1 .. p.buffers) \X (0 .. GrowSize - 1) =>
              b \in Blocks /\ b[1] \in Int /\ b[2] \in Int /\ b[1] \in 1 .. p.buffers
  BY <1>1 DEF Blocks
<1>4. \A b \in Blocks : b[1] \in Int /\ b[2] \in Int /\ b[1] \in Nat \ {0}
                         /\ (b[1] \in 1 .. p.buffers =>
                              b \in (1 .. p.buffers) \X (0 .. GrowSize - 1))
  BY DEF Blocks, GrowSizeAssumption
<1> QED  BY <1>2, <1>3, <1>4 DEF Carved

\* A buffer more carves nothing, and the next block of the result is a block.
LEMMA GrownKeepsCarved ==
  ASSUME GrowSizeAssumption, NEW p \in Pools
  PROVE  /\ Grown(p) \in Pools
         /\ Grown(p).freeBlocks = p.freeBlocks
         /\ Grown(p).n_allocated = p.n_allocated
         /\ Grown(p).buffers # 0
         /\ Grown(p).bufferedBlocks < GrowSize
         /\ Carved(Grown(p)) = Carved(p)
<1> USE DEF GrowSizeAssumption
<1>1. CASE p.bufferedBlocks >= GrowSize \/ p.buffers = 0
  <2> DEFINE g == Grown(p)
  <2>1. g = [p EXCEPT !.buffers = p.buffers + 1, !.bufferedBlocks = 0]
    BY <1>1 DEF Grown
  <2>2. /\ p.freeBlocks \in Seq(Blocks) /\ p.buffers \in Nat
        /\ p.bufferedBlocks \in 0 .. GrowSize /\ p.n_allocated \in Int
        /\ p = [freeBlocks |-> p.freeBlocks, buffers |-> p.buffers,
                bufferedBlocks |-> p.bufferedBlocks, n_allocated |-> p.n_allocated]
    BY DEF Pools
  <2>3. g = [freeBlocks |-> p.freeBlocks, buffers |-> p.buffers + 1,
             bufferedBlocks |-> 0, n_allocated |-> p.n_allocated]
    BY <2>1, <2>2, Zenon
  <2> HIDE DEF g
  <2>4. /\ g \in Pools
        /\ g.freeBlocks = p.freeBlocks
        /\ g.n_allocated = p.n_allocated
        /\ g.buffers = p.buffers + 1
        /\ g.bufferedBlocks = 0
    BY <2>2, <2>3 DEF Pools
  <2>5. \A b \in Blocks :
          (b[1] < p.buffers + 1 \/ (b[1] = p.buffers + 1 /\ b[2] < 0))
            <=> (b[1] < p.buffers \/ (b[1] = p.buffers /\ b[2] < p.bufferedBlocks))
    <3> SUFFICES ASSUME NEW k \in Nat \ {0}, NEW i \in 0 .. GrowSize - 1
                 PROVE  (k < p.buffers + 1 \/ (k = p.buffers + 1 /\ i < 0))
                          <=> (k < p.buffers \/ (k = p.buffers /\ i < p.bufferedBlocks))
      BY DEF Blocks
    <3> QED  BY <1>1, <2>2
  <2>6. Carved(g) = Carved(p)
    <3>1. /\ Carved(g) = {b \in Blocks : \/ b[1] < p.buffers + 1
                                         \/ b[1] = p.buffers + 1 /\ b[2] < 0}
      BY <2>4, CarvedBlocks
    <3> QED  BY <2>5, <3>1, CarvedBlocks
  <2> QED  BY <2>2, <2>4, <2>6 DEF g
<1>2. CASE ~(p.bufferedBlocks >= GrowSize \/ p.buffers = 0)
  BY <1>2 DEF Grown, Pools
<1> QED  BY <1>1, <1>2

\* Carving a block adds that block, a new one, to the carved ones.
LEMMA CarvingIsFresh ==
  ASSUME GrowSizeAssumption, NEW p \in Pools, p.buffers # 0, p.bufferedBlocks < GrowSize,
         NEW q \in Pools, q.buffers = p.buffers,
         q.bufferedBlocks = p.bufferedBlocks + 1
  PROVE  /\ <<p.buffers, p.bufferedBlocks>> \in Blocks \ Carved(p)
         /\ Carved(q) = Carved(p) \cup {<<p.buffers, p.bufferedBlocks>>}
<1> USE DEF GrowSizeAssumption
<1> DEFINE n == <<p.buffers, p.bufferedBlocks>>
<1>1. p.buffers \in Nat \ {0} /\ p.bufferedBlocks \in 0 .. GrowSize - 1
  BY DEF Pools
<1>2. n \in Blocks
  BY <1>1 DEF Blocks
<1>3. n \notin Carved(p)
  BY <1>1, CarvedBlocks
<1>4. \A b \in Blocks :
        (b[1] < q.buffers \/ (b[1] = q.buffers /\ b[2] < q.bufferedBlocks))
          <=> \/ b[1] < p.buffers \/ (b[1] = p.buffers /\ b[2] < p.bufferedBlocks)
              \/ b = n
  <2> SUFFICES ASSUME NEW k \in Nat \ {0}, NEW i \in 0 .. GrowSize - 1
               PROVE  (k < p.buffers \/ (k = p.buffers /\ i < p.bufferedBlocks + 1))
                        <=> \/ k < p.buffers \/ (k = p.buffers /\ i < p.bufferedBlocks)
                            \/ (k = p.buffers /\ i = p.bufferedBlocks)
    BY DEF Blocks
  <2> QED  BY <1>1
<1>5. Carved(q) = Carved(p) \cup {n}
  BY <1>2, <1>4, CarvedBlocks
<1> QED  BY <1>2, <1>3, <1>5

\* alloc gives a block that nobody has, and counts it.
LEMMA AllocIsSound ==
  ASSUME GrowSizeAssumption, NEW p, NEW u, Sound(p, u)
  PROVE  /\ NextBlock(p) \in Blocks \ u
         /\ Sound(Alloc(p), u \cup {NextBlock(p)})
<1> DEFINE n == NextBlock(p)
           a == Alloc(p)
<1>1. /\ p \in Pools /\ u \subseteq Blocks /\ IsFiniteSet(u)
      /\ p.freeBlocks \in Seq(Blocks) /\ p.buffers \in Nat
      /\ p.bufferedBlocks \in 0 .. GrowSize /\ p.n_allocated \in Int
  BY DEF Sound, Pools
<1>2. ASSUME a \in Pools, Distinct(a.freeBlocks), n \in Blocks \ u,
             n \notin FreeSet(a), FreeSet(a) \subseteq FreeSet(p),
             FreeSet(a) \cup u \cup {n} = Carved(a),
             a.n_allocated = p.n_allocated + 1
      PROVE  n \in Blocks \ u /\ Sound(a, u \cup {n})
  <2>1. IsFiniteSet(u \cup {n}) /\ Cardinality(u \cup {n}) = Cardinality(u) + 1
    BY <1>1, <1>2, FS_AddElement
  <2>2. a.n_allocated = Cardinality(u \cup {n})
    BY <1>2, <2>1 DEF Sound
  <2>3. FreeSet(a) \cap (u \cup {n}) = {}
    BY <1>2 DEF Sound
  <2> QED  BY <1>1, <1>2, <2>1, <2>2, <2>3 DEF Sound
<1>3. CASE p.freeBlocks # <<>>
  <2>1. a = [p EXCEPT !.freeBlocks = Tail(p.freeBlocks), !.n_allocated = p.n_allocated + 1]
        /\ n = Head(p.freeBlocks)
    BY <1>3 DEF Alloc, NextBlock
  <2>2. /\ Tail(p.freeBlocks) \in Seq(Blocks)
        /\ Distinct(Tail(p.freeBlocks))
        /\ {Tail(p.freeBlocks)[i] : i \in DOMAIN Tail(p.freeBlocks)} = FreeSet(p) \ {n}
        /\ n \in FreeSet(p)
    <3>1. \A i, j \in DOMAIN p.freeBlocks :
            p.freeBlocks[i] = p.freeBlocks[j] => i = j
      BY DEF Sound, Distinct
    <3> DEFINE t == Tail(p.freeBlocks)
    <3>2. /\ t \in Seq(Blocks)
          /\ \A i, j \in DOMAIN t : t[i] = t[j] => i = j
          /\ {t[i] : i \in DOMAIN t}
               = {p.freeBlocks[i] : i \in DOMAIN p.freeBlocks} \ {Head(p.freeBlocks)}
          /\ Head(p.freeBlocks) \in {p.freeBlocks[i] : i \in DOMAIN p.freeBlocks}
      BY <1>1, <1>3, <3>1, FreeListTail
    <3> HIDE DEF t, n
    <3>3. Distinct(t)
      BY <3>2, Zenon DEF Distinct
    <3> QED  BY <2>1, <3>2, <3>3, Zenon DEF FreeSet, t
  <2>3. p = [freeBlocks |-> p.freeBlocks, buffers |-> p.buffers,
             bufferedBlocks |-> p.bufferedBlocks, n_allocated |-> p.n_allocated]
    BY <1>1 DEF Pools
  <2>4. a = [freeBlocks |-> Tail(p.freeBlocks), buffers |-> p.buffers,
             bufferedBlocks |-> p.bufferedBlocks, n_allocated |-> p.n_allocated + 1]
    BY <2>1, <2>3
  <2> HIDE DEF a, n
  <2>5. /\ a.freeBlocks = Tail(p.freeBlocks) /\ a.buffers = p.buffers
        /\ a.bufferedBlocks = p.bufferedBlocks /\ a.n_allocated = p.n_allocated + 1
    BY <2>4
  <2>6. a \in Pools
    BY <1>1, <2>2, <2>4 DEF Pools
  <2>7. Carved(a) = Carved(p) /\ FreeSet(a) = FreeSet(p) \ {n}
    BY <2>2, <2>5 DEF Carved, FreeSet
  <2>8. /\ n \in Blocks \ u /\ n \notin FreeSet(a)
        /\ FreeSet(a) \cup u \cup {n} = Carved(a)
    <3>1. Carved(p) \subseteq Blocks
      BY <1>1, CarvedBlocks
    <3> QED  BY <2>2, <2>7, <3>1 DEF Sound
  <2> QED  BY <1>2, <2>2, <2>5, <2>6, <2>7, <2>8 DEF a, n
<1>4. CASE p.freeBlocks = <<>>
  <2> DEFINE g == Grown(p)
  <2>1. a = [g EXCEPT !.bufferedBlocks = g.bufferedBlocks + 1, !.n_allocated = g.n_allocated + 1]
        /\ n = <<g.buffers, g.bufferedBlocks>>
    BY <1>4 DEF Alloc, NextBlock
  <2>2. /\ g \in Pools /\ g.freeBlocks = <<>> /\ g.n_allocated = p.n_allocated
        /\ g.buffers # 0 /\ g.bufferedBlocks < GrowSize
        /\ Carved(g) = Carved(p)
    BY <1>1, <1>4, GrownKeepsCarved
  <2> HIDE DEF g
  <2>3. /\ g = [freeBlocks |-> g.freeBlocks, buffers |-> g.buffers,
                bufferedBlocks |-> g.bufferedBlocks, n_allocated |-> g.n_allocated]
        /\ g.freeBlocks \in Seq(Blocks) /\ g.buffers \in Nat
        /\ g.bufferedBlocks \in 0 .. GrowSize /\ g.n_allocated \in Int
    BY <2>2 DEF Pools
  <2>4. a = [freeBlocks |-> g.freeBlocks, buffers |-> g.buffers,
             bufferedBlocks |-> g.bufferedBlocks + 1, n_allocated |-> g.n_allocated + 1]
    BY <2>1, <2>3
  <2> HIDE DEF a, n
  <2>5. /\ a.freeBlocks = <<>> /\ a.buffers = g.buffers
        /\ a.bufferedBlocks = g.bufferedBlocks + 1 /\ a.n_allocated = p.n_allocated + 1
    BY <2>2, <2>4
  <2>6. a \in Pools
    BY <2>2, <2>3, <2>4 DEF Pools, GrowSizeAssumption
  <2>7. n \in Blocks \ Carved(p) /\ Carved(a) = Carved(p) \cup {n}
    BY <2>1, <2>2, <2>5, <2>6, CarvingIsFresh
  <2>8. FreeSet(a) = {} /\ FreeSet(p) = {} /\ Distinct(a.freeBlocks)
    BY <1>4, <2>5 DEF FreeSet, Distinct
  <2>9. n \in Blocks \ u /\ FreeSet(a) \cup u \cup {n} = Carved(a)
    BY <2>7, <2>8 DEF Sound
  <2> QED  BY <1>2, <2>5, <2>6, <2>8, <2>9 DEF a, n
<1> QED  BY <1>3, <1>4

\* free puts the block back once, and counts it off.
LEMMA FreeIsSound ==
  ASSUME GrowSizeAssumption, NEW p, NEW u, Sound(p, u), NEW b \in u
  PROVE  Sound(Free(p, b), u \ {b})
<1> DEFINE f == Free(p, b)
           s == <<b>> \o p.freeBlocks
<1>1. /\ p \in Pools /\ u \subseteq Blocks /\ IsFiniteSet(u) /\ b \in Blocks
      /\ p.freeBlocks \in Seq(Blocks) /\ p.buffers \in Nat
      /\ p.bufferedBlocks \in 0 .. GrowSize /\ p.n_allocated \in Int
      /\ p = [freeBlocks |-> p.freeBlocks, buffers |-> p.buffers,
              bufferedBlocks |-> p.bufferedBlocks, n_allocated |-> p.n_allocated]
  BY DEF Sound, Pools
<1>2. f = [p EXCEPT !.freeBlocks = s, !.n_allocated = p.n_allocated - 1]
  BY DEF Free
<1>3. b \notin FreeSet(p)
  BY DEF Sound
<1>4. /\ s \in Seq(Blocks) /\ Distinct(s)
      /\ {s[i] : i \in DOMAIN s} = FreeSet(p) \cup {b}
  BY <1>1, <1>3, FreeListPush DEF Sound, FreeSet, Distinct
<1> HIDE DEF s
<1>5. f = [freeBlocks |-> s, buffers |-> p.buffers,
           bufferedBlocks |-> p.bufferedBlocks, n_allocated |-> p.n_allocated - 1]
  BY <1>1, <1>2
<1> HIDE DEF f
<1>6. /\ f.freeBlocks = s /\ f.buffers = p.buffers
      /\ f.bufferedBlocks = p.bufferedBlocks /\ f.n_allocated = p.n_allocated - 1
  BY <1>5
<1>7. f \in Pools
  BY <1>1, <1>4, <1>5 DEF Pools
<1>8. Carved(f) = Carved(p) /\ FreeSet(f) = FreeSet(p) \cup {b}
  BY <1>4, <1>6 DEF Carved, FreeSet
<1>9. IsFiniteSet(u \ {b}) /\ Cardinality(u \ {b}) = Cardinality(u) - 1
  BY <1>1, FS_RemoveElement
<1>10. f.n_allocated = Cardinality(u \ {b})
  BY <1>6, <1>9 DEF Sound
<1>11. FreeSet(f) \cap (u \ {b}) = {} /\ FreeSet(f) \cup (u \ {b}) = Carved(f)
  BY <1>8 DEF Sound
<1>12. Sound(f, u \ {b})
  BY <1>1, <1>4, <1>6, <1>7, <1>9, <1>10, <1>11 DEF Sound
<1> QED  BY <1>12 DEF f
-----------------------------------------------------------------------------
\* A pool without a buffer is sound.
LEMMA PoolInitSound ==
  ASSUME GrowSizeAssumption PROVE PoolInit => PoolInvariant
<1> SUFFICES ASSUME PoolInit PROVE Sound(pool, inUse)
  BY InvariantIsSound
<1>1. pool = [freeBlocks |-> <<>>, buffers |-> 0, bufferedBlocks |-> 0, n_allocated |-> 0]
  BY DEF PoolInit, EmptyPool
<1>2. pool \in Pools
  BY <1>1 DEF Pools, GrowSizeAssumption
<1>3. FreeSet(pool) = {} /\ Distinct(pool.freeBlocks)
  BY <1>1 DEF FreeSet, Distinct
<1>4. Carved(pool) = {}
  BY <1>1 DEF Carved, Blocks
<1>5. inUse = {} /\ IsFiniteSet(inUse) /\ Cardinality(inUse) = 0
  BY FS_EmptySet DEF PoolInit
<1>6. pool.n_allocated = 0
  BY <1>1
<1> QED  BY <1>2, <1>3, <1>4, <1>5, <1>6 DEF Sound

\* Every call keeps the pool sound.
LEMMA PoolStepSound ==
  ASSUME GrowSizeAssumption
  PROVE  PoolInvariant /\ [PoolNext]_poolVars => PoolInvariant'
<1> SUFFICES ASSUME Sound(pool, inUse), [PoolNext]_poolVars
             PROVE  Sound(pool', inUse')
  BY InvariantIsSound DEF PoolInvariant, Sound, Pools, PoolTypeOK, BlocksApart,
     CountsObjects, Distinct, FreeSet, Carved
<1>1. CASE Make
  BY <1>1, AllocIsSound DEF Make
<1>2. CASE MakeThrows
  <2> DEFINE n == NextBlock(pool)
  <2>1. n \notin inUse /\ Sound(Alloc(pool), inUse \cup {n})
    BY AllocIsSound
  <2>2. Sound(Free(Alloc(pool), n), (inUse \cup {n}) \ {n})
    BY <2>1, FreeIsSound
  <2>3. (inUse \cup {n}) \ {n} = inUse
    BY <2>1
  <2> QED  BY <1>2, <2>2, <2>3 DEF MakeThrows
<1>3. CASE \E b \in Blocks : DeleteObject(b)
  BY <1>3, FreeIsSound DEF DeleteObject
<1>4. CASE UNCHANGED poolVars
  BY <1>4 DEF poolVars
<1> QED  BY <1>1, <1>2, <1>3, <1>4 DEF PoolNext

\* The inductive invariant holds in every state of the allocator.
LEMMA PoolSound ==
  ASSUME GrowSizeAssumption PROVE PoolSpec => []PoolInvariant
  BY PoolInitSound, PoolStepSound, PTL DEF PoolSpec

(***************************************************************************)
(* No block is twice in the free list, on it while an object lives in it,  *)
(* or lost (alloc and free of objpool.h).                                  *)
(***************************************************************************)
THEOREM BlocksStayApart ==
  ASSUME GrowSizeAssumption PROVE PoolSpec => []BlocksApart
<1>1. PoolInvariant => BlocksApart
  BY DEF PoolInvariant
<1> QED  BY <1>1, PoolSound, PTL

\* n_allocated, which make and delete_object count, is the number of live objects.
THEOREM CountIsExact ==
  ASSUME GrowSizeAssumption PROVE PoolSpec => []CountsObjects
<1>1. PoolInvariant => CountsObjects
  BY DEF PoolInvariant
<1> QED  BY <1>1, PoolSound, PTL

(***************************************************************************)
(* The allocator keeps the promise of BlockStore: make returns a block     *)
(* nobody has, from the free list and from a buffer alike.                 *)
(***************************************************************************)
THEOREM NeverHandsOutTwice ==
  ASSUME GrowSizeAssumption PROVE PoolSpec => Store!Spec
<1>1. PoolInit => Store!Init
  BY DEF PoolInit, Store!Init
<1>2. PoolInvariant /\ [PoolNext]_poolVars => [Store!Next]_inUse
  <2> SUFFICES ASSUME PoolInvariant, [PoolNext]_poolVars
               PROVE  [Store!Next]_inUse
    OBVIOUS
  <2>1. CASE Make
    <3>1. NextBlock(pool) \in Blocks \ inUse
      BY InvariantIsSound, AllocIsSound
    <3> QED  BY <2>1, <3>1 DEF Make, Store!Next, Store!HandOut
  <2>2. CASE MakeThrows
    BY <2>2 DEF MakeThrows
  <2>3. CASE \E b \in Blocks : DeleteObject(b)
    BY <2>3 DEF DeleteObject, Store!Next, Store!TakeBack
  <2>4. CASE UNCHANGED poolVars
    BY <2>4 DEF poolVars
  <2> QED  BY <2>1, <2>2, <2>3, <2>4 DEF PoolNext
<1> QED  BY <1>1, <1>2, PoolSound, PTL DEF PoolSpec, Store!Spec
=============================================================================
