----------------------------- MODULE DomProofs ------------------------------
(***************************************************************************)
(* Documents as trees of nodes, for any number of documents and nodes:     *)
(* whatever is moved, copied, merged and parsed, no two pointers lead to   *)
(* the same node and none to one that is freed.                            *)
(***************************************************************************)
EXTENDS Dom, FiniteSetTheorems, SequenceTheorems, TLAPS

(***************************************************************************)
(* Numbers, and functions defined by recursion on them.                    *)
(***************************************************************************)

LEMMA LeastNumber ==
  ASSUME NEW T, T \subseteq Nat, T # {}
  PROVE  \E x \in T : \A y \in T : x <= y
<1> DEFINE R == OpToRel(<, Nat)
<1>1. \A x, y \in Nat : <<y, x>> \in R <=> y < x
  BY DEF OpToRel
<1>2. IsWellFoundedOn(R, Nat)
  BY NatLessThanWellFounded
<1> HIDE DEF R
<1>3. PICK x \in T : \A y \in T : ~ (<<y, x>> \in R)
  BY <1>2, WFMin
<1>4. \A y \in T : ~ (y < x)
  <2> TAKE y \in T
  <2>1. x \in Nat /\ y \in Nat
    OBVIOUS
  <2>2. QED
    BY <2>1, <1>1, <1>3, Zenon
<1>5. QED
  BY <1>4

\* f has what the first n applications of g make of a.
Iterates(n, f, g, a, X) ==
  /\ f \in [0 .. n -> X]
  /\ f[0] = a
  /\ \A i \in 1 .. n : f[i] = g[f[i - 1]]

LEMMA IteratesExist ==
  ASSUME NEW X, NEW g \in [X -> X], NEW a \in X
  PROVE  \A n \in Nat : \E f : Iterates(n, f, g, a, X)
<1> DEFINE Bad == {n \in Nat : ~ \E f : Iterates(n, f, g, a, X)}
<1>1. SUFFICES ASSUME Bad # {} PROVE FALSE
  OBVIOUS
<1>2. PICK n \in Bad : \A m \in Bad : n <= m
  <2>1. Bad \subseteq Nat
    OBVIOUS
  <2> HIDE DEF Bad
  <2>2. QED
    BY <1>1, <2>1, LeastNumber
<1>3. CASE n = 0
  <2>1. Iterates(0, [i \in 0 .. 0 |-> a], g, a, X)
    BY DEF Iterates
  <2>2. QED
    BY <1>3, <2>1
<1>4. CASE n # 0
  <2>1. n - 1 \in Nat /\ n - 1 \notin Bad
    BY <1>2, <1>4
  <2>2. PICK f : Iterates(n - 1, f, g, a, X)
    BY <2>1
  <2> DEFINE e == [i \in 0 .. n |-> IF i = n THEN g[f[n - 1]] ELSE f[i]]
  <2>3. Iterates(n, e, g, a, X)
    BY <1>4, <2>1, <2>2 DEF Iterates
  <2>4. QED
    BY <2>3
<1>5. QED
  BY <1>3, <1>4

LEMMA IteratesAgree ==
  ASSUME NEW X, NEW g, NEW a, NEW n \in Nat, NEW m \in Nat, NEW e, NEW f,
         Iterates(n, e, g, a, X), Iterates(m, f, g, a, X)
  PROVE  \A i \in Nat : i <= n /\ i <= m => e[i] = f[i]
<1> DEFINE Bad == {i \in Nat : i <= n /\ i <= m /\ e[i] # f[i]}
<1>1. SUFFICES ASSUME Bad # {} PROVE FALSE
  OBVIOUS
<1>2. PICK i \in Bad : \A j \in Bad : i <= j
  <2>1. Bad \subseteq Nat
    OBVIOUS
  <2> HIDE DEF Bad
  <2>2. QED
    BY <1>1, <2>1, LeastNumber
<1>3. i # 0
  BY DEF Iterates
<1>4. i - 1 \in Nat /\ i - 1 \notin Bad
  BY <1>2, <1>3
<1>5. e[i - 1] = f[i - 1]
  BY <1>4
<1>6. QED
  BY <1>3, <1>5 DEF Iterates

IsIteration(f, g, a, X) ==
  /\ f \in [Nat -> X]
  /\ f[0] = a
  /\ \A i \in Nat : f[i + 1] = g[f[i]]

LEMMA IterationExists ==
  ASSUME NEW X, NEW g, g \in [X -> X], NEW a, a \in X
  PROVE  \E f : IsIteration(f, g, a, X)
<1> DEFINE F == [n \in Nat |-> CHOOSE f : Iterates(n, f, g, a, X)]
           f == [n \in Nat |-> F[n][n]]
<1>1. \A n \in Nat : Iterates(n, F[n], g, a, X)
  BY IteratesExist
<1> HIDE DEF F
<1>2. f \in [Nat -> X] /\ f[0] = a
  BY <1>1 DEF Iterates
<1>3. ASSUME NEW i \in Nat
      PROVE  f[i + 1] = g[f[i]]
  <2>1. F[i + 1][i] = F[i][i]
    <3>1. i + 1 \in Nat /\ i <= i + 1 /\ i <= i
      OBVIOUS
    <3>2. Iterates(i + 1, F[i + 1], g, a, X) /\ Iterates(i, F[i], g, a, X)
      BY <1>1, <3>1
    <3>3. \A j \in Nat : j <= i + 1 /\ j <= i => F[i + 1][j] = F[i][j]
      BY <3>1, <3>2, IteratesAgree, SMT
    <3>4. QED
      BY <3>1, <3>3
  <2>2. F[i + 1][i + 1] = g[F[i + 1][i]]
    BY <1>1 DEF Iterates
  <2>3. QED
    BY <2>1, <2>2
<1>4. QED
  BY <1>2, <1>3 DEF IsIteration
-----------------------------------------------------------------------------
(***************************************************************************)
(* Heaps.                                                                  *)
(***************************************************************************)

\* The pointer at place i of the node c leads to m.
PointsTo(s, c, i, m) == c \in DOMAIN s /\ i \in DOMAIN Links(s[c]) /\ m = Links(s[c])[i]

Inside(s, D) == \A c, i, m : PointsTo(s, c, i, m) /\ c \in D => m \in D

\* Every pointer leads to a node of the heap, and no two to the same one.
Solid(s) ==
  /\ IsFiniteSet(DOMAIN s)
  /\ DOMAIN s \subseteq Nat \ {NoNode}
  /\ \A c, i, m : PointsTo(s, c, i, m) => m \in DOMAIN s
  /\ \A c, d, i, j, m : PointsTo(s, c, i, m) /\ PointsTo(s, d, j, m) => c = d /\ i = j

Root(s, n) == n \in DOMAIN s /\ \A c, i : ~ PointsTo(s, c, i, n)

LEMMA ChildrenAreLinked ==
  ASSUME NEW s, NEW c \in DOMAIN s
  PROVE  \A m : m \in Children(s[c]) <=> \E i : PointsTo(s, c, i, m)
BY DEF Children, Range, PointsTo

LEMMA WithChildrenGrows ==
  ASSUME NEW s, Solid(s), NEW D, D \subseteq DOMAIN s
  PROVE  /\ WithChildren(s, D) \subseteq DOMAIN s
         /\ D \subseteq WithChildren(s, D)
         /\ \A m : m \in WithChildren(s, D) <=> m \in D \/ \E c \in D : \E i : PointsTo(s, c, i, m)
<1>1. \A c \in D : c \in DOMAIN s
  OBVIOUS
<1>2. \A m : m \in WithChildren(s, D) <=> m \in D \/ \E c \in D : m \in Children(s[c])
  BY DEF WithChildren
<1>3. \A m : m \in WithChildren(s, D) <=> m \in D \/ \E c \in D : \E i : PointsTo(s, c, i, m)
  BY <1>1, <1>2, ChildrenAreLinked
<1>4. QED
  BY <1>3 DEF Solid

\* What Below is made of: levels, each the one before and its children.
LEMMA BelowHasLevels ==
  ASSUME NEW s, Solid(s), NEW n \in DOMAIN s
  PROVE  \E level \in [Nat -> SUBSET DOMAIN s] :
           /\ level[0] = {n}
           /\ \A i \in Nat : level[i + 1] = WithChildren(s, level[i])
           /\ Below(s, n) = level[Cardinality(DOMAIN s)]
<1> DEFINE g == [D \in SUBSET DOMAIN s |-> WithChildren(s, D)]
           Unfolds(f) == f = [i \in Nat |-> IF i = 0 THEN {n} ELSE WithChildren(s, f[i - 1])]
           level == CHOOSE f : Unfolds(f)
<1>1. g \in [SUBSET DOMAIN s -> SUBSET DOMAIN s]
  BY WithChildrenGrows
<1>2. {n} \in SUBSET DOMAIN s
  OBVIOUS
<1>3. PICK f \in [Nat -> SUBSET DOMAIN s] : f[0] = {n} /\ \A i \in Nat : f[i + 1] = g[f[i]]
  <2> DEFINE X == SUBSET DOMAIN s
             a == {n}
  <2>1. g \in [X -> X] /\ a \in X
    BY <1>1, <1>2
  <2> HIDE DEF g, X, a
  <2>2. \E f : IsIteration(f, g, a, X)
    BY <2>1, IterationExists, Zenon
  <2>3. QED
    BY <2>2 DEF X, a, IsIteration
<1>4. ASSUME NEW i \in Nat, i # 0
      PROVE  f[i] = WithChildren(s, f[i - 1])
  <2>1. i - 1 \in Nat /\ i = (i - 1) + 1
    BY <1>4
  <2>2. f[(i - 1) + 1] = g[f[i - 1]] /\ f[i - 1] \in SUBSET DOMAIN s
    BY <1>3, <2>1
  <2>3. QED
    BY <2>1, <2>2
<1>5. Unfolds(f)
  BY <1>3, <1>4
<1> HIDE DEF g
<1>6. Unfolds(level)
  <2> HIDE DEF Unfolds
  <2>1. QED
    BY <1>5
<1>7. Below(s, n) = level[Cardinality(DOMAIN s)]
  BY DEF Below
<1> HIDE DEF level
<1>8. level[0] = {n}
  BY <1>6
<1>9. ASSUME NEW i \in Nat
      PROVE  level[i + 1] = WithChildren(s, level[i])
  <2>1. i + 1 \in Nat /\ i + 1 # 0 /\ (i + 1) - 1 = i
    OBVIOUS
  <2>2. \A j \in Nat : j # 0 => level[j] = WithChildren(s, level[j - 1])
    BY <1>6
  <2>3. level[i + 1] = WithChildren(s, level[(i + 1) - 1])
    BY <2>1, <2>2, Zenon
  <2>4. QED
    BY <2>1, <2>3
<1>10. \A i \in Nat : level[i] \in SUBSET DOMAIN s
  <2> DEFINE Bad == {i \in Nat : level[i] \notin SUBSET DOMAIN s}
  <2>1. SUFFICES ASSUME Bad # {} PROVE FALSE
    OBVIOUS
  <2>2. PICK i \in Bad : \A j \in Bad : i <= j
    <3>1. Bad \subseteq Nat
      OBVIOUS
    <3> HIDE DEF Bad
    <3>2. QED
      BY <2>1, <3>1, LeastNumber
  <2>3. i # 0
    BY <1>8
  <2>4. i - 1 \in Nat /\ i = (i - 1) + 1 /\ i - 1 \notin Bad
    BY <2>2, <2>3
  <2>5. level[i - 1] \in SUBSET DOMAIN s
    BY <2>4
  <2>6. level[i] = WithChildren(s, level[i - 1])
    BY <1>9, <2>4
  <2>7. QED
    BY <2>5, <2>6, WithChildrenGrows
<1>11. level \in [Nat -> SUBSET DOMAIN s]
  BY <1>6, <1>10
<1>12. QED
  BY <1>7, <1>8, <1>9, <1>11

LEMMA BelowHasTop ==
  ASSUME NEW s, Solid(s), NEW n \in DOMAIN s
  PROVE  n \in Below(s, n) /\ Below(s, n) \subseteq DOMAIN s
<1>1. PICK level \in [Nat -> SUBSET DOMAIN s] :
        /\ level[0] = {n}
        /\ \A i \in Nat : level[i + 1] = WithChildren(s, level[i])
        /\ Below(s, n) = level[Cardinality(DOMAIN s)]
  BY BelowHasLevels
<1>2. Cardinality(DOMAIN s) \in Nat
  BY FS_CardinalityType DEF Solid
<1>3. \A i \in Nat : n \in level[i]
  <2> DEFINE Bad == {i \in Nat : n \notin level[i]}
  <2>1. SUFFICES ASSUME Bad # {} PROVE FALSE
    OBVIOUS
  <2>2. PICK i \in Bad : \A j \in Bad : i <= j
    <3>1. Bad \subseteq Nat
      OBVIOUS
    <3> HIDE DEF Bad
    <3>2. QED
      BY <2>1, <3>1, LeastNumber
  <2>3. i # 0
    BY <1>1
  <2>4. i - 1 \in Nat /\ i = (i - 1) + 1 /\ i - 1 \notin Bad
    BY <2>2, <2>3
  <2>5. n \in level[i - 1] /\ level[i] = WithChildren(s, level[i - 1])
    BY <1>1, <2>4
  <2>6. QED
    BY <2>5 DEF WithChildren
<1>4. QED
  BY <1>1, <1>2, <1>3

\* A set with n that no pointer leads out of has all that is below n.
LEMMA BelowIsLeast ==
  ASSUME NEW s, Solid(s), NEW n \in DOMAIN s, NEW D, n \in D, Inside(s, D)
  PROVE  Below(s, n) \subseteq D
<1>1. PICK level \in [Nat -> SUBSET DOMAIN s] :
        /\ level[0] = {n}
        /\ \A i \in Nat : level[i + 1] = WithChildren(s, level[i])
        /\ Below(s, n) = level[Cardinality(DOMAIN s)]
  BY BelowHasLevels
<1>2. Cardinality(DOMAIN s) \in Nat
  BY FS_CardinalityType DEF Solid
<1>3. \A i \in Nat : level[i] \subseteq D
  <2> DEFINE Bad == {i \in Nat : ~ level[i] \subseteq D}
  <2>1. SUFFICES ASSUME Bad # {} PROVE FALSE
    OBVIOUS
  <2>2. PICK i \in Bad : \A j \in Bad : i <= j
    <3>1. Bad \subseteq Nat
      OBVIOUS
    <3> HIDE DEF Bad
    <3>2. QED
      BY <2>1, <3>1, LeastNumber
  <2>3. i # 0
    BY <1>1
  <2>4. i - 1 \in Nat /\ i = (i - 1) + 1 /\ i - 1 \notin Bad
    BY <2>2, <2>3
  <2>5. level[i - 1] \subseteq D /\ level[i] = WithChildren(s, level[i - 1])
        /\ level[i - 1] \subseteq DOMAIN s
    BY <1>1, <2>4
  <2>6. \A m \in level[i] : m \in D
    BY <2>5, WithChildrenGrows DEF Inside
  <2>7. QED
    BY <2>6
<1>4. QED
  BY <1>1, <1>2, <1>3

Levels(s, level) == \A j \in Nat : level[j + 1] = WithChildren(s, level[j])

LEMMA LevelsStayFull ==
  ASSUME NEW s, NEW level, Levels(s, level), NEW i \in Nat, level[i + 1] = level[i]
  PROVE  \A j \in Nat : i <= j => level[j] = level[i]
<1> DEFINE Bad == {j \in Nat : i <= j /\ level[j] # level[i]}
<1>1. SUFFICES ASSUME Bad # {} PROVE FALSE
  OBVIOUS
<1>2. PICK j \in Bad : \A k \in Bad : j <= k
  <2>1. Bad \subseteq Nat
    OBVIOUS
  <2> HIDE DEF Bad
  <2>2. QED
    BY <1>1, <2>1, LeastNumber
<1>3. j \in Nat /\ i < j
  OBVIOUS
<1>4. j - 1 \in Nat /\ (j - 1) + 1 = j /\ i <= j - 1 /\ j - 1 \notin Bad
  BY <1>2, <1>3
<1>5. level[j - 1] = level[i]
  BY <1>4
<1>6. level[(j - 1) + 1] = WithChildren(s, level[j - 1])
  BY <1>4 DEF Levels
<1>7. level[i + 1] = WithChildren(s, level[i])
  BY DEF Levels
<1>8. QED
  BY <1>4, <1>5, <1>6, <1>7

\* No path is longer than there are nodes: no pointer leads out of what is below n.
LEMMA BelowIsInside ==
  ASSUME NEW s, Solid(s), NEW n \in DOMAIN s
  PROVE  Inside(s, Below(s, n))
<1> DEFINE N == Cardinality(DOMAIN s)
<1>1. PICK level \in [Nat -> SUBSET DOMAIN s] :
        /\ level[0] = {n}
        /\ \A i \in Nat : level[i + 1] = WithChildren(s, level[i])
        /\ Below(s, n) = level[N]
  BY BelowHasLevels
<1>2. IsFiniteSet(DOMAIN s)
  BY DEF Solid
<1>3. N \in Nat
  BY <1>2, FS_CardinalityType
<1>4. ASSUME NEW i \in Nat
      PROVE  IsFiniteSet(level[i]) /\ Cardinality(level[i]) \in Nat /\ Cardinality(level[i]) <= N
  <2>1. level[i] \in SUBSET DOMAIN s
    BY <1>1
  <2>2. QED
    BY <1>2, <2>1, FS_Subset, FS_CardinalityType
<1> HIDE DEF N
<1>5. level[N + 1] = level[N]
  <2> SUFFICES ASSUME level[N + 1] # level[N] PROVE FALSE
    OBVIOUS
  <2>1. ASSUME NEW i \in Nat, i <= N
        PROVE  level[i + 1] # level[i]
    <3>1. SUFFICES ASSUME level[i + 1] = level[i] PROVE FALSE
      OBVIOUS
    <3>2. Levels(s, level)
      BY <1>1 DEF Levels
    <3>3. \A j \in Nat : i <= j => level[j] = level[i]
      BY <3>1, <3>2, LevelsStayFull
    <3>4. QED
      BY <1>3, <2>1, <3>3
  <2> DEFINE Bad == {i \in Nat : i <= N /\ Cardinality(level[i]) < i + 1}
  <2>2. Bad = {}
    <3>1. SUFFICES ASSUME Bad # {} PROVE FALSE
      OBVIOUS
    <3>2. PICK i \in Bad : \A j \in Bad : i <= j
      <4>1. Bad \subseteq Nat
        OBVIOUS
      <4> HIDE DEF Bad
      <4>2. QED
        BY <3>1, <4>1, LeastNumber
    <3>3. i # 0
      <4>1. Cardinality({n}) = 1
        BY FS_Singleton
      <4>2. QED
        BY <1>1, <4>1
    <3>4. i - 1 \in Nat /\ (i - 1) + 1 = i /\ i - 1 <= N /\ i - 1 \notin Bad /\ i \in Nat
      BY <1>3, <3>2, <3>3
    <3>5. Cardinality(level[i - 1]) >= i
      BY <1>4, <3>4
    <3>6. level[i - 1] \subseteq level[i] /\ level[i - 1] # level[i]
      <4>1. level[(i - 1) + 1] = WithChildren(s, level[i - 1])
        BY <1>1, <3>4
      <4>2. level[(i - 1) + 1] # level[i - 1]
        BY <2>1, <3>4
      <4>3. QED
        BY <3>4, <4>1, <4>2 DEF WithChildren
    <3>7. /\ Cardinality(level[i - 1]) <= Cardinality(level[i])
          /\ Cardinality(level[i]) = Cardinality(level[i - 1]) => level[i] = level[i - 1]
      BY <1>4, <3>4, <3>6, FS_Subset
    <3>8. Cardinality(level[i]) \in Nat /\ Cardinality(level[i - 1]) \in Nat
      BY <1>4, <3>4
    <3>9. Cardinality(level[i]) < i + 1
      BY <3>2
    <3>10. QED
      BY <3>4, <3>5, <3>6, <3>7, <3>8, <3>9
  <2>3. Cardinality(level[N]) >= N + 1
    BY <1>3, <1>4, <2>2
  <2>4. QED
    BY <1>3, <1>4, <2>3
<1>6. level[N + 1] = WithChildren(s, level[N])
  BY <1>1, <1>3
<1>7. level[N] \subseteq DOMAIN s
  BY <1>1, <1>3
<1>8. QED
  BY <1>1, <1>5, <1>6, <1>7, WithChildrenGrows DEF Inside

\* What is below n, but n itself, is what a node below n points to.
LEMMA BelowHasParents ==
  ASSUME NEW s, Solid(s), NEW n \in DOMAIN s, NEW m \in Below(s, n), m # n
  PROVE  \E c \in Below(s, n) : \E i : PointsTo(s, c, i, m)
<1> DEFINE D == {x \in Below(s, n) : x # n => \E c \in Below(s, n) : \E i : PointsTo(s, c, i, x)}
<1>1. n \in D
  BY BelowHasTop
<1>2. Inside(s, D)
  BY BelowIsInside DEF Inside
<1>3. Below(s, n) \subseteq D
  <2> HIDE DEF D
  <2>1. QED
    BY <1>1, <1>2, BelowIsLeast
<1>4. QED
  BY <1>3

\* A node below n that has another parent has it below n.
LEMMA ParentsAreBelow ==
  ASSUME NEW s, Solid(s), NEW n \in DOMAIN s, NEW m \in Below(s, n), m # n,
         NEW c, NEW i, PointsTo(s, c, i, m)
  PROVE  c \in Below(s, n)
BY BelowHasParents DEF Solid

LEMMA RootsAreNotBelow ==
  ASSUME NEW s, Solid(s), NEW n \in DOMAIN s, NEW r, Root(s, r), r # n
  PROVE  r \notin Below(s, n)
BY BelowHasParents DEF Root

\* No pointer leads from outside into what is below a root.
LEMMA OutsideRootIsInside ==
  ASSUME NEW s, Solid(s), NEW n, Root(s, n)
  PROVE  Inside(s, DOMAIN s \ Below(s, n))
<1> SUFFICES ASSUME NEW c, NEW i, NEW m, PointsTo(s, c, i, m), c \in DOMAIN s \ Below(s, n)
             PROVE  m \in DOMAIN s \ Below(s, n)
  BY DEF Inside
<1>1. n \in DOMAIN s /\ m # n /\ m \in DOMAIN s
  BY DEF Root, Solid
<1>2. QED
  BY <1>1, ParentsAreBelow

LEMMA RootsAreApart ==
  ASSUME NEW s, Solid(s), NEW n, Root(s, n), NEW r, Root(s, r), r # n
  PROVE  Below(s, n) \cap Below(s, r) = {}
<1> DEFINE D == DOMAIN s \ Below(s, r)
<1>1. n \in DOMAIN s /\ r \in DOMAIN s
  BY DEF Root
<1>2. n \in D
  BY <1>1, RootsAreNotBelow
<1>3. Inside(s, D)
  BY OutsideRootIsInside
<1>4. Below(s, n) \subseteq D
  <2> HIDE DEF D
  <2>1. QED
    BY <1>1, <1>2, <1>3, BelowIsLeast
<1>5. QED
  BY <1>4

\* What is below a root has no cycle.
LEMMA NoCycleBelowRoot ==
  ASSUME NEW s, Solid(s), NEW r, Root(s, r), NEW n \in Below(s, r),
         NEW c \in Below(s, n), NEW i
  PROVE  ~ PointsTo(s, c, i, n)
<1> SUFFICES ASSUME PointsTo(s, c, i, n) PROVE FALSE
  OBVIOUS
<1>1. r \in DOMAIN s
  BY DEF Root
<1>2. n \in DOMAIN s /\ n # r
  BY <1>1, BelowHasTop DEF Root
<1> DEFINE D == Below(s, r) \ Below(s, n)
<1>3. r \in D
  BY <1>1, <1>2, BelowHasTop, RootsAreNotBelow
<1>4. Inside(s, D)
  <2> SUFFICES ASSUME NEW x, NEW j, NEW m, PointsTo(s, x, j, m), x \in D PROVE m \in D
    BY DEF Inside
  <2>1. m \in Below(s, r)
    BY <1>1, BelowIsInside DEF Inside
  <2>2. m # n
    BY DEF Solid
  <2>3. m \notin Below(s, n)
    BY <1>2, <2>2, ParentsAreBelow
  <2>4. QED
    BY <2>1, <2>3
<1>5. Below(s, r) \subseteq D
  <2> HIDE DEF D
  <2>1. QED
    BY <1>1, <1>3, <1>4, BelowIsLeast
<1>6. QED
  BY <1>2, <1>5, BelowHasTop
-----------------------------------------------------------------------------
(***************************************************************************)
(* New nodes.                                                              *)
(***************************************************************************)

LEMMA NewNodeIsNew ==
  ASSUME NEW s, IsFiniteSet(DOMAIN s)
  PROVE  NewNode(s) \in Nat \ {NoNode} /\ NewNode(s) \notin DOMAIN s
<1> DEFINE N == Cardinality(DOMAIN s)
<1>1. N \in Nat
  BY FS_CardinalityType
<1>2. \E n \in 1 .. N + 1 : n \notin DOMAIN s
  <2>1. SUFFICES ASSUME 1 .. N + 1 \subseteq DOMAIN s PROVE FALSE
    OBVIOUS
  <2>2. Cardinality(1 .. N + 1) <= N
    <3>1. 1 .. N + 1 \in SUBSET DOMAIN s
      BY <2>1
    <3>2. QED
      BY <3>1, FS_Subset
  <2> HIDE DEF N
  <2>3. Cardinality(1 .. N + 1) = N + 1
    BY <1>1, FS_Interval
  <2>4. QED
    BY <1>1, <2>2, <2>3
<1>3. NewNode(s) \in 1 .. N + 1 /\ NewNode(s) \notin DOMAIN s
  BY <1>2 DEF NewNode
<1>4. QED
  BY <1>1, <1>3 DEF NoNode

LEMMA NewNodesAreNew ==
  ASSUME NEW s, IsFiniteSet(DOMAIN s), NEW D, IsFiniteSet(D)
  PROVE  /\ NewNodes(s, D) \in [D -> Nat \ {NoNode}]
         /\ \A x \in D : NewNodes(s, D)[x] \notin DOMAIN s
         /\ \A x, y \in D : NewNodes(s, D)[x] = NewNodes(s, D)[y] => x = y
<1> DEFINE N == Cardinality(DOMAIN s)
           K == Cardinality(D)
           All == 1 .. N + K
           Free == All \ DOMAIN s
<1>1. N \in Nat /\ K \in Nat
  BY FS_CardinalityType
<1>2. IsFiniteSet(All) /\ Cardinality(All) = N + K
  <2> HIDE DEF N, K
  <2>1. N + K \in Int /\ (1 > N + K => N + K = 0) /\ (N + K) - 1 + 1 = N + K
    BY <1>1
  <2>2. QED
    BY <2>1, FS_Interval
<1> HIDE DEF All
<1>3. /\ IsFiniteSet(Free)
      /\ Cardinality(Free) \in Nat
      /\ Cardinality(Free) >= K
  <2> DEFINE Used == All \cap DOMAIN s
  <2>1. /\ IsFiniteSet(Free) /\ Cardinality(Free) \in Nat
        /\ IsFiniteSet(Used) /\ Cardinality(Used) \in Nat /\ Cardinality(Used) <= N
    <3>1. Free \in SUBSET All /\ Used \in SUBSET DOMAIN s
      OBVIOUS
    <3> HIDE DEF Free, Used
    <3>2. QED
      BY <1>2, <3>1, FS_Subset, FS_CardinalityType
  <2>2. Free \cup Used = All /\ Free \cap Used = {}
    OBVIOUS
  <2> HIDE DEF Free, Used, N, K
  <2>3. Cardinality(Free \cup Used) = Cardinality(Free) + Cardinality(Used) - Cardinality(Free \cap Used)
    BY <2>1, FS_Union
  <2>4. Cardinality(Free \cap Used) = 0
    BY <2>2, FS_EmptySet
  <2>5. Cardinality(All) = Cardinality(Free) + Cardinality(Used) - 0
    BY <2>2, <2>3, <2>4
  <2>6. N + K = Cardinality(Free) + Cardinality(Used)
    BY <1>2, <2>1, <2>5
  <2>7. QED
    BY <1>1, <2>1, <2>6
<1> HIDE DEF Free
<1>4. PICK f : f \in Bijection(1 .. K, D)
  BY FS_CardinalityType DEF ExistsBijection
<1>5. PICK g : g \in Bijection(1 .. Cardinality(Free), Free)
  BY <1>3, FS_CardinalityType DEF ExistsBijection
<1> HIDE DEF N, K
<1>6. \A x \in D : \E i \in 1 .. K : f[i] = x
  BY <1>4 DEF Bijection, Surjection
<1> DEFINE at == [x \in D |-> CHOOSE i \in 1 .. K : f[i] = x]
           place == [x \in D |-> g[at[x]]]
<1>7. \A x \in D : at[x] \in 1 .. K /\ f[at[x]] = x
  BY <1>6
<1> HIDE DEF at
<1>8. \A x \in D : at[x] \in 1 .. Cardinality(Free)
  BY <1>1, <1>3, <1>7
<1>9. \A i, j \in 1 .. Cardinality(Free) : g[i] \in Free /\ (g[i] = g[j] => i = j)
  BY <1>5 DEF Bijection, Injection, IsInjective
<1>10. place \in [D -> Free]
  BY <1>8, <1>9
<1>11. IsInjective(place)
  <2> SUFFICES ASSUME NEW x \in D, NEW y \in D, place[x] = place[y] PROVE x = y
    BY DEF IsInjective
  <2>1. at[x] = at[y]
    BY <1>8, <1>9
  <2>2. QED
    BY <1>7, <2>1
<1> HIDE DEF place
<1>12. NewNodes(s, D) \in [D -> Free] /\ IsInjective(NewNodes(s, D))
  <2>1. Free = (1 .. Cardinality(DOMAIN s) + Cardinality(D)) \ DOMAIN s
    BY DEF Free, All, N, K
  <2>2. QED
    BY <1>10, <1>11, <2>1 DEF NewNodes
<1>13. \A x \in Free : x \in Nat \ {NoNode} /\ x \notin DOMAIN s
  BY <1>1 DEF Free, All, NoNode
<1>14. QED
  BY <1>12, <1>13 DEF IsInjective
-----------------------------------------------------------------------------
(***************************************************************************)
(* What is in a node.                                                      *)
(***************************************************************************)

Typed(s) == \A n \in DOMAIN s : IsContent(s[n])

LEMMA LeavesHaveNoLinks ==
  /\ \A content \in {Null, Scalar} : Links(content) = <<>>
  /\ \A k : Links(String(k)) = <<>>
  /\ Links(Object(<<>>)) = <<>>
  /\ Links(Array(<<>>)) = <<>>
  /\ DOMAIN <<>> = {}
<1>1. Links(Null) = <<>> /\ \A k : Links(String(k)) = <<>>
  BY DEF Links, Null, String
<1>2. Links(Scalar) = <<>>
  BY ScalarAssumption DEF Links
<1>3. Links(Object(<<>>)) = <<>> /\ Links(Array(<<>>)) = <<>>
  BY DEF Links, Object, Array
<1>4. QED
  BY <1>1, <1>2, <1>3

LEMMA LinksOfContainers ==
  /\ \A elements : Links(Array(elements)) = elements
  /\ \A members : Links(Object(members)) = members
BY DEF Links, Array, Object

LEMMA ContentsOfLeaves ==
  /\ IsContent(Null)
  /\ IsContent(Scalar)
  /\ IsContent(Object(<<>>))
  /\ IsContent(Array(<<>>))
<1>1. <<>> \in [DOMAIN <<>> -> Nat]
  OBVIOUS
<1>2. IsContent(Object(<<>>))
  BY <1>1 DEF IsContent, Object
<1>3. IsContent(Array(<<>>))
  BY DEF IsContent, Array
<1>4. QED
  BY <1>2, <1>3 DEF IsContent

LEMMA ContentsOfContainers ==
  /\ \A elements \in Seq(Nat) : IsContent(Array(elements))
  /\ \A members : members \in [DOMAIN members -> Nat] => IsContent(Object(members))
BY DEF IsContent, Array, Object

LEMMA ContentsReplaced ==
  /\ \A members, v : [Object(members) EXCEPT !.members = v] = Object(v)
  /\ \A elements, v : [Array(elements) EXCEPT !.elements = v] = Array(v)
BY DEF Object, Array

LEMMA ContentsAreTyped ==
  ASSUME NEW content, IsContent(content)
  PROVE  /\ content.type = "object" =>
              /\ content = Object(content.members)
              /\ Links(content) = content.members
              /\ content.members \in [DOMAIN content.members -> Nat]
         /\ content.type = "array" =>
              /\ content = Array(content.elements)
              /\ Links(content) = content.elements
              /\ content.elements \in Seq(Nat)
         /\ content.type \notin {"object", "array"} => Links(content) = <<>>
         /\ content.type # "string"
<1>1. Null.type = "null" /\ Scalar.type \notin {"object", "array", "string"}
  BY ScalarAssumption DEF Null
<1>2. CASE content \in {Null, Scalar}
  BY <1>1, <1>2, LeavesHaveNoLinks
<1>3. CASE content \notin {Null, Scalar}
  BY <1>3 DEF IsContent, Links
<1>4. QED
  BY <1>2, <1>3
-----------------------------------------------------------------------------
(***************************************************************************)
(* What the operations on a heap do to its pointers.                       *)
(***************************************************************************)

LEMMA MakeNodeMakes ==
  ASSUME NEW s, Solid(s), NEW content, Links(content) = <<>>
  PROVE  LET t == MakeNode(s, content)
             n == NewNode(s)
         IN  /\ n \notin DOMAIN s
             /\ n # NoNode
             /\ DOMAIN t = DOMAIN s \cup {n}
             /\ \A x \in DOMAIN s : t[x] = s[x]
             /\ t[n] = content
             /\ \A c, i, m : PointsTo(t, c, i, m) <=> PointsTo(s, c, i, m)
             /\ Solid(t)
             /\ \A r : Root(t, r) <=> Root(s, r) \/ r = n
<1> DEFINE t == MakeNode(s, content)
           n == NewNode(s)
<1>1. n \notin DOMAIN s /\ n \in Nat \ {NoNode}
  BY NewNodeIsNew DEF Solid
<1>2. DOMAIN t = DOMAIN s \cup {n} /\ (\A x \in DOMAIN s : t[x] = s[x]) /\ t[n] = content
  BY <1>1 DEF MakeNode, With
<1> HIDE DEF t, n
<1>3. DOMAIN Links(t[n]) = {}
  BY <1>2, LeavesHaveNoLinks
<1>4. \A c, i, m : PointsTo(t, c, i, m) <=> PointsTo(s, c, i, m)
  BY <1>1, <1>2, <1>3 DEF PointsTo
<1>5. IsFiniteSet(DOMAIN t)
  BY <1>2, FS_AddElement DEF Solid
<1>6. Solid(t)
  BY <1>1, <1>2, <1>4, <1>5 DEF Solid
<1>7. \A c, i : ~ PointsTo(t, c, i, n)
  BY <1>1, <1>4 DEF Solid
<1>8. \A r : Root(t, r) <=> Root(s, r) \/ r = n
  BY <1>2, <1>4, <1>7 DEF Root
<1>9. QED
  BY <1>1, <1>2, <1>4, <1>6, <1>8 DEF t, n

LEMMA FreedFrees ==
  ASSUME NEW s, Solid(s), NEW G, Inside(s, DOMAIN s \ G)
  PROVE  LET t == Freed(s, G)
         IN  /\ DOMAIN t = DOMAIN s \ G
             /\ \A x \in DOMAIN t : t[x] = s[x]
             /\ \A c, i, m : PointsTo(t, c, i, m) <=> PointsTo(s, c, i, m) /\ c \notin G
             /\ Solid(t)
             /\ \A r : Root(s, r) /\ r \notin G => Root(t, r)
<1> DEFINE t == Freed(s, G)
<1>1. DOMAIN t = DOMAIN s \ G /\ \A x \in DOMAIN t : t[x] = s[x]
  BY DEF Freed
<1> HIDE DEF t
<1>2. \A c, i, m : PointsTo(t, c, i, m) <=> PointsTo(s, c, i, m) /\ c \notin G
  BY <1>1 DEF PointsTo
<1>3. IsFiniteSet(DOMAIN t)
  <2>1. DOMAIN t \in SUBSET DOMAIN s
    BY <1>1
  <2>2. QED
    BY <2>1, FS_Subset DEF Solid
<1>4. \A c, i, m : PointsTo(t, c, i, m) => m \in DOMAIN t
  <2>1. \A c, i, m : PointsTo(s, c, i, m) => c \in DOMAIN s
    BY DEF PointsTo
  <2>2. QED
    BY <1>1, <1>2, <2>1 DEF Inside
<1>5. Solid(t)
  BY <1>1, <1>2, <1>3, <1>4 DEF Solid
<1>6. \A r : Root(s, r) /\ r \notin G => Root(t, r)
  BY <1>1, <1>2 DEF Root
<1>7. QED
  BY <1>1, <1>2, <1>5, <1>6 DEF t

LEMMA ReplacePoints ==
  ASSUME NEW s, NEW n \in DOMAIN s, NEW content
  PROVE  LET t == [s EXCEPT ![n] = content]
         IN  /\ DOMAIN t = DOMAIN s
             /\ \A x \in DOMAIN s : x # n => t[x] = s[x]
             /\ t[n] = content
             /\ \A c, i, m : PointsTo(t, c, i, m) <=>
                  \/ c # n /\ PointsTo(s, c, i, m)
                  \/ c = n /\ i \in DOMAIN Links(content) /\ m = Links(content)[i]
<1> DEFINE t == [s EXCEPT ![n] = content]
<1>1. /\ DOMAIN t = DOMAIN s
      /\ \A x \in DOMAIN s : x # n => t[x] = s[x]
      /\ t[n] = content
  OBVIOUS
<1> HIDE DEF t
<1>2. \A c, i, m : PointsTo(t, c, i, m) <=>
        \/ c # n /\ PointsTo(s, c, i, m)
        \/ c = n /\ i \in DOMAIN Links(content) /\ m = Links(content)[i]
  BY <1>1 DEF PointsTo
<1>3. QED
  BY <1>1, <1>2 DEF t

\* A root is freed with all that is below it; the other roots are kept.
LEMMA DeleteNodeDeletes ==
  ASSUME NEW s, Solid(s), NEW n, Root(s, n)
  PROVE  LET t == DeleteNode(s, n)
         IN  /\ DOMAIN t = DOMAIN s \ Below(s, n)
             /\ n \notin DOMAIN t
             /\ \A x \in DOMAIN t : t[x] = s[x]
             /\ \A c, i, m : PointsTo(t, c, i, m) <=> PointsTo(s, c, i, m) /\ c \notin Below(s, n)
             /\ Solid(t)
             /\ \A r : Root(s, r) /\ r # n => Root(t, r)
<1>1. n \in DOMAIN s /\ n \in Below(s, n)
  BY BelowHasTop DEF Root
<1>2. Inside(s, DOMAIN s \ Below(s, n))
  BY OutsideRootIsInside
<1>3. DeleteNode(s, n) = Freed(s, Below(s, n))
  BY DEF DeleteNode
<1>4. \A r : Root(s, r) /\ r # n => r \notin Below(s, n)
  BY <1>1, RootsAreNotBelow
<1> DEFINE t == Freed(s, Below(s, n))
<1>5. /\ DOMAIN t = DOMAIN s \ Below(s, n)
      /\ \A x \in DOMAIN t : t[x] = s[x]
      /\ \A c, i, m : PointsTo(t, c, i, m) <=> PointsTo(s, c, i, m) /\ c \notin Below(s, n)
      /\ Solid(t)
      /\ \A r : Root(s, r) /\ r \notin Below(s, n) => Root(t, r)
  BY <1>2, FreedFrees
<1> HIDE DEF t
<1>6. QED
  BY <1>1, <1>3, <1>4, <1>5 DEF t

LEMMA DestroyDestroys ==
  ASSUME NEW s, Solid(s), NEW n, Root(s, n)
  PROVE  LET t == Destroy(s, n)
         IN  /\ DOMAIN t = (DOMAIN s \ Below(s, n)) \cup {n}
             /\ \A x \in DOMAIN t : x # n => t[x] = s[x]
             /\ t[n] = Null
             /\ \A c, i, m : PointsTo(t, c, i, m) <=> PointsTo(s, c, i, m) /\ c \notin Below(s, n)
             /\ Solid(t)
             /\ \A r : Root(s, r) => Root(t, r)
<1> DEFINE u == DeleteNode(s, n)
           t == Destroy(s, n)
<1>1. /\ DOMAIN u = DOMAIN s \ Below(s, n)
      /\ n \notin DOMAIN u
      /\ \A x \in DOMAIN u : u[x] = s[x]
      /\ \A c, i, m : PointsTo(u, c, i, m) <=> PointsTo(s, c, i, m) /\ c \notin Below(s, n)
      /\ Solid(u)
      /\ \A r : Root(s, r) /\ r # n => Root(u, r)
  BY DeleteNodeDeletes
<1>2. n \in DOMAIN s
  BY DEF Root
<1> HIDE DEF u
<1>3. t = [x \in DOMAIN u \cup {n} |-> IF x = n THEN Null ELSE u[x]]
  BY DEF Destroy, With, u
<1> HIDE DEF t
<1>4. DOMAIN t = DOMAIN u \cup {n} /\ (\A x \in DOMAIN u : t[x] = u[x]) /\ t[n] = Null
  BY <1>1, <1>3
<1>5. DOMAIN Links(t[n]) = {}
  BY <1>4, LeavesHaveNoLinks
<1>6. \A c, i, m : PointsTo(t, c, i, m) <=> PointsTo(u, c, i, m)
  BY <1>1, <1>4, <1>5 DEF PointsTo
<1>7. IsFiniteSet(DOMAIN t)
  BY <1>1, <1>4, FS_AddElement, SMTT(60) DEF Solid
<1>8. n \in Nat \ {NoNode}
  BY <1>2 DEF Solid
<1>9. Solid(t)
  BY <1>1, <1>4, <1>6, <1>7, <1>8 DEF Solid
<1>10. \A r : Root(s, r) => Root(t, r)
  BY <1>1, <1>4, <1>6 DEF Root
<1>11. QED
  BY <1>1, <1>4, <1>6, <1>9, <1>10 DEF t

\* A root becomes a child: the node n has a pointer more.
LEMMA LinkLinks ==
  ASSUME NEW s, Solid(s), NEW t, DOMAIN t = DOMAIN s, NEW n \in DOMAIN s,
         NEW m, Root(s, m), NEW k, \A x : ~ PointsTo(s, n, k, x),
         \A c, i, x : PointsTo(t, c, i, x) <=>
           PointsTo(s, c, i, x) \/ (c = n /\ i = k /\ x = m)
  PROVE  Solid(t) /\ \A r : Root(s, r) /\ r # m => Root(t, r)
<1>1. m \in DOMAIN s /\ \A c, i : ~ PointsTo(s, c, i, m)
  BY DEF Root
<1>2. \A c, d, i, j, x : PointsTo(t, c, i, x) /\ PointsTo(t, d, j, x) => c = d /\ i = j
  BY <1>1 DEF Solid
<1>3. \A c, i, x : PointsTo(t, c, i, x) => x \in DOMAIN t
  BY <1>1 DEF Solid
<1>4. Solid(t)
  BY <1>2, <1>3 DEF Solid
<1>5. \A r : Root(s, r) /\ r # m => Root(t, r)
  BY DEF Root
<1>6. QED
  BY <1>4, <1>5

\* All that s has is as it was in t, but that a node may have a pointer more.
Extends(s, t) ==
  /\ DOMAIN t = DOMAIN s
  /\ \A x \in DOMAIN s : t[x].type = s[x].type
  /\ \A c, i, m : PointsTo(s, c, i, m) => PointsTo(t, c, i, m)

LEMMA AddToAdds ==
  ASSUME NEW s, Solid(s), Typed(s), NEW n \in DOMAIN s, s[n].type = "object",
         NEW m, Root(s, m), NEW k
  PROVE  LET t == AddTo(s, n, k, m)
         IN  /\ Solid(t) /\ Typed(t) /\ Extends(s, t)
             /\ \A r : Root(s, r) /\ r # m => Root(t, r)
<1>1. CASE k \in DOMAIN s[n].members
  BY <1>1 DEF AddTo, Extends
<1>2. CASE k \notin DOMAIN s[n].members
  <2> DEFINE more == With(s[n].members, k, m)
             t == [s EXCEPT ![n] = Object(more)]
  <2>1. /\ s[n] = Object(s[n].members)
        /\ Links(s[n]) = s[n].members
        /\ s[n].members \in [DOMAIN s[n].members -> Nat]
    BY ContentsAreTyped DEF Typed
  <2>2. AddTo(s, n, k, m) = t
    <3>1. AddTo(s, n, k, m) = [s EXCEPT ![n] = [s[n] EXCEPT !.members = more]]
      BY <1>2 DEF AddTo
    <3>2. [s[n] EXCEPT !.members = more] = Object(more)
      <4> DEFINE old == s[n].members
      <4>1. s[n] = Object(old)
        BY <2>1
      <4> HIDE DEF more, old
      <4>2. [Object(old) EXCEPT !.members = more] = Object(more)
        BY ContentsReplaced
      <4>3. QED
        BY <4>1, <4>2
    <3>3. QED
      BY <3>1, <3>2
  <2>3. m \in Nat
    BY DEF Root, Solid
  <2>4. /\ DOMAIN more = DOMAIN s[n].members \cup {k}
        /\ \A x \in DOMAIN s[n].members : more[x] = s[n].members[x]
        /\ more[k] = m
        /\ more \in [DOMAIN more -> Nat]
    BY <1>2, <2>1, <2>3 DEF With
  <2> HIDE DEF more
  <2>5. Links(Object(more)) = more /\ IsContent(Object(more)) /\ Object(more).type = "object"
    BY <2>4, LinksOfContainers, ContentsOfContainers DEF Object
  <2>6. /\ DOMAIN t = DOMAIN s
        /\ \A x \in DOMAIN s : x # n => t[x] = s[x]
        /\ t[n] = Object(more)
        /\ \A c, i, x : PointsTo(t, c, i, x) <=>
             \/ c # n /\ PointsTo(s, c, i, x)
             \/ c = n /\ i \in DOMAIN Links(Object(more)) /\ x = Links(Object(more))[i]
    BY ReplacePoints
  <2> HIDE DEF t
  <2>7. \A i, x : PointsTo(s, n, i, x) <=> i \in DOMAIN s[n].members /\ x = s[n].members[i]
    BY <2>1 DEF PointsTo
  <2>8. \A c, i, x : PointsTo(t, c, i, x) <=>
          PointsTo(s, c, i, x) \/ (c = n /\ i = k /\ x = m)
    BY <2>4, <2>5, <2>6, <2>7
  <2>9. \A x : ~ PointsTo(s, n, k, x)
    BY <1>2, <2>7
  <2>10. Solid(t) /\ \A r : Root(s, r) /\ r # m => Root(t, r)
    BY <2>6, <2>8, <2>9, LinkLinks
  <2>11. Typed(t) /\ Extends(s, t)
    BY <2>5, <2>6, <2>8 DEF Typed, Extends
  <2>12. QED
    BY <2>2, <2>10, <2>11
<1>3. QED
  BY <1>1, <1>2

LEMMA PushToPushes ==
  ASSUME NEW s, Solid(s), Typed(s), NEW n \in DOMAIN s, NEW m, Root(s, m)
  PROVE  LET t == PushTo(s, n, m)
         IN  /\ Solid(t) /\ Typed(t) /\ Extends(s, t)
             /\ \A r : Root(s, r) /\ r # m => Root(t, r)
<1>1. CASE s[n].type # "array"
  BY <1>1 DEF PushTo, Extends
<1>2. CASE s[n].type = "array"
  <2> DEFINE old == s[n].elements
             more == Append(old, m)
             t == [s EXCEPT ![n] = Array(more)]
             k == Len(old) + 1
  <2>1. s[n] = Array(old) /\ Links(s[n]) = old /\ old \in Seq(Nat)
    BY <1>2, ContentsAreTyped DEF Typed
  <2>2. PushTo(s, n, m) = t
    <3>1. PushTo(s, n, m) = [s EXCEPT ![n] = [s[n] EXCEPT !.elements = more]]
      BY <1>2 DEF PushTo
    <3>2. [s[n] EXCEPT !.elements = more] = Array(more)
      <4> HIDE DEF more
      <4>1. s[n] = Array(old)
        BY <2>1
      <4>2. [Array(old) EXCEPT !.elements = more] = Array(more)
        BY ContentsReplaced
      <4>3. QED
        BY <4>1, <4>2
    <3>3. QED
      BY <3>1, <3>2
  <2>3. m \in Nat
    BY DEF Root, Solid
  <2> HIDE DEF old
  <2>4. /\ DOMAIN more = DOMAIN old \cup {k}
        /\ \A x \in DOMAIN old : more[x] = old[x]
        /\ more[k] = m
        /\ more \in Seq(Nat)
        /\ k \notin DOMAIN old
    BY <2>1, <2>3
  <2> HIDE DEF more, k
  <2>5. Links(Array(more)) = more /\ IsContent(Array(more)) /\ Array(more).type = "array"
    BY <2>4, LinksOfContainers, ContentsOfContainers DEF Array
  <2>6. /\ DOMAIN t = DOMAIN s
        /\ \A x \in DOMAIN s : x # n => t[x] = s[x]
        /\ t[n] = Array(more)
        /\ \A c, i, x : PointsTo(t, c, i, x) <=>
             \/ c # n /\ PointsTo(s, c, i, x)
             \/ c = n /\ i \in DOMAIN Links(Array(more)) /\ x = Links(Array(more))[i]
    BY ReplacePoints
  <2> HIDE DEF t
  <2>7. \A i, x : PointsTo(s, n, i, x) <=> i \in DOMAIN old /\ x = old[i]
    BY <2>1 DEF PointsTo
  <2>8. \A c, i, x : PointsTo(t, c, i, x) <=>
          PointsTo(s, c, i, x) \/ (c = n /\ i = k /\ x = m)
    BY <2>4, <2>5, <2>6, <2>7
  <2>9. \A x : ~ PointsTo(s, n, k, x)
    BY <2>4, <2>7
  <2>10. Solid(t) /\ \A r : Root(s, r) /\ r # m => Root(t, r)
    BY <2>6, <2>8, <2>9, LinkLinks
  <2>11. Typed(t) /\ Extends(s, t)
    BY <1>2, <2>5, <2>6, <2>8 DEF Typed, Extends
  <2>12. QED
    BY <2>2, <2>10, <2>11
<1>3. QED
  BY <1>1, <1>2

\* The pointers in content are those in old, but the one at k.
Loses(content, old, k) ==
  /\ \A i \in DOMAIN Links(content) :
       \E j \in DOMAIN Links(old) : j # k /\ Links(content)[i] = Links(old)[j]
  /\ \A i, j \in DOMAIN Links(content) : Links(content)[i] = Links(content)[j] => i = j

ChildDeleted(s, n, x, content) == [DeleteNode(s, x) EXCEPT ![n] = content]

\* A child of a root is freed with all that is below it, and the pointer to it is gone.
LEMMA DeleteChildDeletes ==
  ASSUME NEW s, Solid(s), Typed(s), NEW n, Root(s, n), NEW k, NEW x, PointsTo(s, n, k, x),
         NEW content, IsContent(content), Loses(content, s[n], k)
  PROVE  /\ Solid(ChildDeleted(s, n, x, content))
         /\ Typed(ChildDeleted(s, n, x, content))
         /\ DeleteNode(s, x)[n] = s[n]
         /\ \A r : Root(s, r) => Root(ChildDeleted(s, n, x, content), r)
<1> DEFINE G == Below(s, x)
           u == DeleteNode(s, x)
           t == [u EXCEPT ![n] = content]
<1>1. n \in DOMAIN s /\ x \in DOMAIN s /\ x # n
  BY DEF Root, Solid
<1>2. x \in G /\ G \subseteq DOMAIN s
  BY <1>1, BelowHasTop
<1>3. \A r : Root(s, r) => r \notin G
  BY <1>1, RootsAreNotBelow DEF Root
<1>4. \A c, i, m : PointsTo(s, c, i, m) /\ c \notin G /\ m \in G => c = n /\ i = k
  <2> SUFFICES ASSUME NEW c, NEW i, NEW m, PointsTo(s, c, i, m), c \notin G, m \in G
               PROVE  c = n /\ i = k
    OBVIOUS
  <2>1. m = x
    BY <1>1, ParentsAreBelow
  <2>2. QED
    BY <2>1 DEF Solid
<1>5. DOMAIN u = DOMAIN s \ G /\ \A y \in DOMAIN u : u[y] = s[y]
  BY DEF DeleteNode, Freed
<1> HIDE DEF u, G
<1>6. n \in DOMAIN u /\ u[n] = s[n]
  BY <1>1, <1>3, <1>5
<1>7. /\ DOMAIN t = DOMAIN u
      /\ \A y \in DOMAIN u : y # n => t[y] = u[y]
      /\ t[n] = content
      /\ \A c, i, m : PointsTo(t, c, i, m) <=>
           \/ c # n /\ PointsTo(u, c, i, m)
           \/ c = n /\ i \in DOMAIN Links(content) /\ m = Links(content)[i]
  BY <1>6, ReplacePoints
<1> HIDE DEF t
<1>8. \A c, i, m : PointsTo(u, c, i, m) <=> PointsTo(s, c, i, m) /\ c \notin G
  BY <1>5 DEF PointsTo
<1>9. \A i, m : PointsTo(t, n, i, m) => \E j : j # k /\ PointsTo(s, n, j, m)
  BY <1>1, <1>7 DEF PointsTo, Loses
<1>10. \A c, i, m : PointsTo(t, c, i, m) =>
         \E j : PointsTo(s, c, j, m) /\ c \notin G /\ ~ (c = n /\ j = k)
  BY <1>3, <1>6, <1>7, <1>8, <1>9
<1>11. \A c, i, m : PointsTo(t, c, i, m) => m \in DOMAIN t
  BY <1>4, <1>5, <1>7, <1>10 DEF Solid
<1>12. ASSUME NEW c, NEW d, NEW i, NEW j, NEW m, PointsTo(t, c, i, m), PointsTo(t, d, j, m)
       PROVE  c = d /\ i = j
  <2>1. c = d
    BY <1>10, <1>12 DEF Solid
  <2>2. CASE c = n
    BY <1>7, <1>12, <2>1, <2>2 DEF Loses
  <2>3. CASE c # n
    BY <1>7, <1>8, <1>12, <2>1, <2>3 DEF Solid
  <2>4. QED
    BY <2>1, <2>2, <2>3
<1>13. IsFiniteSet(DOMAIN t)
  <2>1. DOMAIN t \in SUBSET DOMAIN s
    BY <1>5, <1>7
  <2>2. QED
    BY <2>1, FS_Subset DEF Solid
<1>14. Solid(t)
  BY <1>5, <1>7, <1>11, <1>12, <1>13 DEF Solid
<1>15. \A r : Root(s, r) => Root(t, r)
  BY <1>3, <1>5, <1>7, <1>10 DEF Root
<1>16. t = ChildDeleted(s, n, x, content)
  BY DEF t, u, ChildDeleted
<1>17. Typed(t)
  BY <1>5, <1>7 DEF Typed
<1>18. QED
  BY <1>6, <1>14, <1>15, <1>16, <1>17 DEF u

\* A node without pointers takes the place of another; what that had is nobody's.
LEMMA ClearNodeClears ==
  ASSUME NEW s, Solid(s), Typed(s), NEW n \in DOMAIN s,
         NEW content, Links(content) = <<>>, IsContent(content)
  PROVE  LET t == [s EXCEPT ![n] = content]
         IN  /\ Solid(t) /\ Typed(t)
             /\ \A r : Root(s, r) => Root(t, r)
<1> DEFINE t == [s EXCEPT ![n] = content]
<1>1. DOMAIN Links(content) = {}
  BY LeavesHaveNoLinks
<1>2. /\ DOMAIN t = DOMAIN s
      /\ \A x \in DOMAIN s : x # n => t[x] = s[x]
      /\ t[n] = content
      /\ \A c, i, m : PointsTo(t, c, i, m) <=>
           \/ c # n /\ PointsTo(s, c, i, m)
           \/ c = n /\ i \in DOMAIN Links(content) /\ m = Links(content)[i]
  BY ReplacePoints
<1> HIDE DEF t
<1>3. \A c, i, m : PointsTo(t, c, i, m) => PointsTo(s, c, i, m)
  BY <1>1, <1>2
<1>4. Solid(t)
  BY <1>2, <1>3 DEF Solid
<1>5. Typed(t)
  BY <1>2 DEF Typed
<1>6. \A r : Root(s, r) => Root(t, r)
  BY <1>2, <1>3 DEF Root
<1>7. QED
  BY <1>4, <1>5, <1>6 DEF t
-----------------------------------------------------------------------------
(***************************************************************************)
(* The nodes of the clients.                                               *)
(***************************************************************************)

\* The heap s, in which the handles own the nodes q, as between two calls.
Owns(s, q) ==
  /\ Solid(s)
  /\ Typed(s)
  /\ q \in [Handles -> Nat]
  /\ \A h \in Handles : q[h] # NoNode => Root(s, q[h])
  /\ \A h, g \in Handles : q[h] # NoNode /\ q[g] = q[h] => g = h

LEMMA OwnersStay ==
  ASSUME NEW s, NEW q, Owns(s, q), NEW t, Solid(t), Typed(t),
         \A g \in Handles : q[g] # NoNode => Root(t, q[g])
  PROVE  Owns(t, q)
BY DEF Owns

LEMMA OwnersChange ==
  ASSUME NEW s, NEW q, Owns(s, q), NEW t, Solid(t), Typed(t), NEW h \in Handles, NEW x,
         x = NoNode \/ (Root(t, x) /\ \A g \in Handles : g # h => q[g] # x),
         \A g \in Handles : g # h /\ q[g] # NoNode => Root(t, q[g])
  PROVE  Owns(t, [q EXCEPT ![h] = x])
<1> DEFINE p == [q EXCEPT ![h] = x]
<1>1. x \in Nat
  BY DEF Root, Solid, NoNode
<1>2. q \in [Handles -> Nat]
  BY DEF Owns
<1>3. p \in [Handles -> Nat] /\ p[h] = x /\ \A g \in Handles : g # h => p[g] = q[g]
  BY <1>1, <1>2
<1> HIDE DEF p
<1>4. \A g \in Handles : p[g] # NoNode => Root(t, p[g])
  BY <1>3
<1>5. ASSUME NEW g \in Handles, NEW f \in Handles, p[g] # NoNode, p[f] = p[g]
      PROVE  f = g
  <2>1. CASE f = h \/ g = h
    BY <1>3, <1>5, <2>1
  <2>2. CASE f # h /\ g # h
    BY <1>3, <1>5, <2>2 DEF Owns
  <2>3. QED
    BY <2>1, <2>2
<1>6. Owns(t, p)
  BY <1>3, <1>4, <1>5 DEF Owns
<1>7. QED
  BY <1>6 DEF p

\* h gets a new node, and the roots of the others are still roots.
LEMMA OwnersRenew ==
  ASSUME NEW s, NEW q, Owns(s, q), NEW t, Solid(t), Typed(t), NEW h \in Handles,
         \A g \in Handles : g # h /\ q[g] # NoNode => Root(t, q[g])
  PROVE  Owns(MakeNode(t, Null), [q EXCEPT ![h] = NewNode(t)])
<1> DEFINE u == MakeNode(t, Null)
           n == NewNode(t)
<1>1. /\ n \notin DOMAIN t
      /\ n # NoNode
      /\ DOMAIN u = DOMAIN t \cup {n}
      /\ \A x \in DOMAIN t : u[x] = t[x]
      /\ u[n] = Null
      /\ Solid(u)
      /\ \A r : Root(u, r) <=> Root(t, r) \/ r = n
  <2>1. Links(Null) = <<>>
    BY LeavesHaveNoLinks
  <2>2. QED
    BY <2>1, MakeNodeMakes, ZenonT(60)
<1> HIDE DEF u, n
<1>2. Typed(u)
  BY <1>1, ContentsOfLeaves DEF Typed
<1>3. \A g \in Handles : g # h => q[g] # n
  BY <1>1 DEF Root
<1>4. Owns(u, [q EXCEPT ![h] = n])
  BY <1>1, <1>2, <1>3, OwnersChange
<1>5. QED
  BY <1>4 DEF u, n

LEMMA OwnsIsEnough ==
  ASSUME Owns(heap, priv)
  PROVE  TypeOK /\ OneOwner
<1>1. TypeOK
  BY DEF Owns, Solid, Typed, TypeOK, Alive
<1>2. \A c \in Alive : \A m : m \in Children(heap[c]) <=> \E i : PointsTo(heap, c, i, m)
  BY ChildrenAreLinked DEF Alive
<1>3. Solid(heap)
  BY DEF Owns
<1>4. \A c \in Alive : Children(heap[c]) \subseteq Alive
  BY <1>2, <1>3 DEF Solid, Alive
<1>5. ASSUME NEW c \in Alive, NEW d \in Alive,
             NEW i \in DOMAIN Links(heap[c]), NEW j \in DOMAIN Links(heap[d]),
             Links(heap[c])[i] = Links(heap[d])[j]
      PROVE  c = d /\ i = j
  <2>1. PointsTo(heap, c, i, Links(heap[c])[i]) /\ PointsTo(heap, d, j, Links(heap[c])[i])
    BY <1>5 DEF PointsTo, Alive
  <2>2. QED
    BY <1>3, <2>1 DEF Solid
<1>6. ASSUME NEW h \in Handles, Live(h)
      PROVE  /\ priv[h] \in Alive
             /\ \A c \in Alive : priv[h] \notin Children(heap[c])
             /\ \A g \in Handles : priv[g] = priv[h] => g = h
  <2>1. Root(heap, priv[h])
    BY <1>6 DEF Owns, Live
  <2>2. QED
    BY <1>2, <1>6, <2>1 DEF Owns, Root, Alive, Live
<1>7. QED
  BY <1>1, <1>4, <1>5, <1>6 DEF OneOwner

LEMMA LiveIsRoot ==
  ASSUME Owns(heap, priv), NEW h \in Handles, Live(h)
  PROVE  /\ Root(heap, priv[h])
         /\ priv[h] \in DOMAIN heap
         /\ \A g \in Handles : g # h => priv[g] # priv[h]
         /\ \A g \in Handles : priv[g] # NoNode => Root(heap, priv[g])
         /\ Solid(heap)
         /\ Typed(heap)
BY DEF Owns, Live, Root
-----------------------------------------------------------------------------
(***************************************************************************)
(* Adding to documents.                                                    *)
(***************************************************************************)

LEMMA NewOwns ==
  ASSUME Owns(heap, priv), NEW h \in Handles, New(h)
  PROVE  Owns(heap', priv')
<1>1. \A g \in Handles : g # h /\ priv[g] # NoNode => Root(heap, priv[g])
  BY DEF Owns
<1>2. Solid(heap) /\ Typed(heap)
  BY DEF Owns
<1>3. QED
  BY <1>1, <1>2, OwnersRenew DEF New

LEMMA AddScalarMemberOwns ==
  ASSUME Owns(heap, priv), NEW h \in Handles, NEW k, AddScalarMember(h, k)
  PROVE  Owns(heap', priv')
<1> DEFINE s == MakeNode(heap, Scalar)
           m == NewNode(heap)
           n == priv[h]
<1>1. /\ Root(heap, n) /\ n \in DOMAIN heap /\ Solid(heap) /\ Typed(heap)
      /\ heap[n].type = "object"
      /\ \A g \in Handles : priv[g] # NoNode => Root(heap, priv[g])
  BY LiveIsRoot DEF AddScalarMember, IsObject
<1>2. /\ m \notin DOMAIN heap
      /\ DOMAIN s = DOMAIN heap \cup {m}
      /\ \A x \in DOMAIN heap : s[x] = heap[x]
      /\ s[m] = Scalar
      /\ Solid(s)
      /\ \A r : Root(s, r) <=> Root(heap, r) \/ r = m
  <2>1. Links(Scalar) = <<>> /\ Solid(heap)
    BY <1>1, LeavesHaveNoLinks
  <2>2. QED
    BY <2>1, MakeNodeMakes
<1>3. heap' = AddTo(s, n, k, m) /\ priv' = priv
  BY DEF AddScalarMember
<1> HIDE DEF s, m, n
<1>4. Typed(s)
  BY <1>1, <1>2, ContentsOfLeaves DEF Typed
<1>5. /\ Solid(AddTo(s, n, k, m)) /\ Typed(AddTo(s, n, k, m))
      /\ \A r : Root(s, r) /\ r # m => Root(AddTo(s, n, k, m), r)
  BY <1>1, <1>2, <1>4, AddToAdds
<1>6. \A g \in Handles : priv[g] # NoNode => Root(AddTo(s, n, k, m), priv[g])
  BY <1>1, <1>2, <1>5 DEF Root
<1>7. QED
  BY <1>3, <1>5, <1>6, OwnersStay

LEMMA AddMemberOwns ==
  ASSUME Owns(heap, priv), NEW h \in Handles, NEW g \in Handles, NEW k, AddMember(h, k, g)
  PROVE  Owns(heap', priv')
<1> DEFINE added == AddTo(heap, priv[h], k, priv[g])
<1>1. /\ Root(heap, priv[g]) /\ priv[h] \in DOMAIN heap /\ Solid(heap) /\ Typed(heap)
      /\ heap[priv[h]].type = "object"
      /\ \A f \in Handles : f # g => priv[f] # priv[g]
      /\ \A f \in Handles : priv[f] # NoNode => Root(heap, priv[f])
  BY LiveIsRoot DEF AddMember, IsObject
<1>2. /\ Solid(added) /\ Typed(added)
      /\ \A r : Root(heap, r) /\ r # priv[g] => Root(added, r)
  BY <1>1, AddToAdds
<1>3. heap' = MakeNode(added, Null) /\ priv' = [priv EXCEPT ![g] = NewNode(added)]
  BY DEF AddMember
<1> HIDE DEF added
<1>4. QED
  BY <1>1, <1>2, <1>3, OwnersRenew

LEMMA AppendNodeOwns ==
  ASSUME Owns(heap, priv), NEW h \in Handles, NEW g \in Handles, AppendNode(h, g)
  PROVE  Owns(heap', priv')
<1> DEFINE added == PushTo(heap, priv[h], priv[g])
<1>1. /\ Root(heap, priv[g]) /\ priv[h] \in DOMAIN heap /\ Solid(heap) /\ Typed(heap)
      /\ \A f \in Handles : f # g => priv[f] # priv[g]
      /\ \A f \in Handles : priv[f] # NoNode => Root(heap, priv[f])
  BY LiveIsRoot DEF AppendNode
<1>2. /\ Solid(added) /\ Typed(added)
      /\ \A r : Root(heap, r) /\ r # priv[g] => Root(added, r)
  BY <1>1, PushToPushes
<1>3. heap' = MakeNode(added, Null) /\ priv' = [priv EXCEPT ![g] = NewNode(added)]
  BY DEF AppendNode
<1> HIDE DEF added
<1>4. QED
  BY <1>1, <1>2, <1>3, OwnersRenew
-----------------------------------------------------------------------------
(***************************************************************************)
(* Replacing what is in documents.                                         *)
(***************************************************************************)

LEMMA DestroyTyped ==
  ASSUME NEW s, Solid(s), Typed(s), NEW n, Root(s, n)
  PROVE  Typed(Destroy(s, n))
<1> DEFINE t == Destroy(s, n)
<1>1. /\ DOMAIN t = (DOMAIN s \ Below(s, n)) \cup {n}
      /\ \A x \in DOMAIN t : x # n => t[x] = s[x]
      /\ t[n] = Null
  BY DestroyDestroys
<1> HIDE DEF t
<1>2. Typed(t)
  BY <1>1, ContentsOfLeaves DEF Typed
<1>3. QED
  BY <1>2 DEF t

LEMMA FreeFrees ==
  ASSUME NEW s, Solid(s), Typed(s), NEW n, Root(s, n)
  PROVE  LET t == DeleteNode(Destroy(s, n), n)
         IN  Solid(t) /\ Typed(t) /\ \A r : Root(s, r) /\ r # n => Root(t, r)
<1> DEFINE u == Destroy(s, n)
           t == DeleteNode(u, n)
<1>1. Solid(u) /\ Typed(u) /\ \A r : Root(s, r) => Root(u, r)
  BY DestroyDestroys, DestroyTyped
<1> HIDE DEF u
<1>2. /\ DOMAIN t = DOMAIN u \ Below(u, n)
      /\ \A x \in DOMAIN t : t[x] = u[x]
      /\ Solid(t)
      /\ \A r : Root(u, r) /\ r # n => Root(t, r)
  BY <1>1, DeleteNodeDeletes
<1> HIDE DEF t
<1>3. Typed(t)
  BY <1>1, <1>2 DEF Typed
<1>4. QED
  BY <1>1, <1>2, <1>3 DEF t, u

LEMMA FinalizeOwns ==
  ASSUME Owns(heap, priv), NEW h \in Handles, Finalize(h)
  PROVE  Owns(heap', priv')
<1> DEFINE t == DeleteNode(Destroy(heap, priv[h]), priv[h])
<1>1. /\ Root(heap, priv[h]) /\ Solid(heap) /\ Typed(heap)
      /\ \A g \in Handles : g # h => priv[g] # priv[h]
      /\ \A g \in Handles : priv[g] # NoNode => Root(heap, priv[g])
  BY LiveIsRoot DEF Finalize
<1>2. Solid(t) /\ Typed(t) /\ \A r : Root(heap, r) /\ r # priv[h] => Root(t, r)
  BY <1>1, FreeFrees
<1>3. heap' = t /\ priv' = [priv EXCEPT ![h] = NoNode]
  BY DEF Finalize
<1> HIDE DEF t
<1>4. QED
  BY <1>1, <1>2, <1>3, OwnersChange

LEMMA SetOwns ==
  ASSUME Owns(heap, priv), NEW h \in Handles,
         NEW content \in {Scalar, Object(<<>>), Array(<<>>)}, Set(h, content)
  PROVE  Owns(heap', priv')
<1> DEFINE s == Destroy(heap, priv[h])
           t == [s EXCEPT ![priv[h]] = content]
<1>1. /\ Root(heap, priv[h]) /\ Solid(heap) /\ Typed(heap)
      /\ \A g \in Handles : priv[g] # NoNode => Root(heap, priv[g])
  BY LiveIsRoot DEF Set
<1>2. Solid(s) /\ Typed(s) /\ \A r : Root(heap, r) => Root(s, r)
  BY <1>1, DestroyDestroys, DestroyTyped
<1>3. Links(content) = <<>> /\ IsContent(content)
  BY LeavesHaveNoLinks, ContentsOfLeaves
<1>4. heap' = t /\ priv' = priv
  BY DEF Set, SetContent
<1> HIDE DEF s
<1>5. priv[h] \in DOMAIN s
  BY <1>1, <1>2 DEF Root
<1>6. Solid(t) /\ Typed(t) /\ \A r : Root(s, r) => Root(t, r)
  BY <1>2, <1>3, <1>5, ClearNodeClears
<1> HIDE DEF t
<1>7. QED
  BY <1>1, <1>2, <1>4, <1>6, OwnersStay

LEMMA SetNullOwns ==
  ASSUME Owns(heap, priv), NEW h \in Handles, SetNull(h)
  PROVE  Owns(heap', priv')
<1> DEFINE t == [heap EXCEPT ![priv[h]] = Null]
<1>1. /\ priv[h] \in DOMAIN heap /\ Solid(heap) /\ Typed(heap)
      /\ \A g \in Handles : priv[g] # NoNode => Root(heap, priv[g])
  BY LiveIsRoot DEF SetNull
<1>2. Links(Null) = <<>> /\ IsContent(Null)
  BY LeavesHaveNoLinks, ContentsOfLeaves
<1>3. heap' = t /\ priv' = priv
  BY DEF SetNull
<1>4. Solid(t) /\ Typed(t) /\ \A r : Root(heap, r) => Root(t, r)
  BY <1>1, <1>2, ClearNodeClears
<1> HIDE DEF t
<1>5. QED
  BY <1>1, <1>3, <1>4, OwnersStay

LEMMA RemoveMemberOwns ==
  ASSUME Owns(heap, priv), NEW h \in Handles, NEW k, RemoveMember(h, k)
  PROVE  Owns(heap', priv')
<1> DEFINE n == priv[h]
           members == heap[n].members
           x == members[k]
           less == Without(members, k)
           u == DeleteNode(heap, x)
<1>1. /\ n \in DOMAIN heap /\ Solid(heap) /\ Typed(heap) /\ Root(heap, n)
      /\ \A g \in Handles : priv[g] # NoNode => Root(heap, priv[g])
      /\ heap[n].type = "object" /\ Live(h) /\ k \in DOMAIN members
  BY LiveIsRoot DEF RemoveMember, IsObject
<1>2. /\ heap[n] = Object(members)
      /\ Links(heap[n]) = members
      /\ members \in [DOMAIN members -> Nat]
  BY <1>1, ContentsAreTyped DEF Typed
<1>3. heap' = [u EXCEPT ![n] = [u[n] EXCEPT !.members = Without(u[n].members, k)]] /\ priv' = priv
  BY DEF RemoveMember, RemoveFrom
<1> HIDE DEF u
<1>4. PointsTo(heap, n, k, x)
  BY <1>1, <1>2 DEF PointsTo
<1>5. /\ DOMAIN less = DOMAIN members \ {k}
      /\ \A j \in DOMAIN less : less[j] = members[j]
      /\ less \in [DOMAIN less -> Nat]
  BY <1>2 DEF Without
<1> HIDE DEF less
<1>6. Links(Object(less)) = less /\ IsContent(Object(less))
  BY <1>5, LinksOfContainers, ContentsOfContainers
<1>7. \A i, j \in DOMAIN less : less[i] = less[j] => i = j
  <2> SUFFICES ASSUME NEW i \in DOMAIN less, NEW j \in DOMAIN less, less[i] = less[j]
               PROVE  i = j
    OBVIOUS
  <2>1. PointsTo(heap, n, i, less[i]) /\ PointsTo(heap, n, j, less[i])
    BY <1>1, <1>2, <1>5 DEF PointsTo
  <2>2. QED
    BY <1>1, <2>1 DEF Solid
<1>8. \A i \in DOMAIN less : \E j \in DOMAIN members : j # k /\ less[i] = members[j]
  BY <1>5
<1>9. Owns(ChildDeleted(heap, n, x, Object(less)), priv) /\ u[n] = heap[n]
  <2> HIDE DEF x, members
  <2>1. Loses(Object(less), heap[priv[h]], k)
    BY <1>2, <1>6, <1>7, <1>8 DEF Loses
  <2>2. PICK s, m, c : s = heap /\ m = n /\ c = Object(less)
    OBVIOUS
  <2>3. Root(s, m) /\ Solid(s) /\ Typed(s) /\ PointsTo(s, m, k, x)
    BY <1>1, <1>4, <2>2
  <2>4. IsContent(c) /\ Loses(c, s[m], k)
    BY <1>6, <2>1, <2>2
  <2> HIDE DEF n
  <2>5. /\ Solid(ChildDeleted(s, m, x, c)) /\ Typed(ChildDeleted(s, m, x, c))
        /\ DeleteNode(s, x)[m] = s[m]
        /\ \A r : Root(s, r) => Root(ChildDeleted(s, m, x, c), r)
    BY <2>3, <2>4, DeleteChildDeletes
  <2>6. Owns(ChildDeleted(s, m, x, c), priv)
    BY <1>1, <2>2, <2>5, OwnersStay
  <2>7. QED
    BY <2>2, <2>5, <2>6 DEF u
<1>10. [u[n] EXCEPT !.members = Without(u[n].members, k)] = Object(less)
  <2> HIDE DEF x, members
  <2>1. u[n] = Object(members) /\ Object(members).members = members
    BY <1>2, <1>9 DEF Object
  <2>2. [Object(members) EXCEPT !.members = less] = Object(less)
    BY ContentsReplaced
  <2>3. QED
    BY <2>1, <2>2 DEF less
<1>11. QED
  BY <1>3, <1>9, <1>10 DEF ChildDeleted, u

LEMMA RemoveAtRemoves ==
  ASSUME NEW e \in Seq(Nat), NEW k \in 1 .. Len(e)
  PROVE  /\ RemoveAt(e, k) \in Seq(Nat)
         /\ \A i \in DOMAIN RemoveAt(e, k) :
              /\ i < k => i \in DOMAIN e /\ RemoveAt(e, k)[i] = e[i]
              /\ i >= k => i + 1 \in DOMAIN e /\ RemoveAt(e, k)[i] = e[i + 1]
              /\ i \in Nat
<1> DEFINE a == SubSeq(e, 1, k - 1)
           b == SubSeq(e, k + 1, Len(e))
<1>1. a \in Seq(Nat) /\ Len(a) = k - 1 /\ \A i \in 1 .. k - 1 : a[i] = e[i]
  OBVIOUS
<1>2. b \in Seq(Nat) /\ Len(b) = Len(e) - k /\ \A i \in 1 .. Len(e) - k : b[i] = e[k + i]
  OBVIOUS
<1> HIDE DEF a, b
<1>3. RemoveAt(e, k) = a \o b
  BY DEF RemoveAt, a, b
<1>4. /\ a \o b \in Seq(Nat)
      /\ Len(a \o b) = Len(e) - 1
      /\ \A i \in 1 .. Len(e) - 1 : (a \o b)[i] = IF i <= k - 1 THEN a[i] ELSE b[i - (k - 1)]
  <2>1. /\ a \o b \in Seq(Nat)
        /\ Len(a \o b) = Len(a) + Len(b)
        /\ \A i \in 1 .. Len(a) + Len(b) :
             (a \o b)[i] = IF i <= Len(a) THEN a[i] ELSE b[i - Len(a)]
    BY <1>1, <1>2, ConcatProperties
  <2>2. Len(a) + Len(b) = Len(e) - 1 /\ Len(a) = k - 1
    BY <1>1, <1>2
  <2>3. QED
    BY <2>1, <2>2
<1>5. \A i \in 1 .. Len(e) - 1 : i > k - 1 => b[i - (k - 1)] = e[i + 1]
  <2> SUFFICES ASSUME NEW i \in 1 .. Len(e) - 1, i > k - 1
               PROVE  b[i - (k - 1)] = e[i + 1]
    OBVIOUS
  <2>1. i - (k - 1) \in 1 .. Len(e) - k /\ k + (i - (k - 1)) = i + 1
    OBVIOUS
  <2>2. QED
    BY <1>2, <2>1
<1>6. DOMAIN (a \o b) = 1 .. Len(e) - 1
  BY <1>4
<1>7. \A i \in 1 .. Len(e) - 1 : (a \o b)[i] = IF i < k THEN e[i] ELSE e[i + 1]
  <2> SUFFICES ASSUME NEW i \in 1 .. Len(e) - 1
               PROVE  (a \o b)[i] = IF i < k THEN e[i] ELSE e[i + 1]
    OBVIOUS
  <2>1. (a \o b)[i] = IF i <= k - 1 THEN a[i] ELSE b[i - (k - 1)]
    BY <1>4
  <2>2. CASE i <= k - 1
    <3>1. i \in 1 .. k - 1 /\ i < k
      BY <2>2
    <3>2. QED
      BY <1>1, <2>1, <2>2, <3>1
  <2>3. CASE ~ (i <= k - 1)
    <3>1. i > k - 1 /\ ~ (i < k)
      BY <2>3
    <3>2. QED
      BY <1>5, <2>1, <2>3, <3>1
  <2>4. QED
    BY <2>2, <2>3
<1>8. Len(e) \in Nat /\ DOMAIN e = 1 .. Len(e) /\ k \in Nat
  OBVIOUS
<1> DEFINE c == a \o b
<1>9. /\ RemoveAt(e, k) = c
      /\ c \in Seq(Nat)
      /\ DOMAIN c = 1 .. Len(e) - 1
      /\ \A i \in 1 .. Len(e) - 1 : c[i] = IF i < k THEN e[i] ELSE e[i + 1]
  BY <1>3, <1>4, <1>6, <1>7
<1> HIDE DEF c
<1>10. \A i \in 1 .. Len(e) - 1 : i \in Nat /\ i \in DOMAIN e /\ i + 1 \in DOMAIN e
  BY <1>8
<1>11. \A i \in 1 .. Len(e) - 1 : i < k <=> ~ (i >= k)
  BY <1>8
<1>12. \A i \in DOMAIN c :
         /\ i < k => i \in DOMAIN e /\ c[i] = e[i]
         /\ i >= k => i + 1 \in DOMAIN e /\ c[i] = e[i + 1]
         /\ i \in Nat
  BY <1>9, <1>10, <1>11
<1>13. QED
  BY <1>9, <1>12

LEMMA RemoveElementOwns ==
  ASSUME Owns(heap, priv), NEW h \in Handles, NEW k, RemoveElement(h, k)
  PROVE  Owns(heap', priv')
<1> DEFINE n == priv[h]
           elements == heap[n].elements
           x == elements[k]
           less == RemoveAt(elements, k)
           u == DeleteNode(heap, x)
<1>1. /\ n \in DOMAIN heap /\ Solid(heap) /\ Typed(heap) /\ Root(heap, n)
      /\ \A g \in Handles : priv[g] # NoNode => Root(heap, priv[g])
      /\ heap[n].type = "array" /\ Live(h) /\ k \in DOMAIN elements
  BY LiveIsRoot DEF RemoveElement, IsArray
<1>2. /\ heap[n] = Array(elements)
      /\ Links(heap[n]) = elements
      /\ elements \in Seq(Nat)
  BY <1>1, ContentsAreTyped DEF Typed
<1>3. heap' = [u EXCEPT ![n] = [u[n] EXCEPT !.elements = RemoveAt(u[n].elements, k)]] /\ priv' = priv
  BY DEF RemoveElement
<1> HIDE DEF u
<1>4. PointsTo(heap, n, k, x)
  BY <1>1, <1>2 DEF PointsTo
<1>5. /\ less \in Seq(Nat)
      /\ \A i \in DOMAIN less :
           /\ i < k => i \in DOMAIN elements /\ less[i] = elements[i]
           /\ i >= k => i + 1 \in DOMAIN elements /\ less[i] = elements[i + 1]
           /\ i \in Nat
  <2>1. k \in 1 .. Len(elements)
    BY <1>1, <1>2
  <2> HIDE DEF elements
  <2>2. QED
    BY <1>2, <2>1, RemoveAtRemoves
<1>6. k \in Nat
  BY <1>1, <1>2
<1>7. \A i, j \in DOMAIN elements : elements[i] = elements[j] => i = j
  <2> SUFFICES ASSUME NEW i \in DOMAIN elements, NEW j \in DOMAIN elements,
                      elements[i] = elements[j]
               PROVE  i = j
    OBVIOUS
  <2>1. PointsTo(heap, n, i, elements[i]) /\ PointsTo(heap, n, j, elements[i])
    BY <1>1, <1>2 DEF PointsTo
  <2>2. QED
    BY <1>1, <2>1 DEF Solid
<1> HIDE DEF less
<1>8. Links(Array(less)) = less /\ IsContent(Array(less))
  BY <1>5, LinksOfContainers, ContentsOfContainers
<1>9. Owns(ChildDeleted(heap, n, x, Array(less)), priv) /\ u[n] = heap[n]
  <2> HIDE DEF x, elements
  <2>1. \A i \in DOMAIN less : \E j \in DOMAIN elements : j # k /\ less[i] = elements[j]
    BY <1>5, <1>6
  <2>2. \A i, j \in DOMAIN less : less[i] = less[j] => i = j
    <3> SUFFICES ASSUME NEW i \in DOMAIN less, NEW j \in DOMAIN less, less[i] = less[j]
                 PROVE  i = j
      OBVIOUS
    <3>1. i \in Nat /\ j \in Nat
      BY <1>5
    <3> DEFINE At(y) == IF y < k THEN y ELSE y + 1
    <3>2. /\ At(i) \in DOMAIN elements /\ less[i] = elements[At(i)]
          /\ At(j) \in DOMAIN elements /\ less[j] = elements[At(j)]
      BY <1>5, <1>6, <3>1
    <3>3. At(i) = At(j)
      BY <1>7, <3>2
    <3>4. QED
      BY <1>6, <3>1, <3>3
  <2>3. Loses(Array(less), heap[priv[h]], k)
    BY <1>2, <1>8, <2>1, <2>2 DEF Loses
  <2>4. PICK s, m, c : s = heap /\ m = n /\ c = Array(less)
    OBVIOUS
  <2>5. Root(s, m) /\ Solid(s) /\ Typed(s) /\ PointsTo(s, m, k, x)
    BY <1>1, <1>4, <2>4
  <2>6. IsContent(c) /\ Loses(c, s[m], k)
    BY <1>8, <2>3, <2>4
  <2> HIDE DEF n
  <2>7. /\ Solid(ChildDeleted(s, m, x, c)) /\ Typed(ChildDeleted(s, m, x, c))
        /\ DeleteNode(s, x)[m] = s[m]
        /\ \A r : Root(s, r) => Root(ChildDeleted(s, m, x, c), r)
    BY <2>5, <2>6, DeleteChildDeletes
  <2>8. Owns(ChildDeleted(s, m, x, c), priv)
    BY <1>1, <2>4, <2>7, OwnersStay
  <2>9. QED
    BY <2>4, <2>7, <2>8 DEF u
<1>10. [u[n] EXCEPT !.elements = RemoveAt(u[n].elements, k)] = Array(less)
  <2> HIDE DEF x, elements
  <2>1. u[n] = Array(elements) /\ Array(elements).elements = elements
    BY <1>2, <1>9 DEF Array
  <2>2. [Array(elements) EXCEPT !.elements = less] = Array(less)
    BY ContentsReplaced
  <2>3. QED
    BY <2>1, <2>2 DEF less
<1>11. QED
  BY <1>3, <1>9, <1>10 DEF ChildDeleted, u
-----------------------------------------------------------------------------
(***************************************************************************)
(* Copying.                                                                *)
(***************************************************************************)

LEMMA RelinkedLinks ==
  ASSUME NEW content, IsContent(content), NEW place, NEW C,
         place \in [C -> Nat], \A i \in DOMAIN Links(content) : Links(content)[i] \in C
  PROVE  /\ IsContent(Relinked(content, place))
         /\ DOMAIN Links(Relinked(content, place)) = DOMAIN Links(content)
         /\ \A i \in DOMAIN Links(content) :
              Links(Relinked(content, place))[i] = place[Links(content)[i]]
<1>1. CASE content.type = "array"
  <2> DEFINE e == content.elements
             new == [i \in DOMAIN e |-> place[e[i]]]
  <2>1. Links(content) = e /\ e \in Seq(Nat)
    BY <1>1, ContentsAreTyped
  <2>2. Relinked(content, place) = Array(new)
    BY <1>1 DEF Relinked
  <2> HIDE DEF e
  <2>3. \A i \in DOMAIN e : place[e[i]] \in Nat
    BY <2>1
  <2>4. new \in Seq(Nat)
    <3>1. DOMAIN e = 1 .. Len(e) /\ Len(e) \in Nat
      BY <2>1
    <3>2. new \in [1 .. Len(e) -> Nat]
      BY <2>3, <3>1
    <3>3. QED
      BY <3>1, <3>2, SeqDef
  <2>5. Links(Array(new)) = new /\ IsContent(Array(new))
    <3> HIDE DEF new
    <3>1. QED
      BY <2>4, LinksOfContainers, ContentsOfContainers
  <2>6. QED
    BY <2>1, <2>2, <2>5
<1>2. CASE content.type = "object"
  <2> DEFINE e == content.members
             new == [i \in DOMAIN e |-> place[e[i]]]
  <2>1. Links(content) = e
    BY <1>2, ContentsAreTyped
  <2>2. Relinked(content, place) = Object(new)
    BY <1>2 DEF Relinked
  <2> HIDE DEF e
  <2>3. new \in [DOMAIN new -> Nat]
    BY <2>1
  <2>4. Links(Object(new)) = new /\ IsContent(Object(new))
    <3> HIDE DEF new
    <3>1. QED
      BY <2>3, LinksOfContainers, ContentsOfContainers
  <2>5. QED
    BY <2>1, <2>2, <2>4
<1>3. CASE content.type \notin {"array", "object"}
  <2>1. Relinked(content, place) = content /\ DOMAIN Links(content) = {}
    BY <1>3, ContentsAreTyped, LeavesHaveNoLinks DEF Relinked
  <2>2. QED
    BY <2>1
<1>4. QED
  BY <1>1, <1>2, <1>3

\* The copies of the nodes of DOMAIN place are new, or nodes without pointers, and apart.
Copyable(s, place) ==
  /\ DOMAIN place \subseteq DOMAIN s
  /\ Inside(s, DOMAIN place)
  /\ place \in [DOMAIN place -> Nat \ {NoNode}]
  /\ \A x, y \in DOMAIN place : place[x] = place[y] => x = y
  /\ \A x \in DOMAIN place :
       place[x] \in DOMAIN s => Root(s, place[x]) /\ Links(s[place[x]]) = <<>>

LEMMA CopiedCopies ==
  ASSUME NEW s, Solid(s), Typed(s), NEW place, Copyable(s, place)
  PROVE  LET t == Copied(s, place)
             C == DOMAIN place
         IN  /\ DOMAIN t = DOMAIN s \cup Range(place)
             /\ \A x \in DOMAIN s : x \notin Range(place) => t[x] = s[x]
             /\ \A c, i, m : PointsTo(t, c, i, m) <=>
                  \/ PointsTo(s, c, i, m)
                  \/ \E x \in C, y \in C : PointsTo(s, x, i, y) /\ c = place[x] /\ m = place[y]
             /\ Solid(t)
             /\ Typed(t)
             /\ \A y \in C : (\A x \in C : \A i : ~ PointsTo(s, x, i, y)) => Root(t, place[y])
             /\ \A r : Root(s, r) /\ (\A y \in C : place[y] # r) => Root(t, r)
<1> DEFINE t == Copied(s, place)
           C == DOMAIN place
<1>1. \A m : m \in Range(place) <=> \E x \in C : m = place[x]
  BY DEF Range
<1>2. /\ DOMAIN t = DOMAIN s \cup Range(place)
      /\ \A x \in DOMAIN s : x \notin Range(place) => t[x] = s[x]
      /\ \A m \in Range(place) : t[m] = Relinked(s[CHOOSE x \in C : place[x] = m], place)
  BY DEF Copied
<1> HIDE DEF t
<1>3. \A x \in C : t[place[x]] = Relinked(s[x], place)
  <2> TAKE x \in C
  <2>1. (CHOOSE y \in C : place[y] = place[x]) = x
    BY DEF Copyable
  <2>2. place[x] \in Range(place)
    BY <1>1
  <2>3. QED
    BY <1>2, <2>1, <2>2
<1>4. \A x \in C : x \in DOMAIN s /\ IsContent(s[x])
  BY DEF Copyable, Typed
<1>5. \A x \in C : \A i \in DOMAIN Links(s[x]) : Links(s[x])[i] \in C
  BY <1>4 DEF Copyable, Inside, PointsTo
<1>6. place \in [C -> Nat]
  BY DEF Copyable
<1>7. \A x \in C :
        /\ IsContent(t[place[x]])
        /\ DOMAIN Links(t[place[x]]) = DOMAIN Links(s[x])
        /\ \A i \in DOMAIN Links(s[x]) : Links(t[place[x]])[i] = place[Links(s[x])[i]]
  <2> TAKE x \in C
  <2>1. /\ IsContent(Relinked(s[x], place))
        /\ DOMAIN Links(Relinked(s[x], place)) = DOMAIN Links(s[x])
        /\ \A i \in DOMAIN Links(s[x]) :
             Links(Relinked(s[x], place))[i] = place[Links(s[x])[i]]
    <3> DEFINE content == s[x]
    <3>1. IsContent(content) /\ \A i \in DOMAIN Links(content) : Links(content)[i] \in C
      BY <1>4, <1>5
    <3> HIDE DEF content, C
    <3>2. /\ IsContent(Relinked(content, place))
          /\ DOMAIN Links(Relinked(content, place)) = DOMAIN Links(content)
          /\ \A i \in DOMAIN Links(content) :
               Links(Relinked(content, place))[i] = place[Links(content)[i]]
      BY <1>6, <3>1, RelinkedLinks
    <3>3. QED
      BY <3>2 DEF content
  <2>2. QED
    BY <1>3, <2>1
<1>8. \A c, i, m : PointsTo(t, c, i, m) <=>
        \/ PointsTo(s, c, i, m) /\ c \notin Range(place)
        \/ \E x \in C, y \in C : PointsTo(s, x, i, y) /\ c = place[x] /\ m = place[y]
  <2> TAKE c, i, m
  <2>1. CASE c \notin Range(place)
    BY <1>1, <1>2, <2>1 DEF PointsTo
  <2>2. CASE c \in Range(place)
    <3>1. PICK x \in C : c = place[x]
      BY <1>1, <2>2
    <3>2. c \in DOMAIN t
      BY <1>2, <2>2
    <3>3. \A z \in C : c = place[z] => z = x
      BY <3>1 DEF Copyable
    <3>4. PointsTo(t, c, i, m) <=> i \in DOMAIN Links(s[x]) /\ m = place[Links(s[x])[i]]
      BY <1>7, <3>1, <3>2 DEF PointsTo
    <3>5. PointsTo(t, c, i, m) <=> \E y \in C : PointsTo(s, x, i, y) /\ m = place[y]
      BY <1>4, <1>5, <3>4 DEF PointsTo
    <3>6. QED
      BY <2>2, <3>1, <3>3, <3>5
  <2>3. QED
    BY <2>1, <2>2
<1>9. \A c, i, m : PointsTo(s, c, i, m) => c \notin Range(place) /\ m \notin Range(place)
  <2> SUFFICES ASSUME NEW c, NEW i, NEW m, PointsTo(s, c, i, m)
               PROVE  c \notin Range(place) /\ m \notin Range(place)
    OBVIOUS
  <2>1. c \in DOMAIN s /\ m \in DOMAIN s /\ i \in DOMAIN Links(s[c])
    BY DEF PointsTo, Solid
  <2>2. DOMAIN <<>> = {}
    BY LeavesHaveNoLinks
  <2>3. QED
    BY <1>1, <2>1, <2>2 DEF Copyable, Root
<1>10. \A c, i, m : PointsTo(t, c, i, m) <=>
         \/ PointsTo(s, c, i, m)
         \/ \E x \in C, y \in C : PointsTo(s, x, i, y) /\ c = place[x] /\ m = place[y]
  BY <1>8, <1>9
<1>11. Typed(t)
  <2>1. \A m \in DOMAIN t : IsContent(t[m])
    BY <1>1, <1>2, <1>7 DEF Typed
  <2>2. QED
    BY <2>1 DEF Typed
<1>12. \A c, i, m : PointsTo(t, c, i, m) => m \in DOMAIN t
  BY <1>1, <1>2, <1>10 DEF Solid
<1>13. \A c, d, i, j, m : PointsTo(t, c, i, m) /\ PointsTo(t, d, j, m) => c = d /\ i = j
  <2> SUFFICES ASSUME NEW c, NEW d, NEW i, NEW j, NEW m, PointsTo(t, c, i, m), PointsTo(t, d, j, m)
               PROVE  c = d /\ i = j
    OBVIOUS
  <2>1. CASE m \in Range(place)
    <3>1. PICK x \in C, y \in C : PointsTo(s, x, i, y) /\ c = place[x] /\ m = place[y]
      BY <1>9, <1>10, <2>1
    <3>2. PICK v \in C, w \in C : PointsTo(s, v, j, w) /\ d = place[v] /\ m = place[w]
      BY <1>9, <1>10, <2>1
    <3>3. y = w
      BY <3>1, <3>2 DEF Copyable
    <3>4. x = v /\ i = j
      BY <3>1, <3>2, <3>3 DEF Solid
    <3>5. QED
      BY <3>1, <3>2, <3>4
  <2>2. CASE m \notin Range(place)
    <3>1. PointsTo(s, c, i, m) /\ PointsTo(s, d, j, m)
      BY <1>1, <1>10, <2>2
    <3>2. QED
      BY <3>1 DEF Solid
  <2>3. QED
    BY <2>1, <2>2
<1>14. IsFiniteSet(DOMAIN t)
  <2>1. IsFiniteSet(C)
    <3>1. C \in SUBSET DOMAIN s
      BY <1>4
    <3>2. QED
      BY <3>1, FS_Subset DEF Solid
  <2>2. place \in Surjection(C, Range(place))
    <3>1. place \in [C -> Range(place)]
      BY <1>1, <1>6
    <3>2. QED
      BY <1>1, <3>1 DEF Surjection
  <2>3. IsFiniteSet(Range(place))
    BY <2>1, <2>2, FS_Surjection
  <2>4. IsFiniteSet(DOMAIN s)
    BY DEF Solid
  <2>5. IsFiniteSet(DOMAIN s \cup Range(place))
    BY <2>3, <2>4, FS_Union
  <2>6. QED
    BY <1>2, <2>5
<1>15. DOMAIN t \subseteq Nat \ {NoNode}
  BY <1>1, <1>2 DEF Copyable, Solid
<1>16. Solid(t)
  BY <1>12, <1>13, <1>14, <1>15 DEF Solid
<1>17. ASSUME NEW y \in C, \A x \in C : \A i : ~ PointsTo(s, x, i, y)
       PROVE  Root(t, place[y])
  <2>1. place[y] \in DOMAIN t
    BY <1>1, <1>2
  <2>2. ASSUME NEW c, NEW i, PointsTo(t, c, i, place[y]) PROVE FALSE
    <3>1. place[y] \in Range(place)
      BY <1>1
    <3>2. PICK x \in C, z \in C : PointsTo(s, x, i, z) /\ place[y] = place[z]
      BY <1>9, <1>10, <2>2, <3>1
    <3>3. z = y
      BY <3>2 DEF Copyable
    <3>4. QED
      BY <1>17, <3>2, <3>3
  <2>3. QED
    BY <2>1, <2>2 DEF Root
<1>18. \A r : Root(s, r) /\ (\A y \in C : place[y] # r) => Root(t, r)
  BY <1>2, <1>10 DEF Root
<1>19. QED
  BY <1>2, <1>10, <1>11, <1>16, <1>17, <1>18 DEF t

\* With fewer pointers, there is no more below a node.
LEMMA BelowShrinks ==
  ASSUME NEW s, Solid(s), NEW t, Solid(t), DOMAIN t \subseteq DOMAIN s, NEW m \in DOMAIN t,
         \A c, i, x : PointsTo(t, c, i, x) => PointsTo(s, c, i, x)
  PROVE  Below(t, m) \subseteq Below(s, m)
<1>1. m \in DOMAIN s /\ m \in Below(s, m)
  BY BelowHasTop
<1>2. Inside(s, Below(s, m))
  BY <1>1, BelowIsInside
<1>3. Inside(t, Below(s, m))
  BY <1>2 DEF Inside
<1>4. QED
  BY <1>1, <1>3, BelowIsLeast

LEMMA NothingBelowDestroyed ==
  ASSUME NEW s, Solid(s), NEW n, Root(s, n)
  PROVE  Below(Destroy(s, n), n) = {n}
<1> DEFINE t == Destroy(s, n)
<1>1. /\ t[n] = Null
      /\ Solid(t)
      /\ Root(t, n)
  BY DestroyDestroys
<1> HIDE DEF t
<1>2. Links(t[n]) = <<>> /\ DOMAIN <<>> = {}
  BY <1>1, LeavesHaveNoLinks
<1>3. Inside(t, {n})
  BY <1>2 DEF Inside, PointsTo
<1>4. n \in DOMAIN t
  BY <1>1 DEF Root
<1>5. Below(t, n) \subseteq {n} /\ n \in Below(t, n)
  BY <1>1, <1>3, <1>4, BelowIsLeast, BelowHasTop
<1>6. QED
  BY <1>5 DEF t

\* DomNode::copy: the document at n becomes a copy of what m, not below it, shows.
LEMMA CopyIntoCopies ==
  ASSUME NEW s, Solid(s), Typed(s), NEW n, Root(s, n), NEW m \in DOMAIN s,
         m \in Below(s, n) => m = n,
         \A c \in Below(s, m) : \A i : ~ PointsTo(s, c, i, m)
  PROVE  LET t == CopyInto(s, n, m)
         IN  Solid(t) /\ Typed(t) /\ \A r : Root(s, r) => Root(t, r)
<1> DEFINE u == Destroy(s, n)
           C == Below(u, m)
           new == NewNodes(u, C \ {m})
           place == With(new, m, n)
<1>1. /\ DOMAIN u = (DOMAIN s \ Below(s, n)) \cup {n}
      /\ u[n] = Null
      /\ \A c, i, x : PointsTo(u, c, i, x) => PointsTo(s, c, i, x)
      /\ Solid(u)
      /\ \A r : Root(s, r) => Root(u, r)
  BY DestroyDestroys
<1>2. Typed(u)
  BY DestroyTyped
<1> HIDE DEF u
<1>3. m \in DOMAIN u /\ n \in DOMAIN u /\ n \in DOMAIN s
  BY <1>1 DEF Root
<1>4. m \in C /\ C \subseteq DOMAIN u /\ Inside(u, C)
  BY <1>1, <1>3, BelowHasTop, BelowIsInside
<1>5. C \subseteq Below(s, m)
  <2>1. DOMAIN u \subseteq DOMAIN s
    BY <1>1, <1>3
  <2>2. QED
    BY <1>1, <1>3, <2>1, BelowShrinks
<1>6. \A c \in C : \A i : ~ PointsTo(u, c, i, m)
  BY <1>1, <1>5
<1>7. IsFiniteSet(DOMAIN u) /\ IsFiniteSet(C \ {m})
  <2>1. IsFiniteSet(DOMAIN u)
    BY <1>1 DEF Solid
  <2>2. C \ {m} \in SUBSET DOMAIN u
    BY <1>4
  <2>3. QED
    BY <2>1, <2>2, FS_Subset
<1> HIDE DEF C
<1>8. /\ new \in [C \ {m} -> Nat \ {NoNode}]
      /\ \A x \in C \ {m} : new[x] \notin DOMAIN u
      /\ \A x, y \in C \ {m} : new[x] = new[y] => x = y
  BY <1>7, NewNodesAreNew
<1> HIDE DEF new
<1>9. n \in Nat \ {NoNode}
  BY <1>1, <1>3 DEF Solid
<1>10. /\ DOMAIN place = C
       /\ place[m] = n
       /\ \A x \in C \ {m} : place[x] = new[x]
       /\ place \in [C -> Nat \ {NoNode}]
  BY <1>4, <1>8, <1>9 DEF With
<1>11. CopyInto(s, n, m) = Copied(u, place)
  BY DEF CopyInto, u, C, new
<1> HIDE DEF place
<1>12. \A x \in C : place[x] \in DOMAIN u => x = m
  BY <1>8, <1>10
<1>13. \A x, y \in C : place[x] = place[y] => x = y
  BY <1>3, <1>8, <1>10
<1>14. Root(u, n) /\ Links(u[n]) = <<>>
  BY <1>1, LeavesHaveNoLinks
<1>15. Copyable(u, place)
  BY <1>4, <1>10, <1>12, <1>13, <1>14 DEF Copyable
<1> DEFINE t == Copied(u, place)
<1>16. /\ Solid(t)
       /\ Typed(t)
       /\ \A y \in C : (\A x \in C : \A i : ~ PointsTo(u, x, i, y)) => Root(t, place[y])
       /\ \A r : Root(u, r) /\ (\A y \in C : place[y] # r) => Root(t, r)
  BY <1>1, <1>2, <1>10, <1>15, CopiedCopies
<1> HIDE DEF t
<1>17. Root(t, n)
  BY <1>4, <1>6, <1>10, <1>16
<1>18. \A r : Root(s, r) /\ r # n => Root(t, r)
  <2> TAKE r
  <2> HAVE Root(s, r) /\ r # n
  <2>1. Root(u, r) /\ r \in DOMAIN u
    BY <1>1 DEF Root
  <2>2. \A y \in C : place[y] # r
    BY <1>10, <1>12, <2>1
  <2>3. QED
    BY <1>16, <2>1, <2>2
<1>19. QED
  BY <1>11, <1>16, <1>17, <1>18 DEF t

LEMMA FromViewOwns ==
  ASSUME Owns(heap, priv), NEW h \in Handles, NEW g \in Handles, NEW m, FromView(h, g, m)
  PROVE  Owns(heap', priv')
<1> DEFINE n == priv[h]
           r == priv[g]
           s == Destroy(heap, n)
           t == CopyInto(s, n, m)
<1>1. /\ Root(heap, n) /\ Root(heap, r) /\ Solid(heap) /\ Typed(heap)
      /\ r \in DOMAIN heap
      /\ g # h => r # n
      /\ \A f \in Handles : priv[f] # NoNode => Root(heap, priv[f])
      /\ m \in Below(heap, r)
      /\ g # h \/ m = n
  BY LiveIsRoot DEF FromView
<1>2. heap' = t /\ priv' = priv
  BY DEF FromView
<1>3. /\ DOMAIN s = (DOMAIN heap \ Below(heap, n)) \cup {n}
      /\ \A c, i, x : PointsTo(s, c, i, x) => PointsTo(heap, c, i, x)
      /\ Solid(s)
      /\ \A x : Root(heap, x) => Root(s, x)
  BY <1>1, DestroyDestroys
<1>4. Typed(s)
  BY <1>1, DestroyTyped
<1>5. Below(s, n) = {n}
  BY <1>1, NothingBelowDestroyed
<1> HIDE DEF s, t
<1> HIDE DEF n, r
<1>6. m \in DOMAIN s /\ \A c \in Below(s, m) : \A i : ~ PointsTo(s, c, i, m)
  <2>1. CASE m = n
    BY <1>1, <1>3, <2>1 DEF Root
  <2>2. CASE m # n
    <3>1. g # h
      BY <1>1, <2>2
    <3>2. m \in DOMAIN heap /\ m \notin Below(heap, n)
      BY <1>1, <3>1, BelowHasTop, RootsAreApart
    <3>3. m \in DOMAIN s
      BY <1>3, <3>2
    <3>4. DOMAIN s \subseteq DOMAIN heap
      BY <1>1, <1>3 DEF Root
    <3>5. Below(s, m) \subseteq Below(heap, m)
      BY <1>1, <1>3, <3>3, <3>4, BelowShrinks
    <3>6. \A c \in Below(heap, m) : \A i : ~ PointsTo(heap, c, i, m)
      BY <1>1, NoCycleBelowRoot
    <3>7. \A c \in Below(s, m) : \A i : ~ PointsTo(s, c, i, m)
      BY <1>3, <3>5, <3>6
    <3>8. QED
      BY <3>3, <3>7
  <2>3. QED
    BY <2>1, <2>2
<1>7. Root(s, n) /\ (m \in Below(s, n) => m = n)
  BY <1>1, <1>3, <1>5
<1>8. Solid(t) /\ Typed(t) /\ \A x : Root(s, x) => Root(t, x)
  BY <1>3, <1>4, <1>6, <1>7, CopyIntoCopies DEF t
<1>9. QED
  BY <1>1, <1>2, <1>3, <1>8, OwnersStay
-----------------------------------------------------------------------------
(***************************************************************************)
(* Merging.                                                                *)
(***************************************************************************)

Objects(s) == {x \in DOMAIN s : s[x].type = "object"}

\* The members at k of the pair p are the pair q.
Steps(s, p, k, q) ==
  k \in MergedMembers(s, p) /\ q = <<s[p[1]].members[k], s[p[2]].members[k]>>

LEMMA PairsAreMade ==
  ASSUME NEW A, NEW B
  PROVE  /\ \A p \in A \X B : p = <<p[1], p[2]>> /\ p[1] \in A /\ p[2] \in B
         /\ \A x \in A, y \in B : <<x, y>> \in A \X B
         /\ \A x, y : <<x, y>>[1] = x /\ <<x, y>>[2] = y
OBVIOUS

LEMMA StepsPoint ==
  ASSUME NEW s, Solid(s), Typed(s), NEW p \in Objects(s) \X Objects(s), NEW k, NEW q,
         Steps(s, p, k, q)
  PROVE  /\ PointsTo(s, p[1], k, q[1])
         /\ PointsTo(s, p[2], k, q[2])
         /\ q \in (DOMAIN s) \X Objects(s)
<1>1. /\ p[1] \in DOMAIN s /\ s[p[1]].type = "object"
      /\ p[2] \in DOMAIN s /\ s[p[2]].type = "object"
  BY PairsAreMade DEF Objects
<1>2. Links(s[p[1]]) = s[p[1]].members /\ Links(s[p[2]]) = s[p[2]].members
  BY <1>1, ContentsAreTyped DEF Typed
<1>3. /\ k \in DOMAIN s[p[1]].members
      /\ k \in DOMAIN s[p[2]].members
      /\ s[s[p[2]].members[k]].type = "object"
      /\ q = <<s[p[1]].members[k], s[p[2]].members[k]>>
  BY DEF Steps, MergedMembers
<1>4. PointsTo(s, p[1], k, s[p[1]].members[k]) /\ PointsTo(s, p[2], k, s[p[2]].members[k])
  BY <1>1, <1>2, <1>3 DEF PointsTo
<1>5. s[p[1]].members[k] \in DOMAIN s /\ s[p[2]].members[k] \in DOMAIN s
  BY <1>4 DEF Solid
<1>6. s[p[2]].members[k] \in Objects(s)
  BY <1>3, <1>5 DEF Objects
<1>7. q \in (DOMAIN s) \X Objects(s)
  BY <1>3, <1>5, <1>6, PairsAreMade
<1>8. q[1] = s[p[1]].members[k] /\ q[2] = s[p[2]].members[k]
  BY <1>3
<1>9. QED
  BY <1>4, <1>7, <1>8

LEMMA WithMembersGrows ==
  ASSUME NEW s, Solid(s), Typed(s), NEW P, P \subseteq (DOMAIN s) \X Objects(s)
  PROVE  /\ P \subseteq WithMembers(s, P)
         /\ WithMembers(s, P) \subseteq (DOMAIN s) \X Objects(s)
         /\ \A q \in WithMembers(s, P) :
              q \in P \/ \E p \in P : \E k : p \in Objects(s) \X Objects(s) /\ Steps(s, p, k, q)
<1>1. P \subseteq WithMembers(s, P)
  BY DEF WithMembers
<1>2. ASSUME NEW q \in WithMembers(s, P), q \notin P
      PROVE  \E p \in P : \E k : p \in Objects(s) \X Objects(s) /\ Steps(s, p, k, q)
  <2>1. PICK p \in P : /\ s[p[1]].type = "object"
                       /\ \E k \in MergedMembers(s, p) :
                            q = <<s[p[1]].members[k], s[p[2]].members[k]>>
    BY <1>2 DEF WithMembers
  <2>2. p \in Objects(s) \X Objects(s)
    <3>1. p \in (DOMAIN s) \X Objects(s)
      OBVIOUS
    <3>2. p = <<p[1], p[2]>> /\ p[1] \in DOMAIN s /\ p[2] \in Objects(s)
      BY <3>1, PairsAreMade
    <3>3. p[1] \in Objects(s)
      BY <2>1, <3>2 DEF Objects
    <3>4. QED
      BY <3>2, <3>3, PairsAreMade
  <2>3. QED
    BY <2>1, <2>2 DEF Steps
<1>3. \A q \in WithMembers(s, P) : q \in (DOMAIN s) \X Objects(s)
  BY <1>2, StepsPoint
<1>4. QED
  BY <1>1, <1>2, <1>3

LEMMA MergingHasLevels ==
  ASSUME NEW s, Solid(s), Typed(s), NEW n \in DOMAIN s, NEW m \in Objects(s)
  PROVE  \E level :
           /\ \A i \in Nat : level[i] \subseteq (DOMAIN s) \X Objects(s)
           /\ level[0] = {<<n, m>>}
           /\ \A i \in Nat : level[i + 1] = WithMembers(s, level[i])
           /\ Merging(s, n, m) = level[Cardinality(DOMAIN s)]
<1> DEFINE X == SUBSET ((DOMAIN s) \X Objects(s))
           a == {<<n, m>>}
           g == [P \in X |-> WithMembers(s, P)]
           Unfolds(f) == f = [i \in Nat |-> IF i = 0 THEN a ELSE WithMembers(s, f[i - 1])]
           level == CHOOSE f : Unfolds(f)
<1>1. g \in [X -> X]
  BY WithMembersGrows
<1>2. a \in X
  <2>1. <<n, m>> \in (DOMAIN s) \X Objects(s)
    BY PairsAreMade
  <2>2. QED
    BY <2>1
<1>3. PICK f : IsIteration(f, g, a, X)
  <2> HIDE DEF X, a, g
  <2>1. QED
    BY <1>1, <1>2, IterationExists, Zenon
<1>4. ASSUME NEW i \in Nat, i # 0
      PROVE  f[i] = WithMembers(s, f[i - 1])
  <2>1. i - 1 \in Nat /\ i = (i - 1) + 1
    BY <1>4
  <2> HIDE DEF X, a
  <2>2. f[(i - 1) + 1] = g[f[i - 1]] /\ f[i - 1] \in X
    <3> HIDE DEF g
    <3>1. QED
      BY <1>3, <2>1 DEF IsIteration
  <2>3. QED
    BY <2>1, <2>2
<1> HIDE DEF X, a, g
<1>5. Unfolds(f)
  BY <1>3, <1>4 DEF IsIteration
<1>6. Unfolds(level)
  <2> HIDE DEF Unfolds
  <2>1. QED
    BY <1>5
<1>7. Merging(s, n, m) = level[Cardinality(DOMAIN s)]
  BY DEF Merging, a
<1> HIDE DEF level
<1>8. level[0] = a
  BY <1>6
<1>9. ASSUME NEW i \in Nat
      PROVE  level[i + 1] = WithMembers(s, level[i])
  <2>1. i + 1 \in Nat /\ i + 1 # 0 /\ (i + 1) - 1 = i
    OBVIOUS
  <2>2. \A j \in Nat : j # 0 => level[j] = WithMembers(s, level[j - 1])
    BY <1>6
  <2>3. level[i + 1] = WithMembers(s, level[(i + 1) - 1])
    BY <2>1, <2>2, Zenon
  <2>4. QED
    BY <2>1, <2>3
<1>10. \A i \in Nat : level[i] \in X
  <2> DEFINE Bad == {i \in Nat : level[i] \notin X}
  <2>1. SUFFICES ASSUME Bad # {} PROVE FALSE
    OBVIOUS
  <2>2. PICK i \in Bad : \A j \in Bad : i <= j
    <3>1. Bad \subseteq Nat
      OBVIOUS
    <3> HIDE DEF Bad
    <3>2. QED
      BY <2>1, <3>1, LeastNumber
  <2>3. i # 0
    BY <1>2, <1>8
  <2>4. i - 1 \in Nat /\ i = (i - 1) + 1 /\ i - 1 \notin Bad
    BY <2>2, <2>3
  <2>5. level[i - 1] \in X
    BY <2>4
  <2>6. level[i] = WithMembers(s, level[i - 1])
    BY <1>9, <2>4
  <2>7. QED
    BY <2>5, <2>6, WithMembersGrows DEF X
<1>11. QED
  BY <1>7, <1>8, <1>9, <1>10 DEF a, X

\* What the pairs that merge_docs is called with have in common with trees: each
\* is where one of them leads to, and lies below where they start.
Pairing(s, P, n, m) ==
  /\ P \subseteq Objects(s) \X Objects(s)
  /\ <<n, m>> \in P
  /\ \A q \in P : q[1] \in Below(s, n) /\ q[2] \in Below(s, m)
  /\ \A q \in P : q # <<n, m>> => \E p \in P : \E k : Steps(s, p, k, q)

LEMMA MergingPairs ==
  ASSUME NEW s, Solid(s), Typed(s), NEW n \in DOMAIN s, NEW m \in Objects(s),
         \A p \in Merging(s, n, m) : s[p[1]].type = "object"
  PROVE  Pairing(s, Merging(s, n, m), n, m)
<1> DEFINE All == (DOMAIN s) \X Objects(s)
           Both == Objects(s) \X Objects(s)
           Good(P) == /\ <<n, m>> \in P
                      /\ \A q \in P : q[1] \in Below(s, n) /\ q[2] \in Below(s, m)
                      /\ \A q \in P : q # <<n, m>> => \E p \in P : \E k : p \in Both /\ Steps(s, p, k, q)
<1>1. PICK level :
        /\ \A i \in Nat : level[i] \subseteq All
        /\ level[0] = {<<n, m>>}
        /\ \A i \in Nat : level[i + 1] = WithMembers(s, level[i])
        /\ Merging(s, n, m) = level[Cardinality(DOMAIN s)]
  BY MergingHasLevels
<1>2. n \in Below(s, n) /\ m \in DOMAIN s /\ m \in Below(s, m)
  BY BelowHasTop DEF Objects
<1>3. Inside(s, Below(s, n)) /\ Inside(s, Below(s, m))
  BY <1>2, BelowIsInside
<1>4. Good({<<n, m>>})
  BY <1>2
<1>5. ASSUME NEW P, P \subseteq All, Good(P)
      PROVE  Good(WithMembers(s, P))
  <2>1. /\ P \subseteq WithMembers(s, P)
        /\ \A q \in WithMembers(s, P) :
             q \in P \/ \E p \in P : \E k : p \in Both /\ Steps(s, p, k, q)
    BY <1>5, WithMembersGrows
  <2>2. \A p \in Both : \A k, q : Steps(s, p, k, q) =>
          PointsTo(s, p[1], k, q[1]) /\ PointsTo(s, p[2], k, q[2])
    BY StepsPoint
  <2> HIDE DEF Both
  <2>3. ASSUME NEW q \in WithMembers(s, P)
        PROVE  q[1] \in Below(s, n) /\ q[2] \in Below(s, m)
    BY <1>3, <1>5, <2>1, <2>2 DEF Inside
  <2>4. ASSUME NEW q \in WithMembers(s, P), q # <<n, m>>
        PROVE  \E p \in WithMembers(s, P) : \E k : p \in Both /\ Steps(s, p, k, q)
    BY <1>5, <2>1, <2>4
  <2>5. QED
    BY <1>5, <2>1, <2>3, <2>4
<1> HIDE DEF Good
<1>6. \A i \in Nat : Good(level[i])
  <2> DEFINE Bad == {i \in Nat : ~ Good(level[i])}
  <2>1. SUFFICES ASSUME Bad # {} PROVE FALSE
    OBVIOUS
  <2>2. PICK i \in Bad : \A j \in Bad : i <= j
    <3>1. Bad \subseteq Nat
      OBVIOUS
    <3> HIDE DEF Bad
    <3>2. QED
      BY <2>1, <3>1, LeastNumber
  <2>3. i # 0
    BY <1>1, <1>4
  <2>4. i - 1 \in Nat /\ i = (i - 1) + 1 /\ i - 1 \notin Bad
    BY <2>2, <2>3
  <2>5. Good(level[i - 1]) /\ level[i - 1] \subseteq All
    BY <1>1, <2>4
  <2>6. level[i] = WithMembers(s, level[i - 1])
    BY <1>1, <2>4
  <2>7. QED
    BY <1>5, <2>5, <2>6
<1>7. Cardinality(DOMAIN s) \in Nat
  BY FS_CardinalityType DEF Solid
<1> PICK P : P = Merging(s, n, m)
  OBVIOUS
<1>8. Good(P) /\ P \subseteq All /\ \A p \in P : s[p[1]].type = "object"
  BY <1>1, <1>6, <1>7
<1>9. ASSUME NEW p \in P
      PROVE  p \in Both
  <2>1. p \in All /\ s[p[1]].type = "object"
    BY <1>8
  <2>2. p = <<p[1], p[2]>> /\ p[1] \in DOMAIN s /\ p[2] \in Objects(s)
    BY <2>1, PairsAreMade
  <2>3. p[1] \in Objects(s)
    BY <2>1, <2>2 DEF Objects
  <2>4. QED
    BY <2>2, <2>3, PairsAreMade
<1>10. QED
  BY <1>8, <1>9 DEF Good, Pairing

LEMMA PairsAreTree ==
  ASSUME NEW s, Solid(s), Typed(s), NEW n, Root(s, n), NEW m, Root(s, m),
         NEW P, Pairing(s, P, n, m), NEW a \in {1, 2}
  PROVE  /\ Root(s, <<n, m>>[a])
         /\ \A q \in P : q[a] \in Below(s, <<n, m>>[a])
         /\ \A q \in P : q # <<n, m>> =>
              \E p \in P : \E k : Steps(s, p, k, q) /\ PointsTo(s, p[a], k, q[a])
<1>1. Root(s, <<n, m>>[a]) /\ \A q \in P : q[a] \in Below(s, <<n, m>>[a])
  <2>1. CASE a = 1
    BY <2>1 DEF Pairing
  <2>2. CASE a = 2
    BY <2>2 DEF Pairing
  <2>3. QED
    BY <2>1, <2>2
<1>2. ASSUME NEW p \in P, NEW k, NEW q, Steps(s, p, k, q)
      PROVE  PointsTo(s, p[a], k, q[a])
  <2>1. p \in Objects(s) \X Objects(s)
    BY DEF Pairing
  <2>2. PointsTo(s, p[1], k, q[1]) /\ PointsTo(s, p[2], k, q[2])
    BY <1>2, <2>1, StepsPoint
  <2>3. QED
    BY <2>2
<1>3. \A q \in P : q # <<n, m>> => \E p \in P : \E k : Steps(s, p, k, q)
  BY DEF Pairing
<1>4. QED
  BY <1>1, <1>2, <1>3

\* merge_docs never comes to an object twice, on either side.
LEMMA PairsApart ==
  ASSUME NEW s, Solid(s), Typed(s), NEW n, Root(s, n), NEW m, Root(s, m),
         NEW P, Pairing(s, P, n, m), NEW a \in {1, 2}
  PROVE  \A p, q \in P : p[a] = q[a] => p = q
<1> PICK r : r = <<n, m>>[a]
  OBVIOUS
<1>1. /\ Root(s, r)
      /\ \A q \in P : q[a] \in Below(s, r)
      /\ \A q \in P : q # <<n, m>> =>
           \E p \in P : \E k : Steps(s, p, k, q) /\ PointsTo(s, p[a], k, q[a])
  BY PairsAreTree
<1>2. \A p, q, x, k : Steps(s, p, k, q) /\ Steps(s, p, k, x) => q = x
  BY DEF Steps
<1> DEFINE Twice(x) == \E p \in P, q \in P : p # q /\ p[a] = x /\ q[a] = x
           D == {x \in DOMAIN s : ~ Twice(x)}
<1>3. \A c, i, x : PointsTo(s, c, i, x) /\ Twice(x) => Twice(c)
  <2> SUFFICES ASSUME NEW c, NEW i, NEW x, PointsTo(s, c, i, x), Twice(x)
               PROVE  Twice(c)
    OBVIOUS
  <2>1. PICK p \in P, q \in P : p # q /\ p[a] = x /\ q[a] = x
    OBVIOUS
  <2>2. x # r
    BY <1>1 DEF Root
  <2>3. p # <<n, m>> /\ q # <<n, m>>
    BY <2>1, <2>2
  <2>4. PICK v, k : v \in P /\ Steps(s, v, k, p) /\ PointsTo(s, v[a], k, x)
    BY <1>1, <2>1, <2>3
  <2>5. PICK w, l : w \in P /\ Steps(s, w, l, q) /\ PointsTo(s, w[a], l, x)
    BY <1>1, <2>1, <2>3
  <2>6. v[a] = c /\ w[a] = c /\ k = l
    BY <2>4, <2>5 DEF Solid
  <2>7. v # w
    BY <1>2, <2>1, <2>4, <2>5, <2>6
  <2>8. v \in P /\ w \in P
    BY <2>4, <2>5
  <2>9. QED
    BY <2>6, <2>7, <2>8
<1>4. ~ Twice(r)
  <2> SUFFICES ASSUME Twice(r) PROVE FALSE
    OBVIOUS
  <2>1. PICK p \in P : p # <<n, m>> /\ p[a] = r
    OBVIOUS
  <2>2. QED
    BY <1>1, <2>1 DEF Root
<1> HIDE DEF Twice
<1>5. Inside(s, D) /\ r \in D /\ r \in DOMAIN s
  BY <1>1, <1>3, <1>4 DEF Inside, Root, Solid
<1>6. Below(s, r) \subseteq D
  <2> HIDE DEF D
  <2>1. QED
    BY <1>5, BelowIsLeast
<1>7. \A p \in P : ~ Twice(p[a])
  BY <1>1, <1>6
<1>8. QED
  BY <1>7 DEF Twice

\* What is below another member of an object that is merged is not merged.
LEMMA OtherMembersStayOut ==
  ASSUME NEW s, Solid(s), Typed(s), NEW n, Root(s, n), NEW m, Root(s, m),
         NEW P, Pairing(s, P, n, m), NEW a \in {1, 2},
         NEW p \in P, NEW k, k \notin MergedMembers(s, p), NEW x, PointsTo(s, p[a], k, x)
  PROVE  \A q \in P : q[a] \notin Below(s, x)
<1> PICK r : r = <<n, m>>[a]
  OBVIOUS
<1>1. /\ Root(s, r)
      /\ \A q \in P : q # <<n, m>> =>
           \E v \in P : \E l : Steps(s, v, l, q) /\ PointsTo(s, v[a], l, q[a])
  BY PairsAreTree
<1>2. \A v, w \in P : v[a] = w[a] => v = w
  BY PairsApart
<1> DEFINE D == {y \in DOMAIN s : \A q \in P : q[a] # y}
<1>3. ASSUME NEW c, NEW i, NEW q \in P, PointsTo(s, c, i, q[a])
      PROVE  \E v \in P : v[a] = c /\ Steps(s, v, i, q)
  <2>1. q # <<n, m>>
    BY <1>1, <1>3 DEF Root
  <2>2. PICK v, l : v \in P /\ Steps(s, v, l, q) /\ PointsTo(s, v[a], l, q[a])
    BY <1>1, <2>1
  <2>3. v[a] = c /\ l = i
    BY <1>3, <2>2 DEF Solid
  <2>4. QED
    BY <2>2, <2>3
<1>4. Inside(s, D)
  <2> SUFFICES ASSUME NEW c, NEW i, NEW y, PointsTo(s, c, i, y), c \in D PROVE y \in D
    BY DEF Inside
  <2>1. y \in DOMAIN s
    BY DEF Solid
  <2>2. \A q \in P : q[a] # y
    BY <1>3
  <2>3. QED
    BY <2>1, <2>2
<1>5. x \in DOMAIN s
  BY DEF Solid
<1>6. ASSUME NEW q \in P, q[a] = x PROVE FALSE
  <2>1. PICK v \in P : v[a] = p[a] /\ Steps(s, v, k, q)
    BY <1>3, <1>6
  <2>2. v = p
    BY <1>2, <2>1
  <2>3. QED
    BY <2>1, <2>2 DEF Steps
<1>7. x \in D
  BY <1>5, <1>6
<1>8. Below(s, x) \subseteq D
  <2> HIDE DEF D
  <2>1. QED
    BY <1>4, <1>5, <1>7, BelowIsLeast
<1>9. QED
  BY <1>8

\* The member at k of the pair p is copied, and y is what the second object has there.
Copies(s, p, k, y) == k \in CopiedMembers(s, p) /\ PointsTo(s, p[2], k, y)

\* What the second object of p has to be copied is in C.
CopiesFrom(s, p, C) == \A k, y : Copies(s, p, k, y) => y \in C

CopiesAll(s, P, C) ==
  C \subseteq DOMAIN s /\ Inside(s, C) /\ \A p \in P : CopiesFrom(s, p, C)

LEMMA ObjectLinks ==
  ASSUME NEW s, Typed(s), NEW c \in Objects(s)
  PROVE  /\ c \in DOMAIN s
         /\ s[c] = Object(s[c].members)
         /\ Links(s[c]) = s[c].members
         /\ s[c].members \in [DOMAIN s[c].members -> Nat]
         /\ \A k, x : PointsTo(s, c, k, x) <=> k \in DOMAIN s[c].members /\ x = s[c].members[k]
<1>1. c \in DOMAIN s /\ s[c].type = "object" /\ IsContent(s[c])
  BY DEF Objects, Typed
<1>2. /\ s[c] = Object(s[c].members)
      /\ Links(s[c]) = s[c].members
      /\ s[c].members \in [DOMAIN s[c].members -> Nat]
  BY <1>1, ContentsAreTyped
<1>3. \A k, x : PointsTo(s, c, k, x) <=> k \in DOMAIN s[c].members /\ x = s[c].members[k]
  BY <1>1, <1>2 DEF PointsTo
<1>4. QED
  BY <1>1, <1>2, <1>3

LEMMA ReplacedAndSources ==
  ASSUME NEW s, Typed(s), NEW P, P \subseteq Objects(s) \X Objects(s)
  PROVE  /\ \A x : x \in Replaced(s, P) <=>
              \E p \in P : \E k : k \in CopiedMembers(s, p) /\ PointsTo(s, p[1], k, x)
         /\ \A y : y \in Sources(s, P) <=> \E p \in P : \E k : Copies(s, p, k, y)
         /\ \A p \in P : \A k \in CopiedMembers(s, p) :
              k \notin MergedMembers(s, p) /\ k \in DOMAIN s[p[2]].members
<1>1. ASSUME NEW p \in P, NEW k, NEW x
      PROVE  /\ PointsTo(s, p[1], k, x) <=>
                  k \in DOMAIN s[p[1]].members /\ x = s[p[1]].members[k]
             /\ PointsTo(s, p[2], k, x) <=>
                  k \in DOMAIN s[p[2]].members /\ x = s[p[2]].members[k]
  <2>1. p[1] \in Objects(s) /\ p[2] \in Objects(s)
    BY PairsAreMade
  <2>2. QED
    BY <2>1, ObjectLinks
<1>2. \A p : \A k \in CopiedMembers(s, p) :
        k \notin MergedMembers(s, p) /\ k \in DOMAIN s[p[2]].members
  BY DEF CopiedMembers
<1>3. ASSUME NEW x
      PROVE  x \in Replaced(s, P) <=>
               \E p \in P : \E k : k \in CopiedMembers(s, p) /\ PointsTo(s, p[1], k, x)
  <2>1. x \in Replaced(s, P) <=>
          \E p \in P : \E k \in CopiedMembers(s, p) :
            k \in DOMAIN s[p[1]].members /\ x = s[p[1]].members[k]
    BY DEF Replaced
  <2>2. ASSUME NEW p \in P, NEW k
        PROVE  PointsTo(s, p[1], k, x) <=>
                 k \in DOMAIN s[p[1]].members /\ x = s[p[1]].members[k]
    BY <1>1
  <2>3. QED
    BY <2>1, <2>2
<1>4. ASSUME NEW y
      PROVE  y \in Sources(s, P) <=> \E p \in P : \E k : Copies(s, p, k, y)
  <2>1. y \in Sources(s, P) <=>
          \E p \in P : \E k \in CopiedMembers(s, p) : y = s[p[2]].members[k]
    BY DEF Sources
  <2>2. QED
    BY <1>1, <1>2, <2>1 DEF Copies
<1>5. QED
  BY <1>2, <1>3, <1>4

\* What merge_docs frees is below the first object and has none that is merged; what it
\* copies is below the second.
LEMMA MergedAreApart ==
  ASSUME NEW s, Solid(s), Typed(s), NEW n, Root(s, n), NEW m, Root(s, m), n # m,
         NEW P, Pairing(s, P, n, m),
         NEW gone, gone = AllBelow(s, Replaced(s, P)), NEW C, C = AllBelow(s, Sources(s, P))
  PROVE  /\ \A p \in P : p[1] \notin gone /\ p[2] \notin C /\ p[2] \notin gone
         /\ gone \subseteq DOMAIN s /\ C \subseteq DOMAIN s /\ gone \cap C = {}
         /\ Inside(s, C)
         /\ \A c, i, x : PointsTo(s, c, i, x) /\ x \in gone /\ c \notin gone =>
              \E p \in P : p[1] = c /\ i \in CopiedMembers(s, p)
         /\ \A x \in gone : \E c, i : PointsTo(s, c, i, x)
         /\ \A p \in P : CopiesFrom(s, p, C)
<1> USE DEF AllBelow, CopiesFrom
<1>1. /\ \A x : x \in Replaced(s, P) <=>
           \E p \in P : \E k : k \in CopiedMembers(s, p) /\ PointsTo(s, p[1], k, x)
      /\ \A y : y \in Sources(s, P) <=> \E p \in P : \E k : Copies(s, p, k, y)
      /\ \A p \in P : \A k \in CopiedMembers(s, p) : k \notin MergedMembers(s, p)
  BY ReplacedAndSources DEF Pairing
<1>2. Replaced(s, P) \subseteq DOMAIN s /\ Sources(s, P) \subseteq DOMAIN s
  BY <1>1 DEF Solid, Copies
<1>3. \A p \in P : p[1] \notin gone
  <2> SUFFICES ASSUME NEW p \in P, NEW x \in Replaced(s, P), p[1] \in Below(s, x)
               PROVE  FALSE
    OBVIOUS
  <2>1. PICK q, k : q \in P /\ k \notin MergedMembers(s, q) /\ PointsTo(s, q[1], k, x)
    BY <1>1
  <2>2. \A v \in P : v[1] \notin Below(s, x)
    BY <2>1, OtherMembersStayOut
  <2>3. QED
    BY <2>2
<1>4. \A p \in P : p[2] \notin C
  <2> SUFFICES ASSUME NEW p \in P, NEW y \in Sources(s, P), p[2] \in Below(s, y)
               PROVE  FALSE
    OBVIOUS
  <2>1. PICK q, k : q \in P /\ k \notin MergedMembers(s, q) /\ PointsTo(s, q[2], k, y)
    BY <1>1 DEF Copies
  <2>2. \A v \in P : v[2] \notin Below(s, y)
    BY <2>1, OtherMembersStayOut
  <2>3. QED
    BY <2>2
<1>5. gone \subseteq DOMAIN s /\ C \subseteq DOMAIN s
  BY <1>2, BelowHasTop
<1>6. n \in DOMAIN s /\ m \in DOMAIN s /\ Inside(s, Below(s, n)) /\ Inside(s, Below(s, m))
  BY BelowIsInside DEF Root
<1>7. \A p \in P : p[1] \in Below(s, n) /\ p[2] \in Below(s, m)
  BY DEF Pairing
<1>8. gone \subseteq Below(s, n)
  <2> SUFFICES ASSUME NEW x \in Replaced(s, P) PROVE Below(s, x) \subseteq Below(s, n)
    OBVIOUS
  <2>1. x \in Below(s, n)
    BY <1>1, <1>6, <1>7 DEF Inside
  <2>2. QED
    BY <1>2, <1>6, <2>1, BelowIsLeast
<1>9. C \subseteq Below(s, m)
  <2> SUFFICES ASSUME NEW y \in Sources(s, P) PROVE Below(s, y) \subseteq Below(s, m)
    OBVIOUS
  <2>1. y \in Below(s, m)
    BY <1>1, <1>6, <1>7 DEF Inside, Copies
  <2>2. QED
    BY <1>2, <1>6, <2>1, BelowIsLeast
<1>10. Below(s, n) \cap Below(s, m) = {}
  BY RootsAreApart
<1>11. gone \cap C = {} /\ \A p \in P : p[2] \notin gone
  BY <1>7, <1>8, <1>9, <1>10
<1>12. Inside(s, C)
  <2> SUFFICES ASSUME NEW c, NEW i, NEW x, PointsTo(s, c, i, x), NEW y \in Sources(s, P),
                      c \in Below(s, y)
               PROVE  x \in Below(s, y)
    BY DEF Inside
  <2>1. QED
    BY <1>2, BelowIsInside DEF Inside
<1>13. ASSUME NEW c, NEW i, NEW x, PointsTo(s, c, i, x), x \in gone, c \notin gone
       PROVE  \E p \in P : p[1] = c /\ i \in CopiedMembers(s, p)
  <2>1. PICK z \in Replaced(s, P) : x \in Below(s, z)
    BY <1>13
  <2>2. c \notin Below(s, z) /\ z \in DOMAIN s
    BY <1>2, <1>13
  <2>3. x = z
    BY <1>13, <2>1, <2>2, ParentsAreBelow
  <2>4. PICK p, k : p \in P /\ k \in CopiedMembers(s, p) /\ PointsTo(s, p[1], k, x)
    BY <1>1, <2>3
  <2>5. p[1] = c /\ k = i
    BY <1>13, <2>4 DEF Solid
  <2>6. QED
    BY <2>4, <2>5
<1>14. ASSUME NEW x \in gone PROVE \E c, i : PointsTo(s, c, i, x)
  <2>1. PICK z \in Replaced(s, P) : x \in Below(s, z)
    OBVIOUS
  <2>2. CASE x = z
    BY <1>1, <2>2
  <2>3. CASE x # z
    BY <1>2, <2>1, <2>3, BelowHasParents
  <2>4. QED
    BY <2>2, <2>3
<1>15. \A p \in P : \A k, y : Copies(s, p, k, y) => y \in C
  BY <1>1, <1>2, BelowHasTop
<1>16. QED
  BY <1>3, <1>4, <1>5, <1>11, <1>12, <1>13, <1>14, <1>15

\* t is what merge_docs makes of s, as far as the contents go.
MergedContents(s, t, P, gone, C, place) ==
  /\ DOMAIN t = (DOMAIN s \ gone) \cup Range(place)
  /\ \A x \in DOMAIN s \ gone : (\A p \in P : p[1] # x) => t[x] = s[x]
  /\ \A v \in C : t[place[v]] = Relinked(s[v], place)
  /\ \A p \in P : t[p[1]] = Object(Into(s, p, place))

LEMMA MergeDocsContents ==
  ASSUME NEW s, NEW P, NEW gone, NEW C, NEW place, NEW t,
         \A p \in P : p[1] \in DOMAIN s /\ p[1] \notin gone,
         \A p, q \in P : p[1] = q[1] => p = q,
         C \subseteq DOMAIN s, C \cap gone = {},
         place \in [C -> Nat], \A v \in C : place[v] \notin DOMAIN s \ gone,
         \A v, w \in C : place[v] = place[w] => v = w,
         t = LET copied == Copied(Freed(s, gone), place)
                 From(x) == {p \in P : p[1] = x}
             IN  [x \in DOMAIN copied |->
                    IF From(x) = {} THEN copied[x]
                    ELSE Object(Into(s, CHOOSE p \in From(x) : TRUE, place))]
  PROVE  MergedContents(s, t, P, gone, C, place)
<1> DEFINE kept == Freed(s, gone)
           copied == Copied(kept, place)
           From(x) == {p \in P : p[1] = x}
<1>1. DOMAIN kept = DOMAIN s \ gone /\ \A x \in DOMAIN kept : kept[x] = s[x]
  BY DEF Freed
<1> HIDE DEF kept
<1>2. DOMAIN place = C /\ \A x : x \in Range(place) <=> \E v \in C : x = place[v]
  BY DEF Range
<1>3. /\ DOMAIN copied = DOMAIN kept \cup Range(place)
      /\ \A x \in DOMAIN kept : x \notin Range(place) => copied[x] = kept[x]
      /\ \A x \in Range(place) :
           copied[x] = Relinked(kept[CHOOSE v \in C : place[v] = x], place)
  BY <1>2 DEF Copied
<1>4. \A x \in DOMAIN kept : x \notin Range(place)
  BY <1>1, <1>2
<1>5. t = [x \in DOMAIN copied |->
             IF From(x) = {} THEN copied[x]
             ELSE Object(Into(s, CHOOSE p \in From(x) : TRUE, place))]
  BY DEF kept
<1> HIDE DEF copied
<1>6. ASSUME NEW v \in C
      PROVE  copied[place[v]] = Relinked(s[v], place)
  <2>1. (CHOOSE w \in C : place[w] = place[v]) = v
    OBVIOUS
  <2>2. kept[v] = s[v] /\ place[v] \in Range(place)
    BY <1>1, <1>2
  <2>3. QED
    BY <1>3, <2>1, <2>2
<1>7. ASSUME NEW x \in DOMAIN copied, \A p \in P : p[1] # x
      PROVE  t[x] = copied[x]
  <2>1. From(x) = {}
    BY <1>7
  <2>2. QED
    BY <1>5, <2>1
<1>8. ASSUME NEW p \in P
      PROVE  t[p[1]] = Object(Into(s, p, place))
  <2>1. From(p[1]) = {p}
    OBVIOUS
  <2>2. p[1] \in DOMAIN copied
    BY <1>1, <1>3
  <2> HIDE DEF From
  <2>3. From(p[1]) # {} /\ (CHOOSE q \in From(p[1]) : TRUE) = p
    BY <2>1
  <2>4. QED
    BY <1>5, <2>2, <2>3
<1>9. ASSUME NEW v \in C
      PROVE  t[place[v]] = Relinked(s[v], place)
  <2>1. place[v] \in DOMAIN copied /\ \A p \in P : p[1] # place[v]
    BY <1>2, <1>3
  <2>2. QED
    BY <1>6, <1>7, <2>1
<1>10. ASSUME NEW x \in DOMAIN s \ gone, \A p \in P : p[1] # x
       PROVE  t[x] = s[x]
  <2>1. x \in DOMAIN copied /\ copied[x] = s[x]
    BY <1>1, <1>3, <1>4
  <2>2. QED
    BY <1>7, <1>10, <2>1
<1>11. DOMAIN t = (DOMAIN s \ gone) \cup Range(place)
  BY <1>1, <1>3, <1>5
<1>12. QED
  BY <1>8, <1>9, <1>10, <1>11 DEF MergedContents

\* Where a pointer of what merge_docs makes comes from: it was there, or leads to a copy.
Stays(s, gone, c, i, x) == c \notin gone /\ x \notin gone /\ PointsTo(s, c, i, x)

LeadsToCopy(s, P, C, place, c, i, y) ==
  \/ \E v \in C : c = place[v] /\ PointsTo(s, v, i, y)
  \/ \E p \in P : c = p[1] /\ Copies(s, p, i, y)

LEMMA IntoPoints ==
  ASSUME NEW s, Typed(s), NEW p \in Objects(s) \X Objects(s),
         NEW C, CopiesFrom(s, p, C), NEW place, place \in [C -> Nat],
         NEW content, content = Object(Into(s, p, place))
  PROVE  /\ IsContent(content)
         /\ \A i \in DOMAIN Links(content) :
              \/ i \notin CopiedMembers(s, p) /\ PointsTo(s, p[1], i, Links(content)[i])
              \/ \E y \in C : Copies(s, p, i, y) /\ Links(content)[i] = place[y]
<1> DEFINE K == CopiedMembers(s, p)
           into == Into(s, p, place)
<1>1. /\ s[p[1]].members \in [DOMAIN s[p[1]].members -> Nat]
      /\ \A k, x : PointsTo(s, p[1], k, x) <=> k \in DOMAIN s[p[1]].members /\ x = s[p[1]].members[k]
      /\ \A k, x : PointsTo(s, p[2], k, x) <=> k \in DOMAIN s[p[2]].members /\ x = s[p[2]].members[k]
  BY PairsAreMade, ObjectLinks
<1>2. /\ DOMAIN into = DOMAIN s[p[1]].members \cup K
      /\ \A i \in K : into[i] = place[s[p[2]].members[i]]
      /\ \A i \in DOMAIN into \ K : into[i] = s[p[1]].members[i]
  BY DEF Into, Overlaid
<1>3. \A i \in K : Copies(s, p, i, s[p[2]].members[i])
  BY <1>1 DEF Copies, CopiedMembers
<1> USE DEF CopiesFrom
<1> HIDE DEF into, K
<1>4. into \in [DOMAIN into -> Nat]
  <2>1. \A i \in DOMAIN into : into[i] \in Nat
    BY <1>1, <1>2, <1>3
  <2>2. into = [i \in DOMAIN into |-> into[i]]
    BY DEF into, Into, Overlaid
  <2>3. QED
    BY <2>1, <2>2
<1>5. Links(Object(into)) = into /\ IsContent(Object(into))
  BY <1>4, LinksOfContainers, ContentsOfContainers
<1>6. ASSUME NEW i \in DOMAIN into
      PROVE  \/ i \notin K /\ PointsTo(s, p[1], i, into[i])
             \/ \E y \in C : Copies(s, p, i, y) /\ into[i] = place[y]
  BY <1>1, <1>2, <1>3
<1>7. QED
  BY <1>5, <1>6 DEF into, K

\* No object is merged into twice or freed, and no pointer leads to what is freed but those
\* that are replaced.
LosesOnlyCopied(s, P, gone) ==
  /\ \A p, q \in P : p[1] = q[1] => p = q
  /\ \A p \in P : p[1] \notin gone
  /\ \A c, i, x : PointsTo(s, c, i, x) /\ x \in gone /\ c \notin gone =>
       \E p \in P : p[1] = c /\ i \in CopiedMembers(s, p)

LEMMA MergedPoints ==
  ASSUME NEW s, Solid(s), Typed(s), NEW P, P \subseteq Objects(s) \X Objects(s),
         NEW gone, LosesOnlyCopied(s, P, gone),
         NEW C, CopiesAll(s, P, C), NEW place, place \in [C -> Nat],
         NEW t, MergedContents(s, t, P, gone, C, place)
  PROVE  /\ Typed(t)
         /\ \A c, i, x : PointsTo(t, c, i, x) =>
              \/ Stays(s, gone, c, i, x)
              \/ \E y \in C : x = place[y] /\ LeadsToCopy(s, P, C, place, c, i, y)
<1> DEFINE Known(c) ==
      /\ IsContent(t[c])
      /\ \A i, x : PointsTo(t, c, i, x) =>
           \/ Stays(s, gone, c, i, x)
           \/ \E y \in C : x = place[y] /\ LeadsToCopy(s, P, C, place, c, i, y)
<1>1. /\ DOMAIN t = (DOMAIN s \ gone) \cup Range(place)
      /\ \A x \in DOMAIN s \ gone : (\A p \in P : p[1] # x) => t[x] = s[x]
      /\ \A v \in C : t[place[v]] = Relinked(s[v], place)
      /\ \A p \in P : t[p[1]] = Object(Into(s, p, place))
  BY DEF MergedContents
<1>2. \A x \in DOMAIN s : IsContent(s[x])
  BY DEF Typed
<1> USE DEF CopiesAll
<1>3. ASSUME NEW c \in DOMAIN s \ gone, \A p \in P : p[1] # c
      PROVE  Known(c)
  <2>1. t[c] = s[c]
    BY <1>1, <1>3
  <2>2. \A i, x : PointsTo(t, c, i, x) => Stays(s, gone, c, i, x)
    BY <1>3, <2>1 DEF PointsTo, Stays, LosesOnlyCopied
  <2>3. QED
    BY <1>2, <2>1, <2>2
<1>4. ASSUME NEW v \in C
      PROVE  Known(place[v])
  <2> DEFINE content == s[v]
  <2>1. v \in DOMAIN s /\ IsContent(content) /\ t[place[v]] = Relinked(content, place)
    BY <1>1, <1>2
  <2>2. \A i \in DOMAIN Links(content) : Links(content)[i] \in C /\ PointsTo(s, v, i, Links(content)[i])
    BY <2>1 DEF Inside, PointsTo
  <2> HIDE DEF content
  <2>3. /\ IsContent(Relinked(content, place))
        /\ DOMAIN Links(Relinked(content, place)) = DOMAIN Links(content)
        /\ \A i \in DOMAIN Links(content) :
             Links(Relinked(content, place))[i] = place[Links(content)[i]]
    BY <2>1, <2>2, RelinkedLinks
  <2>4. ASSUME NEW i, NEW x, PointsTo(t, place[v], i, x)
        PROVE  \E y \in C : x = place[y] /\ LeadsToCopy(s, P, C, place, place[v], i, y)
    <3>1. i \in DOMAIN Links(content) /\ x = place[Links(content)[i]]
      BY <2>1, <2>3, <2>4 DEF PointsTo
    <3>2. QED
      BY <2>2, <3>1 DEF LeadsToCopy
  <2>5. QED
    BY <2>1, <2>3, <2>4
<1>5. ASSUME NEW p \in P
      PROVE  Known(p[1])
  <2>1. PICK content : content = Object(Into(s, p, place)) /\ t[p[1]] = content
    BY <1>1
  <2>2. /\ IsContent(content)
        /\ \A i \in DOMAIN Links(content) :
             \/ i \notin CopiedMembers(s, p) /\ PointsTo(s, p[1], i, Links(content)[i])
             \/ \E y \in C : Copies(s, p, i, y) /\ Links(content)[i] = place[y]
    <3>1. CopiesFrom(s, p, C)
      OBVIOUS
    <3> HIDE DEF CopiesAll
    <3>2. QED
      BY <2>1, <3>1, IntoPoints
  <2>3. ASSUME NEW i, NEW x, PointsTo(t, p[1], i, x)
        PROVE  \/ Stays(s, gone, p[1], i, x)
               \/ \E y \in C : x = place[y] /\ LeadsToCopy(s, P, C, place, p[1], i, y)
    <3>1. i \in DOMAIN Links(content) /\ x = Links(content)[i]
      BY <2>1, <2>3 DEF PointsTo
    <3>2. CASE i \notin CopiedMembers(s, p) /\ PointsTo(s, p[1], i, x)
      <4>1. p[1] \notin gone
        BY DEF LosesOnlyCopied
      <4>2. \A q \in P : q[1] = p[1] => q = p
        BY DEF LosesOnlyCopied
      <4>3. x \notin gone
        BY <3>2, <4>1, <4>2 DEF LosesOnlyCopied
      <4>4. QED
        BY <3>2, <4>1, <4>3 DEF Stays
    <3>3. CASE \E y \in C : Copies(s, p, i, y) /\ x = place[y]
      BY <3>3 DEF LeadsToCopy
    <3>4. QED
      BY <2>2, <3>1, <3>2, <3>3
  <2>4. QED
    BY <2>1, <2>2, <2>3
<1>6. \A c \in DOMAIN t : Known(c)
  <2> TAKE c \in DOMAIN t
  <2>1. CASE c \in Range(place)
    <3>1. DOMAIN place = C
      OBVIOUS
    <3>2. PICK v \in C : c = place[v]
      BY <2>1, <3>1 DEF Range
    <3> HIDE DEF Known
    <3>3. QED
      BY <1>4, <3>2
  <2>2. CASE \E p \in P : p[1] = c
    <3> HIDE DEF Known
    <3>1. QED
      BY <1>5, <2>2
  <2>3. CASE c \in DOMAIN s \ gone /\ \A p \in P : p[1] # c
    <3> HIDE DEF Known
    <3>1. QED
      BY <1>3, <2>3
  <2> HIDE DEF Known
  <2>4. QED
    BY <1>1, <2>1, <2>2, <2>3
<1>7. \A c, i, x : PointsTo(t, c, i, x) => c \in DOMAIN t
  BY DEF PointsTo
<1>8. QED
  BY <1>6, <1>7 DEF Typed

\* merge_docs leaves each node with one owner, and the roots where they are.
LEMMA MergeDocsMerges ==
  ASSUME NEW s, Solid(s), Typed(s), NEW n, Root(s, n), NEW m, Root(s, m), n # m,
         m \in Objects(s), \A p \in Merging(s, n, m) : s[p[1]].type = "object"
  PROVE  /\ Solid(MergeDocs(s, n, m)) /\ Typed(MergeDocs(s, n, m))
         /\ \A r : Root(s, r) => Root(MergeDocs(s, n, m), r)
<1> PICK P : P = Merging(s, n, m)
  OBVIOUS
<1> PICK gone : gone = AllBelow(s, Replaced(s, P))
  OBVIOUS
<1> PICK C : C = AllBelow(s, Sources(s, P))
  OBVIOUS
<1> PICK place : place = NewNodes(Freed(s, gone), C)
  OBVIOUS
<1> PICK t : t = MergeDocs(s, n, m)
  OBVIOUS
<1>1. Pairing(s, P, n, m)
  BY MergingPairs DEF Root
<1>2. P \subseteq Objects(s) \X Objects(s) /\ \A p \in P : p[1] \in DOMAIN s /\ p[2] \in DOMAIN s
  BY <1>1, PairsAreMade DEF Pairing, Objects
<1>3. \A p, q \in P : p[1] = q[1] => p = q
  BY <1>1, PairsApart
<1>4. \A p, q \in P : p[2] = q[2] => p = q
  BY <1>1, PairsApart
<1>5. /\ \A p \in P : p[1] \notin gone /\ p[2] \notin C /\ p[2] \notin gone
      /\ gone \subseteq DOMAIN s /\ C \subseteq DOMAIN s /\ gone \cap C = {}
      /\ Inside(s, C)
      /\ \A c, i, x : PointsTo(s, c, i, x) /\ x \in gone /\ c \notin gone =>
           \E p \in P : p[1] = c /\ i \in CopiedMembers(s, p)
      /\ \A x \in gone : \E c, i : PointsTo(s, c, i, x)
      /\ \A p \in P : CopiesFrom(s, p, C)
  BY <1>1, MergedAreApart
<1>6. /\ place \in [C -> Nat \ {NoNode}]
      /\ \A v \in C : place[v] \notin DOMAIN s \ gone
      /\ \A v, w \in C : place[v] = place[w] => v = w
      /\ IsFiniteSet(C) /\ IsFiniteSet(DOMAIN s \ gone)
  <2>1. DOMAIN Freed(s, gone) = DOMAIN s \ gone
    BY DEF Freed
  <2>2. C \in SUBSET DOMAIN s /\ DOMAIN s \ gone \in SUBSET DOMAIN s /\ IsFiniteSet(DOMAIN s)
    BY <1>5 DEF Solid
  <2>3. IsFiniteSet(C) /\ IsFiniteSet(DOMAIN s \ gone)
    BY <2>2, FS_Subset
  <2>4. QED
    BY <2>1, <2>3, NewNodesAreNew
<1>7. place \in [C -> Nat]
  BY <1>6
<1>8. t = LET copied == Copied(Freed(s, gone), place)
              From(x) == {p \in P : p[1] = x}
          IN  [x \in DOMAIN copied |->
                 IF From(x) = {} THEN copied[x]
                 ELSE Object(Into(s, CHOOSE p \in From(x) : TRUE, place))]
  BY DEF MergeDocs
<1>9. MergedContents(s, t, P, gone, C, place)
  <2>1. \A p \in P : p[1] \in DOMAIN s /\ p[1] \notin gone
    BY <1>2, <1>5
  <2>2. C \subseteq DOMAIN s /\ C \cap gone = {}
    BY <1>5
  <2>3. /\ \A v \in C : place[v] \notin DOMAIN s \ gone
        /\ \A v, w \in C : place[v] = place[w] => v = w
    BY <1>6
  <2>4. QED
    BY <1>3, <1>7, <1>8, <2>1, <2>2, <2>3, MergeDocsContents
<1>10. /\ Typed(t)
       /\ \A c, i, x : PointsTo(t, c, i, x) =>
            \/ Stays(s, gone, c, i, x)
            \/ \E y \in C : x = place[y] /\ LeadsToCopy(s, P, C, place, c, i, y)
  <2>1. CopiesAll(s, P, C)
    BY <1>5 DEF CopiesAll
  <2>2. LosesOnlyCopied(s, P, gone)
    BY <1>3, <1>5 DEF LosesOnlyCopied
  <2>3. P \subseteq Objects(s) \X Objects(s)
    BY <1>2
  <2>4. Solid(s) /\ Typed(s)
    OBVIOUS
  <2> HIDE DEF Pairing
  <2>5. QED
    BY <1>7, <1>9, <2>1, <2>2, <2>3, <2>4, MergedPoints
<1>11. DOMAIN t = (DOMAIN s \ gone) \cup Range(place)
  BY <1>9 DEF MergedContents
<1>12. \A x : x \in Range(place) <=> \E v \in C : x = place[v]
  BY <1>6 DEF Range
<1>13. \A c, i, x : Stays(s, gone, c, i, x) => x \in DOMAIN s \ gone
  BY DEF Stays, Solid
<1>14. \A c, i, x : PointsTo(t, c, i, x) => x \in DOMAIN t
  BY <1>10, <1>11, <1>12, <1>13
<1>15. ASSUME NEW c, NEW d, NEW i, NEW j, NEW y \in C,
              LeadsToCopy(s, P, C, place, c, i, y), LeadsToCopy(s, P, C, place, d, j, y)
       PROVE  c = d /\ i = j
  <2>1. \A v \in C, p \in P : \A k, l : ~ (PointsTo(s, v, k, y) /\ Copies(s, p, l, y))
    BY <1>5 DEF Copies, Solid
  <2>2. \A v, w, k, l : PointsTo(s, v, k, y) /\ PointsTo(s, w, l, y) => v = w /\ k = l
    BY DEF Solid
  <2>3. \A p, q \in P : \A k, l : Copies(s, p, k, y) /\ Copies(s, q, l, y) => p = q /\ k = l
    BY <1>4, <2>2 DEF Copies
  <2>4. CASE \E v \in C : c = place[v] /\ PointsTo(s, v, i, y)
    BY <1>15, <2>1, <2>2, <2>4 DEF LeadsToCopy
  <2>5. CASE \E p \in P : c = p[1] /\ Copies(s, p, i, y)
    BY <1>15, <2>1, <2>3, <2>5 DEF LeadsToCopy
  <2>6. QED
    BY <1>15, <2>4, <2>5 DEF LeadsToCopy
<1>16. ASSUME NEW c, NEW d, NEW i, NEW j, NEW x, PointsTo(t, c, i, x), PointsTo(t, d, j, x)
       PROVE  c = d /\ i = j
  <2>1. CASE x \in DOMAIN s \ gone
    <3>1. Stays(s, gone, c, i, x) /\ Stays(s, gone, d, j, x)
      BY <1>6, <1>10, <1>16, <2>1
    <3>2. QED
      BY <3>1 DEF Stays, Solid
  <2>2. CASE x \notin DOMAIN s \ gone
    <3>1. PICK y \in C : x = place[y] /\ LeadsToCopy(s, P, C, place, c, i, y)
      BY <1>10, <1>13, <1>16, <2>2
    <3>2. PICK z \in C : x = place[z] /\ LeadsToCopy(s, P, C, place, d, j, z)
      BY <1>10, <1>13, <1>16, <2>2
    <3>3. y = z
      <4>1. y \in C /\ z \in C /\ place[y] = place[z]
        BY <3>1, <3>2
      <4>2. \A v, w \in C : place[v] = place[w] => v = w
        BY <1>6
      <4>3. QED
        BY <4>1, <4>2
    <3>4. QED
      BY <1>15, <3>1, <3>2, <3>3
  <2>3. QED
    BY <2>1, <2>2
<1>17. IsFiniteSet(DOMAIN t) /\ DOMAIN t \subseteq Nat \ {NoNode}
  <2>1. IsFiniteSet(Range(place))
    <3>1. place \in [C -> Range(place)] /\ \A x \in Range(place) : \E v \in C : place[v] = x
      BY <1>6, <1>12
    <3>2. place \in Surjection(C, Range(place))
      BY <3>1 DEF Surjection
    <3>3. QED
      BY <1>6, <3>2, FS_Surjection
  <2>2. IsFiniteSet(DOMAIN t)
    <3>1. IsFiniteSet((DOMAIN s \ gone) \cup Range(place))
      BY <1>6, <2>1, FS_Union
    <3>2. QED
      BY <1>11, <3>1
  <2>3. \A x \in DOMAIN t : x \in Nat \ {NoNode}
    BY <1>6, <1>11, <1>12 DEF Solid
  <2>4. QED
    BY <2>2, <2>3
<1>18. Solid(t)
  BY <1>14, <1>16, <1>17 DEF Solid
<1>19. \A r : Root(s, r) => Root(t, r)
  <2> SUFFICES ASSUME NEW r, Root(s, r) PROVE Root(t, r)
    OBVIOUS
  <2>1. r \in DOMAIN s \ gone
    BY <1>5 DEF Root
  <2>2. \A c, i : ~ PointsTo(t, c, i, r)
    BY <1>6, <1>10, <2>1 DEF Stays, Root
  <2>3. QED
    BY <1>11, <2>1, <2>2 DEF Root
<1>20. QED
  BY <1>10, <1>18, <1>19

LEMMA UpdateNodeOwns ==
  ASSUME Owns(heap, priv), NEW h \in Handles, NEW g \in Handles, UpdateNode(h, g)
  PROVE  Owns(heap', priv')
<1> PICK s : s = heap
  OBVIOUS
<1> PICK n : n = priv[h]
  OBVIOUS
<1> PICK m : m = priv[g]
  OBVIOUS
<1>1. /\ Root(s, n) /\ Root(s, m) /\ n # m /\ Solid(s) /\ Typed(s)
      /\ s[m].type = "object"
      /\ \A f \in Handles : priv[f] # NoNode => Root(s, priv[f])
  BY LiveIsRoot DEF UpdateNode, IsObject
<1>2. m \in Objects(s)
  BY <1>1 DEF Objects, Root
<1>3. \A p \in Merging(s, n, m) : s[p[1]].type = "object"
  BY DEF UpdateNode, Mergeable
<1>4. PICK merged \in {s, MergeDocs(s, n, m)} :
        heap' = MakeNode(merged, Null) /\ priv' = [priv EXCEPT ![g] = NewNode(merged)]
  BY DEF UpdateNode
<1>5. Solid(merged) /\ Typed(merged) /\ \A r : Root(s, r) => Root(merged, r)
  <2>1. CASE merged = s
    BY <1>1, <2>1
  <2>2. CASE merged = MergeDocs(s, n, m)
    BY <1>1, <1>2, <1>3, <2>2, MergeDocsMerges
  <2>3. QED
    BY <1>4, <2>1, <2>2
<1>6. QED
  BY <1>1, <1>4, <1>5, OwnersRenew
-----------------------------------------------------------------------------
(***************************************************************************)
(* Parsing.                                                                *)
(***************************************************************************)

\* What Shape is made of: the shape after each event follows from the one before.
LEMMA ShapeUnfolds ==
  ASSUME NEW text
  PROVE  /\ Shape(text, 0) = <<>>
         /\ \A n \in Nat : Shape(text, n + 1) = Reshaped(Shape(text, n), text[n + 1])
<1> DEFINE First == <<>>
           Step(i, v) == Reshaped(v, text[i])
           Fits(f, n) == f[0] = First /\ \A i \in 1 .. n : f[i] = Step(i, f[i - 1])
           F == [n \in Nat |-> CHOOSE f : Fits(f, n)]
           all == [n \in Nat |-> F[n][n]]
           Unfolds(f) == f = [i \in Nat |-> IF i = 0 THEN First ELSE Step(i, f[i - 1])]
           after == CHOOSE f : Unfolds(f)
<1>1. \A n \in Nat : Shape(text, n) = after[n]
  BY DEF Shape
<1> HIDE DEF First, Step
<1>2. \A n \in Nat : \E f : Fits(f, n)
  <2> DEFINE Bad == {n \in Nat : ~ \E f : Fits(f, n)}
  <2>1. SUFFICES ASSUME Bad # {} PROVE FALSE
    OBVIOUS
  <2>2. PICK n \in Bad : \A m \in Bad : n <= m
    <3>1. Bad \subseteq Nat
      OBVIOUS
    <3> HIDE DEF Bad
    <3>2. QED
      BY <2>1, <3>1, LeastNumber
  <2>3. CASE n = 0
    <3>1. Fits([i \in 0 .. 0 |-> First], 0)
      OBVIOUS
    <3>2. QED
      BY <2>3, <3>1
  <2>4. CASE n # 0
    <3>1. n - 1 \in Nat /\ n - 1 \notin Bad
      <4> HIDE DEF Fits
      <4>1. QED
        BY <2>2, <2>4
    <3>2. PICK f : Fits(f, n - 1)
      BY <3>1
    <3> DEFINE e == [i \in 0 .. n |-> IF i = n THEN Step(n, f[n - 1]) ELSE f[i]]
    <3>3. Fits(e, n)
      BY <2>4, <3>1, <3>2
    <3>4. QED
      BY <3>3
  <2>5. QED
    BY <2>3, <2>4
<1>3. \A n \in Nat : Fits(F[n], n)
  <2> HIDE DEF Fits
  <2>1. QED
    BY <1>2
<1> HIDE DEF F
<1>4. ASSUME NEW n \in Nat
      PROVE  F[n + 1][n] = F[n][n]
  <2> DEFINE Bad == {i \in Nat : i <= n /\ F[n + 1][i] # F[n][i]}
  <2>1. SUFFICES ASSUME Bad # {} PROVE FALSE
    OBVIOUS
  <2>2. PICK i \in Bad : \A j \in Bad : i <= j
    <3>1. Bad \subseteq Nat
      OBVIOUS
    <3> HIDE DEF Bad
    <3>2. QED
      BY <2>1, <3>1, LeastNumber
  <2>3. Fits(F[n], n) /\ Fits(F[n + 1], n + 1)
    BY <1>3
  <2>4. i # 0
    BY <2>3
  <2>5. i - 1 \in Nat /\ i - 1 \notin Bad
    BY <2>2, <2>4
  <2>6. F[n + 1][i - 1] = F[n][i - 1]
    BY <2>5
  <2>7. F[n + 1][i] = Step(i, F[n + 1][i - 1]) /\ F[n][i] = Step(i, F[n][i - 1])
    BY <2>3, <2>4
  <2>8. QED
    BY <2>6, <2>7
<1>5. Unfolds(all)
  <2>1. ASSUME NEW i \in Nat, i # 0
        PROVE  all[i] = Step(i, all[i - 1])
    <3>1. i - 1 \in Nat /\ (i - 1) + 1 = i
      BY <2>1
    <3>2. F[i][i - 1] = F[i - 1][i - 1]
      BY <1>4, <3>1
    <3>3. F[i][i] = Step(i, F[i][i - 1])
      BY <1>3, <2>1
    <3>4. QED
      BY <3>1, <3>2, <3>3
  <2>2. all[0] = First
    BY <1>3
  <2>3. QED
    BY <2>1, <2>2
<1>6. Unfolds(after)
  <2> HIDE DEF Unfolds
  <2>1. QED
    BY <1>5
<1> HIDE DEF after
<1>7. after[0] = First
  BY <1>6
<1>8. ASSUME NEW n \in Nat
      PROVE  after[n + 1] = Step(n + 1, after[n])
  <2>1. n + 1 \in Nat /\ n + 1 # 0 /\ (n + 1) - 1 = n
    OBVIOUS
  <2>2. \A j \in Nat : j # 0 => after[j] = Step(j, after[j - 1])
    BY <1>6
  <2>3. after[n + 1] = Step(n + 1, after[(n + 1) - 1])
    BY <2>1, <2>2, Zenon
  <2>4. QED
    BY <2>1, <2>3
<1>9. Shape(text, 0) = <<>>
  BY <1>1, <1>7 DEF First
<1>10. ASSUME NEW n \in Nat
       PROVE  Shape(text, n + 1) = Reshaped(Shape(text, n), text[n + 1])
  <2>1. n + 1 \in Nat /\ Shape(text, n + 1) = after[n + 1] /\ Shape(text, n) = after[n]
    BY <1>1
  <2>2. after[n + 1] = Step(n + 1, after[n])
    BY <1>8
  <2>3. QED
    BY <2>1, <2>2 DEF Step
<1>11. QED
  BY <1>9, <1>10

\* The same of the handler.
LEMMA ParsedUnfolds ==
  ASSUME NEW events
  PROVE  /\ Parsed(events, 0) = Handler(heap, <<>>)
         /\ \A n \in Nat : Parsed(events, n + 1) = Handle(Parsed(events, n), events[n + 1])
<1> DEFINE First == Handler(heap, <<>>)
           Step(i, v) == Handle(v, events[i])
           Fits(f, n) == f[0] = First /\ \A i \in 1 .. n : f[i] = Step(i, f[i - 1])
           F == [n \in Nat |-> CHOOSE f : Fits(f, n)]
           all == [n \in Nat |-> F[n][n]]
           Unfolds(f) == f = [i \in Nat |-> IF i = 0 THEN First ELSE Step(i, f[i - 1])]
           after == CHOOSE f : Unfolds(f)
<1>1. \A n \in Nat : Parsed(events, n) = after[n]
  BY DEF Parsed
<1> HIDE DEF First, Step
<1>2. \A n \in Nat : \E f : Fits(f, n)
  <2> DEFINE Bad == {n \in Nat : ~ \E f : Fits(f, n)}
  <2>1. SUFFICES ASSUME Bad # {} PROVE FALSE
    OBVIOUS
  <2>2. PICK n \in Bad : \A m \in Bad : n <= m
    <3>1. Bad \subseteq Nat
      OBVIOUS
    <3> HIDE DEF Bad
    <3>2. QED
      BY <2>1, <3>1, LeastNumber
  <2>3. CASE n = 0
    <3>1. Fits([i \in 0 .. 0 |-> First], 0)
      OBVIOUS
    <3>2. QED
      BY <2>3, <3>1
  <2>4. CASE n # 0
    <3>1. n - 1 \in Nat /\ n - 1 \notin Bad
      <4> HIDE DEF Fits
      <4>1. QED
        BY <2>2, <2>4
    <3>2. PICK f : Fits(f, n - 1)
      BY <3>1
    <3> DEFINE e == [i \in 0 .. n |-> IF i = n THEN Step(n, f[n - 1]) ELSE f[i]]
    <3>3. Fits(e, n)
      BY <2>4, <3>1, <3>2
    <3>4. QED
      BY <3>3
  <2>5. QED
    BY <2>3, <2>4
<1>3. \A n \in Nat : Fits(F[n], n)
  <2> HIDE DEF Fits
  <2>1. QED
    BY <1>2
<1> HIDE DEF F
<1>4. ASSUME NEW n \in Nat
      PROVE  F[n + 1][n] = F[n][n]
  <2> DEFINE Bad == {i \in Nat : i <= n /\ F[n + 1][i] # F[n][i]}
  <2>1. SUFFICES ASSUME Bad # {} PROVE FALSE
    OBVIOUS
  <2>2. PICK i \in Bad : \A j \in Bad : i <= j
    <3>1. Bad \subseteq Nat
      OBVIOUS
    <3> HIDE DEF Bad
    <3>2. QED
      BY <2>1, <3>1, LeastNumber
  <2>3. Fits(F[n], n) /\ Fits(F[n + 1], n + 1)
    BY <1>3
  <2>4. i # 0
    BY <2>3
  <2>5. i - 1 \in Nat /\ i - 1 \notin Bad
    BY <2>2, <2>4
  <2>6. F[n + 1][i - 1] = F[n][i - 1]
    BY <2>5
  <2>7. F[n + 1][i] = Step(i, F[n + 1][i - 1]) /\ F[n][i] = Step(i, F[n][i - 1])
    BY <2>3, <2>4
  <2>8. QED
    BY <2>6, <2>7
<1>5. Unfolds(all)
  <2>1. ASSUME NEW i \in Nat, i # 0
        PROVE  all[i] = Step(i, all[i - 1])
    <3>1. i - 1 \in Nat /\ (i - 1) + 1 = i
      BY <2>1
    <3>2. F[i][i - 1] = F[i - 1][i - 1]
      BY <1>4, <3>1
    <3>3. F[i][i] = Step(i, F[i][i - 1])
      BY <1>3, <2>1
    <3>4. QED
      BY <3>1, <3>2, <3>3
  <2>2. all[0] = First
    BY <1>3
  <2>3. QED
    BY <2>1, <2>2
<1>6. Unfolds(after)
  <2> HIDE DEF Unfolds
  <2>1. QED
    BY <1>5
<1> HIDE DEF after
<1>7. after[0] = First
  BY <1>6
<1>8. ASSUME NEW n \in Nat
      PROVE  after[n + 1] = Step(n + 1, after[n])
  <2>1. n + 1 \in Nat /\ n + 1 # 0 /\ (n + 1) - 1 = n
    OBVIOUS
  <2>2. \A j \in Nat : j # 0 => after[j] = Step(j, after[j - 1])
    BY <1>6
  <2>3. after[n + 1] = Step(n + 1, after[(n + 1) - 1])
    BY <2>1, <2>2, Zenon
  <2>4. QED
    BY <2>1, <2>3
<1>9. Parsed(events, 0) = Handler(heap, <<>>)
  BY <1>1, <1>7 DEF First
<1>10. ASSUME NEW n \in Nat
       PROVE  Parsed(events, n + 1) = Handle(Parsed(events, n), events[n + 1])
  <2>1. n + 1 \in Nat /\ Parsed(events, n + 1) = after[n + 1] /\ Parsed(events, n) = after[n]
    BY <1>1
  <2>2. after[n + 1] = Step(n + 1, after[n])
    BY <1>8
  <2>3. QED
    BY <2>1, <2>2 DEF Step
<1>11. QED
  BY <1>9, <1>10

\* The pointers of content lead to roots of s other than n, each to another.
Adoptable(s, n, content) ==
  /\ \A i \in DOMAIN Links(content) : Root(s, Links(content)[i]) /\ Links(content)[i] # n
  /\ \A i, j \in DOMAIN Links(content) : Links(content)[i] = Links(content)[j] => i = j

Adopted(s, n, content) == [s EXCEPT ![n] = content]

\* Roots become children of a root that had none.
LEMMA AdoptAdopts ==
  ASSUME NEW s, Solid(s), NEW n, Root(s, n), Links(s[n]) = <<>>,
         NEW content, Adoptable(s, n, content)
  PROVE  LET t == Adopted(s, n, content)
         IN  /\ Solid(t)
             /\ DOMAIN t = DOMAIN s
             /\ \A x \in DOMAIN s : x # n => t[x] = s[x]
             /\ t[n] = content
             /\ \A r : Root(s, r) /\ (\A i \in DOMAIN Links(content) : Links(content)[i] # r) =>
                  Root(t, r)
<1> DEFINE t == [s EXCEPT ![n] = content]
<1>1. n \in DOMAIN s
  BY DEF Root
<1>2. /\ DOMAIN t = DOMAIN s
      /\ \A x \in DOMAIN s : x # n => t[x] = s[x]
      /\ t[n] = content
      /\ \A c, i, m : PointsTo(t, c, i, m) <=>
           \/ c # n /\ PointsTo(s, c, i, m)
           \/ c = n /\ i \in DOMAIN Links(content) /\ m = Links(content)[i]
  BY <1>1, ReplacePoints
<1> HIDE DEF t
<1>3. \A c, i, m : PointsTo(t, c, i, m) => m \in DOMAIN t
  BY <1>2 DEF Adoptable, Solid, Root
<1>4. ASSUME NEW c, NEW d, NEW i, NEW j, NEW m, PointsTo(t, c, i, m), PointsTo(t, d, j, m)
      PROVE  c = d /\ i = j
  <2>1. CASE c # n /\ d # n
    BY <1>2, <1>4, <2>1 DEF Solid
  <2>2. CASE c = n \/ d = n
    BY <1>2, <1>4, <2>2 DEF Adoptable, Root
  <2>3. QED
    BY <2>1, <2>2
<1>5. Solid(t)
  BY <1>2, <1>3, <1>4 DEF Solid
<1>6. ASSUME NEW r, Root(s, r), \A i \in DOMAIN Links(content) : Links(content)[i] # r
      PROVE  Root(t, r)
  <2>1. \A c, i : ~ PointsTo(s, c, i, r)
    BY <1>6 DEF Root
  <2>2. \A c, i : ~ PointsTo(t, c, i, r)
    BY <1>2, <1>6, <2>1
  <2>3. QED
    BY <1>2, <1>6, <2>2 DEF Root
<1>7. t = Adopted(s, n, content)
  BY DEF t, Adopted
<1>8. QED
  BY <1>2, <1>5, <1>6, <1>7

Parts == {"object", "array", "name", "value"}

\* What a node on the stack has where the shape has part.
Fills(content, part) ==
  CASE part = "object" -> content = Object(<<>>)
    [] part = "array" -> content = Array(<<>>)
    [] part = "name" -> content = String(content.name)
    [] OTHER -> IsContent(content)

(***************************************************************************)
(* The heap s and the stack of a parser that has come so far with the heap *)
(* base as to have this shape: what lies on the stack are new roots, and   *)
(* only there are the nodes of names.                                      *)
(***************************************************************************)
OnStack(base, s, stack, shape) ==
  /\ stack \in Seq(Nat) /\ shape \in Seq(Parts) /\ Len(shape) = Len(stack)
  /\ \A j \in 1 .. Len(stack) :
       Root(s, stack[j]) /\ stack[j] \notin DOMAIN base /\ Fills(s[stack[j]], shape[j])
  /\ \A i, j \in 1 .. Len(stack) : stack[i] = stack[j] => i = j

Building(base, s, stack, shape) ==
  /\ Solid(s)
  /\ OnStack(base, s, stack, shape)
  /\ DOMAIN base \subseteq DOMAIN s
  /\ \A r : Root(base, r) => Root(s, r)
  /\ \A x \in DOMAIN s :
       IsContent(s[x]) \/ \E j \in 1 .. Len(stack) : x = stack[j] /\ shape[j] = "name"

LEMMA PartsOfContents ==
  /\ Part(Null) = "value" /\ Part(Scalar) = "value"
  /\ Part(Object(<<>>)) = "object" /\ Part(Array(<<>>)) = "array"
  /\ \A k : Part(String(k)) = "name" /\ String(k).name = k
BY ScalarAssumption DEF Part, Null, Object, Array, String

LEMMA PushedBuilds ==
  ASSUME NEW base, NEW s, NEW stack, NEW shape, Building(base, s, stack, shape),
         NEW content, Links(content) = <<>>, NEW part \in Parts, Fills(content, part),
         IsContent(content) \/ part = "name"
  PROVE  Building(base, MakeNode(s, content), Append(stack, NewNode(s)), Append(shape, part))
<1> DEFINE m == NewNode(s)
           t == MakeNode(s, content)
<1>1. Solid(s)
  BY DEF Building
<1>3. /\ m \notin DOMAIN s
      /\ DOMAIN t = DOMAIN s \cup {m}
      /\ \A x \in DOMAIN s : t[x] = s[x]
      /\ t[m] = content
      /\ Solid(t)
      /\ \A r : Root(t, r) <=> Root(s, r) \/ r = m
  BY <1>1, MakeNodeMakes
<1> HIDE DEF t, m
<1> DEFINE more == Append(stack, m)
           longer == Append(shape, part)
           N == Len(stack)
<1>4. /\ stack \in Seq(Nat) /\ shape \in Seq(Parts) /\ Len(shape) = N /\ N \in Nat
      /\ \A j \in 1 .. N :
           Root(s, stack[j]) /\ stack[j] \notin DOMAIN base /\ Fills(s[stack[j]], shape[j])
      /\ \A i, j \in 1 .. N : stack[i] = stack[j] => i = j
  BY DEF Building, OnStack
<1>5. m \in Nat
  BY <1>3 DEF Solid
<1>6. /\ more \in Seq(Nat) /\ longer \in Seq(Parts) /\ Len(more) = N + 1 /\ Len(longer) = N + 1
      /\ more[N + 1] = m /\ longer[N + 1] = part
      /\ \A j \in 1 .. N : more[j] = stack[j] /\ longer[j] = shape[j]
  BY <1>1, <1>4, <1>5
<1> HIDE DEF more, longer, N
<1>7. \A j \in 1 .. N + 1 : j \in 1 .. N \/ j = N + 1
  BY <1>4
<1>8. \A j \in 1 .. N : stack[j] \in DOMAIN s
  BY <1>4 DEF Root
<1>9. m \notin DOMAIN base
  BY <1>3 DEF Building
<1>10. OnStack(base, t, more, longer)
  <2>1. \A j \in 1 .. N + 1 :
          Root(t, more[j]) /\ more[j] \notin DOMAIN base /\ Fills(t[more[j]], longer[j])
    <3> TAKE j \in 1 .. N + 1
    <3>1. CASE j \in 1 .. N
      <4>1. more[j] = stack[j] /\ longer[j] = shape[j]
        BY <1>6, <3>1
      <4>2. /\ Root(s, stack[j]) /\ stack[j] \notin DOMAIN base
            /\ Fills(s[stack[j]], shape[j]) /\ stack[j] \in DOMAIN s
        BY <1>4, <1>8, <3>1
      <4>3. Root(t, stack[j]) /\ t[stack[j]] = s[stack[j]]
        BY <1>3, <4>2
      <4>4. QED
        BY <4>1, <4>2, <4>3
    <3>2. CASE j = N + 1
      BY <1>3, <1>6, <1>9, <3>2
    <3>3. QED
      BY <1>7, <3>1, <3>2
  <2>2. ASSUME NEW i \in 1 .. N + 1, NEW j \in 1 .. N + 1, more[i] = more[j]
        PROVE  i = j
    <3>1. \A k \in 1 .. N : more[k] # m
      BY <1>3, <1>6, <1>8
    <3>2. CASE i \in 1 .. N /\ j \in 1 .. N
      BY <1>4, <1>6, <2>2, <3>2
    <3>3. CASE i = N + 1 \/ j = N + 1
      BY <1>6, <1>7, <2>2, <3>1, <3>3
    <3>4. QED
      BY <1>7, <3>2, <3>3
  <2>3. QED
    BY <1>6, <2>1, <2>2 DEF OnStack
<1>11. DOMAIN base \subseteq DOMAIN t /\ \A r : Root(base, r) => Root(t, r)
  BY <1>3 DEF Building
<1>12. \A x \in DOMAIN t :
         IsContent(t[x]) \/ \E j \in 1 .. N + 1 : x = more[j] /\ longer[j] = "name"
  <2>1. \A x \in DOMAIN s :
          IsContent(s[x]) \/ \E j \in 1 .. N : x = stack[j] /\ shape[j] = "name"
    BY DEF Building, N
  <2>2. 1 .. N \subseteq 1 .. N + 1 /\ N + 1 \in 1 .. N + 1
    BY <1>4
  <2>3. QED
    BY <1>1, <1>3, <1>6, <2>1, <2>2
<1>13. Building(base, t, more, longer)
  BY <1>3, <1>6, <1>10, <1>11, <1>12 DEF Building
<1>14. QED
  BY <1>13 DEF more, longer, t, m

LEMMA PushBuilds ==
  ASSUME NEW base, NEW s, NEW stack, NEW shape, Building(base, s, stack, shape),
         NEW event, event.kind = "make", Follows(event, shape)
  PROVE  Building(base, MakeNode(s, event.content), Append(stack, NewNode(s)),
                  Reshaped(shape, event))
<1> DEFINE content == event.content
           part == Part(content)
<1>1. content \in {Null, Scalar, Object(<<>>), Array(<<>>)} \/ content = String(content.name)
  BY DEF Follows
<1>2. Reshaped(shape, event) = Append(shape, part)
  BY DEF Reshaped
<1> HIDE DEF content
<1>3. /\ Links(content) = <<>> /\ part \in Parts /\ Fills(content, part)
      /\ IsContent(content) \/ part = "name"
  <2>1. CASE content \in {Null, Scalar}
    BY <2>1, PartsOfContents, LeavesHaveNoLinks, ContentsOfLeaves DEF Fills, Parts
  <2>2. CASE content \in {Object(<<>>), Array(<<>>)}
    BY <2>2, PartsOfContents, LeavesHaveNoLinks, ContentsOfLeaves DEF Fills, Parts
  <2>3. CASE content = String(content.name)
    BY <2>3, PartsOfContents, LeavesHaveNoLinks DEF Fills, Parts
  <2>4. QED
    BY <1>1, <2>1, <2>2, <2>3
<1> HIDE DEF part
<1>4. Building(base, MakeNode(s, content), Append(stack, NewNode(s)), Append(shape, part))
  BY <1>3, PushedBuilds
<1>5. QED
  BY <1>2, <1>4 DEF content

\* u has what s has, without the nodes of names that lie on the stack above start.
NamesFreed(s, u, stack, shape, start) ==
  LET names == {stack[j] : j \in {i \in start + 1 .. Len(stack) : shape[i] = "name"}}
  IN  /\ Solid(u)
      /\ DOMAIN u = DOMAIN s \ names
      /\ \A x \in DOMAIN u : u[x] = s[x]
      /\ \A r : Root(s, r) /\ r \notin names => Root(u, r)

\* The pointers of content lead to values that lie on the stack above start.
Gathers(content, stack, shape, start) ==
  /\ \A i \in DOMAIN Links(content) :
       \E j \in start + 1 .. Len(stack) : shape[j] = "value" /\ Links(content)[i] = stack[j]
  /\ \A i, j \in DOMAIN Links(content) : Links(content)[i] = Links(content)[j] => i = j

\* At the end of a container it takes the values above it.
LEMMA EndBuilds ==
  ASSUME NEW base, NEW s, NEW stack, NEW shape, Building(base, s, stack, shape),
         NEW start \in 1 .. Len(stack), shape[start] \in {"object", "array"},
         NEW u, NamesFreed(s, u, stack, shape, start),
         NEW content, IsContent(content), Gathers(content, stack, shape, start)
  PROVE  Building(base, Adopted(u, stack[start], content), SubSeq(stack, 1, start),
                  Append(SubSeq(shape, 1, start - 1), "value"))
<1> DEFINE n == stack[start]
           t == Adopted(u, n, content)
           N == Len(stack)
           names == {stack[j] : j \in {i \in start + 1 .. N : shape[i] = "name"}}
           under == SubSeq(stack, 1, start)
           parts == Append(SubSeq(shape, 1, start - 1), "value")
<1>1. /\ Solid(s)
      /\ DOMAIN base \subseteq DOMAIN s
      /\ \A r : Root(base, r) => Root(s, r)
      /\ \A x \in DOMAIN s : IsContent(s[x]) \/ \E j \in 1 .. N : x = stack[j] /\ shape[j] = "name"
  BY DEF Building
<1>2. /\ stack \in Seq(Nat) /\ shape \in Seq(Parts) /\ Len(shape) = N /\ N \in Nat
      /\ \A j \in 1 .. N :
           Root(s, stack[j]) /\ stack[j] \notin DOMAIN base /\ Fills(s[stack[j]], shape[j])
      /\ \A i, j \in 1 .. N : stack[i] = stack[j] => i = j
  BY DEF Building, OnStack
<1>3. /\ start \in Nat /\ 1 <= start /\ start <= N
      /\ \A j \in 1 .. start : j \in 1 .. N
      /\ \A j \in start + 1 .. N : j \in 1 .. N /\ j \notin 1 .. start
  BY <1>2
<1>4. /\ Solid(u)
      /\ DOMAIN u = DOMAIN s \ names
      /\ \A x \in DOMAIN u : u[x] = s[x]
      /\ \A r : Root(s, r) /\ r \notin names => Root(u, r)
  BY DEF NamesFreed
<1>5. /\ under \in Seq(Nat) /\ Len(under) = start /\ \A j \in 1 .. start : under[j] = stack[j]
      /\ parts \in Seq(Parts) /\ Len(parts) = start /\ parts[start] = "value"
      /\ \A j \in 1 .. start - 1 : parts[j] = shape[j]
  <2>1. under \in Seq(Nat) /\ Len(under) = start /\ \A j \in 1 .. start : under[j] = stack[j]
    BY <1>2, <1>3
  <2> DEFINE lower == SubSeq(shape, 1, start - 1)
  <2>2. /\ lower \in Seq(Parts) /\ Len(lower) = start - 1
        /\ \A j \in 1 .. start - 1 : lower[j] = shape[j]
    BY <1>2, <1>3
  <2>3. "value" \in Parts
    BY DEF Parts
  <2> HIDE DEF lower
  <2>4. /\ Append(lower, "value") \in Seq(Parts)
        /\ Len(Append(lower, "value")) = start
        /\ Append(lower, "value")[start] = "value"
        /\ \A j \in 1 .. start - 1 : Append(lower, "value")[j] = lower[j]
    BY <1>3, <2>2, <2>3
  <2>5. QED
    BY <2>1, <2>2, <2>4 DEF lower
<1>6. \A j \in 1 .. N : stack[j] \in names <=> j > start /\ shape[j] = "name"
  BY <1>2, <1>3
<1>7. \A x \in names : \E j \in 1 .. N : x = stack[j]
  BY <1>3
<1> HIDE DEF names, N, under, parts
<1>8. \A j \in 1 .. N : j <= start \/ shape[j] = "value" => Root(u, stack[j])
  BY <1>2, <1>3, <1>4, <1>6
<1>9. Root(u, n) /\ n \in DOMAIN u
  BY <1>2, <1>3, <1>8, SMTT(60) DEF Root
<1>10. Links(u[n]) = <<>>
  <2>1. u[n] = s[n] /\ Fills(s[n], shape[start])
    BY <1>2, <1>3, <1>4, <1>9
  <2>2. s[n] \in {Object(<<>>), Array(<<>>)}
    BY <2>1 DEF Fills
  <2>3. QED
    BY <2>1, <2>2, LeavesHaveNoLinks
<1>11. \A i \in DOMAIN Links(content) :
         \E j \in start + 1 .. N : shape[j] = "value" /\ Links(content)[i] = stack[j]
  BY DEF Gathers, N
<1>12. Adoptable(u, n, content)
  <2>1. ASSUME NEW i \in DOMAIN Links(content)
        PROVE  Root(u, Links(content)[i]) /\ Links(content)[i] # n
    <3>1. PICK j \in start + 1 .. N : shape[j] = "value" /\ Links(content)[i] = stack[j]
      BY <1>11
    <3>2. j \in 1 .. N /\ j # start
      BY <1>3
    <3>3. QED
      BY <1>2, <1>3, <1>8, <3>1, <3>2
  <2>2. QED
    BY <2>1 DEF Adoptable, Gathers
<1> HIDE DEF n
<1>13. /\ Solid(t)
       /\ DOMAIN t = DOMAIN u
       /\ \A x \in DOMAIN u : x # n => t[x] = u[x]
       /\ t[n] = content
       /\ \A r : Root(u, r) /\ (\A i \in DOMAIN Links(content) : Links(content)[i] # r) =>
            Root(t, r)
  BY <1>4, <1>9, <1>10, <1>12, AdoptAdopts
<1> HIDE DEF t
<1>14. ASSUME NEW j \in 1 .. start
       PROVE  Root(t, stack[j])
  <2>1. \A i \in DOMAIN Links(content) : Links(content)[i] # stack[j]
    BY <1>2, <1>3, <1>11
  <2>2. Root(u, stack[j])
    BY <1>3, <1>8
  <2>3. QED
    BY <1>13, <2>1, <2>2
<1>15. OnStack(base, t, under, parts)
  <2>1. ASSUME NEW j \in 1 .. start
        PROVE  Root(t, under[j]) /\ under[j] \notin DOMAIN base /\ Fills(t[under[j]], parts[j])
    <3>1. Root(t, under[j]) /\ under[j] \notin DOMAIN base
      BY <1>2, <1>3, <1>5, <1>14
    <3>2. CASE j = start
      <4>1. t[under[j]] = content /\ parts[j] = "value"
        BY <1>5, <1>13, <3>2 DEF n
      <4>2. QED
        BY <3>1, <4>1 DEF Fills
    <3>3. CASE j # start
      <4>1. j \in 1 .. start - 1 /\ j \in 1 .. N
        BY <1>3, <3>3
      <4>2. under[j] = stack[j] /\ parts[j] = shape[j] /\ stack[j] # n
        BY <1>2, <1>3, <1>5, <3>3, <4>1 DEF n
      <4>3. stack[j] \in DOMAIN u
        BY <1>3, <1>8 DEF Root
      <4>4. t[stack[j]] = s[stack[j]]
        BY <1>4, <1>13, <4>2, <4>3
      <4>5. QED
        BY <1>2, <3>1, <4>1, <4>2, <4>4
    <3>4. QED
      BY <3>2, <3>3
  <2>2. \A i, j \in 1 .. start : under[i] = under[j] => i = j
    <3> TAKE i, j \in 1 .. start
    <3>1. under[i] = stack[i] /\ under[j] = stack[j] /\ i \in 1 .. N /\ j \in 1 .. N
      BY <1>3, <1>5
    <3>2. QED
      BY <1>2, <3>1
  <2>3. QED
    BY <1>5, <2>1, <2>2 DEF OnStack
<1>16. \A x \in DOMAIN base : \A j \in 1 .. N : x # stack[j]
  BY <1>2
<1>17. DOMAIN base \subseteq DOMAIN t
  BY <1>1, <1>4, <1>7, <1>13, <1>16
<1>18. ASSUME NEW r, Root(base, r) PROVE Root(t, r)
  <2>1. Root(s, r) /\ r \in DOMAIN base
    BY <1>1, <1>18 DEF Root
  <2>2. Root(u, r)
    BY <1>4, <1>7, <1>16, <2>1
  <2>3. \A i \in DOMAIN Links(content) : Links(content)[i] # r
    BY <1>3, <1>11, <1>16, <2>1
  <2>4. QED
    BY <1>13, <2>2, <2>3
<1>19. ASSUME NEW x \in DOMAIN t
       PROVE  IsContent(t[x]) \/ \E j \in 1 .. start : x = under[j] /\ parts[j] = "name"
  <2>1. CASE x = n
    BY <1>13, <2>1
  <2>2. CASE x # n
    <3>1. t[x] = s[x] /\ x \in DOMAIN s /\ x \notin names
      BY <1>4, <1>13, <2>2
    <3>2. CASE IsContent(s[x])
      BY <3>1, <3>2
    <3>3. CASE \E j \in 1 .. N : x = stack[j] /\ shape[j] = "name"
      <4>1. PICK j \in 1 .. N : x = stack[j] /\ shape[j] = "name"
        BY <3>3
      <4>2. j <= start /\ j # start
        BY <1>3, <1>6, <2>2, <3>1, <4>1 DEF n
      <4>3. j \in 1 .. start - 1 /\ j \in 1 .. start
        BY <1>3, <4>2
      <4>4. QED
        BY <1>5, <4>1, <4>3
    <3>4. QED
      BY <1>1, <3>1, <3>2, <3>3
  <2>3. QED
    BY <2>1, <2>2
<1>20. Building(base, t, under, parts)
  BY <1>5, <1>13, <1>15, <1>17, <1>18, <1>19 DEF Building
<1>21. QED
  BY <1>20 DEF t, n, under, parts

LEMMA EndArrayBuilds ==
  ASSUME NEW base, NEW p, NEW shape, Building(base, p.heap, p.stack, shape),
         NEW event, event.kind = "EndArray", Follows(event, shape)
  PROVE  Building(base, EndArray(p, event.count).heap, EndArray(p, event.count).stack,
                  Reshaped(shape, event))
<1> DEFINE s == p.heap
           stack == p.stack
           count == event.count
           start == Len(stack) - count
           above == SubSeq(stack, start + 1, Len(stack))
           n == stack[start]
           content == Array(above)
<1>1. /\ Solid(s)
      /\ stack \in Seq(Nat) /\ shape \in Seq(Parts) /\ Len(shape) = Len(stack) /\ Len(stack) \in Nat
      /\ \A j \in 1 .. Len(stack) : Root(s, stack[j]) /\ Fills(s[stack[j]], shape[j])
      /\ \A i, j \in 1 .. Len(stack) : stack[i] = stack[j] => i = j
  BY DEF Building, OnStack
<1>2. /\ count \in Nat /\ start > 0 /\ shape[start] = "array"
      /\ \A j \in 1 .. count : shape[start + j] = "value"
  BY <1>1 DEF Follows
<1>3. /\ EndArray(p, count).heap = [s EXCEPT ![n].elements = @ \o above]
      /\ EndArray(p, count).stack = SubSeq(stack, 1, start)
  BY DEF EndArray, Handler, Position
<1>4. Reshaped(shape, event) = Append(SubSeq(shape, 1, start - 1), "value")
  <2>1. Reshaped(shape, event) = Append(SubSeq(shape, 1, Len(shape) - count - 1), "value")
    BY DEF Reshaped
  <2>2. QED
    BY <1>1, <2>1
<1>5. Building(base, s, stack, shape)
  OBVIOUS
<1> HIDE DEF s, stack, count
<1>6. start \in 1 .. Len(stack) /\ start \in Nat
  BY <1>1, <1>2
<1>7. /\ above \in Seq(Nat) /\ DOMAIN above = 1 .. count
      /\ \A j \in 1 .. count : above[j] = stack[start + j] /\ start + j \in start + 1 .. Len(stack)
  <2>1. Len(stack) = start + count
    BY <1>1, <1>2
  <2> HIDE DEF start
  <2>2. start + 1 \in 1 .. Len(stack) + 1
    BY <1>2, <1>6, <2>1
  <2>3. above \in Seq(Nat) /\ Len(above) = count
    BY <1>1, <1>2, <1>6, <2>1, <2>2
  <2>4. \A j \in 1 .. count : above[j] = stack[start + j]
    BY <1>1, <1>2, <1>6, <2>1, <2>2
  <2>5. \A j \in 1 .. count : start + j \in start + 1 .. Len(stack)
    BY <1>2, <1>6, <2>1
  <2>6. QED
    BY <2>3, <2>4, <2>5
<1>8. \A j \in start + 1 .. Len(stack) : shape[j] = "value"
  <2> TAKE j \in start + 1 .. Len(stack)
  <2>1. j - start \in 1 .. count /\ start + (j - start) = j
    BY <1>1, <1>2, <1>6
  <2>2. QED
    BY <1>2, <2>1
<1>9. n \in DOMAIN s /\ s[n] = Array(<<>>)
  BY <1>1, <1>2, <1>6 DEF Fills, Root
<1> HIDE DEF start
<1>10. [s EXCEPT ![n].elements = @ \o above] = Adopted(s, n, content)
  <2>1. s[n].elements = <<>> /\ <<>> \o above = above
    BY <1>7, <1>9 DEF Array
  <2> HIDE DEF above
  <2>2. [s EXCEPT ![n].elements = @ \o above] = [s EXCEPT ![n] = [s[n] EXCEPT !.elements = above]]
    BY <1>9, <2>1
  <2>3. [s[n] EXCEPT !.elements = above] = Array(above)
    <3>1. [Array(<<>>) EXCEPT !.elements = above] = Array(above)
      BY ContentsReplaced
    <3>2. QED
      BY <1>9, <3>1
  <2>4. QED
    BY <2>2, <2>3 DEF Adopted
<1> HIDE DEF above
<1>11. Links(content) = above /\ IsContent(content)
  BY <1>7, LinksOfContainers, ContentsOfContainers
<1>12. NamesFreed(s, s, stack, shape, start)
  <2>1. {stack[j] : j \in {i \in start + 1 .. Len(stack) : shape[i] = "name"}} = {}
    BY <1>8
  <2>2. QED
    BY <1>1, <2>1 DEF NamesFreed
<1>13. Gathers(content, stack, shape, start)
  <2>1. \A i \in 1 .. count : start + i \in 1 .. Len(stack) /\ i \in Int
    BY <1>6, <1>7
  <2>2. \A i, j \in 1 .. count : above[i] = above[j] => i = j
    <3> SUFFICES ASSUME NEW i \in 1 .. count, NEW j \in 1 .. count, above[i] = above[j]
                 PROVE  i = j
      OBVIOUS
    <3>1. start + i = start + j
      BY <1>1, <1>7, <2>1
    <3>2. QED
      BY <1>6, <3>1
  <2>3. \A i \in 1 .. count :
          \E j \in start + 1 .. Len(stack) : shape[j] = "value" /\ above[i] = stack[j]
    BY <1>7, <1>8
  <2>4. QED
    BY <1>7, <1>11, <2>2, <2>3 DEF Gathers
<1> HIDE DEF content
<1>14. Building(base, Adopted(s, stack[start], content), SubSeq(stack, 1, start),
               Append(SubSeq(shape, 1, start - 1), "value"))
  BY <1>2, <1>5, <1>6, <1>11, <1>12, <1>13, EndBuilds
<1>15. QED
  BY <1>3, <1>4, <1>10, <1>14 DEF s, stack, count, n

\* The names and the values above an object alternate.
LEMMA NamesAlternate ==
  ASSUME NEW start \in Nat, NEW count \in Nat, NEW j \in start + 1 .. start + 2 * count
  PROVE  \E i \in 1 .. count : j = start + 2 * i - 1 \/ j = start + 2 * i
<1> DEFINE d == j - start
           i == (d + 1) \div 2
<1>1. d \in Nat /\ 1 <= d /\ d <= 2 * count
  OBVIOUS
<1> HIDE DEF d
<1>2. i \in Nat /\ (d = 2 * i - 1 \/ d = 2 * i)
  BY <1>1
<1>3. i \in 1 .. count
  BY <1>1, <1>2
<1>4. QED
  BY <1>2, <1>3 DEF d

\* For each name above the object, the first of the values that have it.
LEMMA MembersAreAbove ==
  ASSUME NEW p, NEW count \in Nat, NEW start, start = Position(p, 2 * count)
  PROVE  \A k \in DOMAIN MembersAbove(p, count) :
           \E j \in 1 .. count : /\ p.heap[p.stack[start + 2 * j - 1]].name = k
                                 /\ MembersAbove(p, count)[k] = p.stack[start + 2 * j]
<1> DEFINE NameAt(j) == p.heap[p.stack[start + 2 * j - 1]].name
           Having(k) == {j \in 1 .. count : NameAt(j) = k}
           M == MembersAbove(p, count)
<1>1. M = [k \in {NameAt(j) : j \in 1 .. count} |-> p.stack[start + 2 * Min(Having(k))]]
  BY DEF MembersAbove
<1> HIDE DEF NameAt, M
<1> SUFFICES ASSUME NEW k \in DOMAIN M
             PROVE  \E j \in 1 .. count : NameAt(j) = k /\ M[k] = p.stack[start + 2 * j]
  BY DEF NameAt, M
<1>2. k \in {NameAt(j) : j \in 1 .. count} /\ M[k] = p.stack[start + 2 * Min(Having(k))]
  BY <1>1
<1>3. Having(k) # {} /\ Having(k) \subseteq Nat
  BY <1>2
<1>4. Min(Having(k)) \in Having(k)
  <2> HIDE DEF Having
  <2>1. \E x \in Having(k) : \A y \in Having(k) : x <= y
    BY <1>3, LeastNumber
  <2>2. QED
    BY <2>1 DEF Min
<1>5. QED
  BY <1>2, <1>4

LEMMA NamesAboveAreFreed ==
  ASSUME NEW base, NEW s, NEW stack, NEW shape, Building(base, s, stack, shape),
         NEW start \in 1 .. Len(stack), NEW names,
         names = {stack[j] : j \in {i \in start + 1 .. Len(stack) : shape[i] = "name"}}
  PROVE  NamesFreed(s, Freed(s, names), stack, shape, start)
<1>1. /\ Solid(s) /\ Len(stack) \in Nat
      /\ \A j \in 1 .. Len(stack) : Root(s, stack[j])
  BY DEF Building, OnStack
<1>2. \A j \in start + 1 .. Len(stack) : j \in 1 .. Len(stack)
  BY <1>1
<1>3. \A x \in names : Root(s, x)
  BY <1>1, <1>2
<1>4. Inside(s, DOMAIN s \ names)
  BY <1>1, <1>3 DEF Inside, Root, Solid
<1> DEFINE t == Freed(s, names)
<1>5. /\ DOMAIN t = DOMAIN s \ names
      /\ \A x \in DOMAIN t : t[x] = s[x]
      /\ Solid(t)
      /\ \A r : Root(s, r) /\ r \notin names => Root(t, r)
  BY <1>1, <1>4, FreedFrees
<1> HIDE DEF t
<1>6. NamesFreed(s, t, stack, shape, start)
  BY <1>5 DEF NamesFreed
<1>7. QED
  BY <1>6 DEF t

LEMMA EndObjectBuilds ==
  ASSUME NEW base, NEW p, NEW shape, Building(base, p.heap, p.stack, shape),
         NEW event, event.kind = "EndObject", Follows(event, shape)
  PROVE  Building(base, EndObject(p, event.count).heap, EndObject(p, event.count).stack,
                  Reshaped(shape, event))
<1> DEFINE s == p.heap
           stack == p.stack
           count == event.count
           start == Len(stack) - 2 * count
           members == MembersAbove(p, count)
           names == NamesAbove(p, count)
           kept == Freed(s, names)
           n == stack[start]
           links == Overlaid(members, <<>>)
           content == Object(links)
<1>1. /\ Solid(s)
      /\ stack \in Seq(Nat) /\ shape \in Seq(Parts) /\ Len(shape) = Len(stack) /\ Len(stack) \in Nat
      /\ \A j \in 1 .. Len(stack) : Root(s, stack[j]) /\ Fills(s[stack[j]], shape[j])
      /\ \A i, j \in 1 .. Len(stack) : stack[i] = stack[j] => i = j
  BY DEF Building, OnStack
<1>2. /\ count \in Nat /\ start > 0 /\ shape[start] = "object"
      /\ \A j \in 1 .. count : shape[start + 2 * j - 1] = "name" /\ shape[start + 2 * j] = "value"
  BY <1>1 DEF Follows
<1>3. /\ EndObject(p, count).heap = [kept EXCEPT ![n].members = Overlaid(members, @)]
      /\ EndObject(p, count).stack = SubSeq(stack, 1, start)
      /\ names = {stack[start + 2 * j - 1] : j \in 1 .. count}
  BY DEF EndObject, Handler, Position, NamesAbove
<1>4. Reshaped(shape, event) = Append(SubSeq(shape, 1, start - 1), "value")
  <2>1. Reshaped(shape, event) = Append(SubSeq(shape, 1, Len(shape) - 2 * count - 1), "value")
    BY DEF Reshaped
  <2>2. QED
    BY <1>1, <2>1
<1>5. Building(base, s, stack, shape)
  OBVIOUS
<1>6. \A k \in DOMAIN members : \E j \in 1 .. count : members[k] = stack[start + 2 * j]
                                                   /\ s[stack[start + 2 * j - 1]].name = k
  <2>1. start = Position(p, 2 * count)
    BY DEF Position
  <2> HIDE DEF start, members, count
  <2>2. \A k \in DOMAIN MembersAbove(p, count) :
          \E j \in 1 .. count : /\ p.heap[p.stack[start + 2 * j - 1]].name = k
                                /\ MembersAbove(p, count)[k] = p.stack[start + 2 * j]
    BY <1>2, <2>1, MembersAreAbove
  <2>3. QED
    BY <2>2 DEF members
<1> HIDE DEF s, stack, count, members, names, kept
<1>7. start \in 1 .. Len(stack) /\ start \in Nat /\ Len(stack) = start + 2 * count
  <2>1. count \in Nat /\ Len(stack) \in Nat /\ start > 0
    BY <1>1, <1>2
  <2>2. QED
    BY <2>1
<1> HIDE DEF start
<1>8. \A j \in 1 .. count : /\ start + 2 * j - 1 \in start + 1 .. Len(stack)
                            /\ start + 2 * j \in start + 1 .. Len(stack)
  BY <1>2, <1>7
<1>9. \A j \in start + 1 .. Len(stack) : j \in 1 .. Len(stack)
  BY <1>7
<1>10. names = {stack[j] : j \in {i \in start + 1 .. Len(stack) : shape[i] = "name"}}
  <2>1. ASSUME NEW j \in start + 1 .. Len(stack), shape[j] = "name"
        PROVE  \E i \in 1 .. count : j = start + 2 * i - 1
    <3> HIDE DEF start
    <3>1. PICK i \in 1 .. count : j = start + 2 * i - 1 \/ j = start + 2 * i
      <4>1. j \in start + 1 .. start + 2 * count
        BY <1>7
      <4>2. count \in Nat /\ start \in Nat
        BY <1>2, <1>7
      <4>3. QED
        BY <4>1, <4>2, NamesAlternate
    <3>2. j # start + 2 * i
      BY <1>2, <2>1
    <3>3. QED
      BY <3>1, <3>2
  <2>2. QED
    BY <1>2, <1>3, <1>8, <2>1
<1>11. NamesFreed(s, kept, stack, shape, start)
  BY <1>5, <1>7, <1>10, NamesAboveAreFreed DEF kept
<1>12. n \in DOMAIN kept /\ kept[n] = Object(<<>>)
  <2>1. Root(s, n) /\ s[n] = Object(<<>>)
    BY <1>1, <1>2, <1>7 DEF Fills
  <2>2. \A j \in start + 1 .. Len(stack) : stack[j] # n
    <3> TAKE j \in start + 1 .. Len(stack)
    <3>1. j \in 1 .. Len(stack) /\ j # start
      BY <1>7, <1>9
    <3>2. QED
      BY <1>1, <1>7, <3>1
  <2>3. n \notin names
    BY <1>10, <2>2
  <2>4. QED
    BY <2>1, <2>3 DEF kept, Freed, Root
<1>13. [kept EXCEPT ![n].members = Overlaid(members, @)] = Adopted(kept, n, content)
  <2>1. kept[n].members = <<>>
    BY <1>12 DEF Object
  <2> HIDE DEF n
  <2>2. [kept EXCEPT ![n].members = Overlaid(members, @)]
          = [kept EXCEPT ![n] = [kept[n] EXCEPT !.members = links]]
    BY <1>12, <2>1
  <2> HIDE DEF links
  <2>3. [kept[n] EXCEPT !.members = links] = Object(links)
    <3>1. [Object(<<>>) EXCEPT !.members = links] = Object(links)
      BY ContentsReplaced
    <3>2. QED
      BY <1>12, <3>1
  <2>4. QED
    BY <2>2, <2>3 DEF Adopted
<1>14. \A k \in DOMAIN links : k \in DOMAIN members /\ links[k] = members[k]
  <2>1. DOMAIN <<>> = {}
    BY LeavesHaveNoLinks
  <2>2. QED
    BY <2>1 DEF Overlaid
<1>15. links = [k \in DOMAIN links |-> links[k]]
  BY DEF Overlaid
<1> HIDE DEF links
<1>16. ASSUME NEW k \in DOMAIN links
       PROVE  \E j \in 1 .. count : /\ links[k] = stack[start + 2 * j]
                                    /\ s[stack[start + 2 * j - 1]].name = k
  BY <1>6, <1>14
<1>17. Links(content) = links /\ IsContent(content)
  <2>1. \A k \in DOMAIN links : links[k] \in Nat
    <3> TAKE k \in DOMAIN links
    <3>1. PICK j \in 1 .. count : links[k] = stack[start + 2 * j]
      BY <1>16
    <3>2. start + 2 * j \in 1 .. Len(stack)
      BY <1>8, <1>9
    <3>3. QED
      BY <1>1, <3>1, <3>2
  <2>2. links \in [DOMAIN links -> Nat]
    BY <1>15, <2>1
  <2>3. QED
    BY <2>2, LinksOfContainers, ContentsOfContainers
<1>18. Gathers(content, stack, shape, start)
  <2>1. ASSUME NEW k \in DOMAIN links, NEW l \in DOMAIN links, links[k] = links[l]
        PROVE  k = l
    <3>1. PICK i \in 1 .. count : links[k] = stack[start + 2 * i]
                                  /\ s[stack[start + 2 * i - 1]].name = k
      BY <1>16
    <3>2. PICK j \in 1 .. count : links[l] = stack[start + 2 * j]
                                  /\ s[stack[start + 2 * j - 1]].name = l
      BY <1>16
    <3>3. start + 2 * i \in 1 .. Len(stack) /\ start + 2 * j \in 1 .. Len(stack)
      BY <1>8, <1>9
    <3>4. start + 2 * i = start + 2 * j
      BY <1>1, <2>1, <3>1, <3>2, <3>3
    <3>5. i = j
      BY <1>7, <3>4
    <3>6. QED
      BY <3>1, <3>2, <3>5
  <2>2. \A k \in DOMAIN links :
          \E j \in start + 1 .. Len(stack) : shape[j] = "value" /\ links[k] = stack[j]
    <3> TAKE k \in DOMAIN links
    <3>1. PICK j \in 1 .. count : links[k] = stack[start + 2 * j]
      BY <1>16
    <3>2. QED
      BY <1>2, <1>8, <3>1
  <2>3. QED
    BY <1>17, <2>1, <2>2 DEF Gathers
<1> HIDE DEF content
<1>19. shape[start] \in {"object", "array"}
  BY <1>2
<1>20. Building(base, Adopted(kept, stack[start], content), SubSeq(stack, 1, start),
               Append(SubSeq(shape, 1, start - 1), "value"))
  BY <1>5, <1>7, <1>11, <1>17, <1>18, <1>19, EndBuilds
<1>21. QED
  BY <1>3, <1>4, <1>13, <1>20 DEF s, stack, count, n

LEMMA HandleBuilds ==
  ASSUME NEW base, NEW p, NEW shape, Building(base, p.heap, p.stack, shape),
         NEW event, Follows(event, shape)
  PROVE  Building(base, Handle(p, event).heap, Handle(p, event).stack, Reshaped(shape, event))
<1>1. CASE event.kind = "make"
  <2>1. Handle(p, event) = Handler(MakeNode(p.heap, event.content), Append(p.stack, NewNode(p.heap)))
    BY <1>1 DEF Handle, Push
  <2>2. /\ Handle(p, event).heap = MakeNode(p.heap, event.content)
        /\ Handle(p, event).stack = Append(p.stack, NewNode(p.heap))
    BY <2>1 DEF Handler
  <2>3. QED
    BY <1>1, <2>2, PushBuilds
<1>2. CASE event.kind = "EndObject"
  <2>1. Handle(p, event) = EndObject(p, event.count)
    BY <1>2 DEF Handle
  <2>2. QED
    BY <1>2, <2>1, EndObjectBuilds
<1>3. CASE event.kind = "EndArray"
  <2>1. Handle(p, event) = EndArray(p, event.count)
    BY <1>3 DEF Handle
  <2>2. QED
    BY <1>3, <2>1, EndArrayBuilds
<1>4. QED
  BY <1>1, <1>2, <1>3 DEF Follows

\* However far the parser comes, the document it builds is apart from what was there.
LEMMA ParsedBuilds ==
  ASSUME Solid(heap), Typed(heap), NEW text \in Texts, NEW n \in 0 .. Len(text)
  PROVE  Building(heap, Parsed(text, n).heap, Parsed(text, n).stack, Shape(text, n))
<1> DEFINE B(i) == Building(heap, Parsed(text, i).heap, Parsed(text, i).stack, Shape(text, i))
<1>1. Len(text) \in Nat /\ \A i \in 1 .. Len(text) : Follows(text[i], Shape(text, i - 1))
  BY TextsAssumption
<1>2. B(0)
  <2>1. Parsed(text, 0).heap = heap /\ Parsed(text, 0).stack = <<>> /\ Shape(text, 0) = <<>>
    BY ParsedUnfolds, ShapeUnfolds DEF Handler
  <2>2. Building(heap, heap, <<>>, <<>>)
    BY DEF Building, OnStack, Typed
  <2>3. QED
    BY <2>1, <2>2
<1>3. ASSUME NEW i \in Nat, i < Len(text), B(i)
      PROVE  B(i + 1)
  <2>1. Parsed(text, i + 1) = Handle(Parsed(text, i), text[i + 1])
        /\ Shape(text, i + 1) = Reshaped(Shape(text, i), text[i + 1])
    BY ParsedUnfolds, ShapeUnfolds
  <2>2. Follows(text[i + 1], Shape(text, i))
    <3>1. i + 1 \in 1 .. Len(text) /\ (i + 1) - 1 = i
      BY <1>1, <1>3
    <3>2. Follows(text[i + 1], Shape(text, (i + 1) - 1))
      BY <1>1, <3>1
    <3>3. QED
      BY <3>1, <3>2
  <2>3. QED
    BY <1>3, <2>1, <2>2, HandleBuilds
<1> HIDE DEF B
<1>4. \A i \in Nat : i <= Len(text) => B(i)
  <2> DEFINE Bad == {i \in Nat : i <= Len(text) /\ ~ B(i)}
  <2>1. SUFFICES ASSUME Bad # {} PROVE FALSE
    OBVIOUS
  <2>2. PICK i \in Bad : \A j \in Bad : i <= j
    <3>1. Bad \subseteq Nat
      OBVIOUS
    <3> HIDE DEF Bad
    <3>2. QED
      BY <2>1, <3>1, LeastNumber
  <2>3. i # 0
    BY <1>2
  <2>4. i - 1 \in Nat /\ (i - 1) + 1 = i /\ i - 1 < Len(text) /\ B(i - 1)
    BY <1>1, <2>2, <2>3
  <2>5. B((i - 1) + 1)
    BY <1>3, <2>4
  <2>6. QED
    BY <2>4, <2>5
<1>5. B(n)
  BY <1>1, <1>4
<1>6. QED
  BY <1>5 DEF B

LEMMA FromJsonOwns ==
  ASSUME Owns(heap, priv), NEW h \in Handles, NEW text \in Texts, FromJson(h, text)
  PROVE  Owns(heap', priv')
<1> DEFINE s == Parsed(text, Len(text)).heap
           stack == Parsed(text, Len(text)).stack
           m == stack[1]
           n == priv[h]
           t == DeleteNode(Destroy(s, n), n)
<1>1. /\ Root(heap, n) /\ Solid(heap) /\ Typed(heap)
      /\ \A g \in Handles : g # h => priv[g] # n
      /\ \A g \in Handles : priv[g] # NoNode => Root(heap, priv[g])
  BY LiveIsRoot DEF FromJson
<1>2. Shape(text, Len(text)) = <<"value">> /\ Len(text) \in 0 .. Len(text)
  BY TextsAssumption
<1>3. Building(heap, s, stack, <<"value">>)
  BY <1>1, <1>2, ParsedBuilds
<1>4. heap' = t /\ priv' = [priv EXCEPT ![h] = m]
  BY DEF FromJson
<1> HIDE DEF s, stack
<1>5. /\ Solid(s)
      /\ \A r : Root(heap, r) => Root(s, r)
      /\ Len(stack) = 1
      /\ Root(s, m) /\ m \notin DOMAIN heap
  BY <1>3 DEF Building, OnStack
<1>6. Typed(s)
  <2>1. \A j \in 1 .. Len(stack) : <<"value">>[j] # "name"
    BY <1>5
  <2>2. QED
    BY <1>3, <2>1 DEF Building, Typed
<1> HIDE DEF n, m
<1>7. Root(s, n)
  BY <1>1, <1>5
<1>8. Solid(t) /\ Typed(t) /\ \A r : Root(s, r) /\ r # n => Root(t, r)
  BY <1>5, <1>6, <1>7, FreeFrees
<1> HIDE DEF t
<1>9. Root(t, m) /\ \A g \in Handles : g # h => priv[g] # m
  <2>1. m # n
    BY <1>1, <1>5 DEF Root
  <2>2. m # NoNode
    BY <1>5 DEF Root, Solid
  <2>3. QED
    BY <1>1, <1>5, <1>8, <2>1, <2>2 DEF Root
<1>10. \A g \in Handles : g # h /\ priv[g] # NoNode => Root(t, priv[g])
  BY <1>1, <1>5, <1>8
<1>11. QED
  BY <1>4, <1>8, <1>9, <1>10, OwnersChange

\* What is on the stack is freed with all that is below it, and no more.
LEMMA StackIsFreed ==
  ASSUME NEW base, NEW s, NEW stack, NEW shape, Building(base, s, stack, shape)
  PROVE  LET t == Freed(s, AllBelow(s, Range(stack)))
         IN  Solid(t) /\ Typed(t) /\ \A r : Root(base, r) => Root(t, r)
<1> DEFINE D == Range(stack)
           G == AllBelow(s, D)
           t == Freed(s, G)
<1>1. Solid(s)
  BY DEF Building
<1>2. \A x : x \in D <=> \E j \in 1 .. Len(stack) : x = stack[j]
  BY DEF Building, OnStack, Range
<1>3. \A x \in D : Root(s, x) /\ x \notin DOMAIN base
  BY <1>2 DEF Building, OnStack
<1> HIDE DEF D
<1>4. \A x \in D : x \in DOMAIN s /\ x \in G
  BY <1>1, <1>3, BelowHasTop DEF Root, AllBelow
<1>5. Inside(s, DOMAIN s \ G)
  <2> SUFFICES ASSUME NEW c, NEW i, NEW m, PointsTo(s, c, i, m), c \in DOMAIN s \ G
               PROVE  m \in DOMAIN s \ G
    BY DEF Inside
  <2>1. \A x \in D : c \in DOMAIN s \ Below(s, x)
    BY DEF AllBelow
  <2>2. \A x \in D : m \in DOMAIN s \ Below(s, x)
    <3> TAKE x \in D
    <3>1. Inside(s, DOMAIN s \ Below(s, x))
      BY <1>1, <1>3, OutsideRootIsInside
    <3>2. QED
      BY <2>1, <3>1 DEF Inside
  <2>3. m \in DOMAIN s
    BY <1>1 DEF Solid
  <2>4. QED
    BY <2>2, <2>3 DEF AllBelow
<1> HIDE DEF G
<1>6. /\ DOMAIN t = DOMAIN s \ G
      /\ \A x \in DOMAIN t : t[x] = s[x]
      /\ Solid(t)
      /\ \A r : Root(s, r) /\ r \notin G => Root(t, r)
  BY <1>1, <1>5, FreedFrees
<1> HIDE DEF t
<1>7. Typed(t)
  <2>1. \A x \in DOMAIN s : IsContent(s[x]) \/ \E j \in 1 .. Len(stack) : x = stack[j]
    BY DEF Building
  <2>2. \A x \in DOMAIN t : IsContent(t[x])
    BY <1>2, <1>4, <1>6, <2>1
  <2>3. QED
    BY <2>2 DEF Typed
<1>8. ASSUME NEW r, Root(base, r) PROVE Root(t, r)
  <2>1. Root(s, r) /\ r \in DOMAIN base
    BY <1>8 DEF Building, Root
  <2>2. r \notin G
    <3> SUFFICES ASSUME NEW x \in D, r \in Below(s, x) PROVE FALSE
      BY DEF G, AllBelow
    <3>1. r # x
      BY <1>3, <2>1
    <3>2. QED
      BY <1>1, <1>4, <2>1, <3>1, RootsAreNotBelow
  <2>3. QED
    BY <1>6, <2>1, <2>2
<1>9. QED
  BY <1>6, <1>7, <1>8 DEF t, G, D

LEMMA FromJsonFailsOwns ==
  ASSUME Owns(heap, priv), NEW h \in Handles, NEW text \in Texts, FromJsonFails(h, text)
  PROVE  Owns(heap', priv')
<1>1. /\ Solid(heap) /\ Typed(heap)
      /\ \A g \in Handles : priv[g] # NoNode => Root(heap, priv[g])
  BY LiveIsRoot DEF FromJsonFails
<1>2. PICK n \in 0 .. Len(text) :
        LET p == Parsed(text, n)
            freed == Freed(p.heap, AllBelow(p.heap, Range(p.stack)))
        IN  heap' = MakeNode(freed, Null) /\ priv' = [priv EXCEPT ![h] = NewNode(freed)]
  BY DEF FromJsonFails
<1> DEFINE s == Parsed(text, n).heap
           stack == Parsed(text, n).stack
           t == Freed(s, AllBelow(s, Range(stack)))
<1>3. Building(heap, s, stack, Shape(text, n))
  BY <1>1, ParsedBuilds
<1>4. heap' = MakeNode(t, Null) /\ priv' = [priv EXCEPT ![h] = NewNode(t)]
  BY <1>2
<1> HIDE DEF s, stack
<1>5. Solid(t) /\ Typed(t) /\ \A r : Root(heap, r) => Root(t, r)
  BY <1>3, StackIsFreed
<1> HIDE DEF t
<1>6. QED
  BY <1>1, <1>4, <1>5, OwnersRenew
-----------------------------------------------------------------------------
(***************************************************************************)
(* Every step of the specification.                                        *)
(***************************************************************************)

LEMMA InitOwns == Init => Owns(heap, priv)
<1> SUFFICES ASSUME Init PROVE Owns(heap, priv)
  OBVIOUS
<1>1. DOMAIN heap = {}
  BY LeavesHaveNoLinks DEF Init
<1>2. Solid(heap) /\ Typed(heap)
  BY <1>1, FS_EmptySet DEF Solid, Typed, PointsTo
<1>3. QED
  BY <1>2 DEF Init, Owns, NoNode

LEMMA NextOwns == Owns(heap, priv) /\ [Next]_vars => Owns(heap', priv')
<1> SUFFICES ASSUME Owns(heap, priv), [Next]_vars PROVE Owns(heap', priv')
  OBVIOUS
<1>1. CASE Adding
  BY <1>1, NewOwns, AddScalarMemberOwns, AddMemberOwns, AppendNodeOwns DEF Adding
<1>2. CASE Replacing
  <2>1. ASSUME NEW h \in Handles, Finalize(h) PROVE Owns(heap', priv')
    BY <2>1, FinalizeOwns
  <2>2. ASSUME NEW h \in Handles, NEW content \in {Scalar, Object(<<>>), Array(<<>>)},
               Set(h, content)
        PROVE  Owns(heap', priv')
    BY <2>2, SetOwns
  <2>3. ASSUME NEW h \in Handles, SetNull(h) PROVE Owns(heap', priv')
    BY <2>3, SetNullOwns
  <2>4. ASSUME NEW h \in Handles, NEW k \in Names, RemoveMember(h, k)
        PROVE  Owns(heap', priv')
    BY <2>4, RemoveMemberOwns
  <2>5. ASSUME NEW h \in Handles, NEW i \in 1 .. Cardinality(Alive), RemoveElement(h, i)
        PROVE  Owns(heap', priv')
    BY <2>5, RemoveElementOwns
  <2>6. ASSUME NEW h \in Handles, NEW g \in Handles, NEW m \in Alive, FromView(h, g, m)
        PROVE  Owns(heap', priv')
    BY <2>6, FromViewOwns
  <2>7. ASSUME NEW h \in Handles, NEW g \in Handles, UpdateNode(h, g)
        PROVE  Owns(heap', priv')
    BY <2>7, UpdateNodeOwns
  <2>8. QED
    BY <1>2, <2>1, <2>2, <2>3, <2>4, <2>5, <2>6, <2>7 DEF Replacing
<1>3. CASE Parsing
  BY <1>3, FromJsonOwns, FromJsonFailsOwns DEF Parsing
<1>4. CASE UNCHANGED vars
  BY <1>4 DEF vars
<1>5. QED
  BY <1>1, <1>2, <1>3, <1>4 DEF Next

\* The inductive invariant.
Owned == Owns(heap, priv)

LEMMA DocumentsAreOwned == Spec => []Owned
<1>1. Init => Owned
  BY InitOwns DEF Owned
<1>2. Owned /\ [Next]_vars => Owned'
  BY NextOwns DEF Owned
<1>3. QED
  BY <1>1, <1>2, PTL DEF Spec

\* However documents are built, moved into one another, copied, merged and parsed, what
\* lives is null, a scalar, an object or an array: no node of a name is left of a parse.
THEOREM DomTypeCorrect == Spec => []TypeOK
<1>1. Owned => TypeOK
  BY OwnsIsEnough DEF Owned
<1>2. QED
  BY <1>1, DocumentsAreOwned, PTL

\* Each living node is pointed to from one place: from a container, from a SpinoDocNode, or
\* from none, when it is forgotten; and every pointer leads to a living node.  So the
\* destructors of src/cppsrc/dom_node.cpp free no node twice and read none that is freed.
THEOREM EveryNodeHasOneOwner == Spec => []OneOwner
<1>1. Owned => OneOwner
  BY OwnsIsEnough DEF Owned
<1>2. QED
  BY <1>1, DocumentsAreOwned, PTL

\* t has every node of s, where it was, with the pointers it had.
Keeps(s, t) ==
  /\ DOMAIN s \subseteq DOMAIN t
  /\ \A x \in DOMAIN s : t[x].type = s[x].type
  /\ \A c, i, m : PointsTo(s, c, i, m) => PointsTo(t, c, i, m)

LEMMA KeepsOn ==
  ASSUME NEW s, NEW t, NEW u, Keeps(s, t), Keeps(t, u)
  PROVE  Keeps(s, u)
BY DEF Keeps

LEMMA ExtendsKeeps ==
  ASSUME NEW s, NEW t, Extends(s, t)
  PROVE  Keeps(s, t)
BY DEF Extends, Keeps

LEMMA MakeNodeKeeps ==
  ASSUME NEW s, Solid(s), NEW content, Links(content) = <<>>
  PROVE  Keeps(s, MakeNode(s, content))
<1> DEFINE t == MakeNode(s, content)
           n == NewNode(s)
<1>1. /\ DOMAIN t = DOMAIN s \cup {n}
      /\ \A x \in DOMAIN s : t[x] = s[x]
      /\ \A c, i, m : PointsTo(t, c, i, m) <=> PointsTo(s, c, i, m)
  BY MakeNodeMakes
<1> HIDE DEF t, n
<1>2. Keeps(s, t)
  BY <1>1 DEF Keeps
<1>3. QED
  BY <1>2 DEF t

LEMMA AddingKeeps ==
  ASSUME Owns(heap, priv), Adding
  PROVE  Keeps(heap, heap')
<1>1. Solid(heap) /\ Typed(heap)
  BY DEF Owns
<1>2. ASSUME NEW h \in Handles, New(h) PROVE Keeps(heap, heap')
  BY <1>1, <1>2, MakeNodeKeeps, LeavesHaveNoLinks DEF New
<1>3. ASSUME NEW h \in Handles, NEW k \in Names, AddScalarMember(h, k)
      PROVE  Keeps(heap, heap')
  <2> DEFINE s == MakeNode(heap, Scalar)
             m == NewNode(heap)
             n == priv[h]
  <2>1. Root(heap, n) /\ n \in DOMAIN heap /\ heap[n].type = "object"
    BY <1>3, LiveIsRoot DEF AddScalarMember, IsObject
  <2>2. /\ m \notin DOMAIN heap
        /\ DOMAIN s = DOMAIN heap \cup {m}
        /\ \A x \in DOMAIN heap : s[x] = heap[x]
        /\ s[m] = Scalar
        /\ Solid(s)
        /\ \A r : Root(s, r) <=> Root(heap, r) \/ r = m
    BY <1>1, MakeNodeMakes, LeavesHaveNoLinks
  <2>3. heap' = AddTo(s, n, k, m) /\ Keeps(heap, s)
    BY <1>1, <1>3, MakeNodeKeeps, LeavesHaveNoLinks DEF AddScalarMember
  <2> HIDE DEF s, m, n
  <2>4. Typed(s)
    BY <1>1, <2>2, ContentsOfLeaves DEF Typed
  <2>5. Extends(s, AddTo(s, n, k, m))
    BY <2>1, <2>2, <2>4, AddToAdds
  <2>6. QED
    BY <2>3, <2>5, ExtendsKeeps, KeepsOn
<1>4. ASSUME NEW h \in Handles, NEW g \in Handles, NEW k \in Names, AddMember(h, k, g)
      PROVE  Keeps(heap, heap')
  <2> DEFINE added == AddTo(heap, priv[h], k, priv[g])
  <2>1. Root(heap, priv[g]) /\ priv[h] \in DOMAIN heap /\ heap[priv[h]].type = "object"
    BY <1>4, LiveIsRoot DEF AddMember, IsObject
  <2>2. Solid(added) /\ Extends(heap, added)
    BY <1>1, <2>1, AddToAdds
  <2>3. heap' = MakeNode(added, Null)
    BY <1>4 DEF AddMember
  <2> HIDE DEF added
  <2>4. QED
    BY <2>2, <2>3, MakeNodeKeeps, LeavesHaveNoLinks, ExtendsKeeps, KeepsOn
<1>5. ASSUME NEW h \in Handles, NEW g \in Handles, AppendNode(h, g)
      PROVE  Keeps(heap, heap')
  <2> DEFINE added == PushTo(heap, priv[h], priv[g])
  <2>1. Root(heap, priv[g]) /\ priv[h] \in DOMAIN heap
    BY <1>5, LiveIsRoot DEF AppendNode
  <2>2. Solid(added) /\ Extends(heap, added)
    BY <1>1, <2>1, PushToPushes
  <2>3. heap' = MakeNode(added, Null)
    BY <1>5 DEF AppendNode
  <2> HIDE DEF added
  <2>4. QED
    BY <2>2, <2>3, MakeNodeKeeps, LeavesHaveNoLinks, ExtendsKeeps, KeepsOn
<1>6. QED
  BY <1>2, <1>3, <1>4, <1>5 DEF Adding

\* A client may keep a view of a node while it appends to the document, or moves the
\* document into another: the nodes stay where they are, with what they have.
THEOREM AddingMovesNothing == Spec => ViewsOutliveAdding
<1>1. Owned /\ [Next]_vars =>
        [Adding => \A n \in Alive :
                     /\ n \in Alive'
                     /\ heap'[n].type = heap[n].type
                     /\ \A i \in DOMAIN Links(heap[n]) :
                          /\ i \in DOMAIN Links(heap'[n])
                          /\ Links(heap'[n])[i] = Links(heap[n])[i]]_vars
  <2> SUFFICES ASSUME Owned, Adding, NEW n \in Alive
               PROVE  /\ n \in Alive'
                      /\ heap'[n].type = heap[n].type
                      /\ \A i \in DOMAIN Links(heap[n]) :
                           /\ i \in DOMAIN Links(heap'[n])
                           /\ Links(heap'[n])[i] = Links(heap[n])[i]
    OBVIOUS
  <2>1. Keeps(heap, heap')
    BY AddingKeeps DEF Owned
  <2>2. \A i \in DOMAIN Links(heap[n]) : PointsTo(heap', n, i, Links(heap[n])[i])
    BY <2>1 DEF Keeps, PointsTo, Alive
  <2>3. QED
    BY <2>1, <2>2 DEF Keeps, PointsTo, Alive
<1>2. QED
  BY <1>1, DocumentsAreOwned, PTL DEF Spec, ViewsOutliveAdding
=============================================================================
