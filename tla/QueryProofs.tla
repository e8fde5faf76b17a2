---------------------------- MODULE QueryProofs -----------------------------
(***************************************************************************)
(* The query language for expressions of any depth and any number of       *)
(* documents: what the parser emits leaves the right verdict on the stack, *)
(* and the range of the index it settles on loses no document.             *)
(***************************************************************************)
EXTENDS Query, SequenceTheorems, WellFoundedInduction, TLAPS

\* What can be on the stack, and in the code.
Vals == Values \cup {Invalid}

Inses == {"push", "field", "not", "range", "regex"} \cup Junctions \cup Members \cup Binaries

Instrs == [ins : Inses, arg : Vals \cup {e.field : e \in Expressions}]

\* The instruction i takes the stack s to the stack r.
Runs(i, s, d, r) == Enough(i, s) /\ r = After(i, s, d)

\* The stacks before each instruction of c and after the last one, testing d.
Trace(c, d, t) ==
  /\ t \in [1 .. Len(c) + 1 -> Seq(Vals)]
  /\ t[1] = <<>>
  /\ \A k \in 1 .. Len(c) : Runs(c[k], t[k], d, t[k + 1])

\* The code c leaves the stack s behind.
Leaves(c, d, s) ==
  /\ c \in Seq(Instrs)
  /\ s \in Seq(Vals)
  /\ \E t : Trace(c, d, t) /\ t[Len(c) + 1] = s

\* A verdict is a value.
LEMMA BoolIsValue == \A b : Bool(b) \in Values
BY DEF Bool, Values, Types, NumericTypes

\* The number of operands is a value, and comes back as it was written.
LEMMA NumberIsValue == \A n \in Nat : Number(n) \in Values /\ Number(n).n = n
BY DEF Number, Values, Types, NumericTypes

\* A member of a document, or the invalid value in its place, can be on the stack.
LEMMA MemberIsValue ==
  ASSUME NEW i \in DOMAIN Stored, NEW f
  PROVE  Member(Stored[i], f) \in Vals
BY StoredAssumption DEF Member, Vals
-----------------------------------------------------------------------------
(***************************************************************************)
(* The stack.                                                              *)
(***************************************************************************)

\* Code without instructions leaves the stack empty.
LEMMA NothingRuns ==
  ASSUME NEW d
  PROVE  Leaves(<<>>, d, <<>>)
<1> DEFINE t == [k \in 1 .. 1 |-> <<>>]
<1>1. <<>> \in Seq(Vals) /\ Len(<<>>) = 0
  BY EmptySeq
<1>2. t \in [1 .. Len(<<>>) + 1 -> Seq(Vals)] /\ t[1] = <<>> /\ 1 .. Len(<<>>) = {}
  BY <1>1
<1> HIDE DEF t
<1>3. QED
  BY <1>1, <1>2 DEF Leaves, Trace

\* One more instruction runs on what the code so far has left.
LEMMA RunsOneMore ==
  ASSUME NEW c, NEW i \in Instrs, NEW d, NEW s, Leaves(c, d, s),
         NEW r \in Seq(Vals), Runs(i, s, d, r)
  PROVE  Leaves(Append(c, i), d, r)
<1>1. PICK t : Trace(c, d, t) /\ t[Len(c) + 1] = s
  BY DEF Leaves
<1>0. c \in Seq(Instrs)
  BY DEF Leaves
<1> DEFINE n == Len(c) + 1
           u == [k \in 1 .. n + 1 |-> IF k <= n THEN t[k] ELSE r]
<1>2. /\ Len(c) \in Nat /\ Len(Append(c, i)) = n
      /\ \A k \in 1 .. Len(c) : Append(c, i)[k] = c[k]
      /\ Append(c, i)[n] = i /\ Append(c, i) \in Seq(Instrs)
  BY <1>0, AppendProperties, LenProperties
<1>3. u \in [1 .. n + 1 -> Seq(Vals)] /\ u[1] = <<>> /\ u[n + 1] = r
  BY <1>1, <1>2 DEF Trace
<1>4. ASSUME NEW k \in 1 .. n
      PROVE  Runs(Append(c, i)[k], u[k], d, u[k + 1])
  <2>1. CASE k = n
    BY <1>1, <1>2, <2>1
  <2>2. CASE k # n
    <3>1. k \in 1 .. Len(c) /\ u[k] = t[k] /\ u[k + 1] = t[k + 1]
      BY <1>2, <2>2
    <3>2. QED
      BY <1>1, <1>2, <3>1 DEF Trace
  <2>3. QED
    BY <2>1, <2>2
<1>5. QED
  BY <1>2, <1>3, <1>4 DEF Leaves, Trace

\* Taking from two stacks put together what the upper one holds leaves the lower one.
LEMMA TakeUpper ==
  ASSUME NEW s \in Seq(Vals), NEW u \in Seq(Vals)
  PROVE  /\ s \o u \in Seq(Vals) /\ Len(s \o u) = Len(s) + Len(u)
         /\ Len(s) \in Nat /\ Len(u) \in Nat
         /\ SubSeq(s \o u, 1, Len(s \o u) - Len(u)) = s
         /\ \A k \in 1 .. Len(u) : Top(s \o u, k) = Top(u, k)
<1>1. /\ s \o u \in Seq(Vals) /\ Len(s \o u) = Len(s) + Len(u)
      /\ \A k \in 1 .. Len(s) + Len(u) :
           (s \o u)[k] = IF k <= Len(s) THEN s[k] ELSE u[k - Len(s)]
  BY ConcatProperties
<1>2. Len(s) \in Nat /\ Len(u) \in Nat
  BY LenProperties
<1> DEFINE w == SubSeq(s \o u, 1, Len(s))
<1>3. \A k \in 1 .. Len(s) : (s \o u)[k] = s[k] /\ s[k] \in Vals
  BY <1>1, <1>2, ElementOfSeq
<1>4. w \in Seq(Vals) /\ Len(w) = Len(s) /\ \A k \in 1 .. Len(s) : w[k] = s[k]
  BY <1>2, <1>3, SubSeqProperties
<1>5. w = s
  BY <1>4, SeqEqual
<1>6. Len(s \o u) - Len(u) = Len(s)
  BY <1>1, <1>2
<1>7. ASSUME NEW k \in 1 .. Len(u)
      PROVE  Top(s \o u, k) = Top(u, k)
  BY <1>1, <1>2 DEF Top
<1>8. QED
  BY <1>1, <1>2, <1>5, <1>6, <1>7

\* A literal and a field take nothing.
LEMMA PushTakesNothing ==
  ASSUME NEW i, NEW s, NEW d, i.ins \in {"push", "field"}
  PROVE  /\ Taken(i, s) = 0
         /\ Result(i, s, d) = IF i.ins = "push" THEN i.arg ELSE Member(d, i.arg)
BY DEF Taken, Result, Binaries, Junctions, Members

\* An instruction sees of the stack only what it takes.
LEMMA SeesWhatItTakes ==
  ASSUME NEW i \in Instrs, NEW s \in Seq(Vals), NEW u \in Seq(Vals), NEW d,
         Taken(i, u) = Len(u)
  PROVE  Taken(i, s \o u) = Len(u) /\ Result(i, s \o u, d) = Result(i, u, d)
<1>1. CASE u = <<>>
  <2>1. i.ins \in {"push", "field"} /\ Len(u) = 0
    BY <1>1, EmptySeq DEF Taken, Count, Instrs, Inses, Binaries, Junctions, Members
  <2>2. QED
    BY <2>1, PushTakesNothing
<1>2. CASE u # <<>>
  <2>1. Len(u) \in Nat \ {0} /\ s \o u # <<>>
    BY <1>2, TakeUpper, EmptySeq
  <2>2. \A k \in 1 .. Len(u) : Top(s \o u, k) = Top(u, k)
    BY TakeUpper
  <2>3. Count(s \o u) = Count(u)
    BY <1>2, <2>1, <2>2 DEF Count
  <2>4. Count(u) \in Int
    <3>1. u[Len(u)] \in Vals
      BY <2>1, ElementOfSeq
    <3>2. QED
      BY <1>2, <2>1, <3>1 DEF Count, Top, Vals, Values, Invalid
  <2>5. Taken(i, s \o u) = Taken(i, u)
    BY <2>3 DEF Taken
  <2>6. CASE i.ins \in {"push", "field", "not", "regex", "range"} \cup Binaries
    BY <2>1, <2>2, <2>6 DEF Taken, Result, Binaries, Junctions, Members
  <2>7. CASE i.ins \in Junctions
    <3>1. 1 + Count(u) = Len(u)
      BY <2>7 DEF Taken, Junctions, Binaries, Members
    <3>2. Joined(i.ins, s \o u) = Joined(i.ins, u)
      BY <2>1, <2>2, <2>3, <2>4, <3>1 DEF Joined
    <3>3. QED
      BY <2>5, <2>7, <3>2 DEF Result, Junctions, Binaries
  <2>8. CASE i.ins \in Members
    <3>1. 2 + Count(u) = Len(u)
      BY <2>8 DEF Taken, Junctions, Binaries, Members
    <3>2. Among(s \o u) = Among(u)
      BY <2>1, <2>2, <2>3, <2>4, <3>1 DEF Among
    <3>3. QED
      BY <2>5, <2>8, <3>2 DEF Result, Junctions, Binaries, Members
  <2>9. QED
    BY <2>5, <2>6, <2>7, <2>8 DEF Instrs, Inses
<1>3. QED
  BY <1>1, <1>2

\* It replaces what it takes by its result, whatever lies below.
LEMMA RunsOneOn ==
  ASSUME NEW c, NEW i \in Instrs, NEW d, NEW s \in Seq(Vals), NEW u \in Seq(Vals),
         Leaves(c, d, s \o u), Taken(i, u) = Len(u), Result(i, u, d) \in Vals
  PROVE  Leaves(Append(c, i), d, Append(s, Result(i, u, d)))
<1> DEFINE v == Result(i, u, d)
<1>1. Len(s \o u) >= Len(u) /\ SubSeq(s \o u, 1, Len(s \o u) - Len(u)) = s
  BY TakeUpper
<1>2. Taken(i, s \o u) = Len(u) /\ Result(i, s \o u, d) = v
  BY SeesWhatItTakes
<1>3. After(i, s \o u, d) = Append(s, v) /\ Enough(i, s \o u)
  BY <1>1, <1>2 DEF After, Enough
<1>4. Append(s, v) \in Seq(Vals)
  BY AppendProperties
<1>5. QED
  BY <1>3, <1>4, RunsOneMore DEF Runs

\* A literal puts itself on the stack.
LEMMA PushRuns ==
  ASSUME NEW c, NEW d, NEW s, Leaves(c, d, s), NEW v \in Vals
  PROVE  Push(v) \in Instrs /\ Leaves(Append(c, Push(v)), d, Append(s, v))
<1>1. Push(v) \in Instrs
  BY DEF Push, Instruction, Instrs, Inses
<1>2. s \in Seq(Vals) /\ s \o <<>> = s /\ <<>> \in Seq(Vals) /\ Len(<<>>) = 0
  BY ConcatEmptySeq, EmptySeq DEF Leaves
<1>3. Taken(Push(v), <<>>) = 0 /\ Result(Push(v), <<>>, d) = v
  BY PushTakesNothing DEF Push, Instruction
<1>4. QED
  BY <1>1, <1>2, <1>3, RunsOneOn

\* A field name puts the member of the document on the stack.
LEMMA FieldRuns ==
  ASSUME NEW c, NEW i \in DOMAIN Stored, NEW s, Leaves(c, Stored[i], s), NEW e \in Expressions
  PROVE  LET f == Instruction("field", e.field)
             x == Member(Stored[i], e.field)
         IN  f \in Instrs /\ x \in Vals /\ Leaves(Append(c, f), Stored[i], Append(s, x))
<1> DEFINE f == Instruction("field", e.field)
<1>1. f \in Instrs
  BY DEF Instruction, Instrs, Inses
<1>2. s \in Seq(Vals) /\ s \o <<>> = s /\ <<>> \in Seq(Vals) /\ Len(<<>>) = 0
  BY ConcatEmptySeq, EmptySeq DEF Leaves
<1>3. Taken(f, <<>>) = 0 /\ Result(f, <<>>, Stored[i]) = Member(Stored[i], e.field)
  BY PushTakesNothing DEF Instruction
<1>4. Member(Stored[i], e.field) \in Vals
  BY MemberIsValue
<1>5. QED
  BY <1>1, <1>2, <1>3, <1>4, RunsOneOn

\* Appending to the second of two sequences put together.
LEMMA AppendsToSecond ==
  ASSUME NEW S, NEW c \in Seq(S), NEW b \in Seq(S), NEW z \in S
  PROVE  /\ c \o b \in Seq(S) /\ Append(b, z) \in Seq(S)
         /\ c \o Append(b, z) = Append(c \o b, z)
<1>1. c \o b \in Seq(S) /\ Append(b, z) \in Seq(S) /\ <<z>> \in Seq(S)
  BY ConcatProperties, AppendProperties
<1>2. Append(b, z) = b \o <<z>>
  BY AppendIsConcat
<1>3. Append(c \o b, z) = (c \o b) \o <<z>>
  BY <1>1, AppendIsConcat
<1>4. (c \o b) \o <<z>> = c \o (b \o <<z>>)
  BY <1>1, ConcatAssociative
<1>5. QED
  BY <1>1, <1>2, <1>3, <1>4

\* Going on in a list that is put on top of a stack appends to both.
LEMMA StackGoesOn ==
  ASSUME NEW S, NEW s \in Seq(S), NEW vs \in Seq(S), NEW j \in 1 .. Len(vs)
  PROVE  s \o SubSeq(vs, 1, j) = Append(s \o SubSeq(vs, 1, j - 1), vs[j])
<1>1. PICK l, v : l = SubSeq(vs, 1, j - 1) /\ v = vs[j]
  OBVIOUS
<1>2. v \in S /\ \A k \in 1 .. j - 1 : vs[k] \in S
  <2>1. \A k \in 1 .. Len(vs) : vs[k] \in S
    BY ElementOfSeq
  <2>2. Len(vs) \in Nat
    BY LenProperties
  <2>3. QED
    BY <1>1, <2>1, <2>2
<1>3. l \in Seq(S)
  BY <1>1, <1>2, SubSeqProperties
<1>4. SubSeq(vs, 1, j) = l \o <<v>>
  BY <1>1, SubSeqRecursiveSecond
<1>5. Append(l, v) = l \o <<v>>
  BY <1>2, <1>3, AppendIsConcat
<1>6. s \o Append(l, v) = Append(s \o l, v)
  BY <1>2, <1>3, AppendsToSecond
<1>7. QED
  BY <1>1, <1>4, <1>5, <1>6

\* Literals are pushed in their order.
LEMMA PushesRun ==
  ASSUME NEW c, NEW d, NEW s, Leaves(c, d, s), NEW vs \in Seq(Vals)
  PROVE  Pushes(vs) \in Seq(Instrs) /\ Leaves(c \o Pushes(vs), d, s \o vs)
<1>0. c \in Seq(Instrs) /\ s \in Seq(Vals)
  BY DEF Leaves
<1>1. PICK t : Trace(c, d, t) /\ t[Len(c) + 1] = s
  BY DEF Leaves
<1> PICK n, m, b : n = Len(c) /\ m = Len(vs) /\ b = Pushes(vs)
  OBVIOUS
<1>2. n \in Nat /\ m \in Nat /\ DOMAIN vs = 1 .. m
  BY <1>0, LenProperties
<1>3. ASSUME NEW k \in 1 .. m
      PROVE  vs[k] \in Vals /\ Push(vs[k]) \in Instrs
  BY <1>3, ElementOfSeq DEF Push, Instruction, Instrs, Inses
<1>4. b = [k \in 1 .. m |-> Push(vs[k])]
  BY <1>2 DEF Pushes
<1>5. b \in Seq(Instrs) /\ Len(b) = m
  BY <1>2, <1>3, <1>4
<1>6. /\ Len(c \o b) = n + m
      /\ \A k \in 1 .. n : (c \o b)[k] = c[k]
      /\ \A j \in 1 .. m : (c \o b)[n + j] = Push(vs[j])
  <2>1. /\ Len(c \o b) = n + m
        /\ \A k \in 1 .. n + m : (c \o b)[k] = IF k <= n THEN c[k] ELSE b[k - n]
    <3>1. /\ Len(c \o b) = Len(c) + Len(b)
          /\ \A k \in 1 .. Len(c) + Len(b) :
               (c \o b)[k] = IF k <= Len(c) THEN c[k] ELSE b[k - Len(c)]
      BY <1>0, <1>5, ConcatProperties
    <3>2. QED
      BY <1>5, <3>1
  <2>2. ASSUME NEW j \in 1 .. m
        PROVE  (c \o b)[n + j] = Push(vs[j])
    BY <1>2, <1>4, <2>1
  <2>3. QED
    BY <1>2, <2>1, <2>2
<1> DEFINE low(j) == s \o SubSeq(vs, 1, j)
           u == [k \in 1 .. n + m + 1 |-> IF k <= n THEN t[k] ELSE low(k - n - 1)]
<1>7. ASSUME NEW j \in 0 .. m
      PROVE  SubSeq(vs, 1, j) \in Seq(Vals) /\ low(j) \in Seq(Vals)
  <2>1. SubSeq(vs, 1, j) \in Seq(Vals)
    BY <1>2, <1>3, SubSeqProperties
  <2>2. QED
    BY <1>0, <2>1, ConcatProperties
<1>8. /\ low(0) = s
      /\ low(m) = s \o vs
  BY <1>0, <1>2, SubSeqEmpty, SubSeqFull, ConcatEmptySeq
<1>9. ASSUME NEW j \in 1 .. m
      PROVE  Runs(Push(vs[j]), low(j - 1), d, low(j))
  <2>1. PICK w : w = low(j - 1)
    OBVIOUS
  <2>2. j \in 1 .. Len(vs) /\ j - 1 \in 0 .. m
    BY <1>2
  <2>3. low(j) = Append(w, vs[j]) /\ w \in Seq(Vals)
    BY <1>0, <1>7, <2>1, <2>2, StackGoesOn
  <2>4. Taken(Push(vs[j]), w) = 0 /\ Result(Push(vs[j]), w, d) = vs[j]
    BY PushTakesNothing DEF Push, Instruction
  <2>5. Len(w) \in Nat /\ SubSeq(w, 1, Len(w)) = w
    BY <2>3, LenProperties, SubSeqFull
  <2>6. After(Push(vs[j]), w, d) = Append(w, vs[j]) /\ Enough(Push(vs[j]), w)
    BY <2>4, <2>5 DEF After, Enough
  <2>7. QED
    BY <2>1, <2>3, <2>6 DEF Runs
<1> HIDE DEF low
<1>10. /\ \A k \in 1 .. n : u[k] = t[k]
       /\ \A j \in 0 .. m : u[n + 1 + j] = low(j)
  <2>1. ASSUME NEW j \in 0 .. m
        PROVE  u[n + 1 + j] = low(j)
    <3>1. n + 1 + j \in 1 .. n + m + 1 /\ ~(n + 1 + j <= n) /\ n + 1 + j - n - 1 = j
      BY <1>2
    <3>2. QED
      BY <3>1
  <2>2. QED
    BY <1>2, <2>1
<1>11. u \in [1 .. n + m + 1 -> Seq(Vals)]
  <2>1. ASSUME NEW k \in 1 .. n + m + 1
        PROVE  (IF k <= n THEN t[k] ELSE low(k - n - 1)) \in Seq(Vals)
    <3>1. k <= n => t[k] \in Seq(Vals)
      BY <1>1, <1>2 DEF Trace
    <3>2. ~(k <= n) => k - n - 1 \in 0 .. m
      BY <1>2
    <3>3. QED
      BY <1>7, <3>1, <3>2 DEF low
  <2>2. QED
    BY <2>1
<1> HIDE DEF u
<1>12. u[n + 1] = s /\ u[n + m + 1] = s \o vs
  <2>1. 0 \in 0 .. m /\ m \in 0 .. m /\ n + 1 + 0 = n + 1 /\ n + 1 + m = n + m + 1
    BY <1>2
  <2>2. QED
    BY <1>8, <1>10, <2>1 DEF low
<1>13. u[1] = <<>>
  <2>1. CASE n = 0
    BY <1>1, <1>12, <2>1 DEF Trace
  <2>2. CASE n # 0
    BY <1>1, <1>2, <1>10, <2>2 DEF Trace
  <2>3. QED
    BY <2>1, <2>2
<1>14. ASSUME NEW k \in 1 .. n + m
       PROVE  Runs((c \o b)[k], u[k], d, u[k + 1])
  <2>1. CASE k <= n
    <3>1. k \in 1 .. n /\ (k + 1 \in 1 .. n \/ k + 1 = n + 1)
      BY <1>2, <2>1
    <3>2. u[k] = t[k] /\ u[k + 1] = t[k + 1]
      BY <1>1, <1>10, <1>12, <3>1
    <3>3. QED
      BY <1>1, <1>6, <3>1, <3>2 DEF Trace
  <2>2. CASE ~(k <= n)
    <3> DEFINE j == k - n
    <3>1. j \in 1 .. m /\ j - 1 \in 0 .. m /\ j \in 0 .. m
      BY <1>2, <2>2
    <3>2. k = n + j /\ k = n + 1 + (j - 1) /\ k + 1 = n + 1 + j
      BY <1>2
    <3> HIDE DEF j
    <3>3. (c \o b)[k] = Push(vs[j]) /\ u[k] = low(j - 1) /\ u[k + 1] = low(j)
      BY <1>6, <1>10, <3>1, <3>2
    <3>4. Runs(Push(vs[j]), low(j - 1), d, low(j))
      BY <1>9, <3>1 DEF low
    <3>5. QED
      BY <3>3, <3>4
  <2>3. QED
    BY <2>1, <2>2
<1>15. Trace(c \o b, d, u)
  BY <1>6, <1>11, <1>13, <1>14 DEF Trace
<1>16. c \o b \in Seq(Instrs) /\ s \o vs \in Seq(Vals)
  BY <1>0, <1>5, ConcatProperties
<1>17. QED
  BY <1>5, <1>6, <1>12, <1>15, <1>16 DEF Leaves
-----------------------------------------------------------------------------
(***************************************************************************)
(* Comparisons.                                                            *)
(***************************************************************************)

\* Sequences written out, as they are built.
LEMMA OneAndOne ==
  ASSUME NEW S, NEW x \in S, NEW y \in S
  PROVE  <<x>> \in Seq(S) /\ <<x, y>> \in Seq(S) /\ <<x, y>> = Append(<<x>>, y)
<1> PICK v : v = Append(<<x>>, y)
  OBVIOUS
<1>1. <<x>> \in Seq(S) /\ <<x, y>> \in Seq(S)
  OBVIOUS
<1>2. /\ v \in Seq(S) /\ Len(v) = Len(<<x>>) + 1
      /\ \A k \in 1 .. Len(<<x>>) : v[k] = <<x>>[k]
      /\ v[Len(<<x>>) + 1] = y
  BY <1>1, AppendProperties
<1>3. Len(v) = Len(<<x, y>>) /\ \A k \in 1 .. Len(v) : v[k] = <<x, y>>[k]
  BY <1>2
<1>4. QED
  BY <1>1, <1>2, <1>3, SeqEqual

\* A list of three is one of two and a last one.
LEMMA TwoAndOne ==
  ASSUME NEW S, NEW x \in S, NEW y \in S, NEW z \in S
  PROVE  <<x, y, z>> \in Seq(S) /\ <<x, y, z>> = Append(<<x, y>>, z)
<1> PICK v : v = Append(<<x, y>>, z)
  OBVIOUS
<1>1. <<x, y>> \in Seq(S) /\ <<x, y, z>> \in Seq(S)
  OBVIOUS
<1>2. /\ v \in Seq(S) /\ Len(v) = Len(<<x, y>>) + 1
      /\ \A k \in 1 .. Len(<<x, y>>) : v[k] = <<x, y>>[k]
      /\ v[Len(<<x, y>>) + 1] = z
  BY <1>1, AppendProperties
<1>3. Len(v) = Len(<<x, y, z>>) /\ \A k \in 1 .. Len(v) : v[k] = <<x, y, z>>[k]
  BY <1>2
<1>4. QED
  BY <1>1, <1>2, <1>3, SeqEqual

\* A list of four is one of three and a last one.
LEMMA ThreeAndOne ==
  ASSUME NEW S, NEW w \in S, NEW x \in S, NEW y \in S, NEW z \in S
  PROVE  <<w, x, y, z>> \in Seq(S) /\ <<w, x, y, z>> = Append(<<w, x, y>>, z)
<1> PICK v : v = Append(<<w, x, y>>, z)
  OBVIOUS
<1>1. <<w, x, y>> \in Seq(S) /\ <<w, x, y, z>> \in Seq(S)
  OBVIOUS
<1>2. /\ v \in Seq(S) /\ Len(v) = Len(<<w, x, y>>) + 1
      /\ \A k \in 1 .. Len(<<w, x, y>>) : v[k] = <<w, x, y>>[k]
      /\ v[Len(<<w, x, y>>) + 1] = z
  BY <1>1, AppendProperties
<1>3. Len(v) = Len(<<w, x, y, z>>) /\ \A k \in 1 .. Len(v) : v[k] = <<w, x, y, z>>[k]
  BY <1>2
<1>4. QED
  BY <1>1, <1>2, <1>3, SeqEqual

\* Instructions put behind the code together are put there one by one.
LEMMA AppendsInTurn ==
  ASSUME NEW S, NEW c \in Seq(S), NEW w \in S, NEW x \in S, NEW y \in S, NEW z \in S
  PROVE  /\ c \o <<w>> = Append(c, w)
         /\ c \o <<w, x>> = Append(Append(c, w), x)
         /\ c \o <<w, x, y>> = Append(Append(Append(c, w), x), y)
         /\ c \o <<w, x, y, z>> = Append(Append(Append(Append(c, w), x), y), z)
<1>1. c \o <<w>> = Append(c, w) /\ <<w>> \in Seq(S) /\ <<w, x>> \in Seq(S)
  BY AppendIsConcat, OneAndOne
<1>2. c \o Append(<<w>>, x) = Append(c \o <<w>>, x) /\ <<w, x>> = Append(<<w>>, x)
  BY <1>1, AppendsToSecond, OneAndOne
<1>3. /\ c \o Append(<<w, x>>, y) = Append(c \o <<w, x>>, y)
      /\ <<w, x, y>> = Append(<<w, x>>, y) /\ <<w, x, y>> \in Seq(S)
  BY <1>1, AppendsToSecond, TwoAndOne
<1>4. /\ c \o Append(<<w, x, y>>, z) = Append(c \o <<w, x, y>>, z)
      /\ <<w, x, y, z>> = Append(<<w, x, y>>, z)
  BY <1>3, AppendsToSecond, ThreeAndOne
<1>5. QED
  BY <1>1, <1>2, <1>3, <1>4, Zenon

\* The same for two of them.
LEMMA AppendsTwo ==
  ASSUME NEW S, NEW c \in Seq(S), NEW x \in S, NEW y \in S
  PROVE  c \o <<x, y>> = Append(Append(c, x), y)
BY AppendsInTurn

\* Equality of values is symmetric: the short form has its literal below the field.
LEMMA EqIsSymmetric == \A a, b : Eq(a, b) <=> Eq(b, a)
BY DEF Eq, Comparable

\* An expression with the operator of a comparison has its literals.
LEMMA ComparisonIsOne ==
  ASSUME NEW e \in Expressions, e.op \in Comparisons
  PROVE  IsComparison(e)
BY ExpressionsAssumption DEF Comparisons, Members, Binaries, Junctions

\* An operator is an instruction.
LEMMA DoIsInstruction ==
  ASSUME NEW ins \in Inses
  PROVE  Do(ins) \in Instrs /\ Do(ins).ins = ins /\ Do(ins).arg = Invalid
BY DEF Do, Instruction, Instrs, Vals

\* A comparison of a field with one literal, which lies above it.
LEMMA BinaryRuns ==
  ASSUME NEW c, NEW d, NEW s \in Seq(Vals), NEW x \in Vals, NEW y \in Vals,
         Leaves(c, d, Append(Append(s, x), y)), NEW op \in Binaries
  PROVE  Do(op) \in Instrs /\ Leaves(Append(c, Do(op)), d, Append(s, Bool(Holds(op, x, y))))
<1> DEFINE u == <<x, y>>
<1>1. Do(op) \in Instrs /\ Do(op).ins = op
  BY DoIsInstruction DEF Inses
<1>2. u \in Seq(Vals) /\ Len(u) = 2 /\ Top(u, 1) = y /\ Top(u, 2) = x
  BY DEF Top
<1>3. s \o u = Append(Append(s, x), y)
  BY AppendsInTurn
<1> HIDE DEF u
<1>4. Taken(Do(op), u) = 2 /\ Result(Do(op), u, d) = Bool(Holds(op, x, y))
  BY <1>1, <1>2 DEF Taken, Result, Binaries, Junctions, Members
<1>5. Result(Do(op), u, d) \in Vals
  BY <1>4, BoolIsValue DEF Vals
<1>6. Leaves(Append(c, Do(op)), d, Append(s, Result(Do(op), u, d)))
  BY <1>1, <1>2, <1>3, <1>4, <1>5, RunsOneOn
<1>7. QED
  BY <1>1, <1>4, <1>6

\* $range puts its verdict in place of the field and the two bounds.
LEMMA RangeRuns ==
  ASSUME NEW c, NEW d, NEW s \in Seq(Vals), NEW x \in Vals, NEW y \in Vals, NEW z \in Vals,
         Leaves(c, d, Append(Append(Append(s, x), y), z))
  PROVE  /\ Do("range") \in Instrs
         /\ Leaves(Append(c, Do("range")), d, Append(s, Bool(Between(x, y, z))))
<1> DEFINE u == <<x, y, z>>
<1>1. Do("range") \in Instrs /\ Do("range").ins = "range"
  BY DoIsInstruction DEF Inses
<1>2. u \in Seq(Vals) /\ Len(u) = 3 /\ Top(u, 1) = z /\ Top(u, 2) = y /\ Top(u, 3) = x
  BY DEF Top
<1>3. s \o u = Append(Append(Append(s, x), y), z)
  BY AppendsInTurn
<1> HIDE DEF u
<1>4. Taken(Do("range"), u) = 3 /\ Result(Do("range"), u, d) = Bool(Between(x, y, z))
  BY <1>1, <1>2 DEF Taken, Result, Binaries, Junctions, Members
<1>5. Result(Do("range"), u, d) \in Vals
  BY <1>4, BoolIsValue DEF Vals
<1>6. Leaves(Append(c, Do("range")), d, Append(s, Result(Do("range"), u, d)))
  BY <1>1, <1>2, <1>3, <1>4, <1>5, RunsOneOn
<1>7. QED
  BY <1>1, <1>4, <1>6

\* An instruction that takes one value.
LEMMA UnaryRuns ==
  ASSUME NEW c, NEW d, NEW s \in Seq(Vals), NEW x \in Vals, Leaves(c, d, Append(s, x)),
         NEW i \in Instrs, i.ins \in {"not", "regex"}
  PROVE  Leaves(Append(c, i), d,
                Append(s, Bool(IF i.ins = "not" THEN ~AsBool(x) ELSE Matches(i.arg, x))))
<1> DEFINE u == <<x>>
           b == IF i.ins = "not" THEN ~AsBool(x) ELSE Matches(i.arg, x)
<1>1. u \in Seq(Vals) /\ Len(u) = 1 /\ Top(u, 1) = x
  BY DEF Top
<1>2. s \o u = Append(s, x)
  BY AppendIsConcat
<1> HIDE DEF u
<1>3. Taken(i, u) = 1 /\ Result(i, u, d) = Bool(b)
  BY <1>1 DEF Taken, Result, Binaries, Junctions, Members
<1>4. Result(i, u, d) \in Vals
  BY <1>3, BoolIsValue DEF Vals
<1>5. Leaves(Append(c, i), d, Append(s, Result(i, u, d)))
  BY <1>1, <1>2, <1>3, <1>4, RunsOneOn
<1>6. QED
  BY <1>3, <1>5

\* A field, its literals and their number, put on the stack in turn, are one piece of it.
LEMMA StackedList ==
  ASSUME NEW s \in Seq(Vals), NEW x \in Vals, NEW vs \in Seq(Vals), NEW n \in Vals
  PROVE  Append(Append(s, x) \o vs, n) = s \o (<<x>> \o vs \o <<n>>)
<1> PICK l, w : l = <<x>> /\ w = l \o vs
  OBVIOUS
<1>1. l \in Seq(Vals) /\ Append(s, x) = s \o l
  BY AppendIsConcat
<1>2. w \in Seq(Vals)
  BY <1>1, ConcatProperties
<1>3. (s \o l) \o vs = s \o (l \o vs)
  BY <1>1, ConcatAssociative
<1>4. s \o Append(w, n) = Append(s \o w, n)
  BY <1>2, AppendsToSecond
<1>5. Append(w, n) = w \o <<n>>
  BY <1>2, AppendIsConcat
<1>6. QED
  BY <1>1, <1>3, <1>4, <1>5

\* A sequence put in front of one that starts with a given element.
LEMMA FrontGoesOn ==
  ASSUME NEW S, NEW c \in Seq(S), NEW f \in S, NEW p \in Seq(S)
  PROVE  c \o (<<f>> \o p) = Append(c, f) \o p /\ <<f>> \o p \in Seq(S)
<1>1. PICK o : o = <<f>>
  OBVIOUS
<1>2. o \in Seq(S)
  BY <1>1
<1>3. o \o p \in Seq(S)
  BY <1>2, ConcatProperties
<1>4. (c \o o) \o p = c \o (o \o p)
  BY <1>2, ConcatAssociative
<1>5. c \o o = Append(c, f)
  BY <1>1, AppendIsConcat
<1>6. QED
  BY <1>1, <1>3, <1>4, <1>5

\* A field, the literals of a list and their number.
LEMMA MembersRun ==
  ASSUME NEW c, NEW d, NEW s \in Seq(Vals), NEW x \in Vals,
         NEW vs \in Seq(Vals), NEW op \in Members,
         Leaves(c, d, Append(Append(s, x) \o vs, Number(Len(vs)))),
         NEW b \in BOOLEAN, b <=> ((\E k \in DOMAIN vs : Eq(x, vs[k])) <=> (op = "in"))
  PROVE  Do(op) \in Instrs /\ Leaves(Append(c, Do(op)), d, Append(s, Bool(b)))
<1> PICK n, u : n = Len(vs) /\ u = <<x>> \o vs \o <<Number(Len(vs))>>
  OBVIOUS
<1>1. n \in Nat /\ DOMAIN vs = 1 .. n /\ Number(n) \in Vals /\ Number(n).n = n
  BY LenProperties, NumberIsValue DEF Vals
<1>2. <<x>> \in Seq(Vals) /\ <<Number(n)>> \in Seq(Vals) /\ <<x>> \o vs \in Seq(Vals)
  BY <1>1, ConcatProperties
<1>3. /\ Len(<<x>> \o vs) = 1 + n
      /\ \A k \in 1 .. 1 + n : (<<x>> \o vs)[k] = IF k <= 1 THEN x ELSE vs[k - 1]
  <2>1. /\ Len(<<x>> \o vs) = Len(<<x>>) + Len(vs)
        /\ \A k \in 1 .. Len(<<x>>) + Len(vs) :
             (<<x>> \o vs)[k] = IF k <= Len(<<x>>) THEN <<x>>[k] ELSE vs[k - Len(<<x>>)]
    BY <1>2, ConcatProperties
  <2>2. QED
    BY <1>1, <2>1
<1>4. /\ u \in Seq(Vals) /\ Len(u) = n + 2
      /\ \A k \in 1 .. n + 2 : u[k] = IF k <= n + 1 THEN (<<x>> \o vs)[k] ELSE Number(n)
  <2> PICK w, z : w = <<x>> \o vs /\ z = <<Number(n)>>
    OBVIOUS
  <2>1. /\ w \o z \in Seq(Vals)
        /\ Len(w \o z) = Len(w) + Len(z)
        /\ \A k \in 1 .. Len(w) + Len(z) : (w \o z)[k] = IF k <= Len(w) THEN w[k] ELSE z[k - Len(w)]
    BY <1>2, ConcatProperties
  <2>2. Len(z) = 1 /\ z[1] = Number(n) /\ Len(w) = n + 1 /\ u = w \o z
    BY <1>3
  <2>3. ASSUME NEW k \in 1 .. n + 2
        PROVE  u[k] = IF k <= n + 1 THEN w[k] ELSE Number(n)
    BY <1>1, <2>1, <2>2
  <2>4. QED
    BY <1>1, <2>1, <2>2, <2>3
<1>5. u # <<>> /\ Top(u, 1) = Number(n)
  BY <1>1, <1>4 DEF Top
<1>6. Count(u) = n
  BY <1>1, <1>5 DEF Count
<1>7. Do(op) \in Instrs /\ Do(op).ins = op
  BY DoIsInstruction DEF Inses
<1>8. Taken(Do(op), u) = Len(u)
  BY <1>1, <1>4, <1>6, <1>7 DEF Taken, Binaries, Junctions, Members
<1>9. Top(u, n + 2) = x
  BY <1>1, <1>3, <1>4 DEF Top
<1>10. ASSUME NEW k \in 1 .. n
       PROVE  n + 2 - k \in 2 .. n + 1 /\ Top(u, n + 2 - k) = vs[k]
  BY <1>1, <1>3, <1>4 DEF Top
<1>11. ASSUME NEW k \in 2 .. n + 1
       PROVE  n + 2 - k \in 1 .. n /\ Top(u, k) = vs[n + 2 - k]
  BY <1>1, <1>3, <1>4 DEF Top
<1>12. Among(u) <=> \E k \in DOMAIN vs : Eq(x, vs[k])
  <2>1. ASSUME Among(u)
        PROVE  \E k \in DOMAIN vs : Eq(x, vs[k])
    <3>1. PICK k \in 2 .. n + 1 : Eq(x, Top(u, k))
      BY <1>6, <1>9, <2>1 DEF Among
    <3>2. QED
      BY <1>1, <1>11, <3>1
  <2>2. ASSUME NEW k \in DOMAIN vs, Eq(x, vs[k])
        PROVE  Among(u)
    <3>1. n + 2 - k \in 2 .. n + 1 /\ Eq(x, Top(u, n + 2 - k))
      BY <1>1, <1>10, <2>2
    <3>2. QED
      BY <1>6, <1>9, <3>1 DEF Among
  <2>3. QED
    BY <2>1, <2>2
<1>13. Result(Do(op), u, d) = Bool(b)
  <2>1. Result(Do(op), u, d) = Bool(Among(u) = (op = "in"))
    BY <1>7 DEF Result, Binaries, Junctions, Members
  <2>2. Among(u) \in BOOLEAN
    BY DEF Among
  <2>3. QED
    BY <1>12, <2>1, <2>2 DEF Bool
<1>14. Result(Do(op), u, d) \in Vals
  BY <1>13, BoolIsValue DEF Vals
<1>15. Leaves(c, d, s \o u)
  <2>1. PICK z \in Vals : z = Number(n)
    BY <1>1
  <2>2. Append(Append(s, x) \o vs, z) = s \o (<<x>> \o vs \o <<z>>)
    BY StackedList, Zenon
  <2>3. u = <<x>> \o vs \o <<z>> /\ Number(Len(vs)) = z
    BY <2>1
  <2>4. QED
    BY <2>2, <2>3
<1>16. Leaves(Append(c, Do(op)), d, Append(s, Result(Do(op), u, d)))
  BY <1>4, <1>7, <1>8, <1>14, <1>15, RunsOneOn
<1>17. QED
  BY <1>7, <1>13, <1>16

\* What a comparison says of a document: $regex is never true.
Verdict(e, d) == e.op # "regex" /\ Compares(e, d)

\* What the code of a comparison leaves behind is its verdict.
LEMMA ComparisonRuns ==
  ASSUME NEW c, NEW i \in DOMAIN Stored, NEW s, Leaves(c, Stored[i], s),
         NEW e \in Expressions, e.op \in Comparisons
  PROVE  Leaves(c \o Comparison(e), Stored[i], Append(s, Bool(Verdict(e, Stored[i]))))
<1> PICK d, x, f, y : /\ d = Stored[i] /\ x = Member(d, e.field)
                      /\ f = Instruction("field", e.field) /\ y = Push(e.v)
  OBVIOUS
<1>1. IsComparison(e) /\ c \in Seq(Instrs) /\ s \in Seq(Vals)
  BY ComparisonIsOne DEF Leaves
<1>2. x \in Vals /\ f \in Instrs /\ Leaves(Append(c, f), d, Append(s, x))
  BY FieldRuns
<1>3. CASE e.op \in Binaries
  <2>1. e.v \in Vals
    BY <1>1, <1>3 DEF IsComparison, Vals, Binaries, Members
  <2>2. y \in Instrs /\ Leaves(Append(Append(c, f), y), d, Append(Append(s, x), e.v))
    BY <1>2, <2>1, PushRuns
  <2>3. /\ Do(e.op) \in Instrs
        /\ Leaves(Append(Append(Append(c, f), y), Do(e.op)), d, Append(s, Bool(Holds(e.op, x, e.v))))
    BY <1>1, <1>2, <1>3, <2>1, <2>2, BinaryRuns
  <2>4. Comparison(e) = <<f, y, Do(e.op)>>
    BY <1>3 DEF Comparison, Binaries, Members
  <2>5. c \o Comparison(e) = Append(Append(Append(c, f), y), Do(e.op))
    BY <1>1, <1>2, <2>2, <2>3, <2>4, AppendsInTurn
  <2>6. Bool(Holds(e.op, x, e.v)) = Bool(Verdict(e, d))
    BY <1>3 DEF Verdict, Compares, Binaries, Bool
  <2>7. QED
    BY <2>3, <2>5, <2>6
<1>4. CASE e.op = "is" /\ e.v.type = "bool"
  <2>1. e.v \in Vals
    BY <1>1, <1>4 DEF IsComparison, Vals, Members
  <2>2. y \in Instrs /\ Leaves(Append(Append(c, f), y), d, Append(Append(s, x), e.v))
    BY <1>2, <2>1, PushRuns
  <2>3. /\ Do("eq") \in Instrs
        /\ Leaves(Append(Append(Append(c, f), y), Do("eq")), d, Append(s, Bool(Holds("eq", x, e.v))))
    BY <1>1, <1>2, <2>1, <2>2, BinaryRuns DEF Binaries
  <2>4. Comparison(e) = <<f, y>> \o <<Do("eq")>>
    BY <1>4 DEF Comparison, Members
  <2>5. c \o Comparison(e) = Append(Append(Append(c, f), y), Do("eq"))
    <3>1. <<f, y>> \in Seq(Instrs) /\ <<f, y, Do("eq")>> = Append(<<f, y>>, Do("eq"))
      BY <1>2, <2>2, <2>3, OneAndOne, TwoAndOne
    <3>2. Append(<<f, y>>, Do("eq")) = <<f, y>> \o <<Do("eq")>>
      BY <2>3, <3>1, AppendIsConcat
    <3>3. c \o <<f, y, Do("eq")>> = Append(Append(Append(c, f), y), Do("eq"))
      BY <1>1, <1>2, <2>2, <2>3, AppendsInTurn
    <3>4. QED
      BY <2>4, <3>1, <3>2, <3>3
  <2>6. Holds("eq", x, e.v) = Verdict(e, d)
    BY <1>4 DEF Verdict, Compares, Holds, Eq
  <2>7. QED
    BY <2>3, <2>5, <2>6
<1>5. CASE e.op = "is" /\ e.v.type # "bool"
  <2>1. e.v \in Vals
    BY <1>1, <1>5 DEF IsComparison, Vals, Members
  <2>2. y \in Instrs /\ Leaves(Append(c, y), d, Append(s, e.v))
    BY <2>1, PushRuns
  <2>3. Leaves(Append(Append(c, y), f), d, Append(Append(s, e.v), x))
    BY <2>2, FieldRuns
  <2>4. /\ Do("eq") \in Instrs
        /\ Leaves(Append(Append(Append(c, y), f), Do("eq")), d, Append(s, Bool(Holds("eq", e.v, x))))
    BY <1>1, <1>2, <2>1, <2>3, BinaryRuns DEF Binaries
  <2>5. Comparison(e) = <<y, f>> \o <<Do("eq")>>
    BY <1>5 DEF Comparison, Members
  <2>6. c \o Comparison(e) = Append(Append(Append(c, y), f), Do("eq"))
    <3>1. <<y, f>> \in Seq(Instrs) /\ <<y, f, Do("eq")>> = Append(<<y, f>>, Do("eq"))
      BY <1>2, <2>2, <2>4, OneAndOne, TwoAndOne
    <3>2. Append(<<y, f>>, Do("eq")) = <<y, f>> \o <<Do("eq")>>
      BY <2>4, <3>1, AppendIsConcat
    <3>3. c \o <<y, f, Do("eq")>> = Append(Append(Append(c, y), f), Do("eq"))
      BY <1>1, <1>2, <2>2, <2>4, AppendsInTurn
    <3>4. QED
      BY <2>5, <3>1, <3>2, <3>3
  <2>7. Bool(Holds("eq", e.v, x)) = Bool(Verdict(e, d))
    BY <1>5, EqIsSymmetric DEF Verdict, Compares, Holds, Bool
  <2>8. QED
    BY <2>4, <2>6, <2>7
<1>6. CASE e.op = "range"
  <2> PICK z : z = Push(e.hi)
    OBVIOUS
  <2>1. e.v \in Vals /\ e.hi \in Vals
    BY <1>1, <1>6 DEF IsComparison, Vals, Members
  <2>2. y \in Instrs /\ Leaves(Append(Append(c, f), y), d, Append(Append(s, x), e.v))
    BY <1>2, <2>1, PushRuns
  <2>3. /\ z \in Instrs
        /\ Leaves(Append(Append(Append(c, f), y), z), d, Append(Append(Append(s, x), e.v), e.hi))
    BY <2>1, <2>2, PushRuns
  <2>4. /\ Do("range") \in Instrs
        /\ Leaves(Append(Append(Append(Append(c, f), y), z), Do("range")), d,
                  Append(s, Bool(Between(x, e.v, e.hi))))
    BY <1>1, <1>2, <2>1, <2>3, RangeRuns
  <2>5. Comparison(e) = <<f, y, z, Do("range")>>
    BY <1>6 DEF Comparison, Members
  <2>6. c \o Comparison(e) = Append(Append(Append(Append(c, f), y), z), Do("range"))
    BY <1>1, <1>2, <2>2, <2>3, <2>4, <2>5, AppendsInTurn
  <2>7. Between(x, e.v, e.hi) = Verdict(e, d)
    BY <1>6 DEF Verdict, Compares, Between
  <2>8. QED
    BY <2>4, <2>6, <2>7
<1>7. CASE e.op = "regex"
  <2> PICK g, b : g = Instruction("regex", e.v) /\ b = Bool(Matches(e.v, x))
    OBVIOUS
  <2>1. e.v \in Vals
    BY <1>1, <1>7 DEF IsComparison, Vals, Members
  <2>2. g \in Instrs /\ g.ins = "regex" /\ g.arg = e.v
    BY <2>1 DEF Instruction, Instrs, Inses
  <2>3. Do("regex") \in Instrs /\ Do("regex").ins = "regex"
    BY DoIsInstruction DEF Inses
  <2>4. Leaves(Append(Append(c, f), g), d, Append(s, b))
    BY <1>1, <1>2, <2>2, UnaryRuns
  <2>5. b \in Vals /\ ~IsString(b)
    BY BoolIsValue DEF Vals, IsString, Bool
  <2>6. Leaves(Append(Append(Append(c, f), g), Do("regex")), d,
               Append(s, Bool(Matches(Do("regex").arg, b))))
    BY <1>1, <2>3, <2>4, <2>5, UnaryRuns
  <2>7. Comparison(e) = <<f, g, Do("regex")>>
    BY <1>7 DEF Comparison, Members
  <2>8. c \o Comparison(e) = Append(Append(Append(c, f), g), Do("regex"))
    BY <1>1, <1>2, <2>2, <2>3, <2>7, AppendsInTurn
  <2>9. Matches(Do("regex").arg, b) = Verdict(e, d)
    BY <1>7, <2>5 DEF Matches, Verdict
  <2>10. QED
    BY <2>6, <2>8, <2>9
<1>8. CASE e.op \in Members
  <2> PICK vs, n, p : vs = e.vs /\ n = Number(Len(e.vs)) /\ p = Pushes(e.vs)
    OBVIOUS
  <2>1. vs \in Seq(Vals)
    BY <1>1, <1>8, SeqMonotonic DEF IsComparison, Vals
  <2>2. n \in Vals
    BY <2>1, LenProperties, NumberIsValue DEF Vals
  <2>3. p \in Seq(Instrs) /\ Leaves(Append(c, f) \o p, d, Append(s, x) \o vs)
    BY <1>2, <2>1, PushesRun
  <2>4. /\ Push(n) \in Instrs
        /\ Leaves(Append(Append(c, f) \o p, Push(n)), d, Append(Append(s, x) \o vs, n))
    BY <2>2, <2>3, PushRuns
  <2>5. Verdict(e, d) \in BOOLEAN /\ (Verdict(e, d) <=> ((\E k \in DOMAIN vs : Eq(x, vs[k])) <=> (e.op = "in")))
    BY <1>8 DEF Verdict, Compares, Members
  <2>6. /\ Do(e.op) \in Instrs
        /\ Leaves(Append(Append(Append(c, f) \o p, Push(n)), Do(e.op)), d, Append(s, Bool(Verdict(e, d))))
    <3> PICK q, b : q = Append(Append(c, f) \o p, Push(n)) /\ b = Verdict(e, d)
      OBVIOUS
    <3>1. Leaves(q, d, Append(Append(s, x) \o vs, Number(Len(vs))))
      BY <2>4
    <3>2. b \in BOOLEAN /\ (b <=> ((\E k \in DOMAIN vs : Eq(x, vs[k])) <=> (e.op = "in")))
      BY <2>5
    <3>3. Do(e.op) \in Instrs /\ Leaves(Append(q, Do(e.op)), d, Append(s, Bool(b)))
      BY <1>1, <1>2, <1>8, <2>1, <3>1, <3>2, MembersRun
    <3>4. QED
      BY <3>3
  <2>7. Comparison(e) = (<<f>> \o p) \o <<Push(n), Do(e.op)>>
    BY <1>8 DEF Comparison, Members
  <2>8. c \o Comparison(e) = Append(Append(Append(c, f) \o p, Push(n)), Do(e.op))
    <3>1. PICK q, g, h : q = Comparison(e) /\ g = Push(n) /\ h = Do(e.op)
      OBVIOUS
    <3>2. p \in Seq(Instrs)
      BY <2>3 DEF Leaves
    <3>3. g \in Instrs /\ h \in Instrs /\ q = (<<f>> \o p) \o <<g, h>>
      BY <2>4, <2>6, <2>7, <3>1
    <3>4. PICK w : w = <<f>> \o p
      OBVIOUS
    <3>5. w \in Seq(Instrs) /\ c \o w = Append(c, f) \o p
      <4>1. c \in Seq(Instrs) /\ f \in Instrs
        BY <1>1, <1>2
      <4>2. c \o (<<f>> \o p) = Append(c, f) \o p /\ <<f>> \o p \in Seq(Instrs)
        BY <3>2, <4>1, FrontGoesOn
      <4>3. QED
        BY <3>4, <4>2
    <3>6. c \o (w \o <<g, h>>) = Append(Append(c \o w, g), h)
      <4>1. PICK v : v = Append(w, g)
        OBVIOUS
      <4>2. w \in Seq(Instrs) /\ g \in Instrs /\ h \in Instrs
        BY <3>3, <3>5
      <4>3. c \in Seq(Instrs)
        BY <1>1
      <4>4. w \o <<g, h>> = Append(Append(w, g), h)
        BY <4>2, AppendsTwo
      <4>5. Append(w, g) \in Seq(Instrs) /\ c \o Append(w, g) = Append(c \o w, g)
        BY <4>2, <4>3, AppendsToSecond
      <4>6. v \in Seq(Instrs)
        BY <4>1, <4>5
      <4>7. c \o Append(v, h) = Append(c \o v, h)
        BY <4>2, <4>3, <4>6, AppendsToSecond
      <4>8. QED
        BY <4>1, <4>4, <4>5, <4>7
    <3>7. c \o q = Append(Append(Append(c, f) \o p, g), h)
      BY <3>3, <3>4, <3>5, <3>6
    <3>8. QED
      BY <3>1, <3>7
  <2>9. QED
    BY <2>6, <2>8
<1>9. QED
  BY <1>3, <1>4, <1>5, <1>6, <1>7, <1>8 DEF Comparisons
-----------------------------------------------------------------------------
(***************************************************************************)
(* Junctions and $not.                                                     *)
(***************************************************************************)

\* What $and or $or makes of the verdicts u.
Junction(op, u) ==
  IF op = "and" THEN \A k \in 1 .. Len(u) : AsBool(u[k]) ELSE \E k \in 1 .. Len(u) : AsBool(u[k])

\* $and and $or put one verdict in place of as many as they count.
LEMMA JunctionRuns ==
  ASSUME NEW c, NEW d, NEW s \in Seq(Vals), NEW u \in Seq(Vals), Leaves(c, d, s \o u),
         NEW op \in Junctions
  PROVE  /\ Push(Number(Len(u))) \in Instrs /\ Do(op) \in Instrs
         /\ Leaves(c \o <<Push(Number(Len(u))), Do(op)>>, d, Append(s, Bool(Junction(op, u))))
<1>0. PICK n, v, g, h : /\ n = Len(u) /\ v = Append(u, Number(n))
                        /\ g = Push(Number(n)) /\ h = Do(op)
  OBVIOUS
<1>1. n \in Nat /\ Number(n) \in Vals /\ Number(n).n = n
  BY <1>0, LenProperties, NumberIsValue DEF Vals
<1>2. h \in Instrs /\ h.ins = op
  BY <1>0, DoIsInstruction DEF Inses
<1>3. /\ v \in Seq(Vals) /\ Len(v) = n + 1 /\ v[n + 1] = Number(n) /\ v # <<>>
      /\ \A k \in 1 .. n : v[k] = u[k]
  BY <1>0, <1>1, AppendProperties
<1>4. g \in Instrs /\ Leaves(Append(c, g), d, Append(s \o u, Number(n)))
  BY <1>0, <1>1, PushRuns
<1>5. Append(s \o u, Number(n)) = s \o v
  <2>1. s \o Append(u, Number(n)) = Append(s \o u, Number(n))
    BY <1>1, AppendsToSecond
  <2>2. QED
    BY <1>0, <2>1
<1>6. Top(v, 1) = Number(n) /\ Count(v) = n
  BY <1>1, <1>3 DEF Top, Count
<1>7. Taken(h, v) = Len(v)
  BY <1>2, <1>1, <1>3, <1>6 DEF Taken, Junctions, Binaries, Members
<1>8. \A k \in 1 .. n : n + 2 - k \in 2 .. n + 1 /\ Top(v, n + 2 - k) = u[k]
  BY <1>1, <1>3 DEF Top
<1>9. \A k \in 2 .. n + 1 : n + 2 - k \in 1 .. n /\ Top(v, k) = u[n + 2 - k]
  BY <1>1, <1>3 DEF Top
<1>10. Joined(op, v) <=> Junction(op, u)
  <2>1. CASE op = "and"
    <3>1. (\A k \in 2 .. n + 1 : AsBool(Top(v, k))) <=> (\A k \in 1 .. n : AsBool(u[k]))
      BY <1>8, <1>9
    <3>2. QED
      BY <1>0, <1>6, <2>1, <3>1 DEF Joined, Junction
  <2>2. CASE op # "and"
    <3>1. (\E k \in 2 .. n + 1 : AsBool(Top(v, k))) <=> (\E k \in 1 .. n : AsBool(u[k]))
      BY <1>8, <1>9
    <3>2. QED
      BY <1>0, <1>6, <2>2, <3>1 DEF Joined, Junction
  <2>3. QED
    BY <2>1, <2>2
<1>11. Result(h, v, d) = Bool(Junction(op, u))
  <2>1. Result(h, v, d) = Bool(Joined(op, v))
    BY <1>2 DEF Result, Junctions, Binaries, Members
  <2>2. QED
    BY <1>10, <2>1 DEF Bool
<1>12. Result(h, v, d) \in Vals
  BY <1>11, BoolIsValue DEF Vals
<1>13. Leaves(Append(Append(c, g), h), d, Append(s, Result(h, v, d)))
  BY <1>2, <1>3, <1>4, <1>5, <1>7, <1>12, RunsOneOn
<1>14. c \o <<g, h>> = Append(Append(c, g), h)
  <2>1. c \in Seq(Instrs)
    BY DEF Leaves
  <2>2. QED
    BY <1>2, <1>4, <2>1, AppendsTwo
<1>15. QED
  BY <1>0, <1>2, <1>4, <1>11, <1>13, <1>14

\* A stack with a verdict on top.
LEMMA NotRuns ==
  ASSUME NEW c, NEW d, NEW s \in Seq(Vals), NEW x \in Vals, Leaves(c, d, Append(s, x))
  PROVE  Leaves(Append(c, Do("not")), d, Append(s, Bool(~AsBool(x))))
<1>1. Do("not") \in Instrs /\ Do("not").ins = "not"
  BY DoIsInstruction DEF Inses
<1>2. QED
  BY <1>1, UnaryRuns
-----------------------------------------------------------------------------
(***************************************************************************)
(* The meaning of an expression: Means is the function its definition      *)
(* asks for, as the operands of an expression are less deep than it is.    *)
(***************************************************************************)

\* A set of naturals that is not empty has a least member.
LEMMA LeastNatural ==
  ASSUME NEW T, T \subseteq Nat, T # {}
  PROVE  \E x \in T : \A y \in T : x <= y
<1> DEFINE R == OpToRel(<, Nat)
<1>1. \A x, y \in Nat : <<y, x>> \in R <=> y < x
  BY DEF OpToRel
<1>2. IsWellFoundedOn(R, Nat)
  BY NatLessThanWellFounded
<1> HIDE DEF R
<1>3. PICK x \in T : \A y \in T : ~ (<<y, x>> \in R)
  BY <1>2, WFMin
<1>4. \A y \in T : ~ (y < x)
  <2> TAKE y \in T
  <2>1. x \in Nat /\ y \in Nat
    OBVIOUS
  <2>2. QED
    BY <2>1, <1>1, <1>3, Zenon
<1>5. QED
  BY <1>4

Parts(e) == {Operands(e)[k] : k \in DOMAIN Operands(e)}

\* The meaning of an expression depends on those of its operands only.
LEMMA MeaningIsLocal ==
  ASSUME NEW f, NEW g, NEW e, \A p \in Parts(e) : f[p] = g[p]
  PROVE  Meaning(f, e) = Meaning(g, e)
<1>1. CASE e.op \in Junctions
  <2>1. \A k \in DOMAIN e.of : f[e.of[k]] = g[e.of[k]]
    <3>1. Operands(e) = e.of
      BY <1>1 DEF Operands, Junctions
    <3>2. QED
      BY <3>1 DEF Parts
  <2>2. QED
    BY <1>1, <2>1 DEF Meaning, Junctions
<1>2. CASE e.op = "not"
  <2>1. Operands(e) = <<e.of>>
    BY <1>2 DEF Operands, Junctions
  <2>2. e.of \in Parts(e)
    BY <2>1 DEF Parts
  <2>3. QED
    BY <1>2, <2>2 DEF Meaning
<1>3. CASE e.op \notin Junctions \cup {"not"}
  BY <1>3 DEF Meaning, Junctions
<1>4. QED
  BY <1>1, <1>2, <1>3

\* An expression is nested deeper than its operands, which are expressions.
LEMMA PartsAreLessDeep ==
  ASSUME NEW e \in Expressions
  PROVE  Depth(e) \in Nat /\ \A p \in Parts(e) : p \in Expressions /\ Depth(p) \in Nat /\ Depth(p) < Depth(e)
<1>1. ASSUME NEW p \in Parts(e)
      PROVE  p \in Expressions /\ Depth(p) < Depth(e)
  <2>1. PICK k \in DOMAIN Operands(e) : p = Operands(e)[k]
    BY <1>1 DEF Parts
  <2>2. Operands(e) \in Seq(Expressions) /\ DOMAIN Operands(e) = 1 .. Len(Operands(e))
    BY ExpressionsAssumption, LenProperties
  <2>3. p \in Expressions
    BY <2>1, <2>2, ElementOfSeq
  <2>4. QED
    BY <2>1, <2>3, ExpressionsAssumption
<1>2. QED
  BY <1>1, ExpressionsAssumption

Shallow(n) == {e \in Expressions : Depth(e) < n}

\* The function f gives the meanings of the expressions less deep than n.
MeansBelow(n, f) == f = [e \in Shallow(n) |-> Meaning(f, e)]

\* For every depth there is a function that gives all expressions less deep their meaning.
LEMMA MeansExistBelow == \A n \in Nat : \E f : MeansBelow(n, f)
<1> DEFINE Bad == {n \in Nat : ~ \E f : MeansBelow(n, f)}
<1>1. SUFFICES ASSUME Bad # {} PROVE FALSE
  OBVIOUS
<1>2. PICK n \in Bad : \A m \in Bad : n <= m
  <2>1. Bad \subseteq Nat
    OBVIOUS
  <2> HIDE DEF Bad
  <2>2. QED
    BY <1>1, <2>1, LeastNatural
<1>3. CASE n = 0
  <2>1. Shallow(0) = {}
    BY PartsAreLessDeep DEF Shallow
  <2>2. MeansBelow(0, [e \in {} |-> {}])
    BY <2>1 DEF MeansBelow
  <2>3. QED
    BY <1>3, <2>2
<1>4. CASE n # 0
  <2>1. n - 1 \in Nat /\ n - 1 \notin Bad
    BY <1>2, <1>4
  <2>2. PICK f : MeansBelow(n - 1, f)
    BY <2>1
  <2> DEFINE g == [e \in Shallow(n) |-> Meaning(f, e)]
  <2>3. ASSUME NEW e \in Shallow(n - 1)
        PROVE  g[e] = f[e]
    <3>1. e \in Shallow(n)
      BY <2>1, PartsAreLessDeep DEF Shallow
    <3>2. QED
      BY <2>2, <3>1 DEF MeansBelow
  <2>4. ASSUME NEW e \in Shallow(n)
        PROVE  Meaning(f, e) = Meaning(g, e)
    <3>1. Parts(e) \subseteq Shallow(n - 1)
      BY <2>1, PartsAreLessDeep DEF Shallow
    <3> HIDE DEF g
    <3>2. QED
      BY <2>3, <3>1, MeaningIsLocal
  <2>5. g = [e \in Shallow(n) |-> Meaning(g, e)]
    BY <2>4
  <2>6. QED
    BY <1>2, <2>5 DEF MeansBelow
<1>5. QED
  BY <1>3, <1>4

\* Two such functions agree on the expressions both are defined for.
LEMMA MeansAgree ==
  ASSUME NEW n \in Nat, NEW m \in Nat, NEW f, NEW g, MeansBelow(n, f), MeansBelow(m, g),
         NEW e \in Shallow(n) \cap Shallow(m)
  PROVE  f[e] = g[e]
<1> DEFINE Bad == {x \in Shallow(n) \cap Shallow(m) : f[x] # g[x]}
           T == {Depth(x) : x \in Bad}
<1>1. SUFFICES ASSUME Bad # {} PROVE FALSE
  OBVIOUS
<1>2. T \subseteq Nat /\ T # {}
  BY <1>1, PartsAreLessDeep DEF Shallow
<1>3. PICK x \in Bad : \A y \in Bad : Depth(x) <= Depth(y)
  <2>1. PICK t \in T : \A y \in T : t <= y
    <3> HIDE DEF T
    <3>1. QED
      BY <1>2, LeastNatural
  <2>2. QED
    BY <2>1
<1>4. x \in Expressions /\ x \in Shallow(n) /\ x \in Shallow(m)
  BY DEF Shallow
<1>5. ASSUME NEW p \in Parts(x)
      PROVE  f[p] = g[p]
  <2>1. p \in Expressions /\ Depth(p) \in Nat /\ Depth(p) < Depth(x) /\ Depth(x) \in Nat
    BY <1>4, PartsAreLessDeep
  <2>2. p \in Shallow(n) \cap Shallow(m)
    BY <1>4, <2>1 DEF Shallow
  <2>3. QED
    BY <1>3, <2>1, <2>2
<1>6. Meaning(f, x) = Meaning(g, x)
  BY <1>5, MeaningIsLocal
<1>7. f[x] = Meaning(f, x) /\ g[x] = Meaning(g, x)
  BY <1>4 DEF MeansBelow
<1>8. QED
  BY <1>3, <1>6, <1>7

\* Every expression means what Meaning makes of the meanings of its operands.
LEMMA MeansUnfolds ==
  Means = [e \in Expressions |-> Meaning(Means, e)]
<1> DEFINE F == [e \in Expressions |-> (CHOOSE f : MeansBelow(Depth(e) + 1, f))[e]]
<1>1. ASSUME NEW e \in Expressions
      PROVE  /\ Depth(e) + 1 \in Nat /\ e \in Shallow(Depth(e) + 1)
             /\ MeansBelow(Depth(e) + 1, CHOOSE f : MeansBelow(Depth(e) + 1, f))
  <2>1. Depth(e) \in Nat
    BY PartsAreLessDeep
  <2>2. \E f : MeansBelow(Depth(e) + 1, f)
    BY <2>1, MeansExistBelow
  <2>3. QED
    BY <2>1, <2>2 DEF Shallow
<1>2. ASSUME NEW e \in Expressions
      PROVE  F[e] = Meaning(F, e)
  <2>1. PICK g : g = CHOOSE f : MeansBelow(Depth(e) + 1, f)
    OBVIOUS
  <2>2. MeansBelow(Depth(e) + 1, g) /\ F[e] = g[e]
    BY <1>1, <2>1
  <2>3. ASSUME NEW p \in Parts(e)
        PROVE  F[p] = g[p]
    <3>1. p \in Expressions /\ Depth(p) < Depth(e) /\ Depth(e) \in Nat
      BY PartsAreLessDeep
    <3>2. p \in Shallow(Depth(e) + 1) /\ p \in Shallow(Depth(p) + 1)
      <4>1. Depth(p) \in Nat
        BY <3>1, PartsAreLessDeep
      <4>2. QED
        BY <3>1, <4>1 DEF Shallow
    <3>3. PICK h : h = CHOOSE f : MeansBelow(Depth(p) + 1, f)
      OBVIOUS
    <3>4. MeansBelow(Depth(p) + 1, h) /\ F[p] = h[p]
      BY <1>1, <3>1, <3>3
    <3>5. QED
      BY <1>1, <2>2, <3>1, <3>2, <3>4, MeansAgree
  <2>4. Meaning(F, e) = Meaning(g, e)
    <3> HIDE DEF F
    <3>1. QED
      BY <2>3, MeaningIsLocal
  <2>5. g[e] = Meaning(g, e)
    BY <1>1, <2>2 DEF MeansBelow
  <2>6. QED
    BY <2>2, <2>4, <2>5
<1>3. F = [e \in Expressions |-> Meaning(F, e)]
  BY <1>2
<1> HIDE DEF F
<1>4. \E f : f = [e \in Expressions |-> Meaning(f, e)]
  BY <1>3
<1>5. Means = CHOOSE f : f = [e \in Expressions |-> Meaning(f, e)]
  BY DEF Means
<1>6. QED
  BY <1>4, <1>5
-----------------------------------------------------------------------------
(***************************************************************************)
(* The range of an index.                                                  *)
(***************************************************************************)

\* A comparison means the documents it holds for.
LEMMA ComparisonMeans ==
  ASSUME NEW e \in Expressions, e.op \in Comparisons
  PROVE  Means[e] = {i \in DOMAIN Stored : Compares(e, Stored[i])}
<1>1. Means[e] = Meaning(Means, e)
  BY MeansUnfolds
<1>2. e.op \notin {"all", "and", "or", "not"}
  BY DEF Comparisons, Members, Binaries
<1>3. QED
  BY <1>1, <1>2 DEF Meaning

\* What an equality with the literal selects has an entry in its range.
LEMMA EqualIsInRange ==
  ASSUME NEW e \in Expressions, e.op = "is", NEW i \in Means[e]
  PROVE  i \in DOMAIN Stored /\ InRange(e, Stored[i])
<1>1. e.v \in Values /\ i \in DOMAIN Stored /\ Eq(Member(Stored[i], e.field), e.v)
  BY ComparisonMeans, ComparisonIsOne DEF Comparisons, IsComparison, Compares, Members
<1>2. e.field \in DOMAIN Stored[i]
  <2>1. ~Eq(Invalid, e.v)
    BY <1>1 DEF Eq, Comparable, Invalid, IsNumeric, IsString, NumericTypes
  <2>2. QED
    BY <1>1, <2>1 DEF Member
<1>3. PICK x, y : x = Stored[i][e.field] /\ y = e.v
  OBVIOUS
<1>4. x \in Values /\ y \in Values /\ Eq(x, y)
  BY <1>1, <1>2, <1>3, StoredAssumption DEF Member
<1>5. Rank(x) = Rank(y) /\ Rank(x) \in Int
  BY <1>4, MaxExactAssumption DEF Eq, Rank, AsDouble, Values, IsString
<1>6. ~Less(x, y) /\ ~Less(y, x)
  BY <1>5 DEF Less
<1>7. QED
  BY <1>1, <1>2, <1>3, <1>6 DEF InRange

\* Without code, the range selects what the comparison does.
LEMMA RangeIsMeaning ==
  ASSUME NEW e \in Expressions, e.op \in {"gt", "lt", "range"}, RangeSuits(e),
         NEW i \in DOMAIN Stored
  PROVE  InRange(e, Stored[i]) <=> i \in Means[e]
<1>1. PICK x, y : x = Member(Stored[i], e.field) /\ y = e.v
  OBVIOUS
<1>2. y \in Values /\ (e.op = "range" => IsNumeric(y) /\ IsNumeric(e.hi) /\ e.hi \in Values)
  BY <1>1, ComparisonIsOne DEF Comparisons, IsComparison, Members, Binaries
<1>3. i \in Means[e] <=> Compares(e, Stored[i])
  BY ComparisonMeans DEF Comparisons, Binaries
<1>4. CASE e.field \notin DOMAIN Stored[i]
  <2>1. x = Invalid /\ ~IsNumeric(x) /\ ~IsString(x)
    BY <1>1, <1>4 DEF Member, Invalid, IsNumeric, IsString, NumericTypes
  <2>2. \A z : ~Greater(x, z) /\ ~Less(x, z) /\ ~AtLeast(x, z)
    BY <2>1 DEF Greater, Less, AtLeast, Comparable
  <2>3. ~Compares(e, Stored[i])
    BY <1>1, <2>2 DEF Compares, Holds, Between
  <2>4. QED
    BY <1>3, <1>4, <2>3 DEF InRange
<1>5. CASE e.field \in DOMAIN Stored[i]
  <2>1. x = Stored[i][e.field] /\ x \in Values
    BY <1>1, <1>5, StoredAssumption DEF Member
  <2>2. \A v \in Values : Rank(v) \in Int
    BY MaxExactAssumption DEF Rank, AsDouble, Values, IsString
  <2>3. Comparable(x, y) <=> Comparable(y, x)
    BY DEF Comparable
  <2>4. CASE e.op = "gt"
    <3>1. InRange(e, Stored[i]) <=> Less(y, x)
      BY <1>1, <1>5, <2>1, <2>4 DEF InRange
    <3>2. Compares(e, Stored[i]) <=> Greater(x, y)
      BY <1>1, <2>4 DEF Compares, Holds, Members
    <3>3. QED
      BY <1>2, <1>3, <2>1, <2>2, <2>3, <3>1, <3>2 DEF Less, Greater
  <2>5. CASE e.op = "lt"
    <3>1. InRange(e, Stored[i]) <=> Less(x, y)
      BY <1>1, <1>5, <2>1, <2>5 DEF InRange
    <3>2. Compares(e, Stored[i]) <=> Less(x, y)
      BY <1>1, <2>5 DEF Compares, Holds, Members
    <3>3. QED
      BY <1>3, <3>1, <3>2
  <2>6. CASE e.op = "range"
    <3>1. InRange(e, Stored[i]) <=> ~Less(x, y) /\ ~Less(e.hi, x)
      BY <1>1, <1>5, <2>1, <2>6 DEF InRange
    <3>2. Compares(e, Stored[i]) <=> AtLeast(x, y) /\ AtMost(x, e.hi)
      BY <1>1, <2>6 DEF Compares, Between
    <3>3. IsNumeric(x)
      BY <1>5, <2>1, <2>6 DEF RangeSuits, Keys
    <3>4. Comparable(x, y) /\ Comparable(x, e.hi) /\ Comparable(e.hi, x)
      BY <1>2, <2>6, <3>3 DEF Comparable
    <3>5. QED
      BY <1>2, <1>3, <2>1, <2>2, <2>6, <3>1, <3>2, <3>4 DEF Less, AtLeast, AtMost
  <2>7. QED
    BY <2>4, <2>5, <2>6
<1>6. QED
  BY <1>4, <1>5
-----------------------------------------------------------------------------
(***************************************************************************)
(* The stack under the parser: what the code emitted so far leaves behind  *)
(* are the verdicts of the operands that the open calls have read, call by *)
(* call.                                                                   *)
(***************************************************************************)
Frames == [op : {"query", "not"} \cup Junctions, of : Seq(Expressions), next : Nat \ {0}, kept : BOOLEAN]

\* How many operands the call j of the calls fs has read to their end.
Completed(fs, j) == fs[j].next - (IF j = Len(fs) THEN 1 ELSE 2)

\* The value x is the verdict on the i-th document - any, if the code has a $regex.
Says(x, i, e, regex) == x.type = "bool" /\ (regex \/ x = Bool(i \in Means[e]))

\* The verdicts of call j begin in the stack s behind place b[j].
Holding(fs, i, regex, s, b) ==
  /\ b \in [1 .. Len(fs) + 1 -> Nat] /\ b[1] = 0
  /\ \A j \in 1 .. Len(fs) : b[j + 1] = b[j] + Completed(fs, j)
  /\ \A j, k \in 1 .. Len(fs) + 1 : j <= k => b[j] <= b[k]
  /\ Len(s) = b[Len(fs) + 1]
  /\ \A j \in 1 .. Len(fs) : \A k \in 1 .. Completed(fs, j) : Says(s[b[j] + k], i, fs[j].of[k], regex)

\* The calls fs once the inner one has gone on to its next operand.
Stepped(fs) == [fs EXCEPT ![Len(fs)].next = @ + 1]

\* Going on to the next operand changes the inner call only.
LEMMA SteppedFrames ==
  ASSUME NEW fs \in Seq(Frames), fs # <<>>
  PROVE  /\ Len(fs) \in Nat \ {0} /\ Stepped(fs) \in Seq(Frames) /\ Len(Stepped(fs)) = Len(fs)
         /\ \A j \in 1 .. Len(fs) :
              /\ fs[j] \in Frames
              /\ Stepped(fs)[j].op = fs[j].op
              /\ Stepped(fs)[j].of = fs[j].of
              /\ Stepped(fs)[j].kept = fs[j].kept
              /\ Stepped(fs)[j].next = IF j = Len(fs) THEN fs[j].next + 1 ELSE fs[j].next
<1>1. PICK n, g : n = Len(fs) /\ g = [fs[n] EXCEPT !.next = @ + 1]
  OBVIOUS
<1>2. n \in Nat \ {0} /\ \A j \in 1 .. n : fs[j] \in Frames
  BY <1>1, EmptySeq, LenProperties, ElementOfSeq
<1>3. /\ g \in Frames /\ g.op = fs[n].op /\ g.of = fs[n].of /\ g.kept = fs[n].kept
      /\ g.next = fs[n].next + 1
  <2>1. PICK f : f = fs[n]
    OBVIOUS
  <2>2. f \in Frames /\ g = [f EXCEPT !.next = @ + 1]
    BY <1>1, <1>2, <2>1
  <2>3. f.next + 1 \in Nat \ {0}
    BY <2>2 DEF Frames
  <2>4. QED
    BY <2>1, <2>2, <2>3 DEF Frames
<1>4. Stepped(fs) = [fs EXCEPT ![n] = g]
  BY <1>1 DEF Stepped
<1>5. /\ Stepped(fs) \in Seq(Frames) /\ Len(Stepped(fs)) = n
      /\ \A j \in 1 .. n : Stepped(fs)[j] = IF j = n THEN g ELSE fs[j]
  BY <1>1, <1>2, <1>3, <1>4, ExceptSeq
<1>6. QED
  BY <1>1, <1>2, <1>3, <1>5

\* The verdict of the operand read by the inner call goes on top.
LEMMA HoldsOneMore ==
  ASSUME NEW fs \in Seq(Frames), fs # <<>>, NEW i, NEW regex \in BOOLEAN, NEW s \in Seq(Vals), NEW b,
         Holding(fs, i, regex, s, b), NEW x \in Vals, NEW still \in BOOLEAN, regex => still,
         Says(x, i, fs[Len(fs)].of[fs[Len(fs)].next], still)
  PROVE  \E c : Holding(Stepped(fs), i, still, Append(s, x), c)
<1>1. PICK n, a, r : n = Len(fs) /\ a = Stepped(fs) /\ r = Append(s, x)
  OBVIOUS
<1>2. /\ n \in Nat \ {0} /\ Len(a) = n
      /\ \A j \in 1 .. n : /\ a[j].of = fs[j].of /\ fs[j].next \in Nat
                          /\ a[j].next = IF j = n THEN fs[j].next + 1 ELSE fs[j].next
  BY <1>1, SteppedFrames DEF Frames
<1>3. /\ b \in [1 .. n + 1 -> Nat] /\ b[1] = 0
      /\ \A j \in 1 .. n : b[j + 1] = b[j] + Completed(fs, j)
      /\ \A j, k \in 1 .. n + 1 : j <= k => b[j] <= b[k]
      /\ Len(s) = b[n + 1]
      /\ \A j \in 1 .. n : \A k \in 1 .. Completed(fs, j) : Says(s[b[j] + k], i, fs[j].of[k], regex)
  BY <1>1 DEF Holding
<1>4. PICK c : c = [j \in 1 .. n + 1 |-> IF j = n + 1 THEN b[j] + 1 ELSE b[j]]
  OBVIOUS
<1>5. \A j \in 1 .. n : /\ Completed(fs, j) \in Int
                        /\ Completed(a, j) = Completed(fs, j) + (IF j = n THEN 1 ELSE 0)
  BY <1>1, <1>2 DEF Completed
<1>6. c \in [1 .. n + 1 -> Nat] /\ c[1] = 0 /\ c[n + 1] = b[n + 1] + 1 /\ \A j \in 1 .. n : c[j] = b[j]
  BY <1>2, <1>3, <1>4
<1>7. \A j \in 1 .. n : c[j + 1] = c[j] + Completed(a, j)
  <2>1. ASSUME NEW j \in 1 .. n
        PROVE  c[j + 1] = c[j] + Completed(a, j)
    <3>1. b[j + 1] = b[j] + Completed(fs, j) /\ b[j] \in Nat /\ j + 1 \in 1 .. n + 1
      BY <1>2, <1>3
    <3>2. CASE j = n
      BY <1>2, <1>5, <1>6, <3>1, <3>2
    <3>3. CASE j # n
      <4>1. j + 1 \in 1 .. n
        BY <1>2, <3>3
      <4>2. c[j + 1] = b[j + 1] /\ c[j] = b[j] /\ Completed(a, j) = Completed(fs, j) + 0
        BY <1>5, <1>6, <3>3, <4>1
      <4>3. QED
        BY <1>5, <3>1, <4>2
    <3>4. QED
      BY <3>2, <3>3
  <2>2. QED
    BY <2>1
<1>8. \A j, k \in 1 .. n + 1 : j <= k => c[j] <= c[k]
  <2>1. ASSUME NEW j \in 1 .. n + 1, NEW k \in 1 .. n + 1, j <= k
        PROVE  c[j] <= c[k]
    <3>1. b[j] <= b[k] /\ b[j] \in Nat /\ b[k] \in Nat
      BY <1>3, <2>1
    <3>2. CASE k = n + 1
      BY <1>2, <1>4, <3>1, <3>2
    <3>3. CASE k # n + 1
      BY <1>2, <1>4, <2>1, <3>1, <3>3
    <3>4. QED
      BY <3>2, <3>3
  <2>2. QED
    BY <2>1
<1>9. /\ Len(r) = Len(s) + 1 /\ Len(s) \in Nat
      /\ \A k \in 1 .. Len(s) : r[k] = s[k]
      /\ r[Len(s) + 1] = x
  BY <1>1, AppendProperties, LenProperties
<1>10. ASSUME NEW j \in 1 .. n, NEW k \in 1 .. Completed(a, j)
       PROVE  Says(r[c[j] + k], i, a[j].of[k], still)
  <2>1. b[j] \in Nat /\ b[j + 1] \in Nat /\ b[j + 1] <= b[n + 1] /\ b[j + 1] = b[j] + Completed(fs, j)
    BY <1>2, <1>3
  <2>2. CASE k \in 1 .. Completed(fs, j)
    <3>1. Says(s[b[j] + k], i, fs[j].of[k], regex)
      BY <1>3, <2>2
    <3>2. b[j] + k \in 1 .. Len(s)
      <4>1. PICK p, q, z, l : p = b[j] /\ q = b[j + 1] /\ z = Completed(fs, j) /\ l = Len(s)
        OBVIOUS
      <4>2. p \in Nat /\ l \in Nat /\ q <= l /\ q = p + z /\ z \in Int /\ k \in 1 .. z
        BY <1>3, <1>5, <1>9, <2>1, <2>2, <4>1
      <4>3. p + k \in 1 .. l
        BY <4>2
      <4>4. QED
        BY <4>1, <4>3
    <3>3. r[c[j] + k] = s[b[j] + k]
      BY <1>6, <1>9, <3>2
    <3>4. QED
      BY <1>2, <3>1, <3>3 DEF Says
  <2>3. CASE k \notin 1 .. Completed(fs, j)
    <3>1. j = n /\ k = Completed(fs, n) + 1
      BY <1>5, <2>3
    <3>2. k = fs[n].next
      BY <1>1, <1>2, <3>1 DEF Completed
    <3>3. c[j] + k = Len(s) + 1
      <4>1. PICK p, z : p = b[n] /\ z = Completed(fs, n)
        OBVIOUS
      <4>2. p \in Nat /\ z \in Int /\ Len(s) = p + z /\ k = z + 1
        BY <1>3, <1>5, <2>1, <3>1, <4>1
      <4>3. c[j] = p
        BY <1>6, <3>1, <4>1
      <4>4. QED
        BY <4>2, <4>3
    <3>4. QED
      BY <1>1, <1>2, <1>9, <3>1, <3>2, <3>3
  <2>4. QED
    BY <2>2, <2>3
<1>11. Holding(a, i, still, r, c)
  BY <1>2, <1>3, <1>6, <1>7, <1>8, <1>9, <1>10 DEF Holding
<1>12. QED
  BY <1>1, <1>11

\* A call that begins has no verdicts, and the operand it reads is not yet read to its end.
LEMMA HoldsOnEntry ==
  ASSUME NEW fs \in Seq(Frames), fs # <<>>, NEW i, NEW regex \in BOOLEAN, NEW s \in Seq(Vals), NEW b,
         Holding(fs, i, regex, s, b), NEW fr \in Frames, fr.next = 1
  PROVE  \E c : Holding(Append(Stepped(fs), fr), i, regex, s, c)
<1>1. PICK n, a, g : n = Len(fs) /\ a = Stepped(fs) /\ g = Append(a, fr)
  OBVIOUS
<1>2. /\ n \in Nat \ {0} /\ a \in Seq(Frames) /\ Len(a) = n
      /\ \A j \in 1 .. n : /\ a[j].of = fs[j].of /\ fs[j].next \in Nat
                          /\ a[j].next = IF j = n THEN fs[j].next + 1 ELSE fs[j].next
  BY <1>1, SteppedFrames DEF Frames
<1>3. Len(g) = n + 1 /\ g[n + 1] = fr /\ \A j \in 1 .. n : g[j] = a[j]
  BY <1>1, <1>2, AppendProperties
<1>4. /\ b \in [1 .. n + 1 -> Nat] /\ b[1] = 0
      /\ \A j \in 1 .. n : b[j + 1] = b[j] + Completed(fs, j)
      /\ \A j, k \in 1 .. n + 1 : j <= k => b[j] <= b[k]
      /\ Len(s) = b[n + 1]
      /\ \A j \in 1 .. n : \A k \in 1 .. Completed(fs, j) : Says(s[b[j] + k], i, fs[j].of[k], regex)
  BY <1>1 DEF Holding
<1>5. PICK c : c = [j \in 1 .. n + 2 |-> IF j = n + 2 THEN b[n + 1] ELSE b[j]]
  OBVIOUS
<1>6. /\ c \in [1 .. n + 2 -> Nat] /\ c[1] = 0 /\ c[n + 2] = b[n + 1]
      /\ \A j \in 1 .. n + 1 : c[j] = b[j]
  BY <1>2, <1>4, <1>5
<1>7. Completed(g, n + 1) = 0 /\ \A j \in 1 .. n : Completed(g, j) = Completed(fs, j)
  BY <1>1, <1>2, <1>3 DEF Completed
<1>8. \A j \in 1 .. n + 1 : c[j + 1] = c[j] + Completed(g, j)
  <2>1. ASSUME NEW j \in 1 .. n
        PROVE  c[j + 1] = c[j] + Completed(g, j)
    BY <1>2, <1>4, <1>6, <1>7
  <2>2. c[n + 1 + 1] = c[n + 1] + Completed(g, n + 1)
    BY <1>2, <1>4, <1>6, <1>7
  <2>3. QED
    BY <1>2, <2>1, <2>2
<1>9. \A j, k \in 1 .. n + 2 : j <= k => c[j] <= c[k]
  <2>1. ASSUME NEW j \in 1 .. n + 2, NEW k \in 1 .. n + 2, j <= k
        PROVE  c[j] <= c[k]
    <3>1. CASE j = n + 2
      BY <1>2, <1>6, <2>1, <3>1
    <3>2. CASE j # n + 2 /\ k = n + 2
      <4>1. j \in 1 .. n + 1 /\ n + 1 \in 1 .. n + 1 /\ j <= n + 1
        BY <1>2, <3>2
      <4>2. QED
        BY <1>4, <1>6, <3>2, <4>1
    <3>3. CASE j # n + 2 /\ k # n + 2
      <4>1. j \in 1 .. n + 1 /\ k \in 1 .. n + 1
        BY <1>2, <3>3
      <4>2. QED
        BY <1>4, <1>6, <2>1, <4>1
    <3>4. QED
      BY <3>1, <3>2, <3>3
  <2>2. QED
    BY <2>1
<1>10. ASSUME NEW j \in 1 .. n + 1, NEW k \in 1 .. Completed(g, j)
       PROVE  Says(s[c[j] + k], i, g[j].of[k], regex)
  <2>1. j # n + 1
    BY <1>7
  <2>2. j \in 1 .. n /\ j \in 1 .. n + 1
    BY <1>2, <2>1
  <2>3. c[j] = b[j] /\ Completed(g, j) = Completed(fs, j) /\ g[j].of = fs[j].of
    BY <1>2, <1>3, <1>6, <1>7, <2>2
  <2>4. QED
    BY <1>4, <2>2, <2>3
<1>11. n + 1 + 1 = n + 2
  BY <1>2
<1>12. Holding(g, i, regex, s, c)
  BY <1>3, <1>4, <1>6, <1>8, <1>9, <1>10, <1>11 DEF Holding
<1>13. QED
  BY <1>1, <1>12

\* A call that ends finds its verdicts on top; one verdict of its own takes their place.
\* The stack s ends in the verdicts u of the inner call, and one verdict can take their place.
Ends(fs, i, regex, s) ==
  \E r, u \in Seq(Vals) :
    /\ s = r \o u
    /\ Len(u) = fs[Len(fs)].next - 1
    /\ \A k \in 1 .. Len(u) : Says(u[k], i, fs[Len(fs)].of[k], regex)
    /\ \A x \in Vals, still \in BOOLEAN :
         (regex => still) /\ Says(x, i, fs[Len(fs) - 1].of[fs[Len(fs) - 1].next - 1], still)
           => \E c : Holding(Front(fs), i, still, Append(r, x), c)

\* The end of a call leaves its verdicts on top of the stack.
LEMMA HoldsOnExit ==
  ASSUME NEW fs \in Seq(Frames), Len(fs) > 1, NEW i, NEW regex \in BOOLEAN, NEW s \in Seq(Vals), NEW b,
         Holding(fs, i, regex, s, b)
  PROVE  Ends(fs, i, regex, s)
<1>1. PICK n, a, m : n = Len(fs) /\ a = Front(fs) /\ m = b[Len(fs)]
  OBVIOUS
<1>2. n \in Nat \ {0, 1} /\ \A j \in 1 .. n : fs[j].next \in Nat
  <2>1. n \in Nat \ {0, 1}
    BY <1>1, LenProperties
  <2>2. \A j \in 1 .. n : fs[j] \in Frames
    BY <1>1, ElementOfSeq
  <2>3. QED
    BY <2>1, <2>2 DEF Frames
<1>3. Len(a) = n - 1 /\ \A j \in 1 .. n - 1 : a[j] = fs[j]
  <2>1. a = SubSeq(fs, 1, n - 1)
    BY <1>1 DEF Front
  <2>2. \A j \in 1 .. n - 1 : fs[j] \in Frames
    BY <1>1, <1>2, ElementOfSeq
  <2>3. QED
    BY <1>2, <2>1, <2>2, SubSeqProperties
<1>4. /\ b \in [1 .. n + 1 -> Nat] /\ b[1] = 0
      /\ \A j \in 1 .. n : b[j + 1] = b[j] + Completed(fs, j)
      /\ \A j, k \in 1 .. n + 1 : j <= k => b[j] <= b[k]
      /\ Len(s) = b[n + 1]
      /\ \A j \in 1 .. n : \A k \in 1 .. Completed(fs, j) : Says(s[b[j] + k], i, fs[j].of[k], regex)
  BY <1>1 DEF Holding
<1>5. m \in Nat /\ m <= Len(s) /\ Len(s) \in Nat /\ Len(s) = m + Completed(fs, n)
  <2>1. n \in 1 .. n /\ n \in 1 .. n + 1 /\ n + 1 \in 1 .. n + 1 /\ n <= n + 1
    BY <1>2
  <2>2. m = b[n] /\ b[n] \in Nat /\ b[n] <= b[n + 1] /\ b[n + 1] = b[n] + Completed(fs, n)
    BY <1>1, <1>4, <2>1
  <2>3. Len(s) = b[n + 1] /\ Len(s) \in Nat
    BY <1>4, LenProperties
  <2>4. QED
    BY <2>2, <2>3
<1>6. PICK r, u : r = SubSeq(s, 1, m) /\ u = SubSeq(s, m + 1, Len(s))
  OBVIOUS
<1>7. /\ r \in Seq(Vals) /\ Len(r) = m /\ \A k \in 1 .. m : r[k] = s[k]
      /\ u \in Seq(Vals) /\ Len(u) = Len(s) - m /\ \A k \in 1 .. Len(u) : u[k] = s[m + k]
  <2>1. \A k \in 1 .. Len(s) : s[k] \in Vals
    BY ElementOfSeq
  <2>2. r \in Seq(Vals) /\ Len(r) = m /\ \A k \in 1 .. m : r[k] = s[k]
    <3>1. \A k \in 1 .. m : s[k] \in Vals
      BY <1>5, <2>1
    <3>2. /\ r \in Seq(Vals) /\ Len(r) = IF 1 <= m THEN m - 1 + 1 ELSE 0
          /\ \A k \in 1 .. m - 1 + 1 : r[k] = s[1 + k - 1]
      BY <1>5, <1>6, <3>1, SubSeqProperties
    <3>3. QED
      BY <1>5, <3>2
  <2>3. u \in Seq(Vals) /\ Len(u) = Len(s) - m /\ \A k \in 1 .. Len(u) : u[k] = s[m + k]
    <3>1. \A k \in m + 1 .. Len(s) : s[k] \in Vals
      BY <1>5, <2>1
    <3>2. /\ u \in Seq(Vals) /\ Len(u) = IF m + 1 <= Len(s) THEN Len(s) - (m + 1) + 1 ELSE 0
          /\ \A k \in 1 .. Len(s) - (m + 1) + 1 : u[k] = s[m + 1 + k - 1]
      BY <1>5, <1>6, <3>1, SubSeqProperties
    <3>3. Len(u) = Len(s) - m
      BY <1>5, <3>2
    <3>4. ASSUME NEW k \in 1 .. Len(u)
          PROVE  u[k] = s[m + k]
      <4>1. k \in 1 .. Len(s) - (m + 1) + 1 /\ m + 1 + k - 1 = m + k
        BY <1>5, <3>3
      <4>2. u[k] = s[m + 1 + k - 1]
        BY <3>2, <4>1
      <4>3. QED
        BY <4>1, <4>2
    <3>5. QED
      BY <3>2, <3>3, <3>4
  <2>4. QED
    BY <2>2, <2>3
<1>8. s = r \o u
  <2>1. m \in 1 - 1 .. Len(s) /\ 1 \in 1 .. Len(s) + 1 /\ Len(s) \in m .. Len(s)
    BY <1>5
  <2>2. SubSeq(s, 1, m) \o SubSeq(s, m + 1, Len(s)) = SubSeq(s, 1, Len(s))
    BY <2>1, ConcatAdjacentSubSeq
  <2>3. QED
    BY <1>6, <2>2, SubSeqFull
<1>9. Len(u) = fs[n].next - 1 /\ Len(u) = Completed(fs, n)
  BY <1>1, <1>2, <1>5, <1>7 DEF Completed
<1>10. \A k \in 1 .. Len(u) : Says(u[k], i, fs[n].of[k], regex)
  <2>1. ASSUME NEW k \in 1 .. Len(u)
        PROVE  Says(u[k], i, fs[n].of[k], regex)
    <3>1. n \in 1 .. n /\ k \in 1 .. Completed(fs, n) /\ b[n] = m /\ u[k] = s[m + k]
      BY <1>1, <1>2, <1>7, <1>9
    <3>2. Says(s[b[n] + k], i, fs[n].of[k], regex)
      BY <1>4, <3>1
    <3>3. QED
      BY <3>1, <3>2
  <2>2. QED
    BY <2>1
<1>11. ASSUME NEW x \in Vals, NEW still \in BOOLEAN, regex => still,
              Says(x, i, fs[n - 1].of[fs[n - 1].next - 1], still)
       PROVE  \E c : Holding(a, i, still, Append(r, x), c)
  <2>1. PICK c, w : c = [j \in 1 .. n |-> IF j = n THEN m + 1 ELSE b[j]] /\ w = Append(r, x)
    OBVIOUS
  <2>2. c \in [1 .. n -> Nat] /\ c[1] = 0 /\ c[n] = m + 1 /\ \A j \in 1 .. n - 1 : c[j] = b[j]
    BY <1>2, <1>4, <1>5, <2>1
  <2>3. \A j \in 1 .. n - 1 : /\ Completed(fs, j) \in Int
                              /\ Completed(a, j) = Completed(fs, j) + (IF j = n - 1 THEN 1 ELSE 0)
    BY <1>1, <1>2, <1>3 DEF Completed
  <2>4. \A j \in 1 .. n - 1 : c[j + 1] = c[j] + Completed(a, j)
    <3>1. ASSUME NEW j \in 1 .. n - 1
          PROVE  c[j + 1] = c[j] + Completed(a, j)
      <4>1. b[j + 1] = b[j] + Completed(fs, j) /\ b[j] \in Nat /\ j + 1 \in 1 .. n
        <5>1. j \in 1 .. n /\ j \in 1 .. n + 1 /\ j + 1 \in 1 .. n
          BY <1>2
        <5>2. b[j + 1] = b[j] + Completed(fs, j)
          BY <1>4, <5>1
        <5>3. b[j] \in Nat
          BY <1>4, <5>1
        <5>4. QED
          BY <5>1, <5>2, <5>3
      <4>2. CASE j = n - 1
        <5>1. j + 1 = n /\ c[j + 1] = m + 1 /\ c[j] = b[j] /\ b[j + 1] = m
          BY <1>1, <1>2, <2>2, <4>2
        <5>2. Completed(a, j) = Completed(fs, j) + 1 /\ Completed(fs, j) \in Int
          BY <2>3, <4>2
        <5>3. PICK p, z : p = b[j] /\ z = Completed(fs, j)
          OBVIOUS
        <5>4. m = p + z /\ p \in Nat /\ z \in Int
          BY <4>1, <5>1, <5>2, <5>3
        <5>5. m + 1 = p + (z + 1)
          BY <5>4
        <5>6. QED
          BY <5>1, <5>2, <5>3, <5>5
      <4>3. CASE j # n - 1
        <5>1. j + 1 \in 1 .. n - 1
          BY <1>2, <4>3
        <5>2. c[j + 1] = b[j + 1] /\ c[j] = b[j] /\ Completed(a, j) = Completed(fs, j) + 0
          BY <2>2, <2>3, <4>3, <5>1
        <5>3. QED
          BY <2>3, <4>1, <5>2
      <4>4. QED
        BY <4>2, <4>3
    <3>2. QED
      BY <3>1
  <2>5. \A j, k \in 1 .. n : j <= k => c[j] <= c[k]
    <3>1. ASSUME NEW j \in 1 .. n, NEW k \in 1 .. n, j <= k
          PROVE  c[j] <= c[k]
      <4>1. b[j] <= b[k] /\ b[j] \in Nat /\ b[k] \in Nat /\ b[n] = m
        <5>1. j \in 1 .. n + 1 /\ k \in 1 .. n + 1
          BY <1>2
        <5>2. QED
          BY <1>1, <1>4, <3>1, <5>1
      <4>2. CASE k = n
        BY <1>2, <2>1, <4>1, <4>2
      <4>3. CASE k # n
        BY <1>2, <2>1, <3>1, <4>1, <4>3
      <4>4. QED
        BY <4>2, <4>3
    <3>2. QED
      BY <3>1
  <2>6. Len(w) = m + 1 /\ w[m + 1] = x /\ \A k \in 1 .. m : w[k] = s[k]
    BY <1>7, <2>1, AppendProperties
  <2>7. ASSUME NEW j \in 1 .. n - 1, NEW k \in 1 .. Completed(a, j)
        PROVE  Says(w[c[j] + k], i, a[j].of[k], still)
    <3>1. b[j] \in Nat /\ b[j + 1] \in Nat /\ b[j + 1] <= m /\ b[j + 1] = b[j] + Completed(fs, j)
      <4>1. j \in 1 .. n /\ j \in 1 .. n + 1 /\ j + 1 \in 1 .. n + 1 /\ n \in 1 .. n + 1 /\ j + 1 <= n
        BY <1>2
      <4>2. b[n] = m
        BY <1>1
      <4>3. QED
        BY <1>4, <4>1, <4>2
    <3>2. CASE k \in 1 .. Completed(fs, j)
      <4>1. j \in 1 .. n /\ Says(s[b[j] + k], i, fs[j].of[k], regex)
        BY <1>2, <1>4, <3>2
      <4>2. b[j] + k \in 1 .. m
        BY <1>5, <2>3, <3>1, <3>2
      <4>3. w[c[j] + k] = s[b[j] + k]
        BY <2>2, <2>6, <4>2
      <4>4. QED
        BY <1>3, <1>11, <4>1, <4>3 DEF Says
    <3>3. CASE k \notin 1 .. Completed(fs, j)
      <4>1. j = n - 1 /\ k = Completed(fs, n - 1) + 1
        BY <2>3, <3>3
      <4>2. k = fs[n - 1].next - 1
        <5>1. PICK z : z = fs[n - 1].next
          OBVIOUS
        <5>2. n - 1 \in 1 .. n /\ n - 1 # n
          BY <1>2
        <5>3. z \in Nat /\ Completed(fs, n - 1) = z - 2
          BY <1>1, <1>2, <5>1, <5>2 DEF Completed
        <5>4. k = z - 2 + 1
          BY <4>1, <5>3
        <5>5. k = z - 1
          BY <5>3, <5>4
        <5>6. QED
          BY <5>1, <5>5
      <4>3. c[j] + k = m + 1
        <5>1. b[n - 1 + 1] = b[n - 1] + Completed(fs, n - 1) /\ n - 1 + 1 = n /\ b[n] = m
          BY <1>1, <1>2, <3>1, <4>1
        <5>2. c[j] = b[n - 1] /\ b[n - 1] \in Nat /\ Completed(fs, n - 1) \in Int
          BY <2>2, <2>3, <3>1, <4>1
        <5>3. QED
          BY <1>5, <4>1, <5>1, <5>2
      <4>4. QED
        BY <1>3, <1>11, <2>6, <4>1, <4>2, <4>3
    <3>4. QED
      BY <3>2, <3>3
  <2>8. n - 1 + 1 = n
    BY <1>2
  <2>9. Holding(a, i, still, w, c)
    BY <1>3, <2>2, <2>4, <2>5, <2>6, <2>7, <2>8 DEF Holding
  <2>10. QED
    BY <2>1, <2>9
<1>12. QED
  BY <1>1, <1>7, <1>8, <1>9, <1>10, <1>11 DEF Ends
-----------------------------------------------------------------------------
(***************************************************************************)
(* The open calls of the parser.                                           *)
(***************************************************************************)

\* Every call but the first was made by the one before it, for the operand it read last.
Nests(fs, q) ==
  /\ fs \in Seq(Frames) /\ fs # <<>>
  /\ fs[1].op = "query" /\ fs[1].of = <<q>>
  /\ \A j \in 1 .. Len(fs) : fs[j].next <= Len(fs[j].of) + 1
  /\ \A j \in 2 .. Len(fs) :
       /\ fs[j].op # "query"
       /\ fs[j - 1].next >= 2
       /\ fs[j - 1].of[fs[j - 1].next - 1].op = fs[j].op
       /\ Operands(fs[j - 1].of[fs[j - 1].next - 1]) = fs[j].of

\* One of the calls 1 to j is for a $not.
Negated(fs, j) == \E k \in 1 .. j : fs[k].op = "not"

\* The index is settled once it was used, and while in a $not, which puts back what it found.
Settles(fs, used, settled) ==
  /\ settled <=> used \/ Negated(fs, Len(fs))
  /\ \A j \in 1 .. Len(fs) : fs[j].op = "not" => (fs[j].kept <=> used \/ Negated(fs, j - 1))

\* The answer lies in R: an operand does that was read under nothing but $and.
Pins(fs, R) ==
  \E j \in 1 .. Len(fs) :
    /\ \A l \in 1 .. j : fs[l].op \in {"query", "and"}
    /\ \E k \in 1 .. fs[j].next - 1 : Means[fs[j].of[k]] \subseteq R

\* A call that begins comes on top of the others, and its caller has gone on.
LEMMA EnteredFrames ==
  ASSUME NEW fs \in Seq(Frames), fs # <<>>, NEW fr \in Frames
  PROVE  LET g == Append(Stepped(fs), fr)
         IN  /\ g \in Seq(Frames) /\ Len(g) = Len(fs) + 1 /\ g[Len(fs) + 1] = fr
             /\ \A j \in 1 .. Len(fs) :
                  /\ g[j].op = fs[j].op /\ g[j].of = fs[j].of /\ g[j].kept = fs[j].kept
                  /\ g[j].next = IF j = Len(fs) THEN fs[j].next + 1 ELSE fs[j].next
<1>1. PICK n, a, g : n = Len(fs) /\ a = Stepped(fs) /\ g = Append(a, fr)
  OBVIOUS
<1>2. a \in Seq(Frames) /\ Len(a) = n
  BY <1>1, SteppedFrames
<1>3. g \in Seq(Frames) /\ Len(g) = n + 1 /\ g[n + 1] = fr /\ \A j \in 1 .. n : g[j] = a[j]
  BY <1>1, <1>2, AppendProperties
<1>4. \A j \in 1 .. n : /\ a[j].op = fs[j].op /\ a[j].of = fs[j].of /\ a[j].kept = fs[j].kept
                      /\ a[j].next = IF j = n THEN fs[j].next + 1 ELSE fs[j].next
  BY <1>1, SteppedFrames
<1>5. QED
  BY <1>1, <1>3, <1>4

\* The end of a call leaves the other calls as they are.
LEMMA LeftFrames ==
  ASSUME NEW fs \in Seq(Frames), Len(fs) > 1
  PROVE  /\ Front(fs) \in Seq(Frames) /\ Len(fs) \in Nat /\ Len(Front(fs)) = Len(fs) - 1
         /\ \A j \in 1 .. Len(fs) - 1 : Front(fs)[j] = fs[j]
<1>1. PICK n : n = Len(fs)
  OBVIOUS
<1>2. n \in Nat /\ n > 1
  BY <1>1, LenProperties
<1>3. \A j \in 1 .. n - 1 : fs[j] \in Frames
  BY <1>1, <1>2, ElementOfSeq
<1>4. Front(fs) = SubSeq(fs, 1, n - 1)
  BY <1>1 DEF Front
<1>5. QED
  BY <1>1, <1>2, <1>3, <1>4, SubSeqProperties

\* The inner call reads an operand, which may make a call of its own.
LEMMA CallsStep ==
  ASSUME NEW fs, NEW q, Nests(fs, q), fs[Len(fs)].next <= Len(fs[Len(fs)].of)
  PROVE  Nests(Stepped(fs), q)
<1>1. PICK n, a : n = Len(fs) /\ a = Stepped(fs)
  OBVIOUS
<1>2. /\ n \in Nat \ {0} /\ a \in Seq(Frames) /\ Len(a) = n /\ a # <<>>
      /\ \A j \in 1 .. n : /\ a[j].op = fs[j].op /\ a[j].of = fs[j].of /\ fs[j].next \in Nat
                          /\ Len(fs[j].of) \in Nat
                          /\ a[j].next = IF j = n THEN fs[j].next + 1 ELSE fs[j].next
  <2>1. \A j \in 1 .. n : fs[j].next \in Nat /\ Len(fs[j].of) \in Nat
    <3>1. ASSUME NEW j \in 1 .. n
          PROVE  fs[j].next \in Nat /\ fs[j].of \in Seq(Expressions)
      BY <1>1, SteppedFrames DEF Nests, Frames
    <3>2. QED
      BY <3>1, LenProperties
  <2>2. QED
    BY <1>1, <2>1, SteppedFrames, EmptySeq DEF Nests
<1>3. a[1].op = "query" /\ a[1].of = <<q>>
  BY <1>1, <1>2 DEF Nests
<1>4. ASSUME NEW j \in 1 .. n
      PROVE  a[j].next <= Len(a[j].of) + 1
  <2>1. CASE j = n
    BY <1>1, <1>2, <2>1
  <2>2. CASE j # n
    <3>1. fs[j].next <= Len(fs[j].of) + 1
      BY <1>1 DEF Nests
    <3>2. QED
      BY <1>2, <2>2, <3>1
  <2>3. QED
    BY <2>1, <2>2
<1>5. ASSUME NEW j \in 2 .. n
      PROVE  /\ a[j].op # "query" /\ a[j - 1].next >= 2
             /\ a[j - 1].of[a[j - 1].next - 1].op = a[j].op
             /\ Operands(a[j - 1].of[a[j - 1].next - 1]) = a[j].of
  <2>1. j \in 1 .. n /\ j - 1 \in 1 .. n /\ j - 1 # n
    BY <1>2
  <2>2. /\ a[j].op = fs[j].op /\ a[j].of = fs[j].of
        /\ a[j - 1].next = fs[j - 1].next /\ a[j - 1].of = fs[j - 1].of
    BY <1>2, <2>1
  <2>3. QED
    BY <1>1, <2>2 DEF Nests
<1>6. QED
  BY <1>1, <1>2, <1>3, <1>4, <1>5 DEF Nests

\* A call is made for the operand its caller has just read.
LEMMA CallsEnter ==
  ASSUME NEW fs, NEW q, Nests(fs, q), fs[Len(fs)].next <= Len(fs[Len(fs)].of),
         NEW fr \in Frames, fr.next = 1, fr.op # "query",
         fs[Len(fs)].of[fs[Len(fs)].next].op = fr.op,
         Operands(fs[Len(fs)].of[fs[Len(fs)].next]) = fr.of
  PROVE  Nests(Append(Stepped(fs), fr), q)
<1>1. PICK n, a, g : n = Len(fs) /\ a = Stepped(fs) /\ g = Append(a, fr)
  OBVIOUS
<1>2. /\ Nests(a, q) /\ a \in Seq(Frames) /\ Len(a) = n /\ n \in Nat \ {0} /\ fs[n] \in Frames
      /\ a[n].of = fs[n].of /\ a[n].next = fs[n].next + 1
  <2>1. fs \in Seq(Frames) /\ fs # <<>> /\ Nests(a, q)
    <3>1. Nests(a, q)
      BY <1>1, CallsStep
    <3>2. QED
      BY <3>1 DEF Nests
  <2>2. n \in Nat \ {0} /\ n \in 1 .. n /\ a \in Seq(Frames) /\ Len(a) = n
    BY <1>1, <2>1, SteppedFrames
  <2>3. fs[n] \in Frames /\ a[n].of = fs[n].of /\ a[n].next = fs[n].next + 1
    BY <1>1, <2>1, <2>2, SteppedFrames
  <2>4. QED
    BY <2>1, <2>2, <2>3
<1>3. g \in Seq(Frames) /\ g # <<>> /\ Len(g) = n + 1 /\ g[n + 1] = fr /\ \A j \in 1 .. n : g[j] = a[j]
  BY <1>1, <1>2, AppendProperties
<1>4. fs[n].next \in Nat \ {0} /\ Len(fr.of) \in Nat
  BY <1>2, LenProperties DEF Frames
<1>5. g[1].op = "query" /\ g[1].of = <<q>>
  BY <1>2, <1>3 DEF Nests
<1>6. \A j \in 1 .. n + 1 : g[j].next <= Len(g[j].of) + 1
  <2>1. g[n + 1].next <= Len(g[n + 1].of) + 1
    BY <1>3, <1>4
  <2>2. ASSUME NEW j \in 1 .. n
        PROVE  g[j].next <= Len(g[j].of) + 1
    <3>1. g[j] = a[j]
      BY <1>3
    <3>2. QED
      BY <1>2, <3>1 DEF Nests
  <2>3. QED
    BY <1>2, <2>1, <2>2
<1>7. ASSUME NEW j \in 2 .. n + 1
      PROVE  /\ g[j].op # "query" /\ g[j - 1].next >= 2
             /\ g[j - 1].of[g[j - 1].next - 1].op = g[j].op
             /\ Operands(g[j - 1].of[g[j - 1].next - 1]) = g[j].of
  <2>1. CASE j = n + 1
    <3>1. g[j] = fr /\ g[j - 1] = a[n]
      BY <1>2, <1>3, <2>1
    <3>2. a[n].next - 1 = fs[n].next /\ a[n].next >= 2
      BY <1>2, <1>4
    <3>3. QED
      BY <1>1, <1>2, <3>1, <3>2
  <2>2. CASE j # n + 1
    <3>1. j \in 2 .. n /\ g[j] = a[j] /\ g[j - 1] = a[j - 1]
      BY <1>2, <1>3, <2>2
    <3>2. QED
      BY <1>2, <3>1 DEF Nests
  <2>3. QED
    BY <2>1, <2>2
<1>8. QED
  BY <1>1, <1>3, <1>5, <1>6, <1>7 DEF Nests

\* The end of a call leaves the others nested.
LEMMA CallsLeave ==
  ASSUME NEW fs, NEW q, Nests(fs, q), Len(fs) > 1
  PROVE  Nests(Front(fs), q)
<1>1. PICK n, a : n = Len(fs) /\ a = Front(fs)
  OBVIOUS
<1>2. n \in Nat /\ n > 1 /\ a \in Seq(Frames) /\ Len(a) = n - 1 /\ \A j \in 1 .. n - 1 : a[j] = fs[j]
  BY <1>1, LeftFrames DEF Nests
<1>3. a # <<>> /\ a[1].op = "query" /\ a[1].of = <<q>>
  BY <1>2, EmptySeq DEF Nests
<1>4. \A j \in 1 .. n - 1 : a[j].next <= Len(a[j].of) + 1
  BY <1>1, <1>2 DEF Nests
<1>5. ASSUME NEW j \in 2 .. n - 1
      PROVE  /\ a[j].op # "query" /\ a[j - 1].next >= 2
             /\ a[j - 1].of[a[j - 1].next - 1].op = a[j].op
             /\ Operands(a[j - 1].of[a[j - 1].next - 1]) = a[j].of
  <2>1. j \in 2 .. n /\ a[j] = fs[j] /\ a[j - 1] = fs[j - 1]
    BY <1>2
  <2>2. QED
    BY <1>1, <2>1 DEF Nests
<1>6. QED
  BY <1>1, <1>2, <1>3, <1>4, <1>5 DEF Nests

\* Only a $not settles anything, and it takes it back in the end.
LEMMA SettlesStep ==
  ASSUME NEW fs \in Seq(Frames), fs # <<>>, NEW used \in BOOLEAN, NEW settled \in BOOLEAN,
         Settles(fs, used, settled)
  PROVE  Settles(Stepped(fs), used, settled)
<1>1. PICK n, a : n = Len(fs) /\ a = Stepped(fs)
  OBVIOUS
<1>2. /\ n \in Nat \ {0} /\ Len(a) = n
      /\ \A j \in 1 .. n : a[j].op = fs[j].op /\ a[j].kept = fs[j].kept
  BY <1>1, SteppedFrames
<1>3. \A j \in 0 .. n : Negated(a, j) <=> Negated(fs, j)
  BY <1>2 DEF Negated
<1>4. n \in 0 .. n /\ \A j \in 1 .. n : j - 1 \in 0 .. n
  BY <1>2
<1>5. QED
  BY <1>1, <1>2, <1>3, <1>4 DEF Settles

\* A $not that begins settles the index, and keeps what it found.
LEMMA SettlesEnter ==
  ASSUME NEW fs \in Seq(Frames), fs # <<>>, NEW used \in BOOLEAN, NEW settled \in BOOLEAN,
         Settles(fs, used, settled), NEW fr \in Frames, fr.kept = settled
  PROVE  Settles(Append(Stepped(fs), fr), used, settled \/ fr.op = "not")
<1>1. PICK n, g : n = Len(fs) /\ g = Append(Stepped(fs), fr)
  OBVIOUS
<1>2. /\ n \in Nat \ {0} /\ Len(g) = n + 1 /\ g[n + 1] = fr
      /\ \A j \in 1 .. n : g[j].op = fs[j].op /\ g[j].kept = fs[j].kept
  BY <1>1, EnteredFrames, SteppedFrames
<1>3. \A j \in 0 .. n : Negated(g, j) <=> Negated(fs, j)
  BY <1>2 DEF Negated
<1>4. Negated(g, n + 1) <=> Negated(fs, n) \/ fr.op = "not"
  <2>1. Negated(g, n + 1) <=> Negated(g, n) \/ g[n + 1].op = "not"
    BY <1>2 DEF Negated
  <2>2. QED
    BY <1>2, <1>3, <2>1
<1>5. ASSUME NEW j \in 1 .. n + 1, g[j].op = "not"
      PROVE  g[j].kept <=> used \/ Negated(g, j - 1)
  <2>1. CASE j = n + 1
    <3>1. n \in 0 .. n /\ j - 1 = n
      BY <1>2, <2>1
    <3>2. QED
      BY <1>1, <1>2, <1>3, <2>1, <3>1 DEF Settles
  <2>2. CASE j # n + 1
    <3>1. j \in 1 .. n /\ j - 1 \in 0 .. n
      BY <1>2, <2>2
    <3>2. QED
      BY <1>1, <1>2, <1>3, <1>5, <3>1 DEF Settles
  <2>3. QED
    BY <2>1, <2>2
<1>6. QED
  BY <1>1, <1>2, <1>4, <1>5 DEF Settles

\* A $not that ends puts back whether the index was settled.
LEMMA SettlesLeave ==
  ASSUME NEW fs \in Seq(Frames), Len(fs) > 1, NEW used \in BOOLEAN, NEW settled \in BOOLEAN,
         Settles(fs, used, settled)
  PROVE  Settles(Front(fs), used, IF fs[Len(fs)].op = "not" THEN fs[Len(fs)].kept ELSE settled)
<1>1. PICK n, a : n = Len(fs) /\ a = Front(fs)
  OBVIOUS
<1>2. n \in Nat /\ n > 1 /\ Len(a) = n - 1 /\ \A j \in 1 .. n - 1 : a[j] = fs[j]
  BY <1>1, LeftFrames
<1>3. \A j \in 0 .. n - 1 : Negated(a, j) <=> Negated(fs, j)
  BY <1>2 DEF Negated
<1>4. Negated(fs, n) <=> Negated(fs, n - 1) \/ fs[n].op = "not"
  BY <1>2 DEF Negated
<1>5. n - 1 \in 0 .. n - 1 /\ \A j \in 1 .. n - 1 : j - 1 \in 0 .. n - 1 /\ j \in 1 .. n
  BY <1>2
<1>6. n \in 1 .. n
  BY <1>2
<1>7. \A j \in 1 .. n - 1 : a[j].op = "not" => (a[j].kept <=> used \/ Negated(a, j - 1))
  BY <1>1, <1>2, <1>3, <1>5 DEF Settles
<1>8. (IF fs[n].op = "not" THEN fs[n].kept ELSE settled) <=> used \/ Negated(a, n - 1)
  BY <1>1, <1>3, <1>4, <1>5, <1>6 DEF Settles
<1>9. QED
  BY <1>1, <1>2, <1>7, <1>8 DEF Settles

\* Reading one operand more does not widen the answer.
LEMMA PinsStep ==
  ASSUME NEW fs \in Seq(Frames), fs # <<>>, NEW R, Pins(fs, R)
  PROVE  Pins(Stepped(fs), R)
<1>1. PICK n, a : n = Len(fs) /\ a = Stepped(fs)
  OBVIOUS
<1>2. PICK j \in 1 .. n : /\ \A l \in 1 .. j : fs[l].op \in {"query", "and"}
                         /\ \E k \in 1 .. fs[j].next - 1 : Means[fs[j].of[k]] \subseteq R
  BY <1>1 DEF Pins
<1>3. PICK k \in 1 .. fs[j].next - 1 : Means[fs[j].of[k]] \subseteq R
  BY <1>2
<1>4. /\ n \in Nat /\ Len(a) = n /\ fs[j].next \in Nat
      /\ \A l \in 1 .. n : a[l].op = fs[l].op /\ a[l].of = fs[l].of
      /\ a[j].next \in {fs[j].next, fs[j].next + 1}
  BY <1>1, SteppedFrames DEF Frames
<1>5. k \in 1 .. a[j].next - 1 /\ Means[a[j].of[k]] \subseteq R
  BY <1>3, <1>4
<1>6. \A l \in 1 .. j : a[l].op \in {"query", "and"}
  BY <1>2, <1>4
<1>7. QED
  BY <1>1, <1>4, <1>5, <1>6 DEF Pins

\* Neither does a call that begins.
LEMMA PinsEnter ==
  ASSUME NEW fs \in Seq(Frames), fs # <<>>, NEW R, Pins(fs, R), NEW fr \in Frames
  PROVE  Pins(Append(Stepped(fs), fr), R)
<1>1. PICK n, a, g : n = Len(fs) /\ a = Stepped(fs) /\ g = Append(a, fr)
  OBVIOUS
<1>2. a \in Seq(Frames) /\ Len(a) = n /\ n \in Nat /\ Pins(a, R)
  BY <1>1, SteppedFrames, PinsStep
<1>3. Len(g) = n + 1 /\ \A j \in 1 .. n : g[j] = a[j]
  BY <1>1, <1>2, AppendProperties
<1>4. PICK j \in 1 .. n : /\ \A l \in 1 .. j : a[l].op \in {"query", "and"}
                         /\ \E k \in 1 .. a[j].next - 1 : Means[a[j].of[k]] \subseteq R
  BY <1>2 DEF Pins
<1>5. j \in 1 .. n + 1 /\ g[j] = a[j] /\ \A l \in 1 .. j : g[l] = a[l]
  BY <1>2, <1>3
<1>6. /\ \A l \in 1 .. j : g[l].op \in {"query", "and"}
      /\ \E k \in 1 .. g[j].next - 1 : Means[g[j].of[k]] \subseteq R
  BY <1>4, <1>5
<1>7. QED
  BY <1>1, <1>3, <1>5, <1>6 DEF Pins

\* What one operand of an $and does not select, the $and does not select.
LEMMA PinsLeave ==
  ASSUME NEW fs, NEW q, Nests(fs, q), Len(fs) > 1, NEW R, Pins(fs, R)
  PROVE  Pins(Front(fs), R)
<1>1. PICK n, a : n = Len(fs) /\ a = Front(fs)
  OBVIOUS
<1>2. n \in Nat /\ n > 1 /\ Len(a) = n - 1 /\ \A j \in 1 .. n - 1 : a[j] = fs[j]
  BY <1>1, LeftFrames DEF Nests
<1>3. PICK j \in 1 .. n : /\ \A l \in 1 .. j : fs[l].op \in {"query", "and"}
                         /\ \E k \in 1 .. fs[j].next - 1 : Means[fs[j].of[k]] \subseteq R
  BY <1>1 DEF Pins
<1>4. CASE j # n
  <2>1. j \in 1 .. n - 1 /\ a[j] = fs[j] /\ \A l \in 1 .. j : a[l] = fs[l]
    BY <1>2, <1>4
  <2>2. QED
    BY <1>1, <1>2, <1>3, <2>1 DEF Pins
<1>5. CASE j = n
  <2>1. PICK e, m, k : /\ m = fs[n - 1].next - 1 /\ e = fs[n - 1].of[m]
                       /\ k \in 1 .. fs[n].next - 1 /\ Means[fs[n].of[k]] \subseteq R
    BY <1>3, <1>5
  <2>2. /\ n \in 2 .. n /\ fs[n].op = "and" /\ e.op = "and" /\ Operands(e) = fs[n].of
        /\ fs[n - 1].next >= 2
    <3>1. n \in 2 .. n /\ n \in 1 .. n
      BY <1>2
    <3>2. /\ fs[n].op # "query" /\ fs[n - 1].next >= 2
          /\ fs[n - 1].of[fs[n - 1].next - 1].op = fs[n].op
          /\ Operands(fs[n - 1].of[fs[n - 1].next - 1]) = fs[n].of
      BY <1>1, <3>1 DEF Nests
    <3>3. fs[n].op \in {"query", "and"}
      BY <1>3, <1>5, <3>1
    <3>4. QED
      BY <2>1, <3>1, <3>2, <3>3
  <2>3. /\ fs[n - 1] \in Frames /\ fs[n] \in Frames
        /\ fs[n].next <= Len(fs[n].of) + 1 /\ fs[n - 1].next <= Len(fs[n - 1].of) + 1
    BY <1>1, <1>2, ElementOfSeq DEF Nests
  <2>4. m \in 1 .. Len(fs[n - 1].of) /\ e \in Expressions
    <3>1. fs[n - 1].next \in Nat /\ fs[n - 1].of \in Seq(Expressions) /\ Len(fs[n - 1].of) \in Nat
      BY <2>3, LenProperties DEF Frames
    <3>2. m \in 1 .. Len(fs[n - 1].of)
      <4>1. PICK x, l : x = fs[n - 1].next /\ l = Len(fs[n - 1].of)
        OBVIOUS
      <4>2. x \in Nat /\ l \in Nat /\ m = x - 1 /\ x >= 2 /\ x <= l + 1
        BY <2>1, <2>2, <2>3, <3>1, <4>1
      <4>3. m \in 1 .. l
        BY <4>2
      <4>4. QED
        BY <4>1, <4>3
    <3>3. QED
      BY <2>1, <3>1, <3>2, ElementOfSeq
  <2>5. e.of = fs[n].of /\ k \in DOMAIN e.of
    <3>1. e.of = fs[n].of
      BY <2>2 DEF Operands, Junctions
    <3>2. fs[n].of \in Seq(Expressions) /\ fs[n].next \in Nat
      BY <2>3 DEF Frames
    <3>3. DOMAIN fs[n].of = 1 .. Len(fs[n].of) /\ Len(fs[n].of) \in Nat
      BY <3>2, LenProperties
    <3>4. QED
      BY <2>1, <2>3, <3>1, <3>2, <3>3
  <2>6. Means[e] \subseteq R
    <3>1. Means[e] = {i \in DOMAIN Stored : \A l \in DOMAIN e.of : i \in Means[e.of[l]]}
      BY <2>2, <2>4, MeansUnfolds DEF Meaning
    <3>2. Means[e] \subseteq Means[e.of[k]]
      BY <2>5, <3>1
    <3>3. QED
      BY <2>1, <2>5, <3>2
  <2>7. /\ n - 1 \in 1 .. n - 1 /\ a[n - 1] = fs[n - 1] /\ m \in 1 .. a[n - 1].next - 1
        /\ \A l \in 1 .. n - 1 : a[l].op \in {"query", "and"}
    <3>1. fs[n - 1].next \in Nat
      BY <2>3 DEF Frames
    <3>2. n - 1 \in 1 .. n - 1 /\ a[n - 1] = fs[n - 1]
      BY <1>2
    <3>3. m \in 1 .. a[n - 1].next - 1
      BY <2>1, <2>2, <3>1, <3>2
    <3>4. \A l \in 1 .. n - 1 : l \in 1 .. n /\ a[l] = fs[l]
      BY <1>2
    <3>5. QED
      BY <1>3, <1>5, <3>2, <3>3, <3>4
  <2>8. \E k2 \in 1 .. a[n - 1].next - 1 : Means[a[n - 1].of[k2]] \subseteq R
    BY <2>1, <2>6, <2>7
  <2>9. QED
    BY <1>1, <1>2, <2>7, <2>8 DEF Pins
<1>6. QED
  BY <1>4, <1>5
-----------------------------------------------------------------------------
(***************************************************************************)
(* The parser, between two actions.                                        *)
(***************************************************************************)
Shaped ==
  /\ query \in Asked
  /\ phase \in {"parse", "run"}
  /\ code \in Seq(Instrs)
  /\ resolved \in BOOLEAN /\ met \in BOOLEAN /\ balanced \in BOOLEAN
  /\ by \in {<<>>} \cup {<<e>> : e \in Expressions}
  /\ todo \subseteq DOMAIN Stored
  /\ Nests(open, query)
  /\ Settles(open, met, resolved)
  /\ by = <<>> <=> ~met
  /\ phase = "parse" =>
       /\ todo = {} /\ pc = 1 /\ stack = <<>> /\ found = {} /\ wild = FALSE
       /\ Len(open) = 1 /\ open[1].next = 1 => code = <<>> /\ by = <<>>
  /\ phase = "run" => Len(open) = 1 /\ open[1].next = 2

\* The inner call is the last one, and what it reads next is an expression.
LEMMA InnerCall ==
  ASSUME Nests(open, query)
  PROVE  /\ open \in Seq(Frames) /\ open # <<>> /\ Len(open) \in Nat \ {0}
         /\ Inner = open[Len(open)] /\ Inner \in Frames
         /\ Inner.next <= Len(Inner.of) + 1
         /\ Advanced = Stepped(open)
         /\ Inner.next <= Len(Inner.of) => Operand \in Expressions
<1>1. open \in Seq(Frames) /\ open # <<>> /\ Len(open) \in Nat \ {0}
  BY EmptySeq DEF Nests
<1>2. Inner = open[Len(open)] /\ Inner \in Frames
  BY <1>1, ElementOfSeq DEF Inner, Last
<1>3. Inner.next <= Len(Inner.of) + 1
  BY <1>1, <1>2 DEF Nests
<1>4. Advanced = Stepped(open)
  BY DEF Advanced, Stepped
<1>5. ASSUME Inner.next <= Len(Inner.of)
      PROVE  Operand \in Expressions
  <2>1. Inner.of \in Seq(Expressions) /\ Inner.next \in Nat \ {0} /\ Len(Inner.of) \in Nat
    BY <1>2, LenProperties DEF Frames
  <2>2. Inner.next \in 1 .. Len(Inner.of)
    BY <1>5, <2>1
  <2>3. QED
    BY <2>1, <2>2, ElementOfSeq DEF Operand
<1>6. QED
  BY <1>1, <1>2, <1>3, <1>4, <1>5

\* The one call of the first frame reads the query itself.
LEMMA OuterCall ==
  ASSUME Nests(open, query), Len(open) = 1, Inner.next <= Len(Inner.of)
  PROVE  open[1].next = 1 /\ Operand = query
<1>1. Inner = open[1] /\ Inner \in Frames /\ Inner.of = <<query>>
  BY InnerCall DEF Nests
<1>2. Len(Inner.of) = 1 /\ Inner.next \in Nat \ {0}
  BY <1>1 DEF Frames
<1>3. Inner.next = 1
  BY <1>2
<1>4. QED
  BY <1>1, <1>3 DEF Operand

\* What the parser emits for a comparison are instructions.
LEMMA ComparisonIsCode ==
  ASSUME NEW e \in Expressions, e.op \in Comparisons
  PROVE  Comparison(e) \in Seq(Instrs)
<1>1. IsComparison(e)
  BY ComparisonIsOne
<1>2. \A v \in Vals : Push(v) \in Instrs
  BY DEF Push, Instruction, Instrs, Inses
<1>3. PICK f, y : f = Instruction("field", e.field) /\ y = Push(e.v)
  OBVIOUS
<1>4. f \in Instrs
  BY <1>3 DEF Instruction, Instrs, Inses
<1>5. CASE e.op \notin Members
  <2>1. e.v \in Vals /\ y \in Instrs
    BY <1>1, <1>2, <1>3, <1>5 DEF IsComparison, Vals
  <2>2. CASE e.op \in Binaries
    <3>1. Comparison(e) = <<f, y, Do(e.op)>>
      BY <1>3, <2>2 DEF Comparison, Binaries, Members
    <3>2. Do(e.op) \in Instrs
      BY <2>2, DoIsInstruction DEF Inses
    <3>3. QED
      BY <1>4, <2>1, <3>1, <3>2, TwoAndOne
  <2>3. CASE e.op = "is"
    <3>1. Comparison(e) = <<f, y>> \o <<Do("eq")>> \/ Comparison(e) = <<y, f>> \o <<Do("eq")>>
      BY <1>3, <2>3 DEF Comparison, Members
    <3>2. Do("eq") \in Instrs
      BY DoIsInstruction DEF Inses, Binaries
    <3>3. <<f, y>> \in Seq(Instrs) /\ <<y, f>> \in Seq(Instrs) /\ <<Do("eq")>> \in Seq(Instrs)
      BY <1>4, <2>1, <3>2, OneAndOne
    <3>4. QED
      BY <3>1, <3>3, ConcatProperties
  <2>4. CASE e.op = "range"
    <3>1. PICK z : z = Push(e.hi)
      OBVIOUS
    <3>2. e.hi \in Vals /\ z \in Instrs
      BY <1>1, <1>2, <2>4, <3>1 DEF IsComparison, Vals
    <3>3. Comparison(e) = <<f, y, z, Do("range")>>
      BY <1>3, <2>4, <3>1 DEF Comparison, Members
    <3>4. Do("range") \in Instrs
      BY DoIsInstruction DEF Inses
    <3>5. QED
      BY <1>4, <2>1, <3>2, <3>3, <3>4, ThreeAndOne
  <2>5. CASE e.op = "regex"
    <3>1. PICK z : z = Instruction("regex", e.v)
      OBVIOUS
    <3>2. z \in Instrs
      BY <2>1, <3>1 DEF Instruction, Instrs, Inses
    <3>3. Comparison(e) = <<f, z, Do("regex")>>
      BY <1>3, <2>5, <3>1 DEF Comparison, Members
    <3>4. Do("regex") \in Instrs
      BY DoIsInstruction DEF Inses
    <3>5. QED
      BY <1>4, <3>2, <3>3, <3>4, TwoAndOne
  <2>6. QED
    BY <1>5, <2>2, <2>3, <2>4, <2>5 DEF Comparisons
<1>6. CASE e.op \in Members
  <2>1. PICK n, p, g, h : n = Len(e.vs) /\ p = Pushes(e.vs) /\ g = Push(Number(n)) /\ h = Do(e.op)
    OBVIOUS
  <2>2. e.vs \in Seq(Values) /\ n \in Nat /\ DOMAIN e.vs = 1 .. n
    BY <1>1, <1>6, <2>1, LenProperties DEF IsComparison
  <2>3. \A k \in 1 .. n : Push(e.vs[k]) \in Instrs
    BY <1>2, <2>1, <2>2, ElementOfSeq DEF Vals
  <2>4. p = [k \in 1 .. n |-> Push(e.vs[k])]
    BY <2>1, <2>2 DEF Pushes
  <2>5. p \in Seq(Instrs)
    BY <2>2, <2>3, <2>4
  <2>6. g \in Instrs /\ h \in Instrs
    BY <1>2, <1>6, <2>1, <2>2, NumberIsValue, DoIsInstruction DEF Vals, Inses
  <2>7. Comparison(e) = (<<f>> \o p) \o <<g, h>>
    BY <1>3, <1>6, <2>1 DEF Comparison, Members
  <2>8. <<f>> \in Seq(Instrs) /\ <<g, h>> \in Seq(Instrs)
    BY <1>4, <2>6, OneAndOne
  <2>9. <<f>> \o p \in Seq(Instrs)
    BY <2>5, <2>8, ConcatProperties
  <2>10. QED
    BY <2>7, <2>8, <2>9, ConcatProperties
<1>7. QED
  BY <1>5, <1>6

\* What Emit does, without the comparison itself.
LEMMA EmitCases ==
  ASSUME NEW e, Emit(e)
  PROVE  \/ /\ Indexable(e) /\ ~resolved
            /\ code' = IF e.op = "is" THEN code \o Comparison(e) ELSE code
            /\ resolved' = TRUE /\ by' = <<e>>
         \/ /\ ~(Indexable(e) /\ ~resolved)
            /\ code' = code \o Comparison(e)
            /\ resolved' = resolved /\ by' = by
BY DEF Emit

\* The history sees the first use of an index where the parser makes it.
LEMMA FirstUseIsUse ==
  ASSUME Nests(open, query), Settles(open, met, resolved), NEW e
  PROVE  FirstUse(e) <=> Indexable(e) /\ ~resolved
<1>1. Within("not") <=> Negated(open, Len(open))
  <2>1. DOMAIN open = 1 .. Len(open)
    BY LenProperties DEF Nests
  <2>2. QED
    BY <2>1 DEF Within, Negated
<1>2. QED
  BY <1>1 DEF FirstUse, Settles

\* The first call has read nothing, and there is no code.
LEMMA ShapedAtFirst ==
  ASSUME Init
  PROVE  Shaped
<1>1. PICK fr : fr = Frame("query", <<query>>)
  OBVIOUS
<1>2. query \in Expressions /\ <<query>> \in Seq(Expressions)
  BY ExpressionsAssumption DEF Init
<1>3. fr \in Frames /\ fr.op = "query" /\ fr.of = <<query>> /\ fr.next = 1 /\ Len(fr.of) = 1
  <2>1. fr = [op |-> "query", of |-> <<query>>, next |-> 1, kept |-> FALSE]
    BY <1>1 DEF Init, Frame
  <2>2. Len(<<query>>) = 1
    OBVIOUS
  <2>3. QED
    BY <1>2, <2>1, <2>2 DEF Frames
<1>4. open = <<fr>>
  BY <1>1 DEF Init
<1>5. open \in Seq(Frames) /\ Len(open) = 1 /\ open # <<>> /\ open[1] = fr
  BY <1>3, <1>4
<1>6. Nests(open, query)
  BY <1>3, <1>5 DEF Nests
<1>7. Settles(open, met, resolved)
  BY <1>3, <1>5 DEF Settles, Negated, Init
<1>8. code \in Seq(Instrs)
  BY EmptySeq DEF Init
<1>9. QED
  BY <1>6, <1>7, <1>8 DEF Init, Shaped

\* Every action of parser and machine keeps the calls nested and the flag explained.
LEMMA ShapedKept ==
  ASSUME Shaped, Next
  PROVE  Shaped'
<1>1. /\ Nests(open, query) /\ Settles(open, met, resolved)
      /\ open \in Seq(Frames) /\ open # <<>> /\ Len(open) \in Nat \ {0}
      /\ Inner = open[Len(open)] /\ Inner \in Frames /\ Advanced = Stepped(open)
      /\ Inner.next \in Nat \ {0} /\ Inner.of \in Seq(Expressions)
  BY InnerCall DEF Shaped, Frames
\* What remains to be shown of the actions of the parser but the last.
<1>2. ASSUME phase = "parse", phase' = phase, query' = query, UNCHANGED running,
             code' \in Seq(Instrs), resolved' \in BOOLEAN, met' \in BOOLEAN, balanced' \in BOOLEAN,
             by' \in {<<>>} \cup {<<e>> : e \in Expressions}, by' = <<>> <=> ~met',
             Nests(open', query), Settles(open', met', resolved'),
             ~ (Len(open') = 1 /\ open'[1].next = 1)
      PROVE  Shaped'
  BY <1>2 DEF Shaped, running
<1>3. ASSUME NEW ops, Reads(ops)
      PROVE  /\ phase = "parse" /\ Operand \in Expressions /\ Operand.op \in ops
             /\ open[Len(open)].next <= Len(open[Len(open)].of)
             /\ Operand = open[Len(open)].of[open[Len(open)].next]
             /\ Nests(Stepped(open), query) /\ Settles(Stepped(open), met, resolved)
             /\ Stepped(open) \in Seq(Frames) /\ Len(Stepped(open)) = Len(open)
             /\ ~ (Len(Stepped(open)) = 1 /\ Stepped(open)[1].next = 1)
  <2>1. phase = "parse" /\ Operand \in Expressions /\ Operand.op \in ops
    BY <1>1, <1>3, InnerCall DEF Reads
  <2>2. /\ open[Len(open)].next <= Len(open[Len(open)].of)
        /\ Operand = open[Len(open)].of[open[Len(open)].next]
    BY <1>1, <1>3 DEF Reads, Operand
  <2>3. Nests(Stepped(open), query)
    BY <1>1, <2>2, CallsStep
  <2>4. Settles(Stepped(open), met, resolved)
    BY <1>1, SettlesStep DEF Shaped
  <2>5. Stepped(open) \in Seq(Frames) /\ Len(Stepped(open)) = Len(open)
    BY <1>1, SteppedFrames
  <2>6. ~ (Len(Stepped(open)) = 1 /\ Stepped(open)[1].next = 1)
    <3>1. CASE Len(open) = 1
      <4>1. Stepped(open)[1].next = open[1].next + 1 /\ open[1] = Inner
        BY <1>1, <3>1, SteppedFrames
      <4>2. QED
        BY <1>1, <4>1
    <3>2. QED
      BY <2>5, <3>1
  <2>7. QED
    BY <2>1, <2>2, <2>3, <2>4, <2>5, <2>6
<1>4. ASSUME NEW ops, HasRead(ops), "query" \notin ops
      PROVE  /\ phase = "parse" /\ Inner.op \in ops
             /\ Len(open) > 1 /\ Nests(Front(open), query)
             /\ ~ (Len(Front(open)) = 1 /\ Front(open)[1].next = 1)
  <2>1. phase = "parse" /\ Inner.op \in ops
    BY <1>4 DEF HasRead
  <2>0. PICK n : n = Len(open)
    OBVIOUS
  <2>2. Len(open) > 1
    <3>1. n # 1
      BY <1>1, <1>4, <2>0, <2>1 DEF Nests
    <3>2. n \in Nat \ {0}
      BY <1>1, <2>0
    <3>3. n > 1
      BY <3>1, <3>2
    <3>4. QED
      BY <2>0, <3>3
  <2>3. Nests(Front(open), query)
    BY <1>1, <2>2, CallsLeave
  <2>4. ~ (Len(Front(open)) = 1 /\ Front(open)[1].next = 1)
    <3>1. CASE Len(Front(open)) = 1
      <4>5. /\ n \in Nat /\ Len(Front(open)) = n - 1
            /\ \A j \in 1 .. n - 1 : Front(open)[j] = open[j]
        BY <1>1, <2>0, <2>2, LeftFrames
      <4>1. n = 2 /\ Front(open)[1] = open[1]
        <5>1. n - 1 = 1
          BY <3>1, <4>5
        <5>2. n = 2 /\ 1 \in 1 .. n - 1
          BY <4>5, <5>1
        <5>3. QED
          BY <4>5, <5>2
      <4>2. open[1].next >= 2
        <5>1. 2 \in 2 .. Len(open)
          BY <2>0, <4>1
        <5>2. open[2 - 1].next >= 2
          BY <1>1, <5>1 DEF Nests
        <5>3. QED
          BY <5>2
      <4>3. QED
        BY <4>1, <4>2
    <3>2. QED
      BY <3>1
  <2>5. QED
    BY <2>1, <2>2, <2>3, <2>4
<1>5. CASE ParseEmpty
  <2>1. open' = Stepped(open) /\ Reads({"all"})
    BY <1>1, <1>5 DEF ParseEmpty
  <2>2. /\ phase' = phase /\ query' = query /\ UNCHANGED running
        /\ code' = code /\ resolved' = resolved /\ by' = by /\ met' = met /\ balanced' \in BOOLEAN
    BY <1>5 DEF ParseEmpty, Shaped
  <2>3. QED
    BY <1>2, <1>3, <2>1, <2>2 DEF Shaped
<1>6. CASE ParseComparison
  <2>1. open' = Stepped(open) /\ Reads(Comparisons) /\ Emit(Operand)
    BY <1>1, <1>6 DEF ParseComparison
  <2>2. /\ phase' = phase /\ query' = query /\ UNCHANGED running
        /\ met' = (met \/ FirstUse(Operand)) /\ balanced' \in BOOLEAN
    BY <1>6 DEF ParseComparison, Shaped
  <2>3. code \o Comparison(Operand) \in Seq(Instrs)
    BY <1>3, <2>1, ComparisonIsCode, ConcatProperties DEF Shaped
  <2>4. FirstUse(Operand) <=> Indexable(Operand) /\ ~resolved
    BY <1>1, FirstUseIsUse
  <2>5. code' \in Seq(Instrs)
    BY <2>1, <2>3, EmitCases DEF Shaped
  <2>6. CASE FirstUse(Operand)
    <3>1. resolved' = TRUE /\ by' = <<Operand>> /\ met' = TRUE /\ ~met
      BY <2>1, <2>2, <2>4, <2>6, EmitCases DEF FirstUse
    <3>2. \A j \in 1 .. Len(open) : open[j].op # "not"
      <4>1. DOMAIN open = 1 .. Len(open)
        BY <1>1, LenProperties
      <4>2. QED
        BY <2>6, <4>1 DEF FirstUse, Within
    <3>3. Settles(Stepped(open), TRUE, TRUE)
      BY <1>1, <3>2, SteppedFrames DEF Settles, Negated
    <3>4. by' \in {<<e>> : e \in Expressions} /\ by' # <<>>
      BY <1>3, <2>1, <3>1
    <3>5. QED
      BY <1>2, <1>3, <2>1, <2>2, <2>5, <3>1, <3>3, <3>4
  <2>7. CASE ~FirstUse(Operand)
    <3>1. resolved' = resolved /\ by' = by /\ met' = met
      BY <2>1, <2>2, <2>4, <2>7, EmitCases DEF Shaped
    <3>2. /\ by' \in {<<>>} \cup {<<e>> : e \in Expressions} /\ (by' = <<>> <=> ~met')
          /\ resolved' \in BOOLEAN /\ met' \in BOOLEAN
      BY <3>1 DEF Shaped
    <3>3. Settles(open', met', resolved')
      BY <1>3, <2>1, <3>1
    <3>4. QED
      BY <1>2, <1>3, <2>1, <2>2, <2>5, <3>2, <3>3
  <2>8. QED
    BY <2>6, <2>7
<1>7. ASSUME NEW op \in {"not"} \cup Junctions, Reads({op}), NEW fr, fr = Frame(op, Operands(Operand)),
             open' = Append(Advanced, fr), resolved' = (resolved \/ op = "not"),
             UNCHANGED <<query, phase, code, by, met, balanced, running>>
      PROVE  Shaped'
  <2>1. /\ phase = "parse" /\ Operand \in Expressions /\ Operand.op = op
        /\ open[Len(open)].next <= Len(open[Len(open)].of)
        /\ Operand = open[Len(open)].of[open[Len(open)].next]
    BY <1>3, <1>7
  <2>2. fr \in Frames /\ fr.op = op /\ fr.of = Operands(Operand) /\ fr.next = 1 /\ fr.kept = resolved
    BY <1>7, <2>1, ExpressionsAssumption DEF Frame, Frames, Shaped
  <2>3. open' = Append(Stepped(open), fr)
    BY <1>1, <1>7
  <2>4. Nests(open', query)
    BY <1>1, <2>1, <2>2, <2>3, CallsEnter DEF Junctions
  <2>5. Settles(open', met, resolved')
    BY <1>1, <1>7, <2>2, <2>3, SettlesEnter DEF Shaped
  <2>6. ~ (Len(open') = 1 /\ open'[1].next = 1)
    BY <1>1, <2>2, <2>3, EnteredFrames
  <2>7. resolved' \in BOOLEAN
    BY <1>7 DEF Shaped
  <2>8. QED
    BY <1>2, <1>7, <2>1, <2>4, <2>5, <2>6, <2>7 DEF Shaped
<1>8. CASE EnterJunction
  <2>1. Operand.op \in Junctions /\ Reads({Operand.op})
    BY <1>8 DEF EnterJunction, Reads
  <2>2. Operands(Operand) = Operand.of
    BY <2>1 DEF Operands, Junctions
  <2>3. resolved' = (resolved \/ Operand.op = "not")
    BY <1>8, <2>1 DEF EnterJunction, Junctions, Shaped
  <2>4. QED
    BY <1>7, <1>8, <2>1, <2>2, <2>3 DEF EnterJunction
<1>9. CASE EnterNot
  <2>1. Reads({"not"}) /\ Operand.op = "not"
    BY <1>9 DEF EnterNot, Reads
  <2>2. Operands(Operand) = <<Operand.of>>
    BY <2>1 DEF Operands, Junctions
  <2>3. resolved' = (resolved \/ "not" = "not")
    BY <1>9 DEF EnterNot, ResolvedInNot
  <2>4. QED
    BY <1>7, <1>9, <2>1, <2>2, <2>3 DEF EnterNot
<1>10. CASE LeaveJunction
  <2>1. HasRead(Junctions) /\ Inner.op # "not"
    BY <1>10 DEF LeaveJunction, HasRead, Junctions
  <2>2. /\ phase = "parse" /\ Inner.op \in Junctions /\ Len(open) > 1 /\ Nests(Front(open), query)
        /\ ~ (Len(Front(open)) = 1 /\ Front(open)[1].next = 1)
    BY <1>4, <2>1 DEF Junctions
  <2>3. Settles(Front(open), met, resolved)
    BY <1>1, <2>1, <2>2, SettlesLeave DEF Shaped
  <2>4. code' \in Seq(Instrs)
    <3>1. PICK g, h : g = Push(Number(Len(Inner.of))) /\ h = Do(Inner.op)
      OBVIOUS
    <3>2. g \in Instrs
      BY <1>1, <3>1, LenProperties, NumberIsValue DEF Push, Instruction, Instrs, Inses, Vals
    <3>3. h \in Instrs
      BY <2>2, <3>1, DoIsInstruction DEF Inses
    <3>4. code' = code \o <<g, h>> /\ code \in Seq(Instrs)
      BY <1>10, <3>1 DEF LeaveJunction, Shaped
    <3>5. QED
      BY <3>2, <3>3, <3>4, OneAndOne, ConcatProperties
  <2>5. QED
    BY <1>2, <1>10, <2>2, <2>3, <2>4 DEF LeaveJunction, Shaped
<1>11. CASE LeaveNot
  <2>1. HasRead({"not"}) /\ Inner.op = "not"
    BY <1>11 DEF LeaveNot, HasRead
  <2>2. /\ phase = "parse" /\ Len(open) > 1 /\ Nests(Front(open), query)
        /\ ~ (Len(Front(open)) = 1 /\ Front(open)[1].next = 1)
    BY <1>4, <2>1
  <2>3. Settles(Front(open), met, Inner.kept)
    BY <1>1, <2>1, <2>2, SettlesLeave DEF Shaped
  <2>4. code' \in Seq(Instrs)
    <3>1. Do("not") \in Instrs
      BY DoIsInstruction DEF Inses
    <3>2. QED
      BY <1>11, <3>1, AppendProperties DEF LeaveNot, Shaped
  <2>5. Inner.kept \in BOOLEAN
    BY <1>1 DEF Frames
  <2>6. QED
    BY <1>2, <1>11, <2>2, <2>3, <2>4, <2>5 DEF LeaveNot, Shaped
<1>12. CASE LeaveQuery
  <2>1. phase = "parse" /\ Inner.next > Len(Inner.of) /\ Inner.op = "query"
    BY <1>12 DEF LeaveQuery, HasRead
  <2>2. Len(open) = 1 /\ open[1].next = 2
    <3>1. Len(open) = 1
      <4>1. PICK n : n = Len(open)
        OBVIOUS
      <4>2. n \in Nat \ {0} /\ n \notin 2 .. n
        BY <1>1, <2>1, <4>1 DEF Nests
      <4>3. n = 1
        BY <4>2
      <4>4. QED
        BY <4>1, <4>3
    <3>2. Inner.of = <<query>> /\ Inner.next <= Len(Inner.of) + 1 /\ Inner = open[1]
      BY <1>1, <3>1, InnerCall DEF Nests
    <3>3. Inner.next \in Nat /\ Len(<<query>>) = 1
      BY <1>1
    <3>4. Inner.next = 2
      BY <2>1, <3>2, <3>3
    <3>5. QED
      BY <3>1, <3>2, <3>4
  <2>3. phase' = "run" /\ todo' \subseteq DOMAIN Stored /\ UNCHANGED <<query, parsing>>
    BY <1>12 DEF LeaveQuery
  <2>4. QED
    BY <2>2, <2>3 DEF Shaped, parsing
<1>13. CASE Execute \/ RunsShort \/ Finish
  <2>1. phase = "run" /\ phase' = phase /\ UNCHANGED <<query, parsing>> /\ todo' \subseteq todo
    BY <1>13 DEF Execute, RunsShort, Finish, Tests
  <2>2. QED
    BY <2>1 DEF Shaped, parsing
<1>14. CASE Rest
  BY <1>14 DEF Rest, Shaped, vars, parsing, running
<1>15. QED
  BY <1>5, <1>6, <1>8, <1>9, <1>10, <1>11, <1>12, <1>13, <1>14 DEF Next
-----------------------------------------------------------------------------
(***************************************************************************)
(* The index: the range that is walked holds the answer.                   *)
(***************************************************************************)
Ranged ==
  balanced /\ by # <<>> =>
    ~Reversed(by[1]) /\ Pins(open, {i \in DOMAIN Stored : InRange(by[1], Stored[i])})

\* Every action keeps a match of the query in the range once there is one.
LEMMA RangedKept ==
  ASSUME Shaped, Ranged, Next
  PROVE  Ranged'
<1>1. /\ Nests(open, query) /\ Settles(open, met, resolved)
      /\ open \in Seq(Frames) /\ open # <<>> /\ Len(open) \in Nat \ {0}
      /\ Inner = open[Len(open)] /\ Inner \in Frames /\ Advanced = Stepped(open)
      /\ Inner.next \in Nat \ {0}
  BY InnerCall DEF Shaped, Frames
<1>2. ASSUME balanced' => balanced, by' = by,
             \A R : Pins(open, R) => Pins(open', R)
      PROVE  Ranged'
  BY <1>2 DEF Ranged
<1>3. CASE ParseEmpty
  <2>1. open' = Stepped(open) /\ (balanced' => balanced) /\ by' = by
    BY <1>1, <1>3 DEF ParseEmpty
  <2>2. QED
    BY <1>1, <1>2, <2>1, PinsStep
<1>4. CASE ParseComparison
  <2>1. open' = Stepped(open) /\ Emit(Operand) /\ (balanced' => balanced)
    BY <1>1, <1>4 DEF ParseComparison
  <2>2. FirstUse(Operand) <=> Indexable(Operand) /\ ~resolved
    BY <1>1, FirstUseIsUse
  <2>3. CASE ~FirstUse(Operand)
    <3>1. by' = by
      BY <2>1, <2>2, <2>3, EmitCases
    <3>2. QED
      BY <1>1, <1>2, <2>1, <3>1, PinsStep
  <2>4. CASE FirstUse(Operand)
    <3>1. PICK e, n, k : e = Operand /\ n = Len(open) /\ k = Inner.next
      OBVIOUS
    <3>2. SUFFICES ASSUME balanced'
                   PROVE  ~Reversed(e) /\ Pins(Stepped(open), {i \in DOMAIN Stored : InRange(e, Stored[i])})
      <4>1. by' = <<e>>
        BY <2>1, <2>2, <2>4, <3>1, EmitCases
      <4>2. by'[1] = e
        BY <4>1
      <4>3. QED
        BY <2>1, <4>2 DEF Ranged
    <3>3. SuitsIndex(e)
      BY <1>4, <2>4, <3>1, <3>2 DEF ParseComparison
    <3>4. e \in Expressions /\ e = open[n].of[k] /\ k <= Len(Inner.of)
      BY <1>1, <1>4, <3>1, InnerCall DEF ParseComparison, Reads, Operand
    <3>5. e.op \in {"is", "gt", "lt", "range"}
      BY <2>2, <2>4, <3>1 DEF Indexable
    <3>6. e.op # "is" => RangeSuits(e)
      BY <3>3 DEF SuitsIndex
    <3>7. ~Reversed(e)
      BY <3>5, <3>6 DEF RangeSuits, Reversed
    <3>8. Means[e] \subseteq {i \in DOMAIN Stored : InRange(e, Stored[i])}
      <4>1. CASE e.op = "is"
        BY <3>4, <4>1, EqualIsInRange
      <4>2. CASE e.op # "is"
        <5>1. e.op \in {"gt", "lt", "range"} /\ RangeSuits(e)
          BY <3>5, <3>6, <4>2
        <5>2. Means[e] \subseteq DOMAIN Stored
          BY <3>4, <5>1, ComparisonMeans DEF Comparisons, Binaries
        <5>3. QED
          BY <3>4, <5>1, <5>2, RangeIsMeaning
      <4>3. QED
        BY <4>1, <4>2
    <3>9. \A l \in 1 .. n : open[l].op \in {"query", "and"}
      <4>1. CASE n = 1
        BY <1>1, <4>1 DEF Nests
      <4>2. CASE n # 1
        <5>1. ~Within("or") /\ ~Within("not")
          BY <2>4, <3>1, <3>3, <4>2 DEF SuitsIndex, FirstUse
        <5>2. DOMAIN open = 1 .. n /\ \A l \in 1 .. n : open[l] \in Frames
          BY <1>1, <3>1, LenProperties, ElementOfSeq
        <5>3. \A l \in 1 .. n : open[l].op \notin {"or", "not"}
          BY <5>1, <5>2 DEF Within
        <5>4. QED
          BY <5>2, <5>3 DEF Frames, Junctions
      <4>3. QED
        BY <4>1, <4>2
    <3>10. /\ Len(Stepped(open)) = n /\ n \in 1 .. n
           /\ \A l \in 1 .. n : Stepped(open)[l].op = open[l].op
           /\ Stepped(open)[n].of = open[n].of /\ Stepped(open)[n].next = k + 1
      <4>1. n \in 1 .. n /\ open[n].next = k
        BY <1>1, <3>1
      <4>2. QED
        BY <1>1, <3>1, <4>1, SteppedFrames
    <3>11. k \in 1 .. Stepped(open)[n].next - 1
      BY <1>1, <3>1, <3>10
    <3>12. Pins(Stepped(open), {i \in DOMAIN Stored : InRange(e, Stored[i])})
      <4>1. \E m \in 1 .. Stepped(open)[n].next - 1 :
              Means[Stepped(open)[n].of[m]] \subseteq {i \in DOMAIN Stored : InRange(e, Stored[i])}
        BY <3>4, <3>8, <3>10, <3>11
      <4>2. \A l \in 1 .. n : Stepped(open)[l].op \in {"query", "and"}
        BY <3>9, <3>10
      <4>3. QED
        BY <3>10, <4>1, <4>2 DEF Pins
    <3>13. QED
      BY <3>7, <3>12
  <2>5. QED
    BY <2>3, <2>4
<1>5. ASSUME NEW op, NEW of, open' = Append(Advanced, Frame(op, of)), op \in {"not"} \cup Junctions,
             of \in Seq(Expressions), balanced' = balanced, by' = by
      PROVE  Ranged'
  <2>1. Frame(op, of) \in Frames
    BY <1>5 DEF Frame, Frames, Shaped
  <2>2. QED
    BY <1>1, <1>2, <1>5, <2>1, PinsEnter
<1>6. CASE EnterJunction
  <2>1. Operand \in Expressions /\ Operand.op \in Junctions
    BY <1>1, <1>6, InnerCall DEF EnterJunction, Reads
  <2>2. Operands(Operand) = Operand.of
    BY <2>1 DEF Operands, Junctions
  <2>3. Operand.of \in Seq(Expressions)
    BY <2>1, <2>2, ExpressionsAssumption
  <2>4. QED
    BY <1>5, <1>6, <2>1, <2>3 DEF EnterJunction
<1>7. CASE EnterNot
  <2>1. Operand \in Expressions /\ Operand.op = "not"
    BY <1>1, <1>7, InnerCall DEF EnterNot, Reads
  <2>2. Operands(Operand) = <<Operand.of>>
    BY <2>1 DEF Operands, Junctions
  <2>3. <<Operand.of>> \in Seq(Expressions)
    BY <2>1, <2>2, ExpressionsAssumption
  <2>4. QED
    BY <1>5, <1>7, <2>3 DEF EnterNot
<1>8. CASE LeaveJunction \/ LeaveNot
  <2>1. open' = Front(open) /\ by' = by /\ balanced' = balanced
    BY <1>8 DEF LeaveJunction, LeaveNot
  <2>2. Len(open) > 1
    <3>1. PICK n : n = Len(open)
      OBVIOUS
    <3>2. n # 1 /\ n \in Nat \ {0}
      BY <1>1, <1>8, <3>1 DEF LeaveJunction, LeaveNot, HasRead, Nests, Junctions
    <3>3. n > 1
      BY <3>2
    <3>4. QED
      BY <3>1, <3>3
  <2>3. QED
    BY <1>1, <1>2, <2>1, <2>2, PinsLeave
<1>9. CASE LeaveQuery \/ Execute \/ RunsShort \/ Finish \/ Rest
  <2>1. open' = open /\ by' = by /\ balanced' = balanced
    BY <1>9 DEF LeaveQuery, Execute, RunsShort, Finish, Rest, vars, parsing
  <2>2. QED
    BY <1>2, <2>1
<1>10. QED
  BY <1>3, <1>4, <1>6, <1>7, <1>8, <1>9 DEF Next
-----------------------------------------------------------------------------
(***************************************************************************)
(* The code: run for any document, it leaves the verdicts the open calls   *)
(* have to expect.                                                         *)
(***************************************************************************)
RegexIn(c) == \E k \in DOMAIN c : c[k].ins = "regex"

\* Code has a $regex when one of its parts has.
LEMMA RegexStays ==
  ASSUME NEW c \in Seq(Instrs), NEW x \in Seq(Instrs)
  PROVE  RegexIn(c \o x) <=> RegexIn(c) \/ RegexIn(x)
<1>1. PICK n, m : n = Len(c) /\ m = Len(x)
  OBVIOUS
<1>2. /\ n \in Nat /\ m \in Nat /\ DOMAIN c = 1 .. n /\ DOMAIN x = 1 .. m
      /\ c \o x \in Seq(Instrs) /\ Len(c \o x) = n + m
      /\ \A k \in 1 .. n + m : (c \o x)[k] = IF k <= n THEN c[k] ELSE x[k - n]
  BY <1>1, LenProperties, ConcatProperties
<1>3. PICK y : y = c \o x
  OBVIOUS
<1>4. DOMAIN y = 1 .. n + m /\ \A k \in 1 .. n + m : y[k] = IF k <= n THEN c[k] ELSE x[k - n]
  BY <1>2, <1>3, LenProperties
<1>5. ASSUME NEW k \in 1 .. n, c[k].ins = "regex"
      PROVE  RegexIn(y)
  BY <1>2, <1>4, <1>5 DEF RegexIn
<1>6. ASSUME NEW k \in 1 .. m, x[k].ins = "regex"
      PROVE  RegexIn(y)
  <2>1. n + k \in 1 .. n + m /\ ~ (n + k <= n) /\ n + k - n = k
    BY <1>2
  <2>2. PICK z, l : z = n + k /\ l = z - n
    OBVIOUS
  <2>3. y[z] = x[l]
    BY <1>4, <2>1, <2>2
  <2>4. l = k
    BY <1>2, <2>2
  <2>5. QED
    BY <1>4, <1>6, <2>1, <2>2, <2>3, <2>4 DEF RegexIn
<1>7. ASSUME NEW k \in 1 .. n + m, y[k].ins = "regex"
      PROVE  RegexIn(c) \/ RegexIn(x)
  <2>1. CASE k <= n
    BY <1>2, <1>4, <1>7, <2>1 DEF RegexIn
  <2>2. CASE ~(k <= n)
    <3>1. k - n \in 1 .. m /\ y[k] = x[k - n]
      BY <1>2, <1>4, <2>2
    <3>2. QED
      BY <1>2, <1>7, <3>1 DEF RegexIn
  <2>3. QED
    BY <2>1, <2>2
<1>8. RegexIn(y) => \E k \in 1 .. n + m : y[k].ins = "regex"
  BY <1>4 DEF RegexIn
<1>9. (RegexIn(c) => \E k \in 1 .. n : c[k].ins = "regex") /\ (RegexIn(x) => \E k \in 1 .. m : x[k].ins = "regex")
  BY <1>2 DEF RegexIn
<1>10. QED
  BY <1>3, <1>5, <1>6, <1>7, <1>8, <1>9

\* A bool is a verdict if it tells whether the document is meant.
LEMMA SaysBool ==
  ASSUME NEW i, NEW e, NEW regex, NEW b \in BOOLEAN, regex \/ (b <=> i \in Means[e])
  PROVE  Says(Bool(b), i, e, regex) /\ Bool(b) \in Vals
BY BoolIsValue DEF Says, Bool, Vals

\* A verdict tells whether the document is meant.
LEMMA SaidIsMeant ==
  ASSUME NEW i, NEW e, NEW x, Says(x, i, e, FALSE)
  PROVE  AsBool(x) <=> i \in Means[e]
BY DEF Says, Bool, AsBool

\* What a comparison leaves is its verdict.
LEMMA ComparisonSays ==
  ASSUME NEW e \in Expressions, e.op \in Comparisons, NEW i \in DOMAIN Stored,
         NEW regex \in BOOLEAN, e.op = "regex" => regex
  PROVE  /\ Bool(Verdict(e, Stored[i])) \in Vals
         /\ Says(Bool(Verdict(e, Stored[i])), i, e, regex)
<1>1. i \in Means[e] <=> Compares(e, Stored[i])
  BY ComparisonMeans
<1>2. PICK b \in BOOLEAN : b <=> Verdict(e, Stored[i])
  OBVIOUS
<1>3. Bool(b) = Bool(Verdict(e, Stored[i]))
  BY <1>2 DEF Bool
<1>4. regex \/ (b <=> i \in Means[e])
  BY <1>1, <1>2 DEF Verdict
<1>5. QED
  BY <1>3, <1>4, SaysBool

\* What $and or $or makes of the verdicts on its operands is its own.
LEMMA JunctionSays ==
  ASSUME NEW e \in Expressions, e.op \in Junctions, NEW i \in DOMAIN Stored,
         NEW u \in Seq(Vals), Len(u) = Len(e.of), NEW regex \in BOOLEAN,
         \A k \in 1 .. Len(u) : Says(u[k], i, e.of[k], regex)
  PROVE  /\ Bool(Junction(e.op, u)) \in Vals
         /\ Says(Bool(Junction(e.op, u)), i, e, regex)
<1>1. PICK b \in BOOLEAN : b <=> Junction(e.op, u)
  OBVIOUS
<1>2. Bool(b) = Bool(Junction(e.op, u))
  BY <1>1 DEF Bool
<1>3. ASSUME ~regex
      PROVE  Junction(e.op, u) <=> i \in Means[e]
  <2>1. DOMAIN e.of = 1 .. Len(u)
    <3>1. Operands(e) = e.of
      BY DEF Operands, Junctions
    <3>2. e.of \in Seq(Expressions)
      BY <3>1, ExpressionsAssumption
    <3>3. QED
      BY <3>2, LenProperties
  <2>2. \A k \in 1 .. Len(u) : AsBool(u[k]) <=> i \in Means[e.of[k]]
    BY <1>3, SaidIsMeant
  <2>3. Means[e] = Meaning(Means, e)
    BY MeansUnfolds
  <2>4. CASE e.op = "and"
    BY <2>1, <2>2, <2>3, <2>4 DEF Meaning, Junction
  <2>5. CASE e.op = "or"
    BY <2>1, <2>2, <2>3, <2>5 DEF Meaning, Junction
  <2>6. QED
    BY <2>4, <2>5 DEF Junctions
<1>4. QED
  BY <1>1, <1>2, <1>3, SaysBool

\* What $not makes of the verdict on its operand is its own.
LEMMA NotSays ==
  ASSUME NEW e \in Expressions, e.op = "not", NEW i \in DOMAIN Stored, NEW x,
         NEW regex \in BOOLEAN, Says(x, i, e.of, regex)
  PROVE  /\ Bool(~AsBool(x)) \in Vals
         /\ Says(Bool(~AsBool(x)), i, e, regex)
<1>1. PICK b \in BOOLEAN : b <=> ~AsBool(x)
  OBVIOUS
<1>2. Bool(b) = Bool(~AsBool(x))
  BY <1>1 DEF Bool
<1>3. ASSUME ~regex
      PROVE  ~AsBool(x) <=> i \in Means[e]
  <2>1. AsBool(x) <=> i \in Means[e.of]
    BY <1>3, SaidIsMeant
  <2>2. Means[e] = DOMAIN Stored \ Means[e.of]
    BY MeansUnfolds DEF Meaning
  <2>3. QED
    BY <2>1, <2>2
<1>4. QED
  BY <1>1, <1>2, <1>3, SaysBool

\* The range of the index, or of all documents, is the answer: there is no code.
RangeAlone ==
  /\ Len(open) = 1 /\ open[1].next = 2
  /\ code = <<>>
  /\ \/ by = <<>> /\ query.op = "all"
     \/ by = <<query>> /\ query.op \in {"gt", "lt", "range"} /\ RangeSuits(query)

Emitted(i) ==
  \E s, b : Leaves(code, Stored[i], s) /\ Holding(open, i, RegexIn(code), s, b)

Coded == balanced => RangeAlone \/ \A i \in DOMAIN Stored : Emitted(i)

\* No code leaves no verdicts, and no operand has been read.
LEMMA CodedAtFirst ==
  ASSUME Init
  PROVE  Coded /\ Ranged
<1>1. PICK fr : fr = Frame("query", <<query>>)
  OBVIOUS
<1>2. open = <<fr>> /\ fr.next = 1
  BY <1>1 DEF Init, Frame
<1>3. Len(open) = 1 /\ open[1] = fr
  BY <1>2
<1>4. ASSUME NEW i \in DOMAIN Stored
      PROVE  Emitted(i)
  <2>1. Leaves(<<>>, Stored[i], <<>>) /\ Len(<<>>) = 0
    BY NothingRuns, EmptySeq
  <2>2. PICK b : b = [j \in 1 .. 2 |-> 0]
    OBVIOUS
  <2>3. Completed(open, 1) = 0
    BY <1>2, <1>3 DEF Completed
  <2>4. /\ b \in [1 .. Len(open) + 1 -> Nat] /\ b[1] = 0
        /\ \A j \in 1 .. Len(open) : b[j + 1] = b[j] + Completed(open, j)
        /\ \A j, k \in 1 .. Len(open) + 1 : j <= k => b[j] <= b[k]
        /\ b[Len(open) + 1] = 0
        /\ \A j \in 1 .. Len(open) : \A k \in 1 .. Completed(open, j) : FALSE
    BY <1>3, <2>2, <2>3
  <2>5. Holding(open, i, RegexIn(code), <<>>, b)
    BY <2>1, <2>4 DEF Holding
  <2>6. code = <<>>
    BY DEF Init
  <2>7. QED
    BY <2>1, <2>5, <2>6 DEF Emitted
<1>5. QED
  BY <1>4 DEF Coded, Ranged, Init

\* Every action keeps the code in step with the open calls.
LEMMA CodedKept ==
  ASSUME Shaped, Coded, Next
  PROVE  Coded'
<1>1. /\ Nests(open, query) /\ Settles(open, met, resolved) /\ code \in Seq(Instrs)
      /\ open \in Seq(Frames) /\ open # <<>> /\ Len(open) \in Nat \ {0}
      /\ Inner = open[Len(open)] /\ Inner \in Frames /\ Advanced = Stepped(open)
      /\ Inner.next \in Nat \ {0}
      /\ RegexIn(code) \in BOOLEAN /\ RegexIn(code') \in BOOLEAN
  BY InnerCall DEF Shaped, Frames, RegexIn
<1>2. ASSUME NEW ops, Reads(ops), balanced
      PROVE  \A i \in DOMAIN Stored : Emitted(i)
  <2>1. ~RangeAlone
    BY <1>1, <1>2, OuterCall DEF Reads, RangeAlone
  <2>2. QED
    BY <1>2, <2>1 DEF Coded
<1>3. ASSUME NEW ops, Reads(ops)
      PROVE  /\ Operand \in Expressions /\ Operand.op \in ops
             /\ Operand = open[Len(open)].of[open[Len(open)].next]
  BY <1>1, <1>3, InnerCall DEF Reads, Operand
<1>4. CASE ParseEmpty
  <2>1. SUFFICES ASSUME balanced' PROVE RangeAlone'
    BY DEF Coded
  <2>2. Len(open) = 1 /\ Reads({"all"})
    BY <1>4, <2>1 DEF ParseEmpty
  <2>3. open[1].next = 1 /\ Operand = query /\ query.op = "all" /\ phase = "parse"
    BY <1>1, <2>2, OuterCall DEF Reads
  <2>4. code = <<>> /\ by = <<>>
    BY <2>2, <2>3 DEF Shaped
  <2>5. open' = Stepped(open) /\ code' = code /\ by' = by /\ query' = query
    BY <1>1, <1>4 DEF ParseEmpty
  <2>6. Len(Stepped(open)) = 1 /\ Stepped(open)[1].next = 2
    BY <1>1, <2>2, <2>3, SteppedFrames
  <2>7. QED
    BY <2>3, <2>4, <2>5, <2>6 DEF RangeAlone
<1>5. CASE ParseComparison
  <2>1. PICK e : e = Operand
    OBVIOUS
  <2>2. /\ open' = Stepped(open) /\ Emit(e) /\ Reads(Comparisons)
        /\ query' = query /\ balanced' = (balanced /\ (FirstUse(e) => SuitsIndex(e)))
    BY <1>1, <1>5, <2>1 DEF ParseComparison
  <2>3. e \in Expressions /\ e.op \in Comparisons /\ e = open[Len(open)].of[open[Len(open)].next]
    BY <1>3, <2>1, <2>2
  <2>4. FirstUse(e) <=> Indexable(e) /\ ~resolved
    BY <1>1, FirstUseIsUse
  <2>5. CASE FirstUse(e) /\ e.op # "is"
    <3>1. SUFFICES ASSUME balanced' PROVE RangeAlone'
      BY DEF Coded
    <3>2. SuitsIndex(e) /\ balanced
      BY <2>2, <2>5, <3>1
    <3>3. Len(open) = 1 /\ RangeSuits(e) /\ e.op \in {"gt", "lt", "range"}
      BY <2>4, <2>5, <3>2 DEF SuitsIndex, Indexable
    <3>4. open[1].next = 1 /\ e = query /\ phase = "parse"
      BY <1>1, <2>1, <2>2, <3>3, OuterCall DEF Reads
    <3>5. code = <<>>
      BY <3>3, <3>4 DEF Shaped
    <3>6. code' = code /\ by' = <<e>>
      BY <2>2, <2>4, <2>5, EmitCases
    <3>7. Len(Stepped(open)) = 1 /\ Stepped(open)[1].next = 2
      BY <1>1, <3>3, <3>4, SteppedFrames
    <3>8. RangeSuits(query)'
      BY <2>2, <3>3, <3>4 DEF RangeSuits, Reversed, Keys
    <3>9. QED
      BY <2>2, <3>3, <3>4, <3>5, <3>6, <3>7, <3>8 DEF RangeAlone
  <2>6. CASE ~FirstUse(e) \/ e.op = "is"
    <3>1. code' = code \o Comparison(e)
      BY <2>2, <2>4, <2>6, EmitCases
    <3>2. ASSUME balanced', NEW i \in DOMAIN Stored
          PROVE  Emitted(i)'
      <4>1. PICK s, b : Leaves(code, Stored[i], s) /\ Holding(open, i, RegexIn(code), s, b)
        BY <1>2, <2>2, <3>2 DEF Emitted
      <4>2. PICK x : x = Bool(Verdict(e, Stored[i]))
        OBVIOUS
      <4>3. Leaves(code', Stored[i], Append(s, x))
        BY <2>3, <3>1, <4>1, <4>2, ComparisonRuns
      <4>4. Comparison(e) \in Seq(Instrs) /\ (RegexIn(code) => RegexIn(code'))
        BY <1>1, <2>3, <3>1, ComparisonIsCode, RegexStays
      <4>5. e.op = "regex" => RegexIn(code')
        <5>1. SUFFICES ASSUME e.op = "regex" PROVE RegexIn(Comparison(e))
          BY <1>1, <3>1, <4>4, RegexStays
        <5>2. PICK f, g, h : /\ f = Instruction("field", e.field) /\ g = Instruction("regex", e.v)
                             /\ h = Do("regex")
          OBVIOUS
        <5>3. Comparison(e) = <<f, g, h>>
          BY <5>1, <5>2 DEF Comparison, Members
        <5>4. g.ins = "regex"
          BY <5>2 DEF Instruction
        <5>5. 2 \in DOMAIN <<f, g, h>> /\ <<f, g, h>>[2] = g
          OBVIOUS
        <5>6. QED
          BY <5>3, <5>4, <5>5 DEF RegexIn
      <4>6. x \in Vals /\ Says(x, i, e, RegexIn(code'))
        BY <1>1, <2>3, <4>2, <4>5, ComparisonSays
      <4>7. s \in Seq(Vals)
        BY <4>1 DEF Leaves
      <4>8. PICK c : Holding(Stepped(open), i, RegexIn(code'), Append(s, x), c)
        BY <1>1, <2>3, <4>1, <4>4, <4>6, <4>7, HoldsOneMore
      <4>9. QED
        BY <2>2, <4>3, <4>8 DEF Emitted, RegexIn
    <3>3. QED
      BY <3>2 DEF Coded
  <2>7. QED
    BY <2>5, <2>6
<1>6. ASSUME NEW op, NEW of, Reads({op}), op \in {"not"} \cup Junctions, of \in Seq(Expressions),
             open' = Append(Advanced, Frame(op, of)), balanced' = balanced, code' = code
      PROVE  Coded'
  <2>1. PICK fr : fr = Frame(op, of)
    OBVIOUS
  <2>2. fr \in Frames /\ fr.next = 1
    BY <1>6, <2>1 DEF Frame, Frames, Shaped
  <2>3. ASSUME balanced', NEW i \in DOMAIN Stored
        PROVE  Emitted(i)'
    <3>1. PICK s, b : Leaves(code, Stored[i], s) /\ Holding(open, i, RegexIn(code), s, b)
      BY <1>2, <1>6, <2>3 DEF Emitted
    <3>2. s \in Seq(Vals)
      BY <3>1 DEF Leaves
    <3>3. PICK c : Holding(Append(Stepped(open), fr), i, RegexIn(code), s, c)
      BY <1>1, <2>2, <3>1, <3>2, HoldsOnEntry
    <3>4. open' = Append(Stepped(open), fr)
      BY <1>1, <1>6, <2>1
    <3>5. QED
      BY <1>6, <3>1, <3>3, <3>4 DEF Emitted, RegexIn
  <2>4. QED
    BY <2>3 DEF Coded
<1>7. CASE EnterJunction
  <2>1. Operand \in Expressions /\ Operand.op \in Junctions /\ Reads({Operand.op})
    BY <1>1, <1>7, InnerCall DEF EnterJunction, Reads
  <2>2. Operands(Operand) = Operand.of
    BY <2>1 DEF Operands, Junctions
  <2>3. Operand.of \in Seq(Expressions)
    BY <2>1, <2>2, ExpressionsAssumption
  <2>4. QED
    BY <1>6, <1>7, <2>1, <2>3 DEF EnterJunction
<1>8. CASE EnterNot
  <2>1. Operand \in Expressions /\ Operand.op = "not" /\ Reads({"not"})
    BY <1>1, <1>8, InnerCall DEF EnterNot, Reads
  <2>2. Operands(Operand) = <<Operand.of>>
    BY <2>1 DEF Operands, Junctions
  <2>3. <<Operand.of>> \in Seq(Expressions)
    BY <2>1, <2>2, ExpressionsAssumption
  <2>4. QED
    BY <1>6, <1>8, <2>1, <2>3 DEF EnterNot
\* The end of a call: its verdicts, and the one that takes their place.
<1>9. ASSUME LeaveJunction \/ LeaveNot
      PROVE  /\ Len(open) > 1 /\ open' = Front(open) /\ balanced' = balanced
             /\ Inner.next - 1 = Len(Inner.of) /\ Inner.op \in {"not"} \cup Junctions
             /\ open[Len(open) - 1].of[open[Len(open) - 1].next - 1] \in Expressions
             /\ open[Len(open) - 1].of[open[Len(open) - 1].next - 1].op = Inner.op
             /\ Operands(open[Len(open) - 1].of[open[Len(open) - 1].next - 1]) = Inner.of
  <2>1. /\ open' = Front(open) /\ balanced' = balanced
        /\ Inner.next > Len(Inner.of) /\ Inner.op \in {"not"} \cup Junctions
    BY <1>9 DEF LeaveJunction, LeaveNot, HasRead
  <2>2. PICK n, f : n = Len(open) /\ f = open[n - 1]
    OBVIOUS
  <2>3. n # 1 /\ n \in Nat \ {0}
    BY <1>1, <2>1, <2>2 DEF Nests, Junctions
  <2>4. n > 1 /\ n \in 2 .. n /\ n - 1 \in 1 .. n
    BY <2>3
  <2>5. /\ f.next >= 2 /\ f.of[f.next - 1].op = Inner.op /\ Operands(f.of[f.next - 1]) = Inner.of
    BY <1>1, <2>2, <2>4 DEF Nests
  <2>6. f \in Frames /\ f.next <= Len(f.of) + 1
    BY <1>1, <2>2, <2>4, ElementOfSeq DEF Nests
  <2>7. f.of \in Seq(Expressions) /\ f.next \in Nat /\ Len(f.of) \in Nat
    BY <2>6, LenProperties DEF Frames
  <2>8. f.next - 1 \in 1 .. Len(f.of)
    BY <2>5, <2>6, <2>7
  <2>9. f.of[f.next - 1] \in Expressions
    BY <2>7, <2>8, ElementOfSeq
  <2>10. Inner.next - 1 = Len(Inner.of)
    <3>1. Inner.next <= Len(Inner.of) + 1
      BY <1>1, InnerCall
    <3>2. Len(Inner.of) \in Nat
      BY <1>1, LenProperties DEF Frames
    <3>3. QED
      BY <1>1, <2>1, <3>1, <3>2
  <2>11. QED
    BY <2>1, <2>2, <2>4, <2>5, <2>9, <2>10
<1>10. ASSUME LeaveJunction \/ LeaveNot, balanced', NEW i \in DOMAIN Stored
       PROVE  \E s, b : Leaves(code, Stored[i], s) /\ Holding(open, i, RegexIn(code), s, b)
  <2>1. Len(open) # 1
    <3>1. PICK n : n = Len(open)
      OBVIOUS
    <3>2. n > 1
      BY <1>9, <1>10, <3>1
    <3>3. n # 1
      BY <3>2
    <3>4. QED
      BY <3>1, <3>3
  <2>2. ~RangeAlone
    BY <2>1 DEF RangeAlone
  <2>3. QED
    BY <1>9, <1>10, <2>2 DEF Coded, Emitted
<1>11. CASE LeaveJunction
  <2>1. PICK e, op : /\ e = open[Len(open) - 1].of[open[Len(open) - 1].next - 1]
                     /\ op = Inner.op
    OBVIOUS
  <2>2. e \in Expressions /\ e.op = op /\ op \in Junctions /\ e.of = Inner.of /\ Inner.next - 1 = Len(e.of)
    <3>1. e \in Expressions /\ e.op = op /\ Operands(e) = Inner.of /\ Inner.next - 1 = Len(Inner.of)
      BY <1>9, <1>11, <2>1
    <3>2. op \in Junctions
      BY <1>11, <2>1 DEF LeaveJunction, HasRead
    <3>3. e.of = Inner.of
      BY <3>1, <3>2 DEF Operands, Junctions
    <3>4. QED
      BY <3>1, <3>2, <3>3
  <2>3. code' = code \o <<Push(Number(Len(e.of))), Do(op)>>
    BY <1>11, <2>1, <2>2 DEF LeaveJunction
  <2>4. ASSUME balanced', NEW i \in DOMAIN Stored
        PROVE  Emitted(i)'
    <3>1. PICK s, b : Leaves(code, Stored[i], s) /\ Holding(open, i, RegexIn(code), s, b)
      BY <1>10, <1>11, <2>4
    <3>2. s \in Seq(Vals)
      BY <3>1 DEF Leaves
    <3>3. PICK r, u \in Seq(Vals) :
            /\ s = r \o u
            /\ Len(u) = Len(e.of)
            /\ \A k \in 1 .. Len(u) : Says(u[k], i, e.of[k], RegexIn(code))
            /\ \A x \in Vals, still \in BOOLEAN :
                 (RegexIn(code) => still) /\ Says(x, i, e, still)
                   => \E c : Holding(Front(open), i, still, Append(r, x), c)
      <4>1. open \in Seq(Frames) /\ Len(open) > 1 /\ RegexIn(code) \in BOOLEAN
        BY <1>1, <1>9, <1>11
      <4>2. Ends(open, i, RegexIn(code), s)
        BY <3>1, <3>2, <4>1, HoldsOnExit
      <4>3. PICK r, u \in Seq(Vals) :
              /\ s = r \o u
              /\ Len(u) = open[Len(open)].next - 1
              /\ \A k \in 1 .. Len(u) : Says(u[k], i, open[Len(open)].of[k], RegexIn(code))
              /\ \A x \in Vals, still \in BOOLEAN :
                   (RegexIn(code) => still)
                     /\ Says(x, i, open[Len(open) - 1].of[open[Len(open) - 1].next - 1], still)
                       => \E c : Holding(Front(open), i, still, Append(r, x), c)
        BY <4>2 DEF Ends
      <4>4. open[Len(open)] = Inner
        BY <1>1
      <4>5. QED
        BY <2>1, <2>2, <4>3, <4>4
    <3>4. PICK x : x = Bool(Junction(op, u))
      OBVIOUS
    <3>5. PICK g, h : g = Push(Number(Len(u))) /\ h = Do(op)
      OBVIOUS
    <3>6. g \in Instrs /\ h \in Instrs /\ Leaves(code \o <<g, h>>, Stored[i], Append(r, x))
      BY <2>2, <3>1, <3>3, <3>4, <3>5, JunctionRuns
    <3>7. code' = code \o <<g, h>>
      BY <2>3, <3>3, <3>5
    <3>8. RegexIn(code) => RegexIn(code')
      BY <1>1, <3>6, <3>7, OneAndOne, RegexStays
    <3>9. x \in Vals /\ Says(x, i, e, RegexIn(code))
      BY <1>1, <2>2, <3>3, <3>4, JunctionSays
    <3>10. Says(x, i, e, RegexIn(code'))
      BY <3>8, <3>9 DEF Says
    <3>11. PICK c : Holding(Front(open), i, RegexIn(code'), Append(r, x), c)
      BY <1>1, <3>3, <3>8, <3>9, <3>10
    <3>12. open' = Front(open)
      BY <1>9, <1>11
    <3>13. QED
      BY <3>6, <3>7, <3>11, <3>12 DEF Emitted, RegexIn
  <2>5. QED
    BY <2>4 DEF Coded
<1>12. CASE LeaveNot
  <2>1. PICK e : e = open[Len(open) - 1].of[open[Len(open) - 1].next - 1]
    OBVIOUS
  <2>2. e \in Expressions /\ e.op = "not" /\ Inner.of = <<e.of>> /\ Inner.next - 1 = 1
    <3>1. e \in Expressions /\ e.op = Inner.op /\ Operands(e) = Inner.of /\ Inner.next - 1 = Len(Inner.of)
      BY <1>9, <1>12, <2>1
    <3>2. Inner.op = "not"
      BY <1>12 DEF LeaveNot, HasRead
    <3>3. Operands(e) = <<e.of>> /\ Len(<<e.of>>) = 1
      BY <3>1, <3>2 DEF Operands, Junctions
    <3>4. QED
      BY <3>1, <3>2, <3>3
  <2>3. code' = Append(code, Do("not"))
    BY <1>12 DEF LeaveNot
  <2>4. ASSUME balanced', NEW i \in DOMAIN Stored
        PROVE  Emitted(i)'
    <3>1. PICK s, b : Leaves(code, Stored[i], s) /\ Holding(open, i, RegexIn(code), s, b)
      BY <1>10, <1>12, <2>4
    <3>2. s \in Seq(Vals)
      BY <3>1 DEF Leaves
    <3>3. PICK r, u \in Seq(Vals) :
            /\ s = r \o u
            /\ Len(u) = 1
            /\ \A k \in 1 .. Len(u) : Says(u[k], i, Inner.of[k], RegexIn(code))
            /\ \A x \in Vals, still \in BOOLEAN :
                 (RegexIn(code) => still) /\ Says(x, i, e, still)
                   => \E c : Holding(Front(open), i, still, Append(r, x), c)
      <4>1. open \in Seq(Frames) /\ Len(open) > 1 /\ RegexIn(code) \in BOOLEAN
        BY <1>1, <1>9, <1>12
      <4>2. Ends(open, i, RegexIn(code), s)
        BY <3>1, <3>2, <4>1, HoldsOnExit
      <4>3. PICK r, u \in Seq(Vals) :
              /\ s = r \o u
              /\ Len(u) = open[Len(open)].next - 1
              /\ \A k \in 1 .. Len(u) : Says(u[k], i, open[Len(open)].of[k], RegexIn(code))
              /\ \A x \in Vals, still \in BOOLEAN :
                   (RegexIn(code) => still)
                     /\ Says(x, i, open[Len(open) - 1].of[open[Len(open) - 1].next - 1], still)
                       => \E c : Holding(Front(open), i, still, Append(r, x), c)
        BY <4>2 DEF Ends
      <4>4. open[Len(open)] = Inner
        BY <1>1
      <4>5. QED
        BY <2>1, <2>2, <4>3, <4>4
    <3>4. PICK y, x : y = u[1] /\ x = Bool(~AsBool(y))
      OBVIOUS
    <3>5. y \in Vals /\ Says(y, i, e.of, RegexIn(code))
      <4>1. 1 \in 1 .. Len(u) /\ <<e.of>>[1] = e.of
        BY <3>3
      <4>2. QED
        BY <2>2, <3>3, <3>4, <4>1, ElementOfSeq
    <3>6. s = Append(r, y)
      <4>1. u = <<y>>
        BY <3>3, <3>4, <3>5
      <4>2. QED
        BY <3>3, <3>5, <4>1, AppendIsConcat
    <3>7. Leaves(code', Stored[i], Append(r, x))
      BY <2>3, <3>1, <3>3, <3>4, <3>5, <3>6, NotRuns
    <3>8. RegexIn(code) => RegexIn(code')
      <4>1. Do("not") \in Instrs
        BY DoIsInstruction DEF Inses
      <4>2. Append(code, Do("not")) = code \o <<Do("not")>> /\ <<Do("not")>> \in Seq(Instrs)
        BY <1>1, <4>1, AppendIsConcat
      <4>3. QED
        BY <1>1, <2>3, <4>2, RegexStays
    <3>9. x \in Vals /\ Says(x, i, e, RegexIn(code))
      BY <1>1, <2>2, <3>4, <3>5, NotSays
    <3>10. Says(x, i, e, RegexIn(code'))
      BY <3>8, <3>9 DEF Says
    <3>11. PICK c : Holding(Front(open), i, RegexIn(code'), Append(r, x), c)
      BY <1>1, <3>3, <3>8, <3>9, <3>10
    <3>12. open' = Front(open)
      BY <1>9, <1>12
    <3>13. QED
      BY <3>7, <3>11, <3>12 DEF Emitted, RegexIn
  <2>5. QED
    BY <2>4 DEF Coded
<1>13. CASE LeaveQuery \/ Execute \/ RunsShort \/ Finish \/ Rest
  <2>1. UNCHANGED <<query, open, code, by, balanced>>
    BY <1>13 DEF LeaveQuery, Execute, RunsShort, Finish, Rest, vars, parsing
  <2>2. QED
    BY <2>1 DEF Coded, RangeAlone, Emitted, RegexIn, RangeSuits, Reversed, Keys
<1>14. QED
  BY <1>4, <1>5, <1>7, <1>8, <1>11, <1>12, <1>13 DEF Next
-----------------------------------------------------------------------------
(***************************************************************************)
(* The machine: it is on the way to the verdict on the document tested.    *)
(***************************************************************************)
Judges(i, t, x) ==
  /\ Trace(code, Stored[i], t)
  /\ t[Len(code) + 1] = <<x>>
  /\ Says(x, i, query, RegexIn(code))

OnTheWay(i) ==
  \E t, x :
    /\ Judges(i, t, x)
    /\ pc \in 1 .. Len(code) + 1
    /\ stack = t[pc]

Ran ==
  balanced /\ phase = "run" =>
    /\ ~wild
    /\ code = <<>> => pc = 1 /\ stack = <<>> /\ todo \subseteq Means[query]
    /\ code # <<>> /\ todo # {} => OnTheWay(Tested)
    /\ ~RegexIn(code) => found \subseteq Means[query] /\ Means[query] \subseteq found \cup todo

\* An expression means stored documents only.
LEMMA MeansStored ==
  ASSUME NEW e \in Expressions
  PROVE  Means[e] \subseteq DOMAIN Stored
<1>1. Means[e] = Meaning(Means, e)
  BY MeansUnfolds
<1>2. CASE e.op = "all"
  BY <1>1, <1>2 DEF Meaning
<1>3. CASE e.op = "and"
  BY <1>1, <1>3 DEF Meaning
<1>4. CASE e.op = "or"
  BY <1>1, <1>4 DEF Meaning
<1>5. CASE e.op = "not"
  BY <1>1, <1>5 DEF Meaning
<1>6. CASE e.op \notin {"all", "and", "or", "not"}
  BY <1>1, <1>6 DEF Meaning
<1>7. QED
  BY <1>2, <1>3, <1>4, <1>5, <1>6

\* Once all is read there is code, that leaves the verdict of the query, or the range is the answer.
LEMMA CodeJudges ==
  ASSUME Shaped, Coded, balanced, Len(open) = 1, open[1].next = 2, ~RangeAlone,
         NEW i \in DOMAIN Stored
  PROVE  code # <<>> /\ \E t, x : Judges(i, t, x)
<1>1. PICK s, b : Leaves(code, Stored[i], s) /\ Holding(open, i, RegexIn(code), s, b)
  BY DEF Coded, Emitted
<1>2. s \in Seq(Vals)
  BY <1>1 DEF Leaves
<1>3. Completed(open, 1) = 1
  BY DEF Completed
<1>4. open[1].of[1] = query
  <2>1. open[1].of = <<query>>
    BY DEF Shaped, Nests
  <2>2. QED
    BY <2>1
<1>5. Len(s) = 1 /\ Says(s[1], i, query, RegexIn(code))
  <2>1. b[1] = 0 /\ b[1 + 1] = b[1] + Completed(open, 1) /\ Len(s) = b[1 + 1]
    BY <1>1 DEF Holding
  <2>2. \A k \in 1 .. Completed(open, 1) : Says(s[b[1] + k], i, open[1].of[k], RegexIn(code))
    BY <1>1 DEF Holding
  <2>3. 1 \in 1 .. Completed(open, 1) /\ b[1] + 1 = 1
    BY <1>3, <2>1
  <2>4. Says(s[1], i, query, RegexIn(code))
    BY <1>4, <2>2, <2>3
  <2>5. QED
    BY <1>3, <2>1, <2>4
<1>6. PICK x : x = s[1]
  OBVIOUS
<1>7. s = <<x>>
  BY <1>2, <1>5, <1>6
<1>8. PICK t : Trace(code, Stored[i], t) /\ t[Len(code) + 1] = s
  BY <1>1 DEF Leaves
<1>9. Judges(i, t, x)
  BY <1>5, <1>6, <1>7, <1>8 DEF Judges
<1>10. code # <<>>
  <2>1. SUFFICES ASSUME code = <<>> PROVE FALSE
    OBVIOUS
  <2>2. t[1] = <<>> /\ Len(code) + 1 = 1
    BY <1>8, <2>1, EmptySeq DEF Trace
  <2>3. Len(s) = 0
    BY <1>8, <2>2, EmptySeq
  <2>4. QED
    BY <1>5, <2>3
<1>11. QED
  BY <1>9, <1>10

\* No action but LeaveQuery begins the tests.
LEMMA RanKept ==
  ASSUME Shaped, Ranged, Coded, Ran, Next
  PROVE  Ran'
<1>1. query \in Expressions /\ query' = query /\ todo \subseteq DOMAIN Stored
  BY ExpressionsAssumption DEF Shaped, Next, ParseEmpty, ParseComparison, EnterJunction,
     LeaveJunction, EnterNot, LeaveNot, LeaveQuery, Execute, RunsShort, Finish, Rest, vars
<1>2. CASE ParseEmpty \/ ParseComparison \/ EnterJunction \/ LeaveJunction \/ EnterNot \/ LeaveNot
  BY <1>2 DEF Ran, ParseEmpty, ParseComparison, EnterJunction, LeaveJunction, EnterNot, LeaveNot,
              Reads, HasRead
<1>3. CASE LeaveQuery
  <2>1. SUFFICES ASSUME balanced PROVE Ran'
    BY <1>3 DEF Ran, LeaveQuery, parsing
  <2>2. /\ phase = "parse" /\ HasRead({"query"})
        /\ UNCHANGED <<query, open, code, by, balanced, pc, stack, found>>
        /\ todo' = {i \in DOMAIN Stored : by # <<>> => InRange(by[1], Stored[i])}
        /\ wild' = (by # <<>> /\ Reversed(by[1]))
    BY <1>3 DEF LeaveQuery, HasRead, parsing
  <2>3. pc = 1 /\ stack = <<>> /\ found = {}
    BY <2>2 DEF Shaped
  <2>4. Len(open) = 1 /\ open[1].next = 2 /\ open[1].of[1] = query /\ open[1].op = "query"
    <3>1. Nests(open, query)
      BY DEF Shaped
    <3>2. open # <<>> /\ Inner = open[Len(open)] /\ Len(open) \in Nat \ {0}
      BY <3>1, InnerCall
    <3>3. Len(open) \notin 2 .. Len(open)
      BY <2>2, <3>1, <3>2 DEF Nests, HasRead
    <3>4. Len(open) = 1
      <4>1. PICK n : n = Len(open)
        OBVIOUS
      <4>2. n \in Nat \ {0} /\ n \notin 2 .. n
        BY <3>2, <3>3, <4>1
      <4>3. n = 1
        BY <4>2
      <4>4. QED
        BY <4>1, <4>3
    <3>5. open[1].of = <<query>> /\ open[1].op = "query" /\ Inner = open[1]
      BY <3>1, <3>2, <3>4 DEF Nests
    <3>6. Inner.next <= 2 /\ Inner.next > 1 /\ Inner.next \in Nat
      <4>1. Inner.next <= Len(Inner.of) + 1 /\ Inner.next > Len(Inner.of) /\ Inner \in Frames
        BY <2>2, <3>1, InnerCall DEF HasRead
      <4>2. Len(Inner.of) = 1
        BY <3>5
      <4>3. Inner.next \in Nat
        BY <4>1 DEF Frames
      <4>4. QED
        BY <4>1, <4>2, <4>3
    <3>7. Inner.next = 2
      BY <3>6
    <3>8. QED
      BY <3>4, <3>5, <3>7
  <2>5. ~wild'
    BY <2>1, <2>2 DEF Ranged
  <2>6. Means[query] \subseteq todo'
    <3>1. Means[query] \subseteq DOMAIN Stored
      BY <1>1, MeansStored
    <3>2. CASE by = <<>>
      BY <2>2, <3>1, <3>2
    <3>3. CASE by # <<>>
      <4>1. Pins(open, {i \in DOMAIN Stored : InRange(by[1], Stored[i])})
        BY <2>1, <3>3 DEF Ranged
      <4>2. todo' = {i \in DOMAIN Stored : InRange(by[1], Stored[i])}
        BY <2>2, <3>3
      <4>3. PICK j \in 1 .. Len(open) : \E k \in 1 .. open[j].next - 1 : Means[open[j].of[k]] \subseteq todo'
        BY <4>1, <4>2 DEF Pins
      <4>4. j = 1
        BY <2>4
      <4>5. PICK k \in 1 .. 1 : Means[open[1].of[k]] \subseteq todo'
        BY <2>4, <4>3, <4>4
      <4>6. QED
        BY <2>4, <4>5
    <3>4. QED
      BY <3>2, <3>3
  <2>7. todo' \subseteq DOMAIN Stored
    BY <2>2
  <2>8. ASSUME code = <<>>
        PROVE  todo' \subseteq Means[query]
    <3>1. CASE ~RangeAlone
      BY <2>1, <2>4, <2>7, <2>8, <3>1, CodeJudges
    <3>2. CASE RangeAlone /\ query.op = "all"
      <4>1. Means[query] = DOMAIN Stored
        BY <1>1, <3>2, MeansUnfolds DEF Meaning
      <4>2. QED
        BY <2>7, <4>1
    <3>3. CASE RangeAlone /\ query.op # "all"
      <4>1. by = <<query>> /\ query.op \in {"gt", "lt", "range"} /\ RangeSuits(query)
        BY <3>3 DEF RangeAlone
      <4>2. by # <<>> /\ by[1] = query
        BY <4>1
      <4>3. QED
        BY <1>1, <2>2, <4>1, <4>2, RangeIsMeaning
    <3>4. QED
      BY <3>1, <3>2, <3>3
  <2>9. ASSUME code # <<>>, todo' # {}
        PROVE  OnTheWay(Tested)'
    <3>1. PICK i : i = Tested'
      OBVIOUS
    <3>2. i \in DOMAIN Stored
      BY <2>7, <2>9, <3>1 DEF Tested
    <3>3. ~RangeAlone
      BY <2>9 DEF RangeAlone
    <3>4. PICK t, x : Judges(i, t, x)
      BY <2>1, <2>4, <3>2, <3>3, CodeJudges
    <3>5. t[1] = <<>> /\ 1 \in 1 .. Len(code) + 1
      <4>1. Len(code) \in Nat
        BY LenProperties DEF Shaped
      <4>2. QED
        BY <3>4, <4>1 DEF Judges, Trace
    <3>6. QED
      BY <2>2, <2>3, <3>1, <3>4, <3>5 DEF OnTheWay, Judges, RegexIn
  <2>10. QED
    BY <2>2, <2>3, <2>5, <2>6, <2>8, <2>9 DEF Ran
<1>4. ASSUME Tests, balanced
      PROVE  /\ Tested \in todo /\ Tested \in DOMAIN Stored /\ phase = "run" /\ ~wild
             /\ code = <<>> => pc = 1 /\ stack = <<>> /\ todo \subseteq Means[query] /\ pc > Len(code)
             /\ code # <<>> => OnTheWay(Tested)
             /\ ~RegexIn(code) => found \subseteq Means[query] /\ Means[query] \subseteq found \cup todo
  BY <1>1, <1>4, EmptySeq DEF Tests, Tested, Ran
<1>5. CASE Execute
  <2>1. SUFFICES ASSUME balanced PROVE Ran'
    BY <1>5 DEF Ran, Execute, parsing
  <2>2. /\ Tests /\ pc <= Len(code) /\ pc' = pc + 1
        /\ stack' = After(code[pc], stack, Stored[Tested])
        /\ UNCHANGED <<query, phase, code, balanced, todo, found, wild>>
    BY <1>5 DEF Execute, parsing
  <2>3. Len(code) \in Nat
    BY LenProperties DEF Shaped
  <2>4. code # <<>>
    <3>1. SUFFICES ASSUME code = <<>> PROVE FALSE
      OBVIOUS
    <3>2. pc = 1 /\ Len(code) = 0
      BY <1>4, <2>1, <2>2, <3>1, EmptySeq
    <3>3. QED
      BY <2>2, <3>2
  <2>5. PICK t, x : Judges(Tested, t, x) /\ pc \in 1 .. Len(code) + 1 /\ stack = t[pc]
    BY <1>4, <2>1, <2>2, <2>4 DEF OnTheWay
  <2>6. pc \in 1 .. Len(code) /\ pc + 1 \in 1 .. Len(code) + 1
    BY <2>2, <2>3, <2>5
  <2>7. t[pc + 1] = After(code[pc], stack, Stored[Tested])
    BY <2>5, <2>6 DEF Judges, Trace, Runs
  <2>8. Tested' = Tested
    BY <2>2 DEF Tested
  <2>9. OnTheWay(Tested)'
    BY <2>2, <2>5, <2>6, <2>7, <2>8 DEF OnTheWay, Judges, RegexIn
  <2>10. QED
    BY <1>4, <2>1, <2>2, <2>4, <2>9 DEF Ran, RegexIn
<1>6. CASE RunsShort
  <2>1. SUFFICES ASSUME balanced PROVE FALSE
    BY <1>6 DEF Ran, RunsShort, parsing
  <2>2. Tests /\ IF pc <= Len(code) THEN ~Enough(code[pc], stack) ELSE code # <<>> /\ stack = <<>>
    BY <1>6 DEF RunsShort
  <2>3. Len(code) \in Nat
    BY LenProperties DEF Shaped
  <2>4. code # <<>>
    <3>1. SUFFICES ASSUME code = <<>> PROVE FALSE
      OBVIOUS
    <3>2. pc = 1 /\ Len(code) = 0
      BY <1>4, <2>1, <2>2, <3>1, EmptySeq
    <3>3. QED
      BY <2>2, <3>1, <3>2
  <2>5. PICK t, x : Judges(Tested, t, x) /\ pc \in 1 .. Len(code) + 1 /\ stack = t[pc]
    BY <1>4, <2>1, <2>2, <2>4 DEF OnTheWay
  <2>6. CASE pc <= Len(code)
    <3>1. pc \in 1 .. Len(code)
      BY <2>3, <2>5, <2>6
    <3>2. Enough(code[pc], stack)
      BY <2>5, <3>1 DEF Judges, Trace, Runs
    <3>3. QED
      BY <2>2, <2>6, <3>2
  <2>7. CASE ~(pc <= Len(code))
    <3>1. pc = Len(code) + 1 /\ stack = <<>>
      BY <2>2, <2>3, <2>5, <2>7
    <3>2. <<>> = <<x>>
      BY <2>5, <3>1 DEF Judges
    <3>3. QED
      BY <3>2
  <2>8. QED
    BY <2>6, <2>7
<1>7. CASE Finish
  <2>1. SUFFICES ASSUME balanced PROVE Ran'
    BY <1>7 DEF Ran, Finish, parsing
  <2>2. /\ Tests /\ pc > Len(code)
        /\ found' = IF code = <<>> \/ AsBool(Top(stack, 1)) THEN found \cup {Tested} ELSE found
        /\ todo' = todo \ {Tested} /\ pc' = 1 /\ stack' = <<>>
        /\ UNCHANGED <<query, phase, open, code, by, balanced, wild>>
    BY <1>7 DEF Finish, parsing
  <2>3. Len(code) \in Nat
    BY LenProperties DEF Shaped
  <2>4. ASSUME code # <<>>, todo' # {}
        PROVE  OnTheWay(Tested)'
    <3>1. PICK i : i = Tested'
      OBVIOUS
    <3>2. i \in DOMAIN Stored
      BY <1>1, <2>2, <2>4, <3>1 DEF Tested
    <3>3. ~RangeAlone
      BY <2>4 DEF RangeAlone
    <3>4. Len(open) = 1 /\ open[1].next = 2
      BY <2>2 DEF Shaped, Tests
    <3>5. PICK t, x : Judges(i, t, x)
      BY <2>1, <3>2, <3>3, <3>4, CodeJudges
    <3>6. t[1] = <<>> /\ 1 \in 1 .. Len(code) + 1
      BY <2>3, <3>5 DEF Judges, Trace
    <3>7. QED
      BY <2>2, <3>1, <3>5, <3>6 DEF OnTheWay, Judges, RegexIn
  <2>5. ASSUME ~RegexIn(code)
        PROVE  found' = IF Tested \in Means[query] THEN found \cup {Tested} ELSE found
    <3>1. CASE code = <<>>
      BY <1>4, <2>1, <2>2, <3>1
    <3>2. CASE code # <<>>
      <4>1. PICK t, x : Judges(Tested, t, x) /\ pc \in 1 .. Len(code) + 1 /\ stack = t[pc]
        BY <1>4, <2>1, <2>2, <3>2 DEF OnTheWay
      <4>2. pc = Len(code) + 1
        BY <2>2, <2>3, <4>1
      <4>3. stack = <<x>> /\ Says(x, Tested, query, FALSE)
        BY <2>5, <4>1, <4>2 DEF Judges, Says
      <4>4. Top(stack, 1) = x
        BY <4>3 DEF Top
      <4>5. AsBool(x) <=> Tested \in Means[query]
        BY <4>3, SaidIsMeant
      <4>6. QED
        BY <2>2, <3>2, <4>4, <4>5
    <3>3. QED
      BY <3>1, <3>2
  <2>6. ~RegexIn(code) => found' \subseteq Means[query] /\ Means[query] \subseteq found' \cup todo'
    BY <1>4, <2>1, <2>2, <2>5
  <2>7. QED
    BY <1>4, <2>1, <2>2, <2>4, <2>6 DEF Ran, RegexIn
<1>8. CASE Rest
  BY <1>8 DEF Rest, Ran, OnTheWay, Judges, Tested, RegexIn, vars, parsing, running
<1>9. QED
  BY <1>2, <1>3, <1>5, <1>6, <1>7, <1>8 DEF Next
-----------------------------------------------------------------------------
Invariant == Shaped /\ Ranged /\ Coded /\ Ran

\* The parts of the invariant together are inductive.
LEMMA InvariantHolds == Spec => []Invariant
<1>1. Init => Invariant
  <2>1. Init => phase = "parse"
    BY DEF Init
  <2>2. QED
    BY <2>1, ShapedAtFirst, CodedAtFirst DEF Invariant, Ran
<1>2. Invariant /\ [Next]_vars => Invariant'
  <2>1. CASE Next
    BY <2>1, ShapedKept, RangedKept, CodedKept, RanKept DEF Invariant
  <2>2. CASE UNCHANGED vars
    <3>1. UNCHANGED <<query, phase, open, code, resolved, by, met, balanced, todo, pc, stack, found, wild>>
      BY <2>2 DEF vars, parsing, running
    <3>2. Shaped => Shaped'
      BY <3>1 DEF Shaped
    <3>3. Ranged => Ranged'
      BY <3>1 DEF Ranged
    <3>4. Coded => Coded'
      BY <3>1 DEF Coded, RangeAlone, Emitted, RegexIn, RangeSuits, Reversed, Keys
    <3>5. Ran => Ran'
      BY <3>1 DEF Ran, OnTheWay, Judges, Tested, RegexIn
    <3>6. QED
      BY <3>2, <3>3, <3>4, <3>5 DEF Invariant
  <2>3. QED
    BY <2>1, <2>2
<1>3. QED
  BY <1>1, <1>2, PTL DEF Spec

(***************************************************************************)
(* No query that an index answers rightly makes the stack machine read in  *)
(* front of its vector, or a range run off its index, for any expressions, *)
(* documents and indices.                                                  *)
(***************************************************************************)
THEOREM QueryStaysInBounds == Spec => []StaysInBounds
<1>1. Invariant => StaysInBounds
  BY DEF Invariant, Shaped, Ran, StaysInBounds
<1>2. QED
  BY <1>1, InvariantHolds, PTL

(***************************************************************************)
(* After the last instruction the stack holds one value, a bool: what the  *)
(* executor takes from its top is the verdict of the whole query.          *)
(***************************************************************************)
THEOREM QueryLeavesOneVerdict == Spec => []OneVerdict
<1>1. ASSUME Invariant, balanced, phase = "run", todo # {}, code # <<>>, pc > Len(code)
      PROVE  Len(stack) = 1 /\ stack[1].type = "bool"
  <2>1. PICK t, x : Judges(Tested, t, x) /\ pc \in 1 .. Len(code) + 1 /\ stack = t[pc]
    BY <1>1 DEF Invariant, Ran, OnTheWay
  <2>2. Len(code) \in Nat
    BY <1>1, LenProperties DEF Invariant, Shaped
  <2>3. pc = Len(code) + 1
    BY <1>1, <2>1, <2>2
  <2>4. stack = <<x>> /\ x.type = "bool"
    BY <2>1, <2>3 DEF Judges, Says
  <2>5. QED
    BY <2>4
<1>2. Invariant => OneVerdict
  BY <1>1 DEF OneVerdict
<1>3. QED
  BY <1>2, InvariantHolds, PTL

(***************************************************************************)
(* The answer to a query without $regex, whose $gt and $lt compare numbers *)
(* and which an index answers rightly, is the set of the documents it      *)
(* means, for any expressions, documents and indices: compiling to postfix *)
(* code, narrowing by the index, and the order of the tests lose nothing   *)
(* and add nothing.                                                        *)
(***************************************************************************)
THEOREM QueryAnswersItsMeaning == Spec => []AnswersAreMeaning
<1>1. Invariant => AnswersAreMeaning
  BY DEF Invariant, Ran, AnswersAreMeaning, Answered, HasRegex, RegexIn
<1>2. QED
  BY <1>1, InvariantHolds, PTL
=============================================================================
