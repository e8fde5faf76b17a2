------------------------------ MODULE ObjectPool ------------------------------
(***************************************************************************)
(* ObjectAllocator (src/cppsrc/objpool.h), which every document node comes *)
(* from: buffers of GrowSize blocks, carved one block after the other, and *)
(* a list of the blocks given back, the latest first.                      *)
(*                                                                         *)
(* A block is <<buffer, index>>, the buffers numbered as they are made.    *)
(* The allocator keeps no record of the blocks in use: inUse is what its   *)
(* clients hold, and a client gives back only what it holds.               *)
(***************************************************************************)
EXTENDS Integers, Sequences, FiniteSets

CONSTANT GrowSize  \* blocks in a buffer: a natural number but 0

VARIABLES pool, inUse

poolVars == <<pool, inUse>>

Blocks == (Nat \ {0}) \X (0 .. GrowSize - 1)

EmptyPool ==
  [freeBlocks |-> <<>>, buffers |-> 0, bufferedBlocks |-> 0, n_allocated |-> 0]

\* A buffer more, when the latest one has no block left to carve or there is none.
Grown(p) ==
  IF p.bufferedBlocks >= GrowSize \/ p.buffers = 0
  THEN [p EXCEPT !.buffers = @ + 1, !.bufferedBlocks = 0]
  ELSE p

\* The block that alloc returns.
NextBlock(p) ==
  IF p.freeBlocks # <<>> THEN Head(p.freeBlocks)
  ELSE <<Grown(p).buffers, Grown(p).bufferedBlocks>>

Alloc(p) ==
  IF p.freeBlocks # <<>>
  THEN [p EXCEPT !.freeBlocks = Tail(@), !.n_allocated = @ + 1]
  ELSE [Grown(p) EXCEPT !.bufferedBlocks = @ + 1, !.n_allocated = @ + 1]

Free(p, b) ==
  [p EXCEPT !.freeBlocks = <<b>> \o @, !.n_allocated = @ - 1]
-----------------------------------------------------------------------------
(***************************************************************************)
(* The allocator and its clients.                                          *)
(***************************************************************************)
PoolInit ==
  /\ pool = EmptyPool
  /\ inUse = {}

Make ==
  /\ pool' = Alloc(pool)
  /\ inUse' = inUse \cup {NextBlock(pool)}

\* make, when the constructor throws: the block goes back.
MakeThrows ==
  /\ pool' = Free(Alloc(pool), NextBlock(pool))
  /\ UNCHANGED inUse

DeleteObject(b) ==
  /\ b \in inUse
  /\ pool' = Free(pool, b)
  /\ inUse' = inUse \ {b}

PoolNext == Make \/ MakeThrows \/ \E b \in Blocks : DeleteObject(b)

PoolSpec == PoolInit /\ [][PoolNext]_poolVars
-----------------------------------------------------------------------------
PoolTypeOK ==
  /\ pool \in [freeBlocks : Seq(Blocks), buffers : Nat,
               bufferedBlocks : 0 .. GrowSize, n_allocated : Int]
  /\ inUse \subseteq Blocks

\* The blocks that have been carved out of the buffers.
Carved(p) ==
  {b \in (1 .. p.buffers) \X (0 .. GrowSize - 1) :
     b[1] < p.buffers \/ b[2] < p.bufferedBlocks}

FreeSet(p) == {p.freeBlocks[i] : i \in DOMAIN p.freeBlocks}

(***************************************************************************)
(* No block is twice in the free list, on the list while an object lives   *)
(* in it, or lost: the carved blocks are the free ones and those in use.   *)
(***************************************************************************)
BlocksApart ==
  /\ \A i, j \in DOMAIN pool.freeBlocks :
       pool.freeBlocks[i] = pool.freeBlocks[j] => i = j
  /\ FreeSet(pool) \cap inUse = {}
  /\ FreeSet(pool) \cup inUse = Carved(pool)

(***************************************************************************)
(* get_n_allocations is the number of objects that live, through reuse,    *)
(* new buffers and constructors that throw.                                *)
(***************************************************************************)
CountsObjects ==
  /\ IsFiniteSet(inUse)
  /\ pool.n_allocated = Cardinality(inUse)
=============================================================================
