------------------------------ MODULE BlockStore ------------------------------
(***************************************************************************)
(* What an allocator promises, whatever it is made of: a block is handed   *)
(* out only while nobody has it.                                           *)
(***************************************************************************)
CONSTANT Blocks

VARIABLE inUse

Init == inUse = {}

HandOut == \E b \in Blocks \ inUse : inUse' = inUse \cup {b}

TakeBack == \E b \in inUse : inUse' = inUse \ {b}

Next == HandOut \/ TakeBack

Spec == Init /\ [][Next]_inUse
=============================================================================
