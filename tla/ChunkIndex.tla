----------------------------- MODULE ChunkIndex -----------------------------
(***************************************************************************)
(* What the radix tree promises its users: one cell per 2MB block of the   *)
(* address space, holding the chunk the block belongs to or NULL.  A cell  *)
(* changes alone, in one step, and never from one chunk to another: it is  *)
(* cleared in between.                                                     *)
(***************************************************************************)
CONSTANTS Blocks, NULL

VARIABLE index

Register(b, chunk) == index[b] = NULL /\ index' = [index EXCEPT ![b] = chunk]

Clear(b) == index' = [index EXCEPT ![b] = NULL]

Init == index = [b \in Blocks |-> NULL]

Next == \E b \in Blocks : Clear(b) \/ \E chunk \in Blocks : Register(b, chunk)

Spec == Init /\ [][Next]_index
=============================================================================
