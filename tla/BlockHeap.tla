----------------------------- MODULE BlockHeap -----------------------------
(***************************************************************************)
(* What the thread-local heaps promise together, without slabs, lists or   *)
(* mailboxes: a block is handed out for one size class, to one holder, and *)
(* keeps it until it is freed; a block freed by another thread than its    *)
(* owner stays out of circulation until the owner has taken it back.       *)
(*                                                                         *)
(* A block in the program's hands carries the number of times it has been  *)
(* handed out and not freed.  It is handed out once only, and a heap that  *)
(* gave it out again would raise that number, which no step here does.     *)
(***************************************************************************)
EXTENDS Naturals

CONSTANTS Blocks, Classes

VARIABLES
  live,      \* triples <<block, class, count>>: in the program's hands
  pending    \* freed remotely, not back in their slab yet

vars == <<live, pending>>

InUse == {a[1] : a \in live} \cup pending

Init == live = {} /\ pending = {}

Alloc(b, k) == live' = live \cup {<<b, k, 1>>} /\ UNCHANGED pending

Free(a) == /\ live' = live \ {a}
           /\ pending' \in {pending, pending \cup {a[1]}}

Reclaim(b) == pending' = pending \ {b} /\ UNCHANGED live

Next == \/ \E b \in Blocks \ InUse, k \in Classes : Alloc(b, k)
        \/ \E a \in live : Free(a)
        \/ \E b \in pending : Reclaim(b)

Spec == Init /\ [][Next]_vars
============================================================================
