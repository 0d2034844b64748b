----------------------------- MODULE Lifecycle -----------------------------
(***************************************************************************)
(* The life of thread-local heaps (hooks/lzmalloc.c): a thread's first     *)
(* allocation takes over the heap of a thread that ended, or maps one; a   *)
(* thread that ends flushes its heap and pushes it on the zombie list;     *)
(* lzmalloc_gc reaps the caller's mailbox and those of the zombies, whose  *)
(* list it walks without the lock.  The heaps' inside is abstracted to     *)
(* counts of blocks (Tlh has the lists) and to who is inside: an operation *)
(* on a heap's private state takes from Enter to its effect.  mmap failing *)
(* for a heap traps, which ends the process and has no action here.        *)
(***************************************************************************)
EXTENDS Telemetry, FiniteSets, Functions, Lists

CONSTANTS
  Threads,
  MaxThreadId,     \* bound: heaps given out (g_thread_counter)
  MaxUnfreed       \* bound: blocks allocated at one time

ASSUME LifecycleAssumption ==
  MaxThreadId \in Nat /\ MaxUnfreed \in Nat /\ NULL \notin Threads

VARIABLES
  pc, tls_tlh_ptr,
  g_zombie_tlhs, next_zombie, g_zombie_lock,
  g_thread_counter,
  current,         \* per thread: the heap popped, or reached by the walk of gc
  inside,          \* per thread: the heap whose private state it is working on
  heaps,           \* heaps mapped so far
  live, out, mail  \* per heap: blocks the program holds; the heap its one-block
                   \* outgoing batch is for, or NULL; blocks in its mailbox

vars == <<statVars, pc, tls_tlh_ptr, g_zombie_tlhs, next_zombie, g_zombie_lock,
          g_thread_counter, current, inside, heaps, live, out, mail>>

listVars == <<g_zombie_tlhs, next_zombie, g_zombie_lock>>
heldVars == <<tls_tlh_ptr, g_thread_counter, heaps>>
blockVars == <<live, out, mail>>

NoHeap == [t \in Threads |-> NULL]

Init ==
  /\ lz_telemetry_init
  /\ pc = [t \in Threads |-> "none"]
  /\ tls_tlh_ptr = NoHeap /\ current = NoHeap /\ inside = NoHeap
  /\ g_zombie_tlhs = NULL /\ g_zombie_lock = NULL
  /\ next_zombie = [h \in Heaps |-> NULL]
  /\ g_thread_counter = 0 /\ heaps = {}
  /\ live = [h \in Heaps |-> 0] /\ mail = [h \in Heaps |-> 0]
  /\ out = [h \in Heaps |-> NULL]

----------------------------------------------------------------------------
\* t's heap is h, from Adopt until lz_tlh_destructor has pushed it.
Owns(t, h) == tls_tlh_ptr[t] = h /\ pc[t] # "late"

\* Two threads are inside h, or one is while h belongs to another.
Shared(h) == \E t, u \in Threads : t # u /\ inside[t] = h /\ (inside[u] = h \/ Owns(u, h))

(* A heap's private lists, bins and batches are worked on by one thread at *)
(* a time: lz_slab_create takes "the executing thread's Thread-Local Heap" *)
(* and lz_span_free_local "the Thread-Local Heap of the executing thread". *)
OwnerExclusive == \A h \in Heaps : ~Shared(h)

\* Where thread t is; nothing is said of what happens after a race on a heap.
At(t, place)      == pc[t] = place /\ OwnerExclusive
Goto(t, from, to) == At(t, from) /\ pc' = [pc EXCEPT ![t] = to]
Work(t, h)        == inside' = [inside EXCEPT ![t] = h]

\* Mutation: the flag is set without a look at its old value.
LockIgnored == TRUE

\* The spinlock is taken when its flag is clear.
LockFree == g_zombie_lock = NULL

Acquire(t) == LockFree /\ g_zombie_lock' = t

Start(t) ==
  /\ Goto(t, "none", "run")
  /\ UNCHANGED <<statVars, listVars, heldVars, blockVars, current, inside>>

\* ensure_tls_init, lz_resurrect_zombie: take the lock, read the head, unlink it.
ResurrectLock(t) ==
  /\ tls_tlh_ptr[t] = NULL
  /\ g_thread_counter < MaxThreadId
  /\ Goto(t, "run", "pop")
  /\ Acquire(t)
  /\ UNCHANGED <<statVars, g_zombie_tlhs, next_zombie, heldVars, blockVars, current, inside>>

ResurrectRead(t) ==
  /\ Goto(t, "pop", "unlink")
  /\ current' = [current EXCEPT ![t] = g_zombie_tlhs]
  /\ UNCHANGED <<statVars, listVars, heldVars, blockVars, inside>>

ResurrectUnlink(t) ==
  LET head == current[t]
  IN  /\ Goto(t, "unlink", "adopt")
      /\ IF head = NULL THEN UNCHANGED <<g_zombie_tlhs, next_zombie>>
         ELSE /\ g_zombie_tlhs' = next_zombie[head]
              /\ next_zombie' = [next_zombie EXCEPT ![head] = NULL]
      /\ g_zombie_lock' = NULL
      /\ UNCHANGED <<statVars, heldVars, blockVars, current, inside>>

\* The zombie, or a heap that is mapped and initialised now, becomes t's.
Adopt(t) ==
  /\ Goto(t, "adopt", "run")
  /\ \E h \in Heaps :
       /\ IF current[t] = NULL THEN h \notin heaps ELSE h = current[t]
       /\ heaps' = heaps \cup {h}
       /\ tls_tlh_ptr' = [tls_tlh_ptr EXCEPT ![t] = h]
       /\ OpenAccount(h, g_thread_counter)
  /\ g_thread_counter' = g_thread_counter + 1
  /\ current' = [current EXCEPT ![t] = NULL]
  /\ UNCHANGED <<listVars, blockVars, inside>>

----------------------------------------------------------------------------
\* A call of the allocator that works on the thread's heap.  tls_tlh_ptr stays
\* set when the destructor has run: the destructors that run after it ("late")
\* still find the heap there.
Enter(t) ==
  /\ (At(t, "run") \/ At(t, "late")) /\ inside[t] = NULL /\ tls_tlh_ptr[t] # NULL
  /\ Work(t, tls_tlh_ptr[t])
  /\ UNCHANGED <<statVars, pc, listVars, heldVars, blockVars, current>>

Leave(t) ==
  /\ (At(t, "run") \/ At(t, "late")) /\ inside[t] # NULL
  /\ Work(t, NULL)
  /\ UNCHANGED <<pc, listVars, heldVars, current>>

\* Blocks in the program's hands, in mailboxes and in outgoing batches.
Unfreed == FoldFunction(+, 0, live) + FoldFunction(+, 0, mail)
             + Cardinality({h \in Heaps : out[h] # NULL})

Alloc(t) ==
  LET h == inside[t]
  IN  /\ Leave(t)
      /\ Unfreed < MaxUnfreed
      /\ live' = [live EXCEPT ![h] = @ + 1]
      /\ CountAlloc(h)
      /\ UNCHANGED <<out, mail>>

\* The mailbox after the batch of heap h has been pushed to the heap it is for.
Flushed(h) == IF out[h] = NULL THEN mail ELSE [mail EXCEPT ![out[h]] = @ + 1]

\* lz_tlh_free of a block of heap g: counted if it is local, batched if not.
Free(t, g) ==
  LET h == inside[t]
  IN  /\ Leave(t)
      /\ live[g] > 0
      /\ live' = [live EXCEPT ![g] = @ - 1]
      /\ IF g = h THEN CountFrees(h, 1) /\ UNCHANGED <<out, mail>>
         ELSE mail' = Flushed(h) /\ out' = [out EXCEPT ![h] = g] /\ UNCHANGED statVars

\* lz_tlh_reap: the mailbox is emptied, its blocks are counted as freed.
lz_tlh_reap(h) ==
  /\ mail' = [mail EXCEPT ![h] = 0]
  /\ CountFrees(h, mail[h])
  /\ UNCHANGED <<live, out>>

\* lz_tlh_alloc finds its free list empty.
ReapOwn(t) == Leave(t) /\ lz_tlh_reap(inside[t])

----------------------------------------------------------------------------
GcCall(t) ==
  /\ inside[t] = NULL
  /\ Goto(t, "run", IF tls_tlh_ptr[t] = NULL THEN "gc_lock" ELSE "gc_own")
  /\ Work(t, tls_tlh_ptr[t])
  /\ UNCHANGED <<statVars, listVars, heldVars, blockVars, current>>

GcOwn(t) ==
  /\ Goto(t, "gc_own", "gc_lock")
  /\ lz_tlh_reap(inside[t])
  /\ Work(t, NULL)
  /\ UNCHANGED <<listVars, heldVars, current>>

GcLock(t) ==
  /\ Goto(t, "gc_lock", "gc_head")
  /\ Acquire(t)
  /\ UNCHANGED <<statVars, g_zombie_tlhs, next_zombie, heldVars, blockVars, current, inside>>

GcHead(t) ==
  /\ Goto(t, "gc_head", "gc_walk")
  /\ current' = [current EXCEPT ![t] = g_zombie_tlhs]
  /\ g_zombie_lock' = NULL
  /\ UNCHANGED <<statVars, g_zombie_tlhs, next_zombie, heldVars, blockVars, inside>>

\* The walk, without the lock: reap a heap, then follow its link.
GcEnter(t) ==
  /\ At(t, "gc_walk") /\ inside[t] = NULL /\ current[t] # NULL
  /\ Work(t, current[t])
  /\ UNCHANGED <<statVars, pc, listVars, heldVars, blockVars, current>>

GcReap(t) ==
  /\ At(t, "gc_walk") /\ inside[t] # NULL
  /\ lz_tlh_reap(current[t])
  /\ Work(t, NULL)
  /\ current' = [current EXCEPT ![t] = next_zombie[@]]
  /\ UNCHANGED <<pc, listVars, heldVars>>

\* The end of the list; lz_vmm_purge_all_caches does not touch heaps.
GcDone(t) ==
  /\ Goto(t, "gc_walk", "run") /\ inside[t] = NULL /\ current[t] = NULL
  /\ UNCHANGED <<statVars, listVars, heldVars, blockVars, current, inside>>

----------------------------------------------------------------------------
\* The thread ends: without a heap at once, else through lz_tlh_destructor.
Exit(t) ==
  /\ inside[t] = NULL
  /\ Goto(t, "run", IF tls_tlh_ptr[t] = NULL THEN "none" ELSE "exit")
  /\ Work(t, tls_tlh_ptr[t])
  /\ UNCHANGED <<statVars, listVars, heldVars, blockVars, current>>

\* Mutation: the destructor forgets the outgoing batch.
KeepOutgoing(h) == UNCHANGED <<out, mail>>

lz_tlh_flush_outgoing_batch(h) ==
  /\ mail' = Flushed(h)
  /\ out' = [out EXCEPT ![h] = NULL]

ExitFlush(t) ==
  /\ Goto(t, "exit", "exit_lock")
  /\ lz_tlh_flush_outgoing_batch(inside[t])
  /\ SettleAtExit(inside[t])
  /\ Work(t, NULL)
  /\ UNCHANGED <<listVars, heldVars, live, current>>

ExitLock(t) ==
  /\ Goto(t, "exit_lock", "push")
  /\ Acquire(t)
  /\ UNCHANGED <<statVars, g_zombie_tlhs, next_zombie, heldVars, blockVars, current, inside>>

ExitPush(t) ==
  LET h == tls_tlh_ptr[t]
  IN  /\ Goto(t, "push", "late")
      /\ next_zombie' = [next_zombie EXCEPT ![h] = g_zombie_tlhs]
      /\ g_zombie_tlhs' = h
      /\ g_zombie_lock' = NULL
      /\ UNCHANGED <<statVars, heldVars, blockVars, current, inside>>

\* The thread is gone, and its thread-local variables with it.
Gone(t) ==
  /\ inside[t] = NULL
  /\ Goto(t, "late", "none")
  /\ tls_tlh_ptr' = [tls_tlh_ptr EXCEPT ![t] = NULL]
  /\ UNCHANGED <<statVars, listVars, g_thread_counter, heaps, blockVars, current, inside>>

----------------------------------------------------------------------------
Step(t) ==
  \/ Start(t) \/ ResurrectLock(t) \/ ResurrectRead(t) \/ ResurrectUnlink(t) \/ Adopt(t)
  \/ Enter(t) \/ Alloc(t) \/ ReapOwn(t) \/ \E g \in Heaps : Free(t, g)
  \/ GcCall(t) \/ GcOwn(t) \/ GcLock(t) \/ GcHead(t) \/ GcEnter(t) \/ GcReap(t) \/ GcDone(t)
  \/ Exit(t) \/ ExitFlush(t) \/ ExitLock(t) \/ ExitPush(t) \/ Gone(t)

\* Two threads race on a heap: what the program does from here is undefined.
Undefined == ~OwnerExclusive /\ UNCHANGED vars

Next == Undefined \/ \E t \in Threads : Step(t)

Spec == Init /\ [][Next]_vars

----------------------------------------------------------------------------
\* Type correctness.
TypeOK ==
  /\ bytes_allocated \in [Slots -> Int]
  /\ stat_slot \in [Heaps -> Slots \cup {NULL}]
  /\ local_bytes_alloc_batch \in [Heaps -> 0..(AllocBatch - 1)]
  /\ local_bytes_free_batch \in [Heaps -> 0..(FreeBatch - 1)]
  /\ heaps \subseteq Heaps
  /\ tls_tlh_ptr \in [Threads -> heaps \cup {NULL}]
  /\ current \in [Threads -> heaps \cup {NULL}] /\ inside \in [Threads -> heaps \cup {NULL}]
  /\ next_zombie \in [Heaps -> heaps \cup {NULL}] /\ out \in [Heaps -> heaps \cup {NULL}]
  /\ g_zombie_tlhs \in heaps \cup {NULL} /\ g_zombie_lock \in Threads \cup {NULL}
  /\ live \in [Heaps -> Nat] /\ mail \in [Heaps -> Nat]

\* The heaps on the zombie list.
Zombies == Reached(g_zombie_tlhs, next_zombie, heaps, NULL)

\* t has popped h from the zombie list and not yet made it its own.
Takes(t, h) == pc[t] = "adopt" /\ current[t] = h

(* No heap is lost and none has two masters, whatever threads start, end   *)
(* and collect: a mapped heap belongs to one thread, or is in the hands of *)
(* one that has popped it, or is on the zombie list, once.                 *)
HeapInOnePlace ==
  /\ ListOf(g_zombie_tlhs, next_zombie, Zombies, NULL)
  /\ \A h \in heaps :
       /\ h \in Zombies <=> \A t \in Threads : ~Owns(t, h) /\ ~Takes(t, h)
       /\ \A t, u \in Threads : ~(Owns(t, h) /\ Takes(u, h))
       /\ \A t, u \in Threads : Owns(t, h) /\ Owns(u, h) => t = u
       /\ \A t, u \in Threads : Takes(t, h) /\ Takes(u, h) => t = u

(* g_zombie_lock is held exactly by the thread between test_and_set and    *)
(* clear: every path of lz_resurrect_zombie, lzmalloc_gc and the           *)
(* destructor releases it, and no two are inside.                          *)
LockExact ==
  \A t \in Threads : g_zombie_lock = t <=> pc[t] \in {"pop", "unlink", "gc_head", "push"}

(* When a heap becomes a zombie nothing of the thread is left in it: its   *)
(* outgoing batch has been sent and its counts are in the slot             *)
(* (lz_tlh_destructor), as long as no two threads have shared a heap.      *)
LeavesNothingBehind ==
  [][\A h \in heaps : h \in Zombies \/ h \notin Zombies' \/
       /\ out[h] = NULL
       /\ local_bytes_alloc_batch[h] = 0 /\ local_bytes_free_batch[h] = 0]_vars

\* What the counters show beyond the blocks that have not been freed.
Drift == FoldFunction(+, 0, bytes_allocated) - Unfreed
           + FoldFunction(+, 0, local_bytes_alloc_batch)
           - FoldFunction(+, 0, local_bytes_free_batch)

(* For slab blocks of one size, slots and batches together count the       *)
(* blocks that are not yet freed: batching, emptying a batch, ending a     *)
(* thread and sharing a slot keep the books balanced.  ensure_tls_init     *)
(* drops what was counted for a zombie after its thread had ended, and     *)
(* that is less than one batch of each kind for every heap taken over.     *)
SlabBooksBalance ==
  [][g_telemetry_matrix =>
       \/ Drift' = Drift
       \/ /\ \E t \in Threads : Adopt(t) /\ current[t] # NULL
          /\ Drift' - Drift < FreeBatch /\ Drift - Drift' < AllocBatch]_vars

(* lzmalloc_gc "Iterates over Zombie threads, reaping their remote frees": *)
(* the heap its walk is reaping is a zombie's.                             *)
GcReapsZombies ==
  \A t \in Threads : pc[t] = "gc_walk" /\ inside[t] # NULL => inside[t] \in Zombies
=============================================================================
