-------------------------- MODULE LifecycleProofs --------------------------
(***************************************************************************)
(* The life of heaps (hooks/lzmalloc.c), for any number of threads and     *)
(* heaps.  First the zombie lock: LockExact, with the types of the two     *)
(* variables it speaks of, is inductive.  Then the heaps: each is in one   *)
(* place, and a heap that becomes a zombie keeps nothing of its thread.    *)
(* LifeInv adds to these what a thread holds at each place.                *)
(***************************************************************************)
EXTENDS Lifecycle, ListProofs

Places == {"none", "run", "pop", "unlink", "adopt", "gc_own", "gc_lock", "gc_head",
           "gc_walk", "exit", "exit_lock", "push", "late"}

LockInv ==
  /\ pc \in [Threads -> Places]
  /\ g_zombie_lock \in Threads \cup {NULL}
  /\ LockExact

\* The places at which a thread has the lock.
Locked == {"pop", "unlink", "gc_head", "push"}

(* A step between places on the same side of the lock keeps it exact.      *)
LEMMA MovePreserves ==
  ASSUME LockInv, NEW t \in Threads, NEW from, NEW to \in Places, Goto(t, from, to),
         from \in Locked <=> to \in Locked, UNCHANGED g_zombie_lock
  PROVE  LockInv'
BY Zenon DEF LockInv, LockExact, Locked, Goto, At, Places

(* Taking the lock: the flag was clear, so no thread was past it.          *)
LEMMA AcquirePreserves ==
  ASSUME LockInv, NEW t \in Threads, NEW from, NEW to \in Locked, Goto(t, from, to), Acquire(t)
  PROVE  LockInv'
BY LifecycleAssumption, Zenon DEF LockInv, LockExact, Locked, Goto, At, Acquire, LockFree,
   Places

(* Releasing it: the thread that clears the flag is the one that set it.   *)
LEMMA ReleasePreserves ==
  ASSUME LockInv, NEW t \in Threads, NEW from \in Locked, NEW to \in Places \ Locked,
         Goto(t, from, to), g_zombie_lock' = NULL
  PROVE  LockInv'
BY LifecycleAssumption, Zenon DEF LockInv, LockExact, Locked, Goto, At, Places

(* Steps that move no thread.                                              *)
LEMMA StayPreserves ==
  ASSUME LockInv, UNCHANGED <<pc, g_zombie_lock>>
  PROVE  LockInv'
BY Zenon DEF LockInv, LockExact

(* Every step of hooks/lzmalloc.c is of one of these four kinds.           *)
LEMMA StepPreserves ==
  ASSUME LockInv, NEW t \in Threads, Step(t)
  PROVE  LockInv'
<1> USE DEF Places, Locked, listVars
<1>1. CASE Start(t)
  BY <1>1, MovePreserves, Zenon DEF Start
<1>2. CASE ResurrectLock(t)
  BY <1>2, AcquirePreserves, Zenon DEF ResurrectLock
<1>3. CASE ResurrectRead(t)
  BY <1>3, MovePreserves, Zenon DEF ResurrectRead
<1>4. CASE ResurrectUnlink(t)
  BY <1>4, ReleasePreserves, Zenon DEF ResurrectUnlink
<1>5. CASE Adopt(t)
  BY <1>5, MovePreserves, Zenon DEF Adopt
<1>6. CASE Enter(t) \/ Alloc(t) \/ ReapOwn(t) \/ \E g \in Heaps : Free(t, g)
  BY <1>6, StayPreserves, Zenon DEF Enter, Alloc, ReapOwn, Free, Leave
<1>7. CASE GcCall(t)
  BY <1>7, MovePreserves, Zenon DEF GcCall
<1>8. CASE GcOwn(t)
  BY <1>8, MovePreserves, Zenon DEF GcOwn
<1>9. CASE GcLock(t)
  BY <1>9, AcquirePreserves, Zenon DEF GcLock
<1>10. CASE GcHead(t)
  BY <1>10, ReleasePreserves, Zenon DEF GcHead
<1>11. CASE GcEnter(t) \/ GcReap(t)
  BY <1>11, StayPreserves, Zenon DEF GcEnter, GcReap
<1>12. CASE GcDone(t)
  BY <1>12, MovePreserves, Zenon DEF GcDone
<1>13. CASE Exit(t)
  BY <1>13, MovePreserves, Zenon DEF Exit
<1>14. CASE ExitFlush(t)
  BY <1>14, MovePreserves, Zenon DEF ExitFlush
<1>15. CASE ExitLock(t)
  BY <1>15, AcquirePreserves, Zenon DEF ExitLock
<1>16. CASE ExitPush(t)
  BY <1>16, ReleasePreserves, Zenon DEF ExitPush
<1>17. CASE Gone(t)
  BY <1>17, MovePreserves, Zenon DEF Gone
<1> QED
  BY <1>1, <1>2, <1>3, <1>4, <1>5, <1>6, <1>7, <1>8, <1>9, <1>10, <1>11, <1>12, <1>13, <1>14,
     <1>15, <1>16, <1>17, Zenon DEF Step

(* g_zombie_lock is held exactly by the thread between test_and_set and    *)
(* clear (lz_resurrect_zombie, lzmalloc_gc, lz_tlh_destructor): mutual     *)
(* exclusion, and no path leaves it taken, for any number of threads.      *)
THEOREM ZombieLockExact == Spec => []LockExact
<1>1. Init => LockInv
  BY LifecycleAssumption, Zenon DEF Init, LockInv, LockExact, Places
<1>2. LockInv /\ [Next]_vars => LockInv'
  <2>1. CASE \E t \in Threads : Step(t)
    BY <2>1, StepPreserves, Zenon
  <2>2. CASE Undefined \/ UNCHANGED vars
    BY <2>2, StayPreserves, Zenon DEF Undefined, vars
  <2> QED
    BY <2>1, <2>2, Zenon DEF Next
<1>3. LockInv => LockExact
  BY Zenon DEF LockInv
<1> QED
  BY <1>1, <1>2, <1>3, PTL DEF Spec

----------------------------------------------------------------------------
(* The heaps: what the lock invariant lacks is what a thread holds at each *)
(* place, and that nothing of it is left in a heap it is about to push.    *)

\* Nothing of its thread is left in h.
Settled(h) ==
  out[h] = NULL /\ local_bytes_alloc_batch[h] = 0 /\ local_bytes_free_batch[h] = 0

\* What thread t holds at the place it is at.
Control(t) ==
  /\ pc[t] \in {"none", "pop", "unlink", "adopt"} => tls_tlh_ptr[t] = NULL
  /\ pc[t] \in {"gc_own", "exit", "exit_lock", "push", "late"} => tls_tlh_ptr[t] # NULL
  /\ pc[t] \in {"gc_own", "exit"} => inside[t] = tls_tlh_ptr[t]
  /\ pc[t] \in {"run", "late"} => inside[t] \in {NULL, tls_tlh_ptr[t]}
  /\ pc[t] = "gc_walk" => inside[t] \in {NULL, current[t]}
  /\ pc[t] \notin {"run", "late", "gc_own", "exit", "gc_walk"} => inside[t] = NULL
  /\ pc[t] = "unlink" => current[t] = g_zombie_tlhs
  /\ pc[t] \in {"exit_lock", "push"} => Settled(tls_tlh_ptr[t])

\* The types of the counters; a heap without a slot counts nothing.
Counters ==
  /\ g_telemetry_matrix \in BOOLEAN
  /\ bytes_allocated \in [Slots -> Int]
  /\ stat_slot \in [Heaps -> Slots \cup {NULL}]
  /\ local_bytes_alloc_batch \in [Heaps -> 0..(AllocBatch - 1)]
  /\ local_bytes_free_batch \in [Heaps -> 0..(FreeBatch - 1)]
  /\ \A h \in Heaps : stat_slot[h] = NULL =>
       local_bytes_alloc_batch[h] = 0 /\ local_bytes_free_batch[h] = 0

\* The types of the rest; a heap that is not mapped has no blocks.
Types ==
  /\ pc \in [Threads -> Places] /\ g_thread_counter \in Nat
  /\ heaps \subseteq Heaps
  /\ tls_tlh_ptr \in [Threads -> heaps \cup {NULL}]
  /\ current \in [Threads -> heaps \cup {NULL}] /\ inside \in [Threads -> heaps \cup {NULL}]
  /\ next_zombie \in [Heaps -> heaps \cup {NULL}] /\ out \in [Heaps -> heaps \cup {NULL}]
  /\ g_zombie_tlhs \in heaps \cup {NULL}
  /\ live \in [Heaps -> Nat] /\ mail \in [Heaps -> Nat]
  /\ \A h \in Heaps \ heaps : live[h] = 0

LifeInv ==
  /\ LockInv /\ Counters /\ Types /\ HeapInOnePlace
  /\ \A t \in Threads : Control(t)

(* A remainder is below what is divided by.                                *)
LEMMA Remainder ==
  ASSUME NEW a \in Nat, NEW b \in Nat \ {0}
  PROVE  a % b \in 0..(b - 1)
OBVIOUS

(* Adding to a heap's slot.                                                *)
LEMMA CreditTyped ==
  ASSUME Counters, NEW h \in Heaps, stat_slot[h] # NULL, NEW n \in Int, Credit(h, n)
  PROVE  bytes_allocated' \in [Slots -> Int]
BY DEF Counters, Credit

(* lz_tlh_alloc counts a block.                                            *)
LEMMA AllocCounted ==
  ASSUME Counters, NEW h \in Heaps, CountAlloc(h)
  PROVE  /\ Counters'
         /\ \A g \in Heaps \ {h} : /\ local_bytes_alloc_batch'[g] = local_bytes_alloc_batch[g]
                                   /\ local_bytes_free_batch'[g] = local_bytes_free_batch[g]
<1>1. CASE stat_slot[h] = NULL
  BY <1>1 DEF CountAlloc, statVars, Counters
<1>2. CASE stat_slot[h] # NULL
  <2> DEFINE batch == local_bytes_alloc_batch[h] + 1
             left == IF Full(batch) THEN 0 ELSE batch
             n == IF Full(batch) THEN batch ELSE 0
  <2>1. n \in Int /\ left \in 0..(AllocBatch - 1)
    BY TelemetryAssumption DEF Counters, Full
  <2>2. /\ Credit(h, n)
        /\ local_bytes_alloc_batch' = [local_bytes_alloc_batch EXCEPT ![h] = left]
        /\ UNCHANGED <<g_telemetry_matrix, stat_slot, local_bytes_free_batch>>
    BY <1>2, Zenon DEF CountAlloc
  <2> HIDE DEF n, left
  <2>3. bytes_allocated' \in [Slots -> Int]
    BY <1>2, <2>1, <2>2, CreditTyped, Zenon
  <2> QED
    BY <1>2, <2>1, <2>2, <2>3, Zenon DEF Counters
<1> QED
  BY <1>1, <1>2, Zenon

(* lz_tlh_free and lz_tlh_reap count n blocks.                             *)
LEMMA FreesCounted ==
  ASSUME Counters, NEW h \in Heaps, NEW n \in Nat, CountFrees(h, n)
  PROVE  /\ Counters'
         /\ \A g \in Heaps \ {h} : /\ local_bytes_alloc_batch'[g] = local_bytes_alloc_batch[g]
                                   /\ local_bytes_free_batch'[g] = local_bytes_free_batch[g]
<1>1. CASE stat_slot[h] = NULL
  BY <1>1 DEF CountFrees, statVars, Counters
<1>2. CASE stat_slot[h] # NULL
  <2> DEFINE batch == local_bytes_free_batch[h] + n
             left == batch % FreeBatch
  <2>1. batch \in Nat
    BY DEF Counters
  <2>2. left \in 0..(FreeBatch - 1) /\ left - batch \in Int
    <3>1. left \in 0..(FreeBatch - 1) /\ FreeBatch \in Nat \ {0}
      BY <2>1, Remainder, TelemetryAssumption, Zenon
    <3> HIDE DEF left, batch
    <3> QED
      BY <2>1, <3>1
  <2>3. /\ Credit(h, left - batch)
        /\ local_bytes_free_batch' = [local_bytes_free_batch EXCEPT ![h] = left]
        /\ UNCHANGED <<g_telemetry_matrix, stat_slot, local_bytes_alloc_batch>>
    BY <1>2, Zenon DEF CountFrees, LeftInBatch
  <2> HIDE DEF left, batch
  <2>4. bytes_allocated' \in [Slots -> Int]
    BY <1>2, <2>2, <2>3, CreditTyped, Zenon
  <2> QED
    BY <1>2, <2>2, <2>3, <2>4, Zenon DEF Counters
<1> QED
  BY <1>1, <1>2, Zenon

(* lz_tlh_destructor empties both batches.                                 *)
LEMMA ExitCounted ==
  ASSUME Counters, NEW h \in Heaps, SettleAtExit(h)
  PROVE  /\ Counters' /\ local_bytes_alloc_batch'[h] = 0 /\ local_bytes_free_batch'[h] = 0
         /\ \A g \in Heaps \ {h} : /\ local_bytes_alloc_batch'[g] = local_bytes_alloc_batch[g]
                                   /\ local_bytes_free_batch'[g] = local_bytes_free_batch[g]
<1>1. CASE stat_slot[h] = NULL
  BY <1>1 DEF SettleAtExit, statVars, Counters
<1>2. CASE stat_slot[h] # NULL
  <2>1. local_bytes_alloc_batch[h] - local_bytes_free_batch[h] \in Int
    BY DEF Counters
  <2>2. bytes_allocated' \in [Slots -> Int]
    BY <1>2, <2>1, CreditTyped, Zenon DEF SettleAtExit, Settle
  <2> QED
    BY <1>2, <2>2, TelemetryAssumption DEF Counters, SettleAtExit, Settle
<1> QED
  BY <1>1, <1>2, Zenon

(* ensure_tls_init opens a heap's account.                                 *)
LEMMA AccountOpened ==
  ASSUME Counters, NEW h \in Heaps, NEW id \in Nat, OpenAccount(h, id)
  PROVE  /\ Counters'
         /\ \A g \in Heaps \ {h} : /\ local_bytes_alloc_batch'[g] = local_bytes_alloc_batch[g]
                                   /\ local_bytes_free_batch'[g] = local_bytes_free_batch[g]
<1>1. lz_telemetry_get_slot(id % ThreadSlots) \in Slots \cup {NULL}
  BY Remainder, TelemetryAssumption, Zenon DEF lz_telemetry_get_slot, Slots
<1> QED
  BY <1>1, TelemetryAssumption DEF OpenAccount, Counters

----------------------------------------------------------------------------
(* A thread moves only itself.                                             *)
LEMMA OthersStay ==
  ASSUME Types, NEW t \in Threads, Step(t), NEW u \in Threads \ {t}
  PROVE  /\ pc'[u] = pc[u] /\ tls_tlh_ptr'[u] = tls_tlh_ptr[u]
         /\ current'[u] = current[u] /\ inside'[u] = inside[u]
<1> USE DEF Types, Goto, Work, heldVars
<1>1. CASE Start(t)
  BY <1>1, Zenon DEF Start
<1>2. CASE ResurrectLock(t)
  BY <1>2, Zenon DEF ResurrectLock
<1>3. CASE ResurrectRead(t)
  BY <1>3, Zenon DEF ResurrectRead
<1>4. CASE ResurrectUnlink(t)
  BY <1>4, Zenon DEF ResurrectUnlink
<1>5. CASE Adopt(t)
  BY <1>5, Zenon DEF Adopt
<1>6. CASE Enter(t)
  BY <1>6, Zenon DEF Enter
<1>7. CASE Alloc(t)
  BY <1>7, Zenon DEF Alloc, Leave
<1>8. CASE ReapOwn(t)
  BY <1>8, Zenon DEF ReapOwn, Leave
<1>9. CASE \E g \in Heaps : Free(t, g)
  BY <1>9, Zenon DEF Free, Leave
<1>10. CASE GcCall(t)
  BY <1>10, Zenon DEF GcCall
<1>11. CASE GcOwn(t)
  BY <1>11, Zenon DEF GcOwn
<1>12. CASE GcLock(t)
  BY <1>12, Zenon DEF GcLock
<1>13. CASE GcHead(t)
  BY <1>13, Zenon DEF GcHead
<1>14. CASE GcEnter(t)
  BY <1>14, Zenon DEF GcEnter
<1>15. CASE GcReap(t)
  BY <1>15, Zenon DEF GcReap
<1>16. CASE GcDone(t)
  BY <1>16, Zenon DEF GcDone
<1>17. CASE Exit(t)
  BY <1>17, Zenon DEF Exit
<1>18. CASE ExitFlush(t)
  BY <1>18, Zenon DEF ExitFlush
<1>19. CASE ExitLock(t)
  BY <1>19, Zenon DEF ExitLock
<1>20. CASE ExitPush(t)
  BY <1>20, Zenon DEF ExitPush
<1>21. CASE Gone(t)
  BY <1>21, Zenon DEF Gone
<1> QED
  BY <1>1, <1>2, <1>3, <1>4, <1>5, <1>6, <1>7, <1>8, <1>9, <1>10, <1>11, <1>12, <1>13, <1>14,
     <1>15, <1>16, <1>17, <1>18, <1>19, <1>20, <1>21, Zenon DEF Step

(* Every step is taken while no two threads share a heap.                  *)
LEMMA Exclusive ==
  ASSUME NEW t \in Threads, Step(t)
  PROVE  OwnerExclusive
BY Zenon DEF Step, Goto, At, Leave, Start, ResurrectLock, ResurrectRead, ResurrectUnlink, Adopt,
   Enter, Alloc, ReapOwn, Free, GcCall, GcOwn, GcLock, GcHead, GcEnter, GcReap, GcDone, Exit,
   ExitFlush, ExitLock, ExitPush, Gone

\* The step leaves what h's thread has collected in h alone.
Same(h) ==
  /\ out'[h] = out[h]
  /\ local_bytes_alloc_batch'[h] = local_bytes_alloc_batch[h]
  /\ local_bytes_free_batch'[h] = local_bytes_free_batch[h]

(* A thread changes only the heap it is inside, or is about to adopt.      *)
LEMMA TouchesOwn ==
  ASSUME LifeInv, NEW t \in Threads, Step(t)
  PROVE  /\ Counters'
         /\ \A g \in Heaps : Same(g) \/ inside[t] = g
                             \/ (pc[t] = "adopt" /\ (current[t] = g \/ g \notin heaps))
<1>1. Types /\ Counters /\ Control(t)
  BY Zenon DEF LifeInv
<1>2. inside[t] # NULL => inside[t] \in Heaps /\ mail[inside[t]] \in Nat
  BY <1>1, Zenon DEF Types
<1>3. CASE UNCHANGED <<statVars, out>>
  BY <1>1, <1>3, Zenon DEF Same, statVars, Counters
<1>4. CASE \/ Start(t) \/ ResurrectLock(t) \/ ResurrectRead(t) \/ ResurrectUnlink(t)
           \/ Enter(t) \/ GcCall(t) \/ GcLock(t) \/ GcHead(t) \/ GcEnter(t) \/ GcDone(t)
           \/ Exit(t) \/ ExitLock(t) \/ ExitPush(t) \/ Gone(t)
  BY <1>3, <1>4, Zenon DEF Start, ResurrectLock, ResurrectRead, ResurrectUnlink, Enter, GcCall,
     GcLock, GcHead, GcEnter, GcDone, Exit, ExitLock, ExitPush, Gone, blockVars
<1>5. CASE Adopt(t)
  <2>1. PICK h \in Heaps : /\ IF current[t] = NULL THEN h \notin heaps ELSE h = current[t]
                           /\ OpenAccount(h, g_thread_counter)
    BY <1>5, Zenon DEF Adopt
  <2>2. g_thread_counter \in Nat /\ pc[t] = "adopt" /\ out' = out
    BY <1>1, <1>5, Zenon DEF Types, Adopt, Goto, At, blockVars
  <2> QED
    BY <1>1, <2>1, <2>2, AccountOpened, Zenon DEF Same
<1>6. CASE Alloc(t)
  <2>1. inside[t] \in Heaps /\ CountAlloc(inside[t]) /\ out' = out
    BY <1>2, <1>6, Zenon DEF Alloc, Leave
  <2> QED
    BY <1>1, <2>1, AllocCounted, Zenon DEF Same
<1>7. CASE lz_tlh_reap(inside[t]) /\ inside[t] # NULL
  BY <1>1, <1>2, <1>7, FreesCounted, Zenon DEF lz_tlh_reap, Same
<1>8. CASE ReapOwn(t) \/ GcOwn(t) \/ GcReap(t)
  BY <1>1, <1>7, <1>8, Zenon DEF ReapOwn, Leave, GcOwn, GcReap, Control, Goto, At
<1>9. ASSUME NEW g \in Heaps, Free(t, g), g = inside[t]
      PROVE  CountFrees(inside[t], 1) /\ out' = out
  BY <1>9, Zenon DEF Free
<1>10. ASSUME NEW g \in Heaps, Free(t, g), g # inside[t]
       PROVE  UNCHANGED statVars /\ out' = [out EXCEPT ![inside[t]] = g]
  BY <1>10, Zenon DEF Free
<1>11. CASE \E g \in Heaps : Free(t, g)
  <2>1. inside[t] \in Heaps
    BY <1>2, <1>11, Zenon DEF Free, Leave
  <2>2. CASE CountFrees(inside[t], 1) /\ out' = out
    BY <1>1, <2>1, <2>2, FreesCounted, Zenon DEF Same
  <2>3. CASE UNCHANGED statVars /\ \E g \in Heaps : out' = [out EXCEPT ![inside[t]] = g]
    BY <1>1, <2>1, <2>3, Zenon DEF Same, Types, Counters, statVars
  <2> QED
    BY <1>9, <1>10, <1>11, <2>2, <2>3, Zenon
<1>12. CASE ExitFlush(t)
  <2>1. /\ inside[t] \in Heaps /\ SettleAtExit(inside[t])
        /\ out' = [out EXCEPT ![inside[t]] = NULL]
    BY <1>1, <1>2, <1>12, Zenon DEF ExitFlush, Control, Goto, At, lz_tlh_flush_outgoing_batch
  <2> QED
    BY <1>1, <2>1, ExitCounted DEF Same, Types
<1> QED
  BY <1>4, <1>5, <1>6, <1>8, <1>11, <1>12, Zenon DEF Step

(* The types of the variables that are not counters.                       *)
LEMMA StepTypes ==
  ASSUME LifeInv, NEW t \in Threads, Step(t)
  PROVE  Types'
<1>1. Types /\ Control(t)
  BY Zenon DEF LifeInv
<1>2. ASSUME NEW h, h \in heaps
      PROVE  h \in Heaps /\ Flushed(h) \in [Heaps -> Nat]
  BY <1>1, <1>2 DEF Types, Flushed
<1>3. pc' \in [Threads -> Places]
  BY StepPreserves, Zenon DEF LifeInv, LockInv
<1> USE DEF Goto, At, Work, listVars, heldVars, blockVars
<1>4. CASE Start(t)
  BY <1>1, <1>3, <1>4, Zenon DEF Types, Start
<1>5. CASE ResurrectLock(t)
  BY <1>1, <1>3, <1>5, Zenon DEF Types, ResurrectLock
<1>6. CASE ResurrectRead(t)
  BY <1>1, <1>3, <1>6, Zenon DEF Types, ResurrectRead
<1>7. CASE ResurrectUnlink(t)
  BY <1>1, <1>3, <1>7, Zenon DEF Types, ResurrectUnlink
<1>8. CASE Adopt(t)
  <2>1. PICK h \in Heaps : heaps' = heaps \cup {h} /\ tls_tlh_ptr' = [tls_tlh_ptr EXCEPT ![t] = h]
    BY <1>8, Zenon DEF Adopt
  <2>2. /\ g_thread_counter' = g_thread_counter + 1 /\ current' = [current EXCEPT ![t] = NULL]
        /\ UNCHANGED <<listVars, blockVars, inside>>
    BY <1>8, Zenon DEF Adopt
  <2> QED
    BY <1>1, <1>3, <2>1, <2>2 DEF Types
<1>9. CASE Enter(t)
  BY <1>1, <1>3, <1>9, Zenon DEF Types, Enter
<1>10. CASE Alloc(t)
  BY <1>1, <1>3, <1>10 DEF Types, Alloc, Leave
<1>11. CASE ReapOwn(t)
  BY <1>1, <1>3, <1>11, Zenon DEF Types, ReapOwn, Leave, lz_tlh_reap
<1>12. CASE \E g \in Heaps : Free(t, g)
  <2>1. PICK g \in Heaps : Free(t, g)
    BY <1>12, Zenon
  <2>2. g \in heaps /\ inside[t] \in heaps
    BY <1>1, <2>1 DEF Types, Free, Leave
  <2>3. live' \in [Heaps -> Nat] /\ \A h \in Heaps \ heaps : live'[h] = 0
    BY <1>1, <2>1, <2>2 DEF Types, Free
  <2>4. mail' \in [Heaps -> Nat] /\ out' \in [Heaps -> heaps \cup {NULL}]
    BY <1>1, <1>2, <2>1, <2>2 DEF Types, Free
  <2> QED
    BY <1>1, <1>3, <2>1, <2>3, <2>4, Zenon DEF Types, Free, Leave
<1>13. CASE GcCall(t)
  BY <1>1, <1>3, <1>13, Zenon DEF Types, GcCall
<1>14. CASE GcOwn(t)
  BY <1>1, <1>3, <1>14, Zenon DEF Types, GcOwn, lz_tlh_reap, Control
<1>15. CASE GcLock(t)
  BY <1>1, <1>3, <1>15, Zenon DEF Types, GcLock
<1>16. CASE GcHead(t)
  BY <1>1, <1>3, <1>16, Zenon DEF Types, GcHead
<1>17. CASE GcEnter(t)
  BY <1>1, <1>3, <1>17, Zenon DEF Types, GcEnter
<1>18. CASE GcReap(t)
  BY <1>1, <1>3, <1>18, Zenon DEF Types, GcReap, lz_tlh_reap, Control
<1>19. CASE GcDone(t)
  BY <1>1, <1>3, <1>19, Zenon DEF Types, GcDone
<1>20. CASE Exit(t)
  BY <1>1, <1>3, <1>20, Zenon DEF Types, Exit
<1>21. CASE ExitFlush(t)
  BY <1>1, <1>2, <1>3, <1>21, Zenon DEF Types, ExitFlush, lz_tlh_flush_outgoing_batch, Control
<1>22. CASE ExitLock(t)
  BY <1>1, <1>3, <1>22, Zenon DEF Types, ExitLock
<1>23. CASE ExitPush(t)
  BY <1>1, <1>3, <1>23, Zenon DEF Types, ExitPush, Control
<1>24. CASE Gone(t)
  BY <1>1, <1>3, <1>24, Zenon DEF Types, Gone
<1> QED
  BY <1>4, <1>5, <1>6, <1>7, <1>8, <1>9, <1>10, <1>11, <1>12, <1>13, <1>14, <1>15, <1>16, <1>17,
     <1>18, <1>19, <1>20, <1>21, <1>22, <1>23, <1>24, Zenon DEF Step

(* What the thread that steps holds at the place it gets to.               *)
LEMMA StepControl ==
  ASSUME LifeInv, NEW t \in Threads, Step(t)
  PROVE  Control(t)'
<1>1. Types /\ Control(t) /\ NULL \notin Heaps
  BY TelemetryAssumption, Zenon DEF LifeInv
<1> USE DEF Goto, At, Work, listVars, heldVars, blockVars
<1>2. CASE Start(t)
  BY <1>1, <1>2, Zenon DEF Types, Control, Start
<1>3. CASE ResurrectLock(t)
  BY <1>1, <1>3, Zenon DEF Types, Control, ResurrectLock
<1>4. CASE ResurrectRead(t)
  BY <1>1, <1>4, Zenon DEF Types, Control, ResurrectRead
<1>5. CASE ResurrectUnlink(t)
  BY <1>1, <1>5, Zenon DEF Types, Control, ResurrectUnlink
<1>6. CASE Adopt(t)
  BY <1>1, <1>6, Zenon DEF Types, Control, Adopt
<1>7. CASE Enter(t)
  BY <1>1, <1>7, Zenon DEF Types, Control, Enter
<1>8. CASE Alloc(t)
  BY <1>1, <1>8, Zenon DEF Types, Control, Alloc, Leave
<1>9. CASE ReapOwn(t)
  BY <1>1, <1>9, Zenon DEF Types, Control, ReapOwn, Leave
<1>10. CASE \E g \in Heaps : Free(t, g)
  BY <1>1, <1>10, Zenon DEF Types, Control, Free, Leave
<1>11. CASE GcCall(t)
  BY <1>1, <1>11, Zenon DEF Types, Control, GcCall
<1>12. CASE GcOwn(t)
  BY <1>1, <1>12, Zenon DEF Types, Control, GcOwn
<1>13. CASE GcLock(t)
  BY <1>1, <1>13, Zenon DEF Types, Control, GcLock
<1>14. CASE GcHead(t)
  BY <1>1, <1>14, Zenon DEF Types, Control, GcHead
<1>15. CASE GcEnter(t)
  BY <1>1, <1>15, Zenon DEF Types, Control, GcEnter
<1>16. CASE GcReap(t)
  BY <1>1, <1>16, Zenon DEF Types, Control, GcReap
<1>17. CASE GcDone(t)
  BY <1>1, <1>17, Zenon DEF Types, Control, GcDone
<1>18. CASE Exit(t)
  BY <1>1, <1>18, Zenon DEF Types, Control, Exit
<1>19. CASE ExitFlush(t)
  <2>1. inside[t] = tls_tlh_ptr[t] /\ inside[t] \in Heaps
    BY <1>1, <1>19, Zenon DEF Types, Control, ExitFlush
  <2>2. local_bytes_alloc_batch'[inside[t]] = 0 /\ local_bytes_free_batch'[inside[t]] = 0
    BY <1>19, <2>1, ExitCounted, Zenon DEF ExitFlush, LifeInv
  <2>3. out'[inside[t]] = NULL
    BY <1>1, <1>19, <2>1, Zenon DEF ExitFlush, lz_tlh_flush_outgoing_batch, Types
  <2>4. Settled(tls_tlh_ptr[t])'
    BY <1>19, <2>1, <2>2, <2>3, Zenon DEF Settled, ExitFlush
  <2> QED
    BY <1>1, <1>19, <2>1, <2>4, Zenon DEF Types, Control, ExitFlush
<1>20. CASE ExitLock(t)
  <2>1. Settled(tls_tlh_ptr[t])'
    BY <1>1, <1>20, Zenon DEF Control, Settled, ExitLock, statVars
  <2> QED
    BY <1>1, <1>20, <2>1, Zenon DEF Types, Control, ExitLock
<1>21. CASE ExitPush(t)
  BY <1>1, <1>21, Zenon DEF Types, Control, ExitPush
<1>22. CASE Gone(t)
  BY <1>1, <1>22, Zenon DEF Types, Control, Gone
<1> QED
  BY <1>2, <1>3, <1>4, <1>5, <1>6, <1>7, <1>8, <1>9, <1>10, <1>11, <1>12, <1>13, <1>14, <1>15,
     <1>16, <1>17, <1>18, <1>19, <1>20, <1>21, <1>22 DEF Step

(* What the other threads hold: the head of the list changes only under    *)
(* the lock, and nobody is inside a heap that another thread owns.         *)
LEMMA OthersControl ==
  ASSUME LifeInv, NEW t \in Threads, Step(t), NEW u \in Threads \ {t}
  PROVE  Control(u)'
<1>1. Types /\ Control(u) /\ NULL \notin Heaps
  BY TelemetryAssumption, Zenon DEF LifeInv
<1>2. /\ pc'[u] = pc[u] /\ tls_tlh_ptr'[u] = tls_tlh_ptr[u]
      /\ current'[u] = current[u] /\ inside'[u] = inside[u]
  BY <1>1, OthersStay, Zenon
<1>3. ASSUME pc[u] = "unlink"
      PROVE  g_zombie_tlhs' = g_zombie_tlhs
  <2>1. pc[t] \notin {"unlink", "push"}
    BY <1>3, Zenon DEF LifeInv, LockInv, LockExact
  <2> QED
    BY <2>1, Zenon DEF Step, Goto, At, listVars, Leave, Start, ResurrectLock, ResurrectRead,
       ResurrectUnlink, Adopt, Enter, Alloc, ReapOwn, Free, GcCall, GcOwn, GcLock, GcHead,
       GcEnter, GcReap, GcDone, Exit, ExitFlush, ExitLock, ExitPush, Gone
<1>4. ASSUME pc[u] \in {"exit_lock", "push"}
      PROVE  Settled(tls_tlh_ptr[u])'
  <2>1. Owns(u, tls_tlh_ptr[u]) /\ tls_tlh_ptr[u] \in heaps /\ Settled(tls_tlh_ptr[u])
    BY <1>1, <1>4, Zenon DEF Owns, Types, Control
  <2>2. inside[t] # tls_tlh_ptr[u]
    BY <1>1, <2>1, Exclusive, Zenon DEF OwnerExclusive, Shared, Types
  <2>3. pc[t] = "adopt" => current[t] # tls_tlh_ptr[u]
    BY <2>1, Zenon DEF LifeInv, HeapInOnePlace, Takes
  <2>4. Same(tls_tlh_ptr[u])
    BY <1>1, <2>1, <2>2, <2>3, TouchesOwn, Zenon DEF Types
  <2> QED
    BY <1>2, <2>1, <2>4, Zenon DEF Settled, Same
<1> QED
  BY <1>1, <1>2, <1>3, <1>4, Zenon DEF Control

----------------------------------------------------------------------------
\* The step leaves the zombie list and who has each heap alone.
HeapsStay ==
  /\ UNCHANGED <<g_zombie_tlhs, next_zombie, heaps>>
  /\ \A u \in Threads, h \in heaps : Owns(u, h)' = Owns(u, h) /\ Takes(u, h)' = Takes(u, h)

(* Most steps do.                                                          *)
LEMMA MostStay ==
  ASSUME LifeInv, NEW t \in Threads, Step(t),
         ~ResurrectUnlink(t), ~Adopt(t), ~ExitPush(t)
  PROVE  HeapsStay
<1>1. Types /\ Control(t) /\ NULL \notin heaps
  BY TelemetryAssumption, Zenon DEF LifeInv, Types
<1>2. \A u \in Threads \ {t}, h \in heaps : Owns(u, h)' = Owns(u, h) /\ Takes(u, h)' = Takes(u, h)
  BY <1>1, OthersStay, Zenon DEF Owns, Takes
<1>3. /\ UNCHANGED <<g_zombie_tlhs, next_zombie, heaps>>
      /\ \A h \in heaps : Owns(t, h)' = Owns(t, h) /\ Takes(t, h)' = Takes(t, h)
  <2> USE DEF Goto, At, listVars, heldVars, Owns, Takes
  <2>1. CASE Start(t)
    BY <1>1, <2>1, Zenon DEF Types, Control, Start
  <2>2. CASE ResurrectLock(t)
    BY <1>1, <2>2, Zenon DEF Types, Control, ResurrectLock
  <2>3. CASE ResurrectRead(t)
    BY <1>1, <2>3, Zenon DEF Types, Control, ResurrectRead
  <2>4. CASE Enter(t)
    BY <1>1, <2>4, Zenon DEF Types, Control, Enter
  <2>5. CASE Alloc(t)
    BY <1>1, <2>5, Zenon DEF Types, Control, Alloc, Leave
  <2>6. CASE ReapOwn(t)
    BY <1>1, <2>6, Zenon DEF Types, Control, ReapOwn, Leave
  <2>7. CASE \E g \in Heaps : Free(t, g)
    BY <1>1, <2>7, Zenon DEF Types, Control, Free, Leave
  <2>8. CASE GcCall(t)
    BY <1>1, <2>8, Zenon DEF Types, Control, GcCall
  <2>9. CASE GcOwn(t)
    BY <1>1, <2>9, Zenon DEF Types, Control, GcOwn
  <2>10. CASE GcLock(t)
    BY <1>1, <2>10, Zenon DEF Types, Control, GcLock
  <2>11. CASE GcHead(t)
    BY <1>1, <2>11, Zenon DEF Types, Control, GcHead
  <2>12. CASE GcEnter(t)
    BY <1>1, <2>12, Zenon DEF Types, Control, GcEnter
  <2>13. CASE GcReap(t)
    BY <1>1, <2>13, Zenon DEF Types, Control, GcReap
  <2>14. CASE GcDone(t)
    BY <1>1, <2>14, Zenon DEF Types, Control, GcDone
  <2>15. CASE Exit(t)
    BY <1>1, <2>15, Zenon DEF Types, Control, Exit
  <2>16. CASE ExitFlush(t)
    BY <1>1, <2>16, Zenon DEF Types, Control, ExitFlush
  <2>17. CASE ExitLock(t)
    BY <1>1, <2>17, Zenon DEF Types, Control, ExitLock
  <2>18. CASE Gone(t)
    BY <1>1, <2>18, Zenon DEF Types, Control, Gone
  <2> QED
    BY <2>1, <2>2, <2>3, <2>4, <2>5, <2>6, <2>7, <2>8, <2>9, <2>10, <2>11, <2>12, <2>13, <2>14,
       <2>15, <2>16, <2>17, <2>18, Zenon DEF Step
<1> QED
  BY <1>2, <1>3, Zenon DEF HeapsStay

(* A step that leaves them alone.                                          *)
LEMMA StayInPlace ==
  ASSUME HeapInOnePlace, HeapsStay
  PROVE  HeapInOnePlace' /\ Zombies' = Zombies
<1>1. Zombies' = Zombies /\ ListOf(g_zombie_tlhs, next_zombie, Zombies, NULL)'
  BY Zenon DEF HeapsStay, HeapInOnePlace, Zombies
<1>2. \A h \in heaps : h \in Zombies <=> \A u \in Threads : ~Owns(u, h) /\ ~Takes(u, h)
  BY Zenon DEF HeapInOnePlace
<1> QED
  BY <1>1, <1>2 DEF HeapsStay, HeapInOnePlace

(* lz_resurrect_zombie unlinks the head: the heap passes from the list to  *)
(* the thread that popped it.                                              *)
LEMMA UnlinkInPlace ==
  ASSUME LifeInv, NEW t \in Threads, ResurrectUnlink(t)
  PROVE  HeapInOnePlace' /\ Zombies' \subseteq Zombies
<1>1. /\ Types /\ Control(t) /\ NULL \notin heaps /\ HeapInOnePlace
  BY TelemetryAssumption, Zenon DEF LifeInv, Types
<1>2. Step(t)
  BY Zenon DEF Step
<1>3. /\ pc[t] = "unlink" /\ pc'[t] = "adopt" /\ current' = current
      /\ tls_tlh_ptr' = tls_tlh_ptr /\ heaps' = heaps
      /\ tls_tlh_ptr[t] = NULL /\ current[t] = g_zombie_tlhs
  BY <1>1, Zenon DEF ResurrectUnlink, Goto, At, heldVars, Types, Control
<1>4. \A u \in Threads, h \in heaps : Owns(u, h)' = Owns(u, h)
  BY <1>1, <1>2, <1>3, OthersStay, Zenon DEF Owns
<1>5. \A u \in Threads, h \in heaps : Takes(u, h)' <=> Takes(u, h) \/ (u = t /\ h = g_zombie_tlhs)
  BY <1>1, <1>2, <1>3, OthersStay, Zenon DEF Takes
<1>6. CASE g_zombie_tlhs = NULL
  <2>1. UNCHANGED <<g_zombie_tlhs, next_zombie, heaps>>
    BY <1>3, <1>6, Zenon DEF ResurrectUnlink
  <2>2. \A u \in Threads, h \in heaps : Takes(u, h)' = Takes(u, h)
    BY <1>1, <1>5, <1>6, Zenon DEF Takes
  <2> QED
    BY <1>1, <1>4, <2>1, <2>2, StayInPlace, Zenon DEF HeapsStay
<1>7. CASE g_zombie_tlhs # NULL
  <2> DEFINE Z == Zombies \ {g_zombie_tlhs}
  <2>1. /\ g_zombie_tlhs' = next_zombie[g_zombie_tlhs]
        /\ next_zombie' = [next_zombie EXCEPT ![g_zombie_tlhs] = NULL]
    BY <1>3, <1>7, Zenon DEF ResurrectUnlink
  <2>2. Zombies \subseteq heaps /\ heaps \subseteq Heaps
    BY <1>1, Zenon DEF Zombies, Reached, Types
  <2>3. g_zombie_tlhs \in Zombies /\ ListOf(next_zombie[g_zombie_tlhs], next_zombie, Z, NULL)
    BY <1>1, <1>7, ListPop, Zenon DEF HeapInOnePlace
  <2>4. \A x \in Z : next_zombie'[x] = next_zombie[x]
    BY <1>1, <2>1, <2>2, Zenon DEF Types
  <2>5. ListOf(g_zombie_tlhs', next_zombie', Z, NULL)
    BY <2>1, <2>3, <2>4, ListFrame, Zenon
  <2>6. Zombies' = Z
    BY <1>3, <2>2, <2>5, ListReached DEF Zombies
  <2>7. ListOf(g_zombie_tlhs, next_zombie, Zombies, NULL)'
    BY <2>5, <2>6, Zenon
  <2>8. \A u \in Threads : ~Owns(u, g_zombie_tlhs) /\ ~Takes(u, g_zombie_tlhs)
    BY <1>1, <2>2, <2>3, Zenon DEF HeapInOnePlace
  <2>9. \A h \in heaps : h \in Z <=> \A u \in Threads : ~Owns(u, h)' /\ ~Takes(u, h)'
    BY <1>1, <1>4, <1>5 DEF HeapInOnePlace
  <2>10. \A h \in heaps :
          /\ \A u, w \in Threads : ~(Owns(u, h)' /\ Takes(w, h)')
          /\ \A u, w \in Threads : Owns(u, h)' /\ Owns(w, h)' => u = w
          /\ \A u, w \in Threads : Takes(u, h)' /\ Takes(w, h)' => u = w
    BY <1>1, <1>4, <1>5, <2>8 DEF HeapInOnePlace
  <2> QED
    BY <1>3, <2>6, <2>7, <2>9, <2>10, Zenon DEF HeapInOnePlace
<1> QED
  BY <1>6, <1>7, Zenon

(* ensure_tls_init: the heap popped, or a new one, becomes the thread's.   *)
LEMMA AdoptInPlace ==
  ASSUME LifeInv, NEW t \in Threads, Adopt(t)
  PROVE  HeapInOnePlace' /\ Zombies' = Zombies
<1>1. /\ Types /\ Control(t) /\ NULL \notin Heaps /\ HeapInOnePlace
  BY TelemetryAssumption, Zenon DEF LifeInv, Types
<1>2. Step(t)
  BY Zenon DEF Step
<1>3. PICK h \in Heaps : /\ IF current[t] = NULL THEN h \notin heaps ELSE h = current[t]
                         /\ heaps' = heaps \cup {h}
                         /\ tls_tlh_ptr' = [tls_tlh_ptr EXCEPT ![t] = h]
  BY Zenon DEF Adopt
<1>4. /\ pc[t] = "adopt" /\ pc'[t] = "run" /\ tls_tlh_ptr[t] = NULL /\ tls_tlh_ptr'[t] = h
      /\ UNCHANGED <<g_zombie_tlhs, next_zombie>> /\ current'[t] = NULL
  BY <1>1, <1>3, Zenon DEF Adopt, Goto, At, listVars, Types, Control
<1>5. Zombies \subseteq heaps /\ ListOf(g_zombie_tlhs, next_zombie, Zombies, NULL)
  BY <1>1, Zenon DEF HeapInOnePlace, Zombies, Reached
<1>6. Zombies' = Zombies
  BY <1>3, <1>4, <1>5, ListReached DEF Zombies
<1>7. ListOf(g_zombie_tlhs, next_zombie, Zombies, NULL)'
  BY <1>4, <1>5, <1>6, Zenon
<1>8. \A u \in Threads, g \in heaps' :
        Owns(u, g)' <=> (g \in heaps /\ Owns(u, g)) \/ (u = t /\ g = h)
  BY <1>1, <1>2, <1>3, <1>4, OthersStay, SMTT(20) DEF Owns, Types
<1>9. \A u \in Threads, g \in heaps' : Takes(u, g)' <=> g \in heaps /\ Takes(u, g) /\ u # t
  BY <1>1, <1>2, <1>3, <1>4, OthersStay, SMTT(20) DEF Takes, Types
<1>10. h \notin Zombies /\ \A u \in Threads : h \in heaps => ~Owns(u, h) /\ (Takes(u, h) => u = t)
  BY <1>1, <1>3, <1>4, <1>5, Zenon DEF HeapInOnePlace, Takes
<1>11. \A g \in heaps : Takes(t, g) => g = h
  BY <1>1, <1>3, Zenon DEF Takes, Types
<1>12. \A g \in heaps' : g \in Zombies <=> \A u \in Threads : ~Owns(u, g)' /\ ~Takes(u, g)'
  BY <1>1, <1>3, <1>5, <1>8, <1>9, <1>10, <1>11 DEF HeapInOnePlace
<1>13. \A g \in heaps' :
         /\ \A u, w \in Threads : ~(Owns(u, g)' /\ Takes(w, g)')
         /\ \A u, w \in Threads : Owns(u, g)' /\ Owns(w, g)' => u = w
         /\ \A u, w \in Threads : Takes(u, g)' /\ Takes(w, g)' => u = w
  BY <1>1, <1>8, <1>9, <1>10, SMTT(20) DEF HeapInOnePlace
<1> QED
  BY <1>6, <1>7, <1>12, <1>13, Zenon DEF HeapInOnePlace

(* lz_tlh_destructor pushes the thread's heap.                             *)
LEMMA PushInPlace ==
  ASSUME LifeInv, NEW t \in Threads, ExitPush(t)
  PROVE  HeapInOnePlace' /\ Zombies' = Zombies \cup {tls_tlh_ptr[t]}
<1>1. /\ Types /\ Control(t) /\ NULL \notin Heaps /\ HeapInOnePlace
  BY TelemetryAssumption, Zenon DEF LifeInv, Types
<1>2. Step(t)
  BY Zenon DEF Step
<1>3. PICK h \in heaps : h = tls_tlh_ptr[t]
  BY <1>1, Zenon DEF ExitPush, Goto, At, Types, Control
<1>4. /\ pc[t] = "push" /\ pc'[t] = "late" /\ UNCHANGED <<tls_tlh_ptr, heaps>>
      /\ next_zombie' = [next_zombie EXCEPT ![h] = g_zombie_tlhs] /\ g_zombie_tlhs' = h
  BY <1>1, <1>3, Zenon DEF ExitPush, Goto, At, heldVars, Types
<1>5. /\ Zombies \subseteq heaps /\ heaps \subseteq Heaps
      /\ ListOf(g_zombie_tlhs, next_zombie, Zombies, NULL)
  BY <1>1, Zenon DEF HeapInOnePlace, Zombies, Reached, Types
<1>6. Owns(t, h) /\ h \notin Zombies
  BY <1>1, <1>3, <1>4, Zenon DEF Owns, HeapInOnePlace
<1>7. /\ h # NULL /\ next_zombie'[h] = g_zombie_tlhs
      /\ \A x \in Zombies : next_zombie'[x] = next_zombie[x]
  BY <1>1, <1>4, <1>5, <1>6, Zenon DEF Types
<1>8. ListOf(g_zombie_tlhs', next_zombie', Zombies \cup {h}, NULL)
  BY <1>4, <1>5, <1>6, <1>7, ListPush, ZenonT(40)
<1>9. Zombies' = Zombies \cup {h}
  BY <1>4, <1>5, <1>8, ListReached DEF Zombies
<1>10. ListOf(g_zombie_tlhs, next_zombie, Zombies, NULL)'
  BY <1>8, <1>9, Zenon
<1>11. \A u \in Threads, g \in heaps : Owns(u, g)' <=> Owns(u, g) /\ u # t
  BY <1>1, <1>2, <1>4, OthersStay, Zenon DEF Owns
<1>12. \A u \in Threads, g \in heaps : Takes(u, g)' = Takes(u, g)
  BY <1>1, <1>2, <1>4, OthersStay, Zenon DEF Takes
<1>13. \A g \in heaps : Owns(t, g) => g = h
  BY <1>3, Zenon DEF Owns
<1>14. \A g \in heaps : g \in Zombies \cup {h} <=> \A u \in Threads : ~Owns(u, g)' /\ ~Takes(u, g)'
  BY <1>1, <1>6, <1>11, <1>12, <1>13 DEF HeapInOnePlace
<1>15. \A g \in heaps :
         /\ \A u, w \in Threads : ~(Owns(u, g)' /\ Takes(w, g)')
         /\ \A u, w \in Threads : Owns(u, g)' /\ Owns(w, g)' => u = w
         /\ \A u, w \in Threads : Takes(u, g)' /\ Takes(w, g)' => u = w
  BY <1>1, <1>11, <1>12, SMTT(20) DEF HeapInOnePlace
<1> QED
  BY <1>3, <1>4, <1>9, <1>10, <1>14, <1>15, Zenon DEF HeapInOnePlace

(* Every step keeps each heap in one place; only the push of the           *)
(* destructor makes a zombie.                                              *)
LEMMA StepInPlace ==
  ASSUME LifeInv, NEW t \in Threads, Step(t)
  PROVE  /\ HeapInOnePlace'
         /\ Zombies' \subseteq Zombies
              \/ (pc[t] = "push" /\ Zombies' = Zombies \cup {tls_tlh_ptr[t]})
<1>1. CASE ExitPush(t)
  BY <1>1, PushInPlace, Zenon DEF ExitPush, Goto, At
<1>2. CASE ~ResurrectUnlink(t) /\ ~Adopt(t) /\ ~ExitPush(t)
  BY <1>2, MostStay, StayInPlace, Zenon DEF LifeInv
<1> QED
  BY <1>1, <1>2, UnlinkInPlace, AdoptInPlace, Zenon

----------------------------------------------------------------------------
(* The initial state, in which no heap is mapped.                          *)
LEMMA InitLife ==
  ASSUME Init
  PROVE  LifeInv
<1>1. LockInv
  BY LifecycleAssumption, Zenon DEF Init, LockInv, LockExact, Places
<1>2. Counters
  BY TelemetryAssumption DEF Init, lz_telemetry_init, Counters
<1>3. Types
  BY Zenon DEF Init, NoHeap, Types, Places
<1>4. HeapInOnePlace
  <2>1. Zombies = {} /\ heaps = {} /\ g_zombie_tlhs = NULL
    BY Zenon DEF Init, Zombies, Reached
  <2> QED
    BY <2>1, ListEmpty, Zenon DEF HeapInOnePlace
<1>5. \A t \in Threads : Control(t)
  BY Zenon DEF Init, NoHeap, Control
<1> QED
  BY <1>1, <1>2, <1>3, <1>4, <1>5, Zenon DEF LifeInv

(* LifeInv is inductive.                                                   *)
LEMMA NextLife ==
  ASSUME LifeInv, [Next]_vars
  PROVE  LifeInv'
<1>1. CASE \E t \in Threads : Step(t)
  <2>1. PICK t \in Threads : Step(t)
    BY <1>1, Zenon
  <2>2. LockInv' /\ Counters' /\ Types' /\ HeapInOnePlace'
    BY <2>1, StepPreserves, TouchesOwn, StepTypes, StepInPlace, Zenon DEF LifeInv
  <2>3. \A u \in Threads : Control(u)'
    BY <2>1, StepControl, OthersControl, Zenon
  <2> QED
    BY <2>2, <2>3, Zenon DEF LifeInv
<1>2. CASE UNCHANGED vars
  <2>1. LockInv' /\ Counters' /\ Types'
    BY <1>2, Zenon DEF LifeInv, LockInv, LockExact, Counters, Types, vars, statVars
  <2>2. HeapInOnePlace'
    BY <1>2, StayInPlace, Zenon DEF LifeInv, HeapsStay, Owns, Takes, vars
  <2>3. \A u \in Threads : Control(u)'
    BY <1>2, Zenon DEF LifeInv, Control, Settled, vars, statVars
  <2> QED
    BY <2>1, <2>2, <2>3, Zenon DEF LifeInv
<1> QED
  BY <1>1, <1>2, Zenon DEF Next, Undefined

(* LifeInv holds in every state.                                           *)
LEMMA LifeInvariant == Spec => []LifeInv
<1>1. Init => LifeInv
  BY InitLife, Zenon
<1>2. LifeInv /\ [Next]_vars => LifeInv'
  BY NextLife, Zenon
<1> QED
  BY <1>1, <1>2, PTL DEF Spec

(* Type correctness of the heaps' life, with the bounds of the batches.    *)
THEOREM LifecycleTyped == Spec => []TypeOK
<1>1. LifeInv => TypeOK
  BY Zenon DEF LifeInv, LockInv, Counters, Types, TypeOK
<1> QED
  BY <1>1, LifeInvariant, PTL

(* Each mapped heap is owned by one thread, popped by one, or on the       *)
(* zombie list once, for any number of threads and heaps.                  *)
THEOREM HeapsInPlace == Spec => []HeapInOnePlace
<1>1. LifeInv => HeapInOnePlace
  BY Zenon DEF LifeInv
<1> QED
  BY <1>1, LifeInvariant, PTL

(* lz_tlh_destructor leaves nothing of its thread in the heap it pushes:   *)
(* the outgoing batch is sent and both counts are in the slot.             *)
THEOREM NothingLeftBehind == Spec => LeavesNothingBehind
<1> DEFINE Push == \A h \in heaps : h \in Zombies \/ h \notin Zombies' \/
                     /\ out[h] = NULL
                     /\ local_bytes_alloc_batch[h] = 0 /\ local_bytes_free_batch[h] = 0
<1>1. LifeInv /\ [Next]_vars => [Push]_vars
  <2> SUFFICES ASSUME LifeInv, Next PROVE Push \/ UNCHANGED vars
    OBVIOUS
  <2>1. CASE Undefined
    BY <2>1, Zenon DEF Undefined
  <2>2. ASSUME NEW t \in Threads, Step(t)
        PROVE  Push
    <3>1. Zombies' \subseteq Zombies \/ (pc[t] = "push" /\ Zombies' = Zombies \cup {tls_tlh_ptr[t]})
      BY <2>2, StepInPlace, Zenon
    <3>2. pc[t] = "push" => Settled(tls_tlh_ptr[t])
      BY Zenon DEF LifeInv, Control
    <3> QED
      BY <3>1, <3>2, Zenon DEF Settled
  <2> QED
    BY <2>1, <2>2, Zenon DEF Next
<1> HIDE DEF Push
<1>2. Spec => [][Push]_vars
  BY <1>1, LifeInvariant, PTL DEF Spec
<1> QED
  BY <1>2, Zenon DEF LeavesNothingBehind, Push
============================================================================
