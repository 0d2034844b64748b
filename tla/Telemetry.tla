----------------------------- MODULE Telemetry -----------------------------
(***************************************************************************)
(* The counter of allocated bytes (internal/telemetry.c and its uses in    *)
(* tlh/tlh.c and hooks/lzmalloc.c), for slab blocks of one size, which is  *)
(* the unit.  A heap collects what it allocates and frees in two private   *)
(* batches and adds them to the shared slot it was given; two heaps may    *)
(* share a slot.  Left out, and not balanced in the code: runs of spans,   *)
(* which lz_span_free_local subtracts and nothing adds; and slabs of other *)
(* sizes, where a free may count the block_size of what its chunk has      *)
(* become since the slab was destroyed.                                    *)
(***************************************************************************)
EXTENDS Integers

CONSTANTS
  Heaps, NULL,
  ThreadSlots,     \* LZ_MAX_TELEMETRY_SLOTS - LZ_THREAD_SLOT_BASE_IDX
  AllocBatch,      \* bytes at which an allocation empties its batch (1048576)
  FreeBatch        \* bytes at which a free empties its batch (4096)

ASSUME TelemetryAssumption ==
  /\ ThreadSlots \in Nat \ {0} /\ AllocBatch \in Nat \ {0} /\ FreeBatch \in Nat \ {0}
  /\ NULL \notin Heaps \cup Int

VARIABLES
  g_telemetry_matrix,        \* the shared memory is mapped
  bytes_allocated,           \* per slot
  stat_slot,                 \* per heap: its slot, or NULL
  local_bytes_alloc_batch,   \* per heap
  local_bytes_free_batch     \* per heap

statVars == <<g_telemetry_matrix, bytes_allocated, stat_slot,
              local_bytes_alloc_batch, local_bytes_free_batch>>

Slots == 0..(ThreadSlots - 1)

\* The variable is not set, or one of shm_open, ftruncate and mmap fails: no
\* matrix, for the life of the process.
lz_telemetry_init ==
  /\ g_telemetry_matrix \in BOOLEAN
  /\ bytes_allocated = [s \in Slots |-> 0]
  /\ stat_slot = [h \in Heaps |-> NULL]
  /\ local_bytes_alloc_batch = [h \in Heaps |-> 0]
  /\ local_bytes_free_batch = [h \in Heaps |-> 0]

lz_telemetry_get_slot(index) == IF g_telemetry_matrix THEN index ELSE NULL

----------------------------------------------------------------------------
Credit(h, n) == bytes_allocated' = [bytes_allocated EXCEPT ![stat_slot[h]] = @ + n]

\* Mutation: the batch is emptied one allocation late.
FullLate(batch) == batch > AllocBatch

Full(batch) == batch >= AllocBatch

\* lz_tlh_alloc counts a block.
CountAlloc(h) ==
  LET batch == local_bytes_alloc_batch[h] + 1
  IN  IF stat_slot[h] = NULL THEN UNCHANGED statVars
      ELSE /\ Credit(h, IF Full(batch) THEN batch ELSE 0)
           /\ local_bytes_alloc_batch' =
                [local_bytes_alloc_batch EXCEPT ![h] = IF Full(batch) THEN 0 ELSE batch]
           /\ UNCHANGED <<g_telemetry_matrix, stat_slot, local_bytes_free_batch>>

\* Mutation: the batch of frees is not reset when it has been subtracted.
KeepBatch(batch) == batch

\* What stays in the batch of frees once every full batch has been subtracted.
LeftInBatch(batch) == batch % FreeBatch

\* lz_tlh_free and lz_tlh_reap count n slab blocks, one after the other: each as
\* the block_size in the slab's header, read when the slab may be gone already.
\* The header outlives it, and with one block size a new slab writes the same.
CountFrees(h, n) ==
  LET batch == local_bytes_free_batch[h] + n
  IN  IF stat_slot[h] = NULL THEN UNCHANGED statVars
      ELSE /\ Credit(h, (batch % FreeBatch) - batch)
           /\ local_bytes_free_batch' = [local_bytes_free_batch EXCEPT ![h] = LeftInBatch(batch)]
           /\ UNCHANGED <<g_telemetry_matrix, stat_slot, local_bytes_alloc_batch>>

\* lz_tlh_destructor empties both batches.
Settle(h) ==
  /\ Credit(h, local_bytes_alloc_batch[h] - local_bytes_free_batch[h])
  /\ local_bytes_alloc_batch' = [local_bytes_alloc_batch EXCEPT ![h] = 0]
  /\ local_bytes_free_batch' = [local_bytes_free_batch EXCEPT ![h] = 0]
  /\ UNCHANGED <<g_telemetry_matrix, stat_slot>>

SettleAtExit(h) == IF stat_slot[h] = NULL THEN UNCHANGED statVars ELSE Settle(h)

\* ensure_tls_init gives heap h to the thread numbered thread_id.
OpenAccount(h, thread_id) ==
  /\ stat_slot' = [stat_slot EXCEPT ![h] = lz_telemetry_get_slot(thread_id % ThreadSlots)]
  /\ local_bytes_alloc_batch' = [local_bytes_alloc_batch EXCEPT ![h] = 0]
  /\ local_bytes_free_batch' = [local_bytes_free_batch EXCEPT ![h] = 0]
  /\ UNCHANGED <<g_telemetry_matrix, bytes_allocated>>
============================================================================
