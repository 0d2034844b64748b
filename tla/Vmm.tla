-------------------------------- MODULE Vmm --------------------------------
(***************************************************************************)
(* The virtual memory manager (engines/vmm.c) with the NUMA pools of       *)
(* internal/topology.c: per-node caches of free chunks and a global free   *)
(* list, both singly linked through the chunk headers and guarded by       *)
(* test-and-set spinlocks, refilled by extents mapped from the OS.         *)
(*                                                                         *)
(* A thread runs one of the three entry points at a time.  Taking a lock   *)
(* is a step.  A pop is two steps (read the top, unlink it and unlock), so *)
(* that what the lock protects is exposed to interleaving; a push and its  *)
(* unlock are one step, as are the private writes after an unlock.         *)
(***************************************************************************)
EXTENDS Lists

CONSTANTS
  Threads,
  Chunks,                     \* chunk addresses, in units of a huge page
  LZ_MAX_NUMA_NODES,
  LZ_VMM_MAX_CACHED_CHUNKS,   \* capacity of a node's cache
  LZ_EXTENT_CHUNKS,           \* chunks mapped by one sys_alloc_extent
  NULL

ASSUME VmmAssumption ==
  /\ Chunks \subseteq Nat
  /\ LZ_MAX_NUMA_NODES \in Nat \ {0}
  /\ LZ_VMM_MAX_CACHED_CHUNKS \in Nat
  /\ LZ_EXTENT_CHUNKS \in Nat \ {0}
  /\ NULL \notin Chunks

VARIABLES
  free_chunks, available_count,       \* lz_numa_pool_t, per node
  pool_lock,                          \* g_pool_locks, per node
  g_global_free_chunks, g_global_pool_lock,
  next, node_id, magic,               \* chunk header fields the VMM uses
  mapped,                             \* chunks mmap has returned
  held,                               \* chunks each caller has been given
  pc, node, chunk, chunk_next,        \* locals of the running entry point;
  base, i,                            \*   `node` is current_node, target_node
  oom,                                \*   or the loop index of the purge
  place                               \* auxiliary: where each chunk is; it is
                                      \*   written, never read, by the actions

pool   == <<free_chunks, available_count, pool_lock>>
global == <<g_global_free_chunks, g_global_pool_lock>>
header == <<next, node_id, magic>>
env    == <<mapped, held>>
locals == <<node, chunk, chunk_next, base, i, oom>>
vars   == <<pool, global, header, env, pc, locals, place>>

Nodes == 0..(LZ_MAX_NUMA_NODES - 1)

LZ_CHUNK_MAGIC_V2 == 2

Valid(c) == magic[c] = LZ_CHUNK_MAGIC_V2

\* lz_vmm_init and lz_topology_init; no chunk is mapped yet.
Init ==
  /\ free_chunks = [n \in Nodes |-> NULL]
  /\ available_count = [n \in Nodes |-> 0]
  /\ pool_lock = [n \in Nodes |-> FALSE]
  /\ g_global_free_chunks = NULL
  /\ g_global_pool_lock = FALSE
  /\ next = [c \in Chunks |-> NULL]
  /\ node_id = [c \in Chunks |-> 0]
  /\ magic = [c \in Chunks |-> 0]
  /\ mapped = {}
  /\ held = [t \in Threads |-> {}]
  /\ pc = [t \in Threads |-> "idle"]
  /\ node = [t \in Threads |-> 0]
  /\ chunk = [t \in Threads |-> NULL]
  /\ chunk_next = [t \in Threads |-> NULL]
  /\ base = [t \in Threads |-> 0]
  /\ i = [t \in Threads |-> 0]
  /\ oom = [t \in Threads |-> FALSE]
  /\ place = [c \in Chunks |-> <<"os", NULL>>]

----------------------------------------------------------------------------
Goto(t, from, to) == pc[t] = from /\ pc' = [pc EXCEPT ![t] = to]

Place(c, where, who) == place' = [place EXCEPT ![c] = <<where, who>>]

\* Mutation: the test-and-set result is ignored.
LockPoolUnchecked(t, from, to) ==
  /\ Goto(t, from, to)
  /\ pool_lock' = [pool_lock EXCEPT ![node[t]] = TRUE]
  /\ UNCHANGED <<free_chunks, available_count, global, header, env, locals, place>>

\* pool_lock(node): the iteration of the spin loop that takes the flag.
LockPool(t, from, to) ==
  /\ Goto(t, from, to)
  /\ ~pool_lock[node[t]]
  /\ pool_lock' = [pool_lock EXCEPT ![node[t]] = TRUE]
  /\ UNCHANGED <<free_chunks, available_count, global, header, env, locals, place>>

\* Mutation: the global lock's test-and-set result is ignored.
LockGlobalUnchecked(t, from, to) ==
  /\ Goto(t, from, to)
  /\ g_global_pool_lock' = TRUE
  /\ UNCHANGED <<pool, g_global_free_chunks, header, env, locals, place>>

\* global_pool_lock().
LockGlobal(t, from, to) ==
  /\ Goto(t, from, to)
  /\ ~g_global_pool_lock
  /\ g_global_pool_lock' = TRUE
  /\ UNCHANGED <<pool, g_global_free_chunks, header, env, locals, place>>

\* chunk->next = g_global_free_chunks; g_global_free_chunks = chunk.
PushGlobal(c) ==
  /\ next' = [next EXCEPT ![c] = g_global_free_chunks]
  /\ g_global_free_chunks' = c
  /\ Place(c, "global", NULL)

UnlockPool(n) == pool_lock' = [pool_lock EXCEPT ![n] = FALSE]
UnlockGlobal  == g_global_pool_lock' = FALSE

----------------------------------------------------------------------------
(* lz_vmm_alloc_chunk.  getcpu may name any node at every call, so the     *)
(* current node is chosen anew; an unknown node falls back to 0.           *)

AllocCall(t) ==
  /\ Goto(t, "idle", "a_lock")
  /\ \E n \in Nodes : node' = [node EXCEPT ![t] = n]
  /\ UNCHANGED <<pool, global, header, env, chunk, chunk_next, base, i, oom, place>>

AllocLock(t) == LockPool(t, "a_lock", "a_read")

AllocRead(t) ==
  /\ Goto(t, "a_read", "a_pop")
  /\ chunk' = [chunk EXCEPT ![t] = free_chunks[node[t]]]
  /\ UNCHANGED <<pool, global, header, env, node, chunk_next, base, i, oom, place>>

\* Mutation: the pop forgets to take one off available_count.
AllocPopNoCount(t) ==
  /\ Goto(t, "a_pop", IF chunk[t] # NULL THEN "a_done" ELSE "g_lock")
  /\ IF chunk[t] # NULL
     THEN /\ free_chunks' = [free_chunks EXCEPT ![node[t]] = next[chunk[t]]]
          /\ Place(chunk[t], "flight", t)
     ELSE UNCHANGED <<free_chunks, place>>
  /\ UnlockPool(node[t])
  /\ UNCHANGED <<available_count, global, header, env, locals>>

AllocPop(t) ==
  /\ Goto(t, "a_pop", IF chunk[t] # NULL THEN "a_done" ELSE "g_lock")
  /\ IF chunk[t] # NULL
     THEN /\ free_chunks' = [free_chunks EXCEPT ![node[t]] = next[chunk[t]]]
          /\ available_count' = [available_count EXCEPT ![node[t]] = @ - 1]
          /\ Place(chunk[t], "flight", t)
     ELSE UNCHANGED <<free_chunks, available_count, place>>
  /\ UnlockPool(node[t])
  /\ UNCHANGED <<global, header, env, locals>>

\* The chunk is returned to the caller.
Return(t) ==
  /\ held' = [held EXCEPT ![t] = @ \cup {chunk[t]}]
  /\ Place(chunk[t], "held", t)
  /\ chunk' = [chunk EXCEPT ![t] = NULL]
  /\ node' = [node EXCEPT ![t] = 0]
  /\ UNCHANGED <<mapped, chunk_next, base, i>>

AllocDone(t) ==
  /\ Goto(t, "a_done", "idle")
  /\ next' = [next EXCEPT ![chunk[t]] = NULL]
  /\ Return(t)
  /\ UNCHANGED <<pool, global, node_id, magic, oom>>

GlobalLock(t) == LockGlobal(t, "g_lock", "g_look")

\* An empty global list: unlock, then sys_alloc_extent.
GlobalEmpty(t) ==
  /\ Goto(t, "g_look", "x_map")
  /\ g_global_free_chunks = NULL
  /\ UnlockGlobal
  /\ UNCHANGED <<pool, g_global_free_chunks, header, env, locals, place>>

GlobalRead(t) ==
  /\ Goto(t, "g_look", "g_pop")
  /\ g_global_free_chunks # NULL
  /\ chunk' = [chunk EXCEPT ![t] = g_global_free_chunks]
  /\ UNCHANGED <<pool, global, header, env, node, chunk_next, base, i, oom, place>>

ExtentFails(t) ==
  /\ Goto(t, "x_map", "g_relock")
  /\ oom' = [oom EXCEPT ![t] = TRUE]
  /\ UNCHANGED <<pool, global, header, env, node, chunk, chunk_next, base, i, place>>

\* mmap, alignment to a huge page and trimming: LZ_EXTENT_CHUNKS fresh chunks.
ExtentMap(t) ==
  /\ Goto(t, "x_map", "x_lock")
  /\ \E b \in Chunks :
       LET extent == b..(b + LZ_EXTENT_CHUNKS - 1)
       IN  /\ extent \subseteq Chunks \ mapped
           /\ mapped' = mapped \cup extent
           /\ base' = [base EXCEPT ![t] = b]
           /\ place' = [c \in Chunks |-> IF c \in extent THEN <<"extent", t>>
                                                         ELSE place[c]]
  /\ UNCHANGED <<pool, global, header, held, node, chunk, chunk_next, i, oom>>

ExtentLock(t) == LockGlobal(t, "x_lock", "x_push")

\* One iteration of the loop of sys_alloc_extent.
ExtentPush(t) ==
  /\ PushGlobal(base[t] + i[t])
  /\ IF i[t] + 1 < LZ_EXTENT_CHUNKS
     THEN /\ Goto(t, "x_push", "x_push")
          /\ i' = [i EXCEPT ![t] = @ + 1]
          /\ UNCHANGED <<base, g_global_pool_lock>>
     ELSE /\ Goto(t, "x_push", "g_relock")
          /\ i' = [i EXCEPT ![t] = 0]
          /\ base' = [base EXCEPT ![t] = 0]
          /\ UnlockGlobal
  /\ UNCHANGED <<pool, node_id, magic, env, node, chunk, chunk_next, oom>>

GlobalRelock(t) == LockGlobal(t, "g_relock", "g_reread")

GlobalReread(t) ==
  /\ Goto(t, "g_reread", "g_pop")
  /\ chunk' = [chunk EXCEPT ![t] = g_global_free_chunks]
  /\ UNCHANGED <<pool, global, header, env, node, chunk_next, base, i, oom, place>>

GlobalPop(t) ==
  /\ chunk[t] # NULL
  /\ Goto(t, "g_pop", "g_done")
  /\ g_global_free_chunks' = next[chunk[t]]
  /\ Place(chunk[t], "flight", t)
  /\ UnlockGlobal
  /\ UNCHANGED <<pool, header, env, locals>>

\* Nothing on the list after the refill: NULL is returned.
ReturnNull(t) ==
  /\ chunk[t] = NULL
  /\ Goto(t, "g_pop", "idle")
  /\ UnlockGlobal
  /\ node' = [node EXCEPT ![t] = 0]
  /\ oom' = [oom EXCEPT ![t] = FALSE]
  /\ UNCHANGED <<pool, g_global_free_chunks, header, env, chunk, chunk_next,
                 base, i, place>>

\* Mutation: the neutralisation does not record the home node.
GlobalDoneNoNode(t) ==
  /\ Goto(t, "g_done", "idle")
  /\ next' = [next EXCEPT ![chunk[t]] = NULL]
  /\ magic' = [magic EXCEPT ![chunk[t]] = LZ_CHUNK_MAGIC_V2]
  /\ Return(t)
  /\ oom' = [oom EXCEPT ![t] = FALSE]
  /\ UNCHANGED <<pool, global, node_id>>

\* "Strict Neutralization" of the header, then return.
GlobalDone(t) ==
  /\ Goto(t, "g_done", "idle")
  /\ next' = [next EXCEPT ![chunk[t]] = NULL]
  /\ node_id' = [node_id EXCEPT ![chunk[t]] = node[t]]
  /\ magic' = [magic EXCEPT ![chunk[t]] = LZ_CHUNK_MAGIC_V2]
  /\ Return(t)
  /\ oom' = [oom EXCEPT ![t] = FALSE]
  /\ UNCHANGED <<pool, global>>

----------------------------------------------------------------------------
(* lz_vmm_free_chunk, called by a thread on a chunk it holds.  A header    *)
(* without the magic makes it return at once.                              *)

FreeCall(t) ==
  \E c \in held[t] :
    /\ Goto(t, "idle", IF Valid(c) THEN "f_lock" ELSE "idle")
    /\ held' = [held EXCEPT ![t] = @ \ {c}]
    /\ Place(c, IF Valid(c) THEN "flight" ELSE "dropped", t)
    /\ chunk' = [chunk EXCEPT ![t] = IF Valid(c) THEN c ELSE NULL]
    /\ node' = [node EXCEPT ![t] = IF Valid(c) THEN node_id[c] ELSE 0]
    /\ UNCHANGED <<pool, global, header, mapped, chunk_next, base, i, oom>>

FreeLock(t) == LockPool(t, "f_lock", "f_push")

ForgetLocals(t) ==
  /\ chunk' = [chunk EXCEPT ![t] = NULL]
  /\ node' = [node EXCEPT ![t] = 0]
  /\ UNCHANGED <<chunk_next, base, i, oom>>

FreePush(t) ==
  /\ available_count[node[t]] < LZ_VMM_MAX_CACHED_CHUNKS
  /\ Goto(t, "f_push", "idle")
  /\ next' = [next EXCEPT ![chunk[t]] = free_chunks[node[t]]]
  /\ free_chunks' = [free_chunks EXCEPT ![node[t]] = chunk[t]]
  /\ available_count' = [available_count EXCEPT ![node[t]] = @ + 1]
  /\ Place(chunk[t], "pool", node[t])
  /\ UnlockPool(node[t])
  /\ ForgetLocals(t)
  /\ UNCHANGED <<global, node_id, magic, env>>

\* The cache is full: return_to_global.
FreeFull(t) ==
  /\ available_count[node[t]] >= LZ_VMM_MAX_CACHED_CHUNKS
  /\ Goto(t, "f_push", "fg_lock")
  /\ UnlockPool(node[t])
  /\ UNCHANGED <<free_chunks, available_count, global, header, env, locals, place>>

FreeGlobalLock(t) == LockGlobal(t, "fg_lock", "fg_push")

FreeGlobalPush(t) ==
  /\ Goto(t, "fg_push", "idle")
  /\ PushGlobal(chunk[t])
  /\ UnlockGlobal
  /\ ForgetLocals(t)
  /\ UNCHANGED <<pool, node_id, magic, env>>

----------------------------------------------------------------------------
(* lz_vmm_purge_all_caches: node by node, the cache is drained under its   *)
(* lock and its chunks are pushed one by one onto the global list.         *)

PurgeCall(t) ==
  /\ Goto(t, "idle", "p_lock")
  /\ UNCHANGED <<pool, global, header, env, locals, place>>

PurgeLock(t) == LockPool(t, "p_lock", "p_drain")

PurgeDrain(t) ==
  /\ Goto(t, "p_drain", "p_loop")
  /\ chunk' = [chunk EXCEPT ![t] = free_chunks[node[t]]]
  /\ free_chunks' = [free_chunks EXCEPT ![node[t]] = NULL]
  /\ available_count' = [available_count EXCEPT ![node[t]] = 0]
  /\ place' = [c \in Chunks |-> IF place[c] = <<"pool", node[t]>>
                                THEN <<"drain", t>> ELSE place[c]]
  /\ UnlockPool(node[t])
  /\ UNCHANGED <<global, header, env, node, chunk_next, base, i, oom>>

\* `next = chunk->next`, read before the chunk is linked elsewhere.
PurgeLoop(t) ==
  /\ chunk[t] # NULL
  /\ Goto(t, "p_loop", "pg_lock")
  /\ chunk_next' = [chunk_next EXCEPT ![t] = next[chunk[t]]]
  /\ UNCHANGED <<pool, global, header, env, node, chunk, base, i, oom, place>>

PurgeGlobalLock(t) == LockGlobal(t, "pg_lock", "pg_push")

\* Mutation: `chunk->next` is read after the push instead of before it.
PurgePushThenRead(t) ==
  /\ Goto(t, "pg_push", "p_loop")
  /\ PushGlobal(chunk[t])
  /\ UnlockGlobal
  /\ chunk' = [chunk EXCEPT ![t] = g_global_free_chunks]
  /\ chunk_next' = [chunk_next EXCEPT ![t] = NULL]
  /\ UNCHANGED <<pool, node_id, magic, env, node, base, i, oom>>

PurgePush(t) ==
  /\ Goto(t, "pg_push", "p_loop")
  /\ PushGlobal(chunk[t])
  /\ UnlockGlobal
  /\ chunk' = [chunk EXCEPT ![t] = chunk_next[t]]
  /\ chunk_next' = [chunk_next EXCEPT ![t] = NULL]
  /\ UNCHANGED <<pool, node_id, magic, env, node, base, i, oom>>

\* Mutation: the loop over the nodes does not advance.
PurgeSameNode(t) ==
  /\ chunk[t] = NULL
  /\ Goto(t, "p_loop", "p_lock")
  /\ UNCHANGED <<pool, global, header, env, locals, place>>

PurgeNextNode(t) ==
  /\ chunk[t] = NULL
  /\ Goto(t, "p_loop", IF node[t] + 1 < LZ_MAX_NUMA_NODES THEN "p_lock" ELSE "idle")
  /\ node' = [node EXCEPT ![t] = IF node[t] + 1 < LZ_MAX_NUMA_NODES
                                 THEN node[t] + 1 ELSE 0]
  /\ UNCHANGED <<pool, global, header, env, chunk, chunk_next, base, i, oom, place>>

----------------------------------------------------------------------------
\* A new call, by a thread that is running none.
Call(t) == AllocCall(t) \/ FreeCall(t) \/ PurgeCall(t)

\* The next step of the entry point the thread is in.
Step(t) ==
  \/ AllocLock(t) \/ AllocRead(t) \/ AllocPop(t) \/ AllocDone(t)
  \/ GlobalLock(t) \/ GlobalEmpty(t) \/ GlobalRead(t)
  \/ GlobalRelock(t) \/ GlobalReread(t)
  \/ ExtentFails(t) \/ ExtentMap(t) \/ ExtentLock(t) \/ ExtentPush(t)
  \/ GlobalPop(t) \/ ReturnNull(t) \/ GlobalDone(t)
  \/ FreeLock(t) \/ FreePush(t) \/ FreeFull(t)
  \/ FreeGlobalLock(t) \/ FreeGlobalPush(t)
  \/ PurgeLock(t) \/ PurgeDrain(t) \/ PurgeLoop(t)
  \/ PurgeGlobalLock(t) \/ PurgePush(t) \/ PurgeNextNode(t)

Next == \E t \in Threads : Call(t) \/ Step(t)

Spec == Init /\ [][Next]_vars

\* A running thread keeps being scheduled; nothing makes a thread call.
FairSpec == Spec /\ \A t \in Threads : WF_vars(Step(t))

----------------------------------------------------------------------------
PCs == {"idle", "a_lock", "a_read", "a_pop", "a_done", "g_lock", "g_look",
        "g_relock", "g_reread", "g_pop", "g_done", "x_map", "x_lock", "x_push",
        "f_lock", "f_push", "fg_lock", "fg_push",
        "p_lock", "p_drain", "p_loop", "pg_lock", "pg_push"}

Places == {<<"os", NULL>>, <<"global", NULL>>}
            \cup ({"pool"} \X Nodes)
            \cup ({"extent", "flight", "held", "drain", "dropped"} \X Threads)

\* Type correctness of the VMM's state, its callers' and the locals.
TypeOK ==
  /\ free_chunks \in [Nodes -> Chunks \cup {NULL}]
  /\ available_count \in [Nodes -> Nat]
  /\ pool_lock \in [Nodes -> BOOLEAN]
  /\ g_global_free_chunks \in Chunks \cup {NULL}
  /\ g_global_pool_lock \in BOOLEAN
  /\ next \in [Chunks -> Chunks \cup {NULL}]
  /\ node_id \in [Chunks -> Nodes]
  /\ magic \in [Chunks -> {0, LZ_CHUNK_MAGIC_V2}]
  /\ mapped \in SUBSET Chunks
  /\ held \in [Threads -> SUBSET Chunks]
  /\ pc \in [Threads -> PCs]
  /\ node \in [Threads -> Nodes]
  /\ chunk \in [Threads -> Chunks \cup {NULL}]
  /\ chunk_next \in [Threads -> Chunks \cup {NULL}]
  /\ base \in [Threads -> Nat]
  /\ i \in [Threads -> 0..(LZ_EXTENT_CHUNKS - 1)]
  /\ oom \in [Threads -> BOOLEAN]
  /\ place \in [Chunks -> Places]

At(where, who) == {c \in Chunks : place[c] = <<where, who>>}

(* Each node's cache is a well-formed list of exactly the chunks cached    *)
(* there and available_count is their number, whatever pops, pushes and    *)
(* drains by several threads interleave (a count that drifts would either  *)
(* defeat the cache bound or wrap below zero).                             *)
CachesExact ==
  \A n \in Nodes : /\ ListOf(free_chunks[n], next, At("pool", n), NULL)
                   /\ Numbered(At("pool", n), available_count[n])

(* No chunk is lost or in two places: every mapped chunk is reachable from *)
(* exactly one of the free lists, a purge's drained list, an extent still  *)
(* being pushed, a call in progress or the caller that holds it.           *)
NoChunkLost ==
  /\ ListOf(g_global_free_chunks, next, At("global", NULL), NULL)
  /\ \A t \in Threads :
       /\ ListOf(IF pc[t] \in {"p_loop", "pg_lock", "pg_push"} THEN chunk[t] ELSE NULL,
                 next, At("drain", t), NULL)
       /\ At("flight", t) = IF pc[t] \in {"a_done", "g_done", "f_lock", "f_push",
                                          "fg_lock", "fg_push"}
                            THEN {chunk[t]} ELSE {}
       /\ At("extent", t) = IF pc[t] \in {"x_lock", "x_push"}
                            THEN (base[t] + i[t])..(base[t] + LZ_EXTENT_CHUNKS - 1)
                            ELSE {}
       /\ At("held", t) = held[t]
       /\ At("dropped", t) = {}
  /\ mapped = {c \in Chunks : place[c][1] # "os"}

(* A chunk returned by lz_vmm_alloc_chunk carries the magic (otherwise     *)
(* lz_vmm_free_chunk would silently drop it) and the node the caller was   *)
(* on, whether it came from the cache, another node's purge or the OS.     *)
HandedOutStamped ==
  [][\A t \in Threads : \A c \in held'[t] \ held[t] :
       Valid(c)' /\ node_id'[c] = node[t] /\ next'[c] = NULL]_vars

CP == INSTANCE ChunkPool

(* The VMM implements the abstract pool: lz_vmm_alloc_chunk never returns  *)
(* a chunk that is not mapped or that another caller holds.                *)
ImplementsChunkPool == CP!Spec

(* When threads stop making new calls, every call in progress returns:     *)
(* each path releases the locks it takes and the purge loop ends.  The     *)
(* spinlocks are not fair, so no bound on a single call is claimed.        *)
CallsReturn ==
  <>[][\A t \in Threads : pc[t] = "idle" => pc'[t] = "idle"]_vars
    => <>[](\A t \in Threads : pc[t] = "idle")

(* "Pointer to the cleanly aligned Chunk header, or NULL on OS OOM"        *)
(* (engines/vmm.h): NULL is returned only if this call's mmap failed.      *)
NullOnlyOnOOM ==
  \A t \in Threads : pc[t] = "g_pop" /\ chunk[t] = NULL => oom[t]
============================================================================
