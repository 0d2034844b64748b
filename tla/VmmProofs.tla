----------------------------- MODULE VmmProofs -----------------------------
(***************************************************************************)
(* The virtual memory manager, for every set of threads and chunks, number *)
(* of nodes, cache capacity and extent size: the inductive invariant, the  *)
(* steps that keep it, and what follows.                                   *)
(***************************************************************************)
EXTENDS Vmm, ListProofs

USE ZenonT(40)

\* Threads inside the critical sections of a pool lock and the global lock.
InPool(t, n) == node[t] = n /\ pc[t] \in {"a_read", "a_pop", "f_push", "p_drain"}
InGlobal(t)  == pc[t] \in {"g_look", "g_reread", "g_pop", "x_push", "fg_push", "pg_push"}

Exclusion ==
  /\ \A t \in Threads, n \in Nodes : InPool(t, n) => pool_lock[n]
  /\ \A t, u \in Threads, n \in Nodes : InPool(t, n) /\ InPool(u, n) => t = u
  /\ \A t \in Threads : InGlobal(t) => g_global_pool_lock
  /\ \A t, u \in Threads : InGlobal(t) /\ InGlobal(u) => t = u

\* The list a purge has drained and not yet pushed.
DrainTop(t) == IF pc[t] \in {"p_loop", "pg_lock", "pg_push"} THEN chunk[t] ELSE NULL

Intact ==
  /\ \A n \in Nodes : ListOf(free_chunks[n], next, At("pool", n), NULL)
  /\ ListOf(g_global_free_chunks, next, At("global", NULL), NULL)
  /\ \A t \in Threads : ListOf(DrainTop(t), next, At("drain", t), NULL)

HasChunk(t) == pc[t] \in {"a_done", "g_done", "f_lock", "f_push", "fg_lock", "fg_push"}

\* The chunks in a thread's hands, and what it knows of the lists and headers.
Local(t) ==
  /\ At("flight", t) = IF HasChunk(t) THEN {chunk[t]} ELSE {}
  /\ At("extent", t) = IF pc[t] \in {"x_lock", "x_push"}
                       THEN (base[t] + i[t])..(base[t] + LZ_EXTENT_CHUNKS - 1) ELSE {}
  /\ At("held", t) = held[t]
  /\ At("dropped", t) = {}
  /\ pc[t] = "a_pop" => chunk[t] = free_chunks[node[t]]
  /\ pc[t] = "g_pop" => chunk[t] = g_global_free_chunks
  /\ pc[t] \in {"pg_lock", "pg_push"} =>
       chunk[t] # NULL /\ chunk_next[t] = next[chunk[t]]
  /\ pc[t] # "x_push" => i[t] = 0
  /\ \A c \in held[t] : Valid(c)
  /\ pc[t] \in {"a_done", "f_lock", "f_push"} =>
       Valid(chunk[t]) /\ node_id[chunk[t]] = node[t]

Locals == \A t \in Threads : Local(t)

\* A node's cache: its count, and the stamps of its chunks.
Cache(n) ==
  /\ Numbered(At("pool", n), available_count[n])
  /\ available_count[n] <= LZ_VMM_MAX_CACHED_CHUNKS
  /\ \A c \in At("pool", n) : Valid(c) /\ node_id[c] = n

Caches == \A n \in Nodes : Cache(n)

Mapped == mapped = Chunks \ At("os", NULL)

IInv == TypeOK /\ Exclusion /\ Intact /\ Locals /\ Caches /\ Mapped

----------------------------------------------------------------------------
(* Steps that move chunks.                                                 *)

SameLocals(u) ==
  /\ pc'[u] = pc[u] /\ node'[u] = node[u] /\ chunk'[u] = chunk[u]
  /\ chunk_next'[u] = chunk_next[u] /\ base'[u] = base[u] /\ i'[u] = i[u]
  /\ held'[u] = held[u]

\* Thread t moves the chunks of E from one place to another: it writes no other
\* header, no other thread's locals and no list top another thread has locked.
Moved(t, E, w0, x0, w1, x1) ==
  /\ E \subseteq At(w0, x0) /\ w0 # w1
  /\ place' = [d \in Chunks |-> IF d \in E THEN <<w1, x1>> ELSE place[d]]
  /\ \A d \in Chunks \ E : next'[d] = next[d] /\ node_id'[d] = node_id[d] /\ magic'[d] = magic[d]
  /\ \A u \in Threads \ {t} :
       /\ SameLocals(u)
       /\ pc[u] = "a_pop" => free_chunks'[node[u]] = free_chunks[node[u]]
       /\ pc[u] = "g_pop" => g_global_free_chunks' = g_global_free_chunks

\* Only the two places change.
LEMMA Moves ==
  ASSUME NEW t, NEW E, NEW w0, NEW x0, NEW w1, NEW x1, Moved(t, E, w0, x0, w1, x1)
  PROVE  /\ At(w1, x1)' = At(w1, x1) \cup E
         /\ At(w0, x0)' = At(w0, x0) \ E
         /\ \A w, x : (w # w0 \/ x # x0) /\ (w # w1 \/ x # x1) => At(w, x)' = At(w, x)
         /\ \A w, x : w # w0 \/ x # x0 => At(w, x) \cap E = {}
<1>1. \A c \in E : c \in Chunks /\ place[c] = <<w0, x0>> /\ place'[c] = <<w1, x1>>
  BY DEF Moved, At
<1>2. \A c \in Chunks : c \notin E => place'[c] = place[c]
  BY DEF Moved
<1>3. At(w1, x1)' = At(w1, x1) \cup E
  BY <1>1, <1>2 DEF At
<1>4. At(w0, x0)' = At(w0, x0) \ E
  BY <1>1, <1>2 DEF At, Moved
<1>5. \A w, x : (w # w0 \/ x # x0) /\ (w # w1 \/ x # x1) => At(w, x)' = At(w, x)
  BY <1>1, <1>2, SMTT(30) DEF At
<1>6. \A w, x : w # w0 \/ x # x0 => At(w, x) \cap E = {}
  BY <1>1, SMTT(30) DEF At
<1> QED
  BY <1>3, <1>4, <1>5, <1>6

\* The step of one chunk.
LEMMA MovedOne ==
  ASSUME TypeOK, NEW t \in Threads, NEW w0, NEW x0, NEW w1, NEW x1, NEW c \in At(w0, x0),
         w0 # w1, Place(c, w1, x1),
         \A d \in Chunks \ {c} : next'[d] = next[d] /\ node_id'[d] = node_id[d] /\ magic'[d] = magic[d],
         \A u \in Threads \ {t} :
           /\ SameLocals(u)
           /\ pc[u] = "a_pop" => free_chunks'[node[u]] = free_chunks[node[u]]
           /\ pc[u] = "g_pop" => g_global_free_chunks' = g_global_free_chunks
  PROVE  Moved(t, {c}, w0, x0, w1, x1)
<1>1. place' = [d \in Chunks |-> IF d \in {c} THEN <<w1, x1>> ELSE place[d]]
  BY DEF TypeOK, Place
<1> QED
  BY <1>1 DEF Moved

\* What is at a place is a set of chunks.
LEMMA AtChunks == \A w, x : At(w, x) \in SUBSET Chunks
BY DEF At

\* The lists that lose and gain nothing stay intact.
LEMMA OtherLists ==
  ASSUME NEW t, NEW E, NEW w0, NEW x0, NEW w1, NEW x1, Moved(t, E, w0, x0, w1, x1),
         NEW w, NEW x, NEW top, w # w0 \/ x # x0, w # w1 \/ x # x1,
         ListOf(top, next, At(w, x), NULL)
  PROVE  ListOf(top, next', At(w, x)', NULL)
<1>1. At(w, x)' = At(w, x)
  BY Moves, SMTT(30)
<1>2. At(w, x) \cap E = {}
  BY Moves, SMTT(30)
<1>3. \A d \in At(w, x) : next'[d] = next[d]
  BY <1>2, AtChunks DEF Moved
<1>4. ListOf(top, next', At(w, x), NULL)
  BY <1>3, ListFrame
<1> QED
  BY <1>1, <1>4

\* The caches that lose and gain nothing stay counted and stamped.
LEMMA OtherCaches ==
  ASSUME NEW t, NEW E, NEW w0, NEW x0, NEW w1, NEW x1, Moved(t, E, w0, x0, w1, x1),
         NEW n \in Nodes, w0 # "pool" \/ x0 # n, w1 # "pool" \/ x1 # n,
         Cache(n), available_count'[n] = available_count[n]
  PROVE  Cache(n)'
<1>1. At("pool", n)' = At("pool", n)
  BY Moves, SMTT(30)
<1>2. At("pool", n) \cap E = {}
  BY Moves, SMTT(30)
<1>3. \A d \in At("pool", n) : magic'[d] = magic[d] /\ node_id'[d] = node_id[d]
  BY <1>2, AtChunks DEF Moved
<1> QED
  BY <1>1, <1>3 DEF Cache, Valid

ThreadPlaces == {"extent", "flight", "held", "drain", "dropped"}

\* What holds of the other threads' locals survives.
LEMMA OtherLocals ==
  ASSUME IInv, NEW t \in Threads, NEW E, NEW w0, NEW x0, NEW w1, NEW x1,
         Moved(t, E, w0, x0, w1, x1),
         w0 \in ThreadPlaces => x0 = t, w1 \in ThreadPlaces => x1 = t,
         NEW u \in Threads \ {t}
  PROVE  Local(u)'
<1>1. Local(u) /\ SameLocals(u)
  BY DEF IInv, Locals, Moved
<1>2. \A w \in ThreadPlaces : At(w, u)' = At(w, u) /\ At(w, u) \cap E = {}
  BY Moves, SMTT(30)
<1>3. HasChunk(u) => chunk[u] \in Chunks \ E
  BY <1>1, <1>2, AtChunks DEF Local, ThreadPlaces
<1>4. pc[u] \in {"pg_lock", "pg_push"} => chunk[u] \in Chunks \ E
  <2>1. ListOf(DrainTop(u), next, At("drain", u), NULL)
    BY DEF IInv, Intact
  <2> QED
    BY <1>1, <1>2, <2>1, AtChunks DEF Local, DrainTop, ListOf, Closed, ThreadPlaces
<1>5. \A c \in held[u] : c \in Chunks \ E
  BY <1>1, <1>2, AtChunks, SMTT(30) DEF Local, ThreadPlaces
<1>6. /\ At("flight", u)' = At("flight", u) /\ At("extent", u)' = At("extent", u)
      /\ At("held", u)' = At("held", u) /\ At("dropped", u)' = At("dropped", u)
  BY <1>2 DEF ThreadPlaces
<1> QED
  BY <1>1, <1>3, <1>4, <1>5, <1>6, SMTT(30) DEF Local, SameLocals, HasChunk, Moved, Valid

\* The places the actions name are places.
LEMMA PlaceTypes ==
  /\ <<"os", NULL>> \in Places /\ <<"global", NULL>> \in Places
  /\ \A n \in Nodes : <<"pool", n>> \in Places
  /\ \A t \in Threads, w \in ThreadPlaces : <<w, t>> \in Places
BY DEF Places, ThreadPlaces

\* Moving chunks to a place keeps the type of `place`.
LEMMA PlaceTyped ==
  ASSUME TypeOK, NEW t, NEW E, NEW w0, NEW x0, NEW w1, NEW x1,
         Moved(t, E, w0, x0, w1, x1), <<w1, x1>> \in Places
  PROVE  place' \in [Chunks -> Places]
BY DEF TypeOK, Moved

\* The types of the variables most steps are about.
LEMMA LocalTypes ==
  ASSUME IInv
  PROVE  /\ pc \in [Threads -> PCs] /\ chunk \in [Threads -> Chunks \cup {NULL}]
         /\ next \in [Chunks -> Chunks \cup {NULL}] /\ g_global_free_chunks \in Chunks \cup {NULL}
         /\ i \in [Threads -> 0..(LZ_EXTENT_CHUNKS - 1)] /\ base \in [Threads -> Nat]
BY DEF IInv, TypeOK

\* Node 0 exists (locals are reset to it), and the purge loop stays in range.
LEMMA NodeZero ==
  /\ 0 \in Nodes
  /\ \A n \in Nodes : n + 1 < LZ_MAX_NUMA_NODES => n + 1 \in Nodes
BY VmmAssumption, SMTT(30) DEF Nodes

\* A step that moves chunks keeps the invariant if it leaves the lists, the
\* caches and the mapping right where it touches them, and its own thread's
\* locals, the types and the locks.
LEMMA MoveKeeps ==
  ASSUME IInv, NEW t \in Threads, NEW E, NEW w0, NEW x0, NEW w1, NEW x1,
         Moved(t, E, w0, x0, w1, x1),
         w0 \in ThreadPlaces => x0 = t, w1 \in ThreadPlaces => x1 = t,
         \A n \in Nodes :
           \/ ListOf(free_chunks'[n], next', At("pool", n)', NULL) /\ Cache(n)'
           \/ /\ w0 # "pool" \/ x0 # n
              /\ w1 # "pool" \/ x1 # n
              /\ free_chunks'[n] = free_chunks[n] /\ available_count'[n] = available_count[n],
         \/ ListOf(g_global_free_chunks', next', At("global", NULL)', NULL)
         \/ "global" \notin {w0, w1} /\ UNCHANGED g_global_free_chunks,
         \/ ListOf(DrainTop(t)', next', At("drain", t)', NULL)
         \/ "drain" \notin {w0, w1} /\ DrainTop(t)' = DrainTop(t),
         Mapped' \/ ("os" \notin {w0, w1} /\ UNCHANGED mapped),
         TypeOK', Exclusion', Local(t)'
  PROVE  IInv'
<1>1. \A n \in Nodes : ListOf(free_chunks'[n], next', At("pool", n)', NULL) /\ Cache(n)'
  <2> SUFFICES ASSUME NEW n \in Nodes, w0 # "pool" \/ x0 # n, w1 # "pool" \/ x1 # n,
                      free_chunks'[n] = free_chunks[n], available_count'[n] = available_count[n]
               PROVE  ListOf(free_chunks[n], next', At("pool", n)', NULL) /\ Cache(n)'
    BY SMTT(30)
  <2>1. ListOf(free_chunks[n], next, At("pool", n), NULL) /\ Cache(n)
    BY DEF IInv, Intact, Caches
  <2> QED
    BY <2>1, OtherLists, OtherCaches, SMTT(30)
<1>2. ListOf(g_global_free_chunks', next', At("global", NULL)', NULL)
  BY OtherLists DEF IInv, Intact
<1>3. ASSUME NEW u \in Threads PROVE ListOf(DrainTop(u)', next', At("drain", u)', NULL)
  <2>1. u # t => DrainTop(u)' = DrainTop(u)
    BY DEF Moved, SameLocals, DrainTop
  <2>2. ListOf(DrainTop(u), next, At("drain", u), NULL)
    BY DEF IInv, Intact
  <2> QED
    BY <2>1, <2>2, OtherLists, SMTT(30) DEF ThreadPlaces
<1>4. Mapped'
  <2>1. "os" \notin {w0, w1} => At("os", NULL)' = At("os", NULL)
    BY Moves, SMTT(30)
  <2> QED
    BY <2>1 DEF IInv, Mapped
<1>5. Locals'
  BY OtherLocals DEF Locals
<1>6. Intact' /\ Caches'
  BY <1>1, <1>2, <1>3 DEF Intact, Caches
<1> QED
  BY <1>4, <1>5, <1>6 DEF IInv

----------------------------------------------------------------------------
(* The two pops of lz_vmm_alloc_chunk.                                     *)

\* lz_vmm_alloc_chunk pops a node's cache under its lock.
LEMMA AllocPopKeeps ==
  ASSUME IInv, NEW t \in Threads, AllocPop(t), chunk[t] # NULL
  PROVE  IInv'
<1> USE DEF Goto, UnlockPool, pool, global, header, env, locals
<1>1. PICK n \in Nodes, c \in Chunks :
        /\ pc[t] = "a_pop" /\ n = node[t] /\ c = chunk[t] /\ c = free_chunks[n]
        /\ ListOf(c, next, At("pool", n), NULL) /\ Cache(n) /\ available_count[n] \in Nat
  BY SMTT(30) DEF IInv, TypeOK, AllocPop, Locals, Local, Intact, Caches
<1>2. c \in At("pool", n) /\ ListOf(next[c], next, At("pool", n) \ {c}, NULL)
  BY <1>1, ListPop, VmmAssumption
<1>3. /\ free_chunks' = [free_chunks EXCEPT ![n] = next[c]]
      /\ available_count' = [available_count EXCEPT ![n] = @ - 1]
      /\ pc' = [pc EXCEPT ![t] = "a_done"] /\ pool_lock' = [pool_lock EXCEPT ![n] = FALSE]
      /\ Place(c, "flight", t) /\ UNCHANGED <<global, header, env, locals>>
  BY <1>1 DEF AllocPop
<1>4. Moved(t, {c}, "pool", n, "flight", t)
  <2>1. \A u \in Threads \ {t} : pc[u] = "a_pop" => node[u] # n
    BY <1>1 DEF IInv, TypeOK, Exclusion, InPool
  <2>2. \A u \in Threads \ {t} : pc[u] = "a_pop" => free_chunks'[node[u]] = free_chunks[node[u]]
    BY <1>3, <2>1 DEF IInv, TypeOK
  <2>3. \A u \in Threads \ {t} : SameLocals(u)
    BY <1>3 DEF IInv, TypeOK, SameLocals
  <2> QED
    BY <1>2, <1>3, <2>2, <2>3, MovedOne DEF IInv
<1>5. At("pool", n)' = At("pool", n) \ {c} /\ At("flight", t)' = At("flight", t) \cup {c}
  BY <1>4, Moves, SMTT(30)
<1>6. available_count[n] # 0 /\ Numbered(At("pool", n) \ {c}, available_count[n] - 1)
  BY <1>1, <1>2, NumberedRemove DEF Cache
<1>7. /\ free_chunks'[n] = next[c] /\ available_count'[n] = available_count[n] - 1
      /\ available_count' \in [Nodes -> Nat]
  <2>1. available_count[n] - 1 \in Nat
    BY <1>1, <1>6, SMTT(30)
  <2> QED
    BY <1>3, <2>1 DEF IInv, TypeOK
<1>m. \A m \in Nodes : m # n => /\ free_chunks'[m] = free_chunks[m]
                               /\ available_count'[m] = available_count[m]
  BY <1>3 DEF IInv, TypeOK
<1>8. ListOf(free_chunks'[n], next', At("pool", n)', NULL)
  BY <1>2, <1>3, <1>5, <1>7
<1>9. Cache(n)'
  <2>1. Numbered(At("pool", n)', available_count'[n])
    BY <1>5, <1>6, <1>7
  <2> QED
    BY <1>1, <1>3, <1>5, <1>7, <2>1, VmmAssumption, SMTT(30) DEF Cache, Valid
<1>10. Local(t)'
  <2>1. At("flight", t) = {} /\ At("extent", t) = {} /\ At("held", t) = held[t] /\ At("dropped", t) = {}
    BY <1>1 DEF IInv, Locals, Local, HasChunk
  <2>2. At("extent", t)' = {} /\ At("held", t)' = held[t] /\ At("dropped", t)' = {}
    BY <1>4, <2>1, Moves, SMTT(30)
  <2>3. pc'[t] = "a_done" /\ Valid(c) /\ node_id[c] = n
    BY <1>1, <1>2, <1>3 DEF IInv, TypeOK, Cache
  <2> QED
    BY <1>1, <1>3, <1>5, <2>1, <2>2, <2>3, SMTT(30) DEF IInv, Locals, Local, HasChunk, Valid
<1>11. TypeOK'
  <2>1. place' \in [Chunks -> Places]
    BY <1>4, PlaceTyped, PlaceTypes DEF IInv, ThreadPlaces
  <2> QED
    BY <1>1, <1>3, <1>7, <2>1 DEF IInv, TypeOK, PCs
<1>12. Exclusion'
  BY <1>1, <1>3, SMTT(30) DEF IInv, TypeOK, Exclusion, InPool, InGlobal
<1>13. DrainTop(t)' = DrainTop(t)
  BY <1>1, <1>3 DEF IInv, TypeOK, DrainTop
<1> QED
  BY <1>3, <1>4, <1>m, <1>8, <1>9, <1>10, <1>11, <1>12, <1>13, MoveKeeps, SMTT(30) DEF
     ThreadPlaces

\* lz_vmm_alloc_chunk pops the global list under the global lock.
LEMMA GlobalPopKeeps ==
  ASSUME IInv, NEW t \in Threads, GlobalPop(t)
  PROVE  IInv'
<1> USE DEF Goto, UnlockGlobal, pool, global, header, env, locals
<1>1. PICK c \in Chunks :
        /\ pc[t] = "g_pop" /\ c = chunk[t] /\ c = g_global_free_chunks
        /\ ListOf(c, next, At("global", NULL), NULL)
  BY DEF IInv, TypeOK, GlobalPop, Locals, Local, Intact
<1>2. c \in At("global", NULL) /\ ListOf(next[c], next, At("global", NULL) \ {c}, NULL)
  BY <1>1, ListPop, VmmAssumption
<1>3. /\ g_global_free_chunks' = next[c] /\ g_global_pool_lock' = FALSE
      /\ pc' = [pc EXCEPT ![t] = "g_done"]
      /\ Place(c, "flight", t) /\ UNCHANGED <<pool, header, env, locals>>
  BY <1>1 DEF GlobalPop
<1>4. Moved(t, {c}, "global", NULL, "flight", t)
  <2>1. \A u \in Threads \ {t} : pc[u] # "g_pop"
    BY <1>1 DEF IInv, Exclusion, InGlobal
  <2>2. \A u \in Threads \ {t} : SameLocals(u)
    BY <1>3 DEF IInv, TypeOK, SameLocals
  <2> QED
    BY <1>2, <1>3, <2>1, <2>2, MovedOne DEF IInv
<1>5. At("global", NULL)' = At("global", NULL) \ {c} /\ At("flight", t)' = At("flight", t) \cup {c}
  BY <1>4, Moves, SMTT(30)
<1>6. ListOf(g_global_free_chunks', next', At("global", NULL)', NULL)
  BY <1>2, <1>3, <1>5
<1>7. Local(t)'
  <2>1. At("flight", t) = {} /\ At("extent", t) = {} /\ At("held", t) = held[t] /\ At("dropped", t) = {}
    BY <1>1 DEF IInv, Locals, Local, HasChunk
  <2>2. At("extent", t)' = {} /\ At("held", t)' = held[t] /\ At("dropped", t)' = {}
    BY <1>4, <2>1, Moves, SMTT(30)
  <2>3. pc'[t] = "g_done"
    BY <1>3 DEF IInv, TypeOK
  <2> QED
    BY <1>1, <1>3, <1>5, <2>1, <2>2, <2>3 DEF IInv, Locals, Local, HasChunk, Valid
<1>8. TypeOK'
  <2>1. place' \in [Chunks -> Places]
    BY <1>4, PlaceTyped, PlaceTypes DEF IInv, ThreadPlaces
  <2> QED
    BY <1>1, <1>3, <2>1 DEF IInv, TypeOK, PCs
<1>9. Exclusion'
  BY <1>1, <1>3, SMTT(30) DEF IInv, TypeOK, Exclusion, InPool, InGlobal
<1>10. DrainTop(t)' = DrainTop(t)
  BY <1>1, <1>3 DEF IInv, TypeOK, DrainTop
<1> QED
  BY <1>3, <1>4, <1>6, <1>7, <1>8, <1>9, <1>10, MoveKeeps, SMTT(30) DEF ThreadPlaces

----------------------------------------------------------------------------
(* The steps that move no chunk and write no link: locks, reads, early     *)
(* returns.                                                                *)

\* The pop of lz_vmm_alloc_chunk finds the node's cache empty.
AllocMiss(t) == AllocPop(t) /\ chunk[t] = NULL

QuietStep(t) ==
  \/ AllocCall(t) \/ AllocLock(t) \/ AllocRead(t) \/ AllocMiss(t) \/ GlobalLock(t)
  \/ GlobalEmpty(t) \/ GlobalRead(t) \/ GlobalRelock(t) \/ GlobalReread(t)
  \/ ExtentFails(t) \/ ExtentLock(t) \/ ReturnNull(t) \/ FreeLock(t) \/ FreeFull(t)
  \/ FreeGlobalLock(t) \/ PurgeCall(t) \/ PurgeLock(t) \/ PurgeLoop(t)
  \/ PurgeGlobalLock(t) \/ PurgeNextNode(t)

Quiet(t) ==
  /\ UNCHANGED <<free_chunks, available_count, g_global_free_chunks, header, env, place>>
  /\ DrainTop(t)' = DrainTop(t)
  /\ \A u \in Threads \ {t} : SameLocals(u)

\* Quiet steps leave every list, header and place alone.
LEMMA QuietSteps ==
  ASSUME TypeOK, NEW t \in Threads, QuietStep(t)
  PROVE  Quiet(t)
<1> USE DEF TypeOK, PCs, Goto, LockPool, LockGlobal, pool, global, header, env, locals,
            Quiet, DrainTop, SameLocals
<1>1. CASE AllocCall(t) \/ PurgeCall(t)
  BY <1>1, SMTT(30) DEF AllocCall, PurgeCall
<1>2. CASE AllocLock(t) \/ FreeLock(t) \/ PurgeLock(t)
  BY <1>2, SMTT(30) DEF AllocLock, FreeLock, PurgeLock
<1>3. CASE GlobalLock(t) \/ GlobalRelock(t) \/ ExtentLock(t) \/ FreeGlobalLock(t) \/ PurgeGlobalLock(t)
  BY <1>3, SMTT(30) DEF GlobalLock, GlobalRelock, ExtentLock, FreeGlobalLock, PurgeGlobalLock
<1>4. CASE AllocRead(t) \/ GlobalRead(t) \/ GlobalReread(t)
  BY <1>4, SMTT(30) DEF AllocRead, GlobalRead, GlobalReread
<1>5. CASE AllocMiss(t) \/ FreeFull(t)
  BY <1>5 DEF AllocMiss, FreeFull, AllocPop
<1>6. CASE GlobalEmpty(t)
  BY <1>6 DEF GlobalEmpty
<1>7. CASE ExtentFails(t)
  BY <1>7 DEF ExtentFails
<1>8. CASE ReturnNull(t)
  BY <1>8 DEF ReturnNull
<1>9. CASE PurgeLoop(t)
  BY <1>9 DEF PurgeLoop
<1>10. CASE PurgeNextNode(t)
  BY <1>10 DEF PurgeNextNode
<1> HIDE DEF Quiet
<1> QED
  BY QuietStep(t), <1>1, <1>2, <1>3, <1>4, <1>5, <1>6, <1>7, <1>8, <1>9, <1>10 DEF QuietStep

\* What the lists, the caches and the other threads' locals say survives.
LEMMA QuietKeeps ==
  ASSUME IInv, NEW t \in Threads, Quiet(t)
  PROVE  Intact' /\ Caches' /\ Mapped' /\ \A u \in Threads \ {t} : Local(u)'
<1>1. \A w, x : At(w, x)' = At(w, x)
  BY DEF Quiet, At
<1>2. \A u \in Threads : DrainTop(u)' = DrainTop(u)
  BY DEF Quiet, SameLocals, DrainTop
<1>3. Intact'
  BY <1>1, <1>2 DEF IInv, Intact, Quiet, header
<1>4. Caches' /\ Mapped'
  BY <1>1 DEF IInv, Caches, Cache, Mapped, Valid, Quiet, header, env
<1>5. \A u \in Threads \ {t} : Local(u)'
  BY <1>1, SMTT(30) DEF IInv, Locals, Local, HasChunk, Valid, Quiet, SameLocals, header
<1> QED
  BY <1>3, <1>4, <1>5

\* They keep the types.
LEMMA QuietTypes ==
  ASSUME IInv, NEW t \in Threads, QuietStep(t)
  PROVE  TypeOK'
<1> USE VmmAssumption, NodeZero
    DEF IInv, TypeOK, PCs, Goto, LockPool, LockGlobal, UnlockPool, UnlockGlobal, pool, global, header, env, locals
<1>1. CASE AllocCall(t)
  BY <1>1, SMTT(30) DEF AllocCall
<1>2. CASE AllocLock(t)
  BY <1>2 DEF AllocLock
<1>3. CASE AllocRead(t)
  BY <1>3 DEF AllocRead
<1>4. CASE AllocMiss(t)
  BY <1>4 DEF AllocMiss, AllocPop
<1>5. CASE GlobalLock(t)
  BY <1>5 DEF GlobalLock
<1>6. CASE GlobalEmpty(t)
  BY <1>6 DEF GlobalEmpty
<1>7. CASE GlobalRead(t)
  BY <1>7 DEF GlobalRead
<1>8. CASE GlobalRelock(t)
  BY <1>8 DEF GlobalRelock
<1>9. CASE GlobalReread(t)
  BY <1>9 DEF GlobalReread
<1>10. CASE ExtentFails(t)
  BY <1>10 DEF ExtentFails
<1>11. CASE ExtentLock(t)
  BY <1>11 DEF ExtentLock
<1>12. CASE ReturnNull(t)
  BY <1>12 DEF ReturnNull
<1>13. CASE FreeLock(t)
  BY <1>13 DEF FreeLock
<1>14. CASE FreeFull(t)
  BY <1>14 DEF FreeFull
<1>15. CASE FreeGlobalLock(t)
  BY <1>15 DEF FreeGlobalLock
<1>16. CASE PurgeCall(t)
  BY <1>16 DEF PurgeCall
<1>17. CASE PurgeLock(t)
  BY <1>17 DEF PurgeLock
<1>18. CASE PurgeLoop(t)
  BY <1>18 DEF PurgeLoop
<1>19. CASE PurgeGlobalLock(t)
  BY <1>19 DEF PurgeGlobalLock
<1>20. CASE PurgeNextNode(t)
  BY <1>20 DEF PurgeNextNode
<1> HIDE DEF TypeOK, Exclusion, Local
<1> QED
  BY QuietStep(t), <1>1, <1>2, <1>3, <1>4, <1>5, <1>6, <1>7, <1>8, <1>9, <1>10, <1>11, <1>12,
     <1>13, <1>14, <1>15, <1>16, <1>17, <1>18, <1>19, <1>20 DEF QuietStep

\* They respect the locks.
LEMMA QuietLocks ==
  ASSUME IInv, NEW t \in Threads, QuietStep(t)
  PROVE  Exclusion'
<1> USE VmmAssumption
    DEF IInv, TypeOK, Exclusion, InPool, InGlobal, PCs, Goto, LockPool, LockGlobal, UnlockPool, UnlockGlobal, pool, global, header, env, locals
<1>1. CASE AllocCall(t)
  BY <1>1, SMTT(30) DEF AllocCall
<1>2. CASE AllocLock(t)
  BY <1>2, SMTT(30) DEF AllocLock
<1>3. CASE AllocRead(t)
  BY <1>3, SMTT(30) DEF AllocRead
<1>4. CASE AllocMiss(t)
  BY <1>4, SMTT(30) DEF AllocMiss, AllocPop
<1>5. CASE GlobalLock(t)
  BY <1>5, SMTT(30) DEF GlobalLock
<1>6. CASE GlobalEmpty(t)
  BY <1>6, SMTT(30) DEF GlobalEmpty
<1>7. CASE GlobalRead(t)
  BY <1>7, SMTT(30) DEF GlobalRead
<1>8. CASE GlobalRelock(t)
  BY <1>8, SMTT(30) DEF GlobalRelock
<1>9. CASE GlobalReread(t)
  BY <1>9, SMTT(30) DEF GlobalReread
<1>10. CASE ExtentFails(t)
  BY <1>10, SMTT(30) DEF ExtentFails
<1>11. CASE ExtentLock(t)
  BY <1>11, SMTT(30) DEF ExtentLock
<1>12. CASE ReturnNull(t)
  BY <1>12, SMTT(30) DEF ReturnNull
<1>13. CASE FreeLock(t)
  BY <1>13, SMTT(30) DEF FreeLock
<1>14. CASE FreeFull(t)
  BY <1>14, SMTT(30) DEF FreeFull
<1>15. CASE FreeGlobalLock(t)
  BY <1>15, SMTT(30) DEF FreeGlobalLock
<1>16. CASE PurgeCall(t)
  BY <1>16, SMTT(30) DEF PurgeCall
<1>17. CASE PurgeLock(t)
  BY <1>17, SMTT(30) DEF PurgeLock
<1>18. CASE PurgeLoop(t)
  BY <1>18, SMTT(30) DEF PurgeLoop
<1>19. CASE PurgeGlobalLock(t)
  BY <1>19, SMTT(30) DEF PurgeGlobalLock
<1>20. CASE PurgeNextNode(t)
  BY <1>20, SMTT(30) DEF PurgeNextNode
<1> HIDE DEF TypeOK, Exclusion, Local
<1> QED
  BY QuietStep(t), <1>1, <1>2, <1>3, <1>4, <1>5, <1>6, <1>7, <1>8, <1>9, <1>10, <1>11, <1>12,
     <1>13, <1>14, <1>15, <1>16, <1>17, <1>18, <1>19, <1>20 DEF QuietStep

\* They keep what their own thread knows.
LEMMA QuietLocal ==
  ASSUME IInv, NEW t \in Threads, QuietStep(t)
  PROVE  Local(t)'
<1>q. /\ At("flight", t)' = At("flight", t) /\ At("extent", t)' = At("extent", t)
      /\ At("held", t)' = At("held", t) /\ At("dropped", t)' = At("dropped", t)
  BY QuietSteps DEF IInv, Quiet, At
<1>l. Local(t) /\ TypeOK
  BY DEF IInv, Locals
<1> USE <1>q, <1>l
    DEF TypeOK, Local, Valid, HasChunk, Goto, LockPool, LockGlobal, UnlockPool, UnlockGlobal, pool, global, header, env, locals
<1>1. CASE AllocCall(t)
  BY <1>1 DEF AllocCall
<1>2. CASE AllocLock(t)
  BY <1>2 DEF AllocLock
<1>3. CASE AllocRead(t)
  BY <1>3 DEF AllocRead
<1>4. CASE AllocMiss(t)
  BY <1>4 DEF AllocMiss, AllocPop
<1>5. CASE GlobalLock(t)
  BY <1>5 DEF GlobalLock
<1>6. CASE GlobalEmpty(t)
  BY <1>6 DEF GlobalEmpty
<1>7. CASE GlobalRead(t)
  BY <1>7 DEF GlobalRead
<1>8. CASE GlobalRelock(t)
  BY <1>8 DEF GlobalRelock
<1>9. CASE GlobalReread(t)
  BY <1>9 DEF GlobalReread
<1>10. CASE ExtentFails(t)
  BY <1>10 DEF ExtentFails
<1>11. CASE ExtentLock(t)
  BY <1>11 DEF ExtentLock
<1>12. CASE ReturnNull(t)
  BY <1>12 DEF ReturnNull
<1>13. CASE FreeLock(t)
  BY <1>13 DEF FreeLock
<1>14. CASE FreeFull(t)
  BY <1>14 DEF FreeFull
<1>15. CASE FreeGlobalLock(t)
  BY <1>15 DEF FreeGlobalLock
<1>16. CASE PurgeCall(t)
  BY <1>16 DEF PurgeCall
<1>17. CASE PurgeLock(t)
  BY <1>17 DEF PurgeLock
<1>18. CASE PurgeLoop(t)
  BY <1>18 DEF PurgeLoop
<1>19. CASE PurgeGlobalLock(t)
  BY <1>19 DEF PurgeGlobalLock
<1>20. CASE PurgeNextNode(t)
  BY <1>20 DEF PurgeNextNode
<1> HIDE DEF TypeOK, Exclusion, Local
<1> QED
  BY QuietStep(t), <1>1, <1>2, <1>3, <1>4, <1>5, <1>6, <1>7, <1>8, <1>9, <1>10, <1>11, <1>12,
     <1>13, <1>14, <1>15, <1>16, <1>17, <1>18, <1>19, <1>20 DEF QuietStep

\* Quiet steps keep the invariant.
LEMMA QuietKeepsIInv ==
  ASSUME IInv, NEW t \in Threads, QuietStep(t)
  PROVE  IInv'
<1>1. Quiet(t)
  BY QuietSteps DEF IInv
<1> QED
  BY <1>1, QuietKeeps, QuietTypes, QuietLocks, QuietLocal DEF IInv, Locals

----------------------------------------------------------------------------
(* The steps that move chunks.                                             *)

\* A chunk is returned to the caller: from a cache with its link cleared, from
\* the global list neutralised and stamped.
LEMMA ReturnKeeps ==
  ASSUME IInv, NEW t \in Threads, AllocDone(t) \/ GlobalDone(t)
  PROVE  IInv'
<1> USE DEF Goto, pool, global, header, env, locals
<1>1. PICK c \in Chunks :
        /\ pc[t] \in {"a_done", "g_done"} /\ c = chunk[t] /\ At("flight", t) = {c}
        /\ At("extent", t) = {} /\ At("held", t) = held[t] /\ At("dropped", t) = {}
        /\ i[t] = 0 /\ \A d \in held[t] : Valid(d)
        /\ pc[t] = "a_done" => Valid(c)
  <2>1. pc[t] \in {"a_done", "g_done"}
    BY DEF AllocDone, GlobalDone
  <2>2. Local(t)
    BY DEF IInv, Locals
  <2> QED
    BY <2>1, <2>2, AtChunks DEF Local, HasChunk
<1>2. /\ pc' = [pc EXCEPT ![t] = "idle"] /\ held' = [held EXCEPT ![t] = @ \cup {c}]
      /\ Place(c, "held", t) /\ chunk' = [chunk EXCEPT ![t] = NULL]
      /\ node' = [node EXCEPT ![t] = 0] /\ next' = [next EXCEPT ![c] = NULL]
      /\ UNCHANGED <<pool, global, mapped, chunk_next, base, i>>
  BY <1>1 DEF AllocDone, GlobalDone, Return
<1>3. /\ node_id' \in [Chunks -> Nodes] /\ magic' \in [Chunks -> {0, LZ_CHUNK_MAGIC_V2}]
      /\ \A d \in Chunks \ {c} : node_id'[d] = node_id[d] /\ magic'[d] = magic[d]
      /\ Valid(c)'
  <2>1. /\ node_id \in [Chunks -> Nodes] /\ magic \in [Chunks -> {0, LZ_CHUNK_MAGIC_V2}]
        /\ node[t] \in Nodes
    BY DEF IInv, TypeOK
  <2>2. CASE AllocDone(t)
    BY <1>1, <2>1, <2>2 DEF AllocDone, Valid
  <2>3. CASE GlobalDone(t)
    BY <1>1, <2>1, <2>3 DEF GlobalDone, Valid
  <2> QED
    BY <2>2, <2>3
<1>4. Moved(t, {c}, "flight", t, "held", t)
  <2>1. \A u \in Threads \ {t} : SameLocals(u)
    BY <1>2 DEF IInv, TypeOK, SameLocals
  <2>2. \A d \in Chunks \ {c} : next'[d] = next[d]
    BY <1>2 DEF IInv, TypeOK
  <2> QED
    BY <1>1, <1>2, <1>3, <2>1, <2>2, MovedOne DEF IInv
<1>5. /\ At("flight", t)' = {} /\ At("held", t)' = held[t] \cup {c}
      /\ At("extent", t)' = {} /\ At("dropped", t)' = {}
  BY <1>1, <1>4, Moves, SMTT(30)
<1>6. Local(t)'
  <2>1. pc'[t] = "idle" /\ held'[t] = held[t] \cup {c} /\ i'[t] = 0
    BY <1>1, <1>2 DEF IInv, TypeOK
  <2>2. \A d \in held'[t] : Valid(d)'
    BY <1>1, <1>3, <2>1 DEF IInv, TypeOK, Valid
  <2> QED
    BY <1>5, <2>1, <2>2 DEF Local, HasChunk
<1>7. TypeOK'
  <2>1. place' \in [Chunks -> Places]
    BY <1>4, PlaceTyped, PlaceTypes DEF IInv, ThreadPlaces
  <2>2. oom' \in [Threads -> BOOLEAN]
    BY DEF IInv, TypeOK, AllocDone, GlobalDone
  <2> QED
    BY <1>1, <1>2, <1>3, <2>1, <2>2, NodeZero DEF IInv, TypeOK, PCs
<1>8. Exclusion'
  BY <1>1, <1>2, SMTT(30) DEF IInv, TypeOK, Exclusion, InPool, InGlobal
<1>9. DrainTop(t)' = DrainTop(t)
  BY <1>1, <1>2, LocalTypes DEF DrainTop
<1> QED
  BY <1>2, <1>4, <1>6, <1>7, <1>8, <1>9, MoveKeeps, SMTT(30) DEF ThreadPlaces

\* lz_vmm_free_chunk takes a chunk over from its holder.
LEMMA FreeCallKeeps ==
  ASSUME IInv, NEW t \in Threads, FreeCall(t)
  PROVE  IInv'
<1> USE DEF Goto, pool, global, header, env, locals
<1>1. Local(t)
  BY DEF IInv, Locals
<1>2. PICK c \in held[t] :
        /\ pc[t] = "idle" /\ pc' = [pc EXCEPT ![t] = "f_lock"]
        /\ held' = [held EXCEPT ![t] = @ \ {c}]
        /\ Place(c, "flight", t)
        /\ chunk' = [chunk EXCEPT ![t] = c]
        /\ node' = [node EXCEPT ![t] = node_id[c]]
        /\ UNCHANGED <<pool, global, header, mapped, chunk_next, base, i, oom>>
  BY <1>1 DEF FreeCall, Local
<1>3. /\ At("held", t) = held[t] /\ c \in Chunks /\ Valid(c) /\ At("flight", t) = {}
      /\ At("extent", t) = {} /\ At("dropped", t) = {} /\ i[t] = 0
  BY <1>1, <1>2, AtChunks, SMTT(30) DEF Local, HasChunk
<1>4. Moved(t, {c}, "held", t, "flight", t)
  <2>1. \A u \in Threads \ {t} : SameLocals(u)
    BY <1>2 DEF IInv, TypeOK, SameLocals
  <2> QED
    BY <1>2, <1>3, <2>1, MovedOne DEF IInv
<1>5. /\ At("flight", t)' = {c} /\ At("held", t)' = held[t] \ {c}
      /\ At("extent", t)' = {} /\ At("dropped", t)' = {}
  BY <1>3, <1>4, Moves, SMTT(30)
<1>6. Local(t)'
  <2>1. /\ pc'[t] = "f_lock" /\ held'[t] = held[t] \ {c} /\ i'[t] = 0 /\ chunk'[t] = c
        /\ node'[t] = node_id[c]
    BY <1>2, <1>3 DEF IInv, TypeOK
  <2> QED
    BY <1>1, <1>2, <1>3, <1>5, <2>1 DEF Local, HasChunk, Valid
<1>7. TypeOK'
  <2>1. place' \in [Chunks -> Places]
    BY <1>4, PlaceTyped, PlaceTypes DEF IInv, ThreadPlaces
  <2> QED
    BY <1>2, <1>3, <2>1 DEF IInv, TypeOK, PCs
<1>8. Exclusion'
  BY <1>2, SMTT(30) DEF IInv, TypeOK, Exclusion, InPool, InGlobal
<1>9. DrainTop(t)' = DrainTop(t)
  BY <1>2, LocalTypes DEF DrainTop
<1> QED
  BY <1>2, <1>4, <1>6, <1>7, <1>8, <1>9, MoveKeeps, SMTT(30) DEF ThreadPlaces

\* lz_vmm_free_chunk pushes the chunk on its node's cache, below capacity.
LEMMA FreePushKeeps ==
  ASSUME IInv, NEW t \in Threads, FreePush(t)
  PROVE  IInv'
<1> USE DEF Goto, UnlockPool, ForgetLocals, pool, global, header, env, locals
<1>1. PICK n \in Nodes, c \in Chunks :
        /\ pc[t] = "f_push" /\ n = node[t] /\ c = chunk[t] /\ At("flight", t) = {c}
        /\ At("extent", t) = {} /\ At("held", t) = held[t] /\ At("dropped", t) = {}
        /\ i[t] = 0 /\ \A d \in held[t] : Valid(d)
        /\ Valid(c) /\ node_id[c] = n /\ available_count[n] < LZ_VMM_MAX_CACHED_CHUNKS
  <2>1. pc[t] = "f_push" /\ available_count[node[t]] < LZ_VMM_MAX_CACHED_CHUNKS
    BY DEF FreePush
  <2>2. Local(t) /\ node[t] \in Nodes
    BY DEF IInv, Locals, TypeOK
  <2> QED
    BY <2>1, <2>2, AtChunks DEF Local, HasChunk
<1>2. /\ pc' = [pc EXCEPT ![t] = "idle"] /\ next' = [next EXCEPT ![c] = free_chunks[n]]
      /\ free_chunks' = [free_chunks EXCEPT ![n] = c]
      /\ available_count' = [available_count EXCEPT ![n] = @ + 1]
      /\ pool_lock' = [pool_lock EXCEPT ![n] = FALSE]
      /\ Place(c, "pool", n) /\ chunk' = [chunk EXCEPT ![t] = NULL]
      /\ node' = [node EXCEPT ![t] = 0]
      /\ UNCHANGED <<global, node_id, magic, env, chunk_next, base, i, oom>>
  BY <1>1 DEF FreePush
<1>3. /\ next'[c] = free_chunks[n] /\ \A d \in Chunks \ {c} : next'[d] = next[d]
      /\ next' \in [Chunks -> Chunks \cup {NULL}]
  BY <1>2 DEF IInv, TypeOK
<1>4. Moved(t, {c}, "flight", t, "pool", n)
  <2>1. \A u \in Threads \ {t} : pc[u] = "a_pop" => node[u] # n
    BY <1>1 DEF IInv, TypeOK, Exclusion, InPool
  <2>2. \A u \in Threads \ {t} : pc[u] = "a_pop" => free_chunks'[node[u]] = free_chunks[node[u]]
    BY <1>2, <2>1 DEF IInv, TypeOK
  <2>3. \A u \in Threads \ {t} : SameLocals(u)
    BY <1>2 DEF IInv, TypeOK, SameLocals
  <2> QED
    BY <1>1, <1>2, <1>3, <2>2, <2>3, MovedOne, SMTT(30) DEF IInv
<1>5. /\ At("pool", n)' = At("pool", n) \cup {c} /\ At("flight", t)' = {}
      /\ At("extent", t)' = {} /\ At("held", t)' = held[t] /\ At("dropped", t)' = {}
      /\ c \notin At("pool", n)
  BY <1>1, <1>4, Moves, SMTT(30)
<1>6. ListOf(free_chunks'[n], next', At("pool", n)', NULL)
  <2>1. ListOf(free_chunks[n], next, At("pool", n), NULL)
    BY DEF IInv, Intact
  <2>2. \A x \in At("pool", n) : next'[x] = next[x]
    BY <1>3, <1>5, AtChunks
  <2>3. ListOf(c, next', At("pool", n) \cup {c}, NULL)
    BY <1>3, <1>5, <2>1, <2>2, ListPush, VmmAssumption
  <2>4. free_chunks'[n] = c
    BY <1>2 DEF IInv, TypeOK
  <2> QED
    BY <1>5, <2>3, <2>4
<1>7. Cache(n)'
  <2>1. /\ Cache(n) /\ available_count[n] \in Nat
        /\ available_count'[n] = available_count[n] + 1
    BY <1>2 DEF IInv, TypeOK, Caches
  <2>2. Numbered(At("pool", n) \cup {c}, available_count[n] + 1)
    BY <1>5, <2>1, NumberedAdd DEF Cache
  <2>3. Numbered(At("pool", n)', available_count'[n])
    BY <1>5, <2>1, <2>2
  <2> QED
    BY <1>1, <1>2, <1>5, <2>1, <2>3, VmmAssumption, SMTT(30) DEF Cache, Valid
<1>8. Local(t)'
  <2>1. pc'[t] = "idle" /\ i'[t] = 0
    BY <1>1, <1>2 DEF IInv, TypeOK
  <2> QED
    BY <1>1, <1>2, <1>5, <2>1 DEF Local, HasChunk, Valid
<1>9. TypeOK'
  <2>1. place' \in [Chunks -> Places]
    BY <1>4, PlaceTyped, PlaceTypes DEF IInv
  <2>2. available_count' \in [Nodes -> Nat]
    BY <1>2, SMTT(30) DEF IInv, TypeOK
  <2> QED
    BY <1>1, <1>2, <1>3, <2>1, <2>2, NodeZero DEF IInv, TypeOK, PCs
<1>10. Exclusion'
  BY <1>1, <1>2, SMTT(30) DEF IInv, TypeOK, Exclusion, InPool, InGlobal
<1>11. DrainTop(t)' = DrainTop(t)
  BY <1>1, <1>2, LocalTypes DEF DrainTop
<1>12. \A m \in Nodes : m # n => /\ free_chunks'[m] = free_chunks[m]
                                /\ available_count'[m] = available_count[m]
  BY <1>2 DEF IInv, TypeOK
<1>13. \A m \in Nodes :
         \/ ListOf(free_chunks'[m], next', At("pool", m)', NULL) /\ Cache(m)'
         \/ n # m /\ free_chunks'[m] = free_chunks[m] /\ available_count'[m] = available_count[m]
  BY <1>6, <1>7, <1>12
<1>14. UNCHANGED <<g_global_free_chunks, mapped>>
  BY <1>2
<1> QED
  BY <1>4, <1>8, <1>9, <1>10, <1>11, <1>13, <1>14, MoveKeeps, SMTT(30) DEF ThreadPlaces

\* mmap returns a new extent.
LEMMA ExtentMapKeeps ==
  ASSUME IInv, NEW t \in Threads, ExtentMap(t)
  PROVE  IInv'
<1> USE DEF Goto, pool, global, header, env, locals
<1>1. PICK b \in Chunks :
        /\ b..(b + LZ_EXTENT_CHUNKS - 1) \subseteq Chunks \ mapped
        /\ mapped' = mapped \cup b..(b + LZ_EXTENT_CHUNKS - 1)
        /\ base' = [base EXCEPT ![t] = b]
        /\ place' = [d \in Chunks |-> IF d \in b..(b + LZ_EXTENT_CHUNKS - 1)
                                      THEN <<"extent", t>> ELSE place[d]]
  BY DEF ExtentMap
<1>2. /\ pc[t] = "x_map" /\ pc' = [pc EXCEPT ![t] = "x_lock"]
      /\ UNCHANGED <<pool, global, header, held, node, chunk, chunk_next, i, oom>>
  BY DEF ExtentMap
<1>3. PICK E : E = b..(b + LZ_EXTENT_CHUNKS - 1)
  BY SMTT(30)
<1>4. /\ At("flight", t) = {} /\ At("extent", t) = {} /\ At("held", t) = held[t]
      /\ At("dropped", t) = {} /\ i[t] = 0 /\ \A d \in held[t] : Valid(d)
  <2>1. Local(t)
    BY DEF IInv, Locals
  <2> QED
    BY <1>2, <2>1 DEF Local, HasChunk
<1>5. Moved(t, E, "os", NULL, "extent", t)
  <2>1. E \subseteq At("os", NULL)
    BY <1>1, <1>3 DEF IInv, Mapped
  <2>2. place' = [d \in Chunks |-> IF d \in E THEN <<"extent", t>> ELSE place[d]]
    BY <1>1, <1>3
  <2>3. \A u \in Threads \ {t} : SameLocals(u)
    BY <1>1, <1>2 DEF IInv, TypeOK, SameLocals
  <2> QED
    BY <1>2, <2>1, <2>2, <2>3 DEF Moved
<1>6. /\ At("extent", t)' = E /\ At("flight", t)' = {} /\ At("held", t)' = held[t]
      /\ At("dropped", t)' = {} /\ At("os", NULL)' = At("os", NULL) \ E
  <2>1. /\ At("extent", t)' = At("extent", t) \cup E /\ At("os", NULL)' = At("os", NULL) \ E
        /\ At("flight", t)' = At("flight", t) /\ At("held", t)' = At("held", t)
        /\ At("dropped", t)' = At("dropped", t)
    BY <1>5, Moves, SMTT(30)
  <2> QED
    BY <1>4, <2>1
<1>7. Mapped'
  BY <1>1, <1>3, <1>6 DEF IInv, Mapped
<1>8. Local(t)'
  <2>1. pc'[t] = "x_lock" /\ i'[t] = 0 /\ base'[t] = b /\ UNCHANGED <<held, magic>>
    BY <1>1, <1>2, <1>4 DEF IInv, TypeOK
  <2>2. At("extent", t)' = (base'[t] + i'[t])..(base'[t] + LZ_EXTENT_CHUNKS - 1)
    BY <1>3, <1>6, <2>1, VmmAssumption, SMTT(30)
  <2> QED
    BY <1>4, <1>6, <2>1, <2>2 DEF Local, HasChunk, Valid
<1>9. TypeOK'
  <2>1. place' \in [Chunks -> Places]
    BY <1>5, PlaceTyped, PlaceTypes DEF IInv, ThreadPlaces
  <2>2. base' \in [Threads -> Nat] /\ mapped' \in SUBSET Chunks
    BY <1>1, VmmAssumption DEF IInv, TypeOK
  <2> QED
    BY <1>2, <2>1, <2>2 DEF IInv, TypeOK, PCs
<1>10. Exclusion'
  BY <1>2, SMTT(30) DEF IInv, TypeOK, Exclusion, InPool, InGlobal
<1>11. DrainTop(t)' = DrainTop(t)
  BY <1>2, LocalTypes DEF DrainTop
<1>12. UNCHANGED <<free_chunks, available_count, g_global_free_chunks>>
  BY <1>2
<1> QED
  BY <1>5, <1>7, <1>8, <1>9, <1>10, <1>11, <1>12, MoveKeeps, SMTT(30) DEF ThreadPlaces

\* chunk->next = g_global_free_chunks; g_global_free_chunks = chunk.
LEMMA GlobalPushed ==
  ASSUME IInv, NEW t \in Threads, NEW w, NEW x, NEW c \in Chunks,
         Moved(t, {c}, w, x, "global", NULL), PushGlobal(c)
  PROVE  /\ ListOf(g_global_free_chunks', next', At("global", NULL)', NULL)
         /\ next' \in [Chunks -> Chunks \cup {NULL}]
<1>1. /\ next'[c] = g_global_free_chunks /\ \A d \in Chunks \ {c} : next'[d] = next[d]
      /\ next' \in [Chunks -> Chunks \cup {NULL}] /\ g_global_free_chunks' = c
  BY LocalTypes DEF PushGlobal
<1>2. At("global", NULL)' = At("global", NULL) \cup {c} /\ c \notin At("global", NULL)
  <2>1. w # "global"
    BY DEF Moved
  <2>2. At("global", NULL)' = At("global", NULL) \cup {c} /\ At("global", NULL) \cap {c} = {}
    BY <2>1, Moves, SMTT(30)
  <2> QED
    BY <2>2
<1>3. \A d \in At("global", NULL) : next'[d] = next[d]
  BY <1>1, <1>2, AtChunks
<1>4. ListOf(g_global_free_chunks, next, At("global", NULL), NULL)
  BY DEF IInv, Intact
<1>5. ListOf(c, next', At("global", NULL) \cup {c}, NULL)
  BY <1>1, <1>2, <1>3, <1>4, ListPush, VmmAssumption
<1> QED
  BY <1>1, <1>2, <1>5

\* A push onto the global list keeps the invariant if the thread's own part holds.
LEMMA PushKeeps ==
  ASSUME IInv, NEW t \in Threads, NEW w \in {"flight", "extent", "drain"}, NEW c \in Chunks,
         Moved(t, {c}, w, t, "global", NULL),
         ListOf(g_global_free_chunks', next', At("global", NULL)', NULL),
         \/ ListOf(DrainTop(t)', next', At("drain", t)', NULL)
         \/ w # "drain" /\ DrainTop(t)' = DrainTop(t),
         UNCHANGED <<free_chunks, available_count, mapped>>,
         TypeOK', Exclusion', Local(t)'
  PROVE  IInv'
BY MoveKeeps, SMTT(30) DEF ThreadPlaces

\* lz_vmm_free_chunk delegates the chunk to the global list.
LEMMA FreeGlobalPushKeeps ==
  ASSUME IInv, NEW t \in Threads, FreeGlobalPush(t)
  PROVE  IInv'
<1> USE DEF Goto, UnlockGlobal, ForgetLocals, pool, global, header, env, locals
<1>1. PICK c \in Chunks :
        /\ pc[t] = "fg_push" /\ c = chunk[t] /\ At("flight", t) = {c}
        /\ At("extent", t) = {} /\ At("held", t) = held[t] /\ At("dropped", t) = {}
        /\ i[t] = 0 /\ \A d \in held[t] : Valid(d)
  <2>1. pc[t] = "fg_push" /\ Local(t)
    BY DEF FreeGlobalPush, IInv, Locals
  <2> QED
    BY <2>1, AtChunks DEF Local, HasChunk
<1>2. /\ pc' = [pc EXCEPT ![t] = "idle"] /\ PushGlobal(c) /\ g_global_pool_lock' = FALSE
      /\ chunk' = [chunk EXCEPT ![t] = NULL] /\ node' = [node EXCEPT ![t] = 0]
      /\ UNCHANGED <<pool, node_id, magic, env, chunk_next, base, i, oom>>
  BY <1>1 DEF FreeGlobalPush
<1>3. Moved(t, {c}, "flight", t, "global", NULL)
  <2>1. \A u \in Threads \ {t} : SameLocals(u) /\ pc[u] # "g_pop"
    BY <1>1, <1>2 DEF IInv, TypeOK, SameLocals, Exclusion, InGlobal
  <2>2. Place(c, "global", NULL) /\ \A d \in Chunks \ {c} : next'[d] = next[d]
    BY <1>2, LocalTypes DEF PushGlobal
  <2> QED
    BY <1>1, <1>2, <2>1, <2>2, MovedOne DEF IInv
<1>4. /\ At("flight", t)' = {} /\ At("extent", t)' = {}
      /\ At("held", t)' = held[t] /\ At("dropped", t)' = {}
  BY <1>1, <1>3, Moves, SMTT(30)
<1>5. /\ ListOf(g_global_free_chunks', next', At("global", NULL)', NULL)
      /\ next' \in [Chunks -> Chunks \cup {NULL}]
  BY <1>2, <1>3, GlobalPushed
<1>6. Local(t)'
  <2>1. pc'[t] = "idle" /\ i'[t] = 0
    BY <1>1, <1>2 DEF IInv, TypeOK
  <2> QED
    BY <1>1, <1>2, <1>4, <2>1 DEF Local, HasChunk, Valid
<1>7. TypeOK'
  <2>1. place' \in [Chunks -> Places]
    BY <1>3, PlaceTyped, PlaceTypes DEF IInv
  <2> QED
    BY <1>1, <1>2, <1>5, <2>1, NodeZero DEF IInv, TypeOK, PCs, PushGlobal
<1>8. Exclusion'
  BY <1>1, <1>2, SMTT(30) DEF IInv, TypeOK, Exclusion, InPool, InGlobal
<1>9. DrainTop(t)' = DrainTop(t)
  BY <1>1, <1>2, LocalTypes DEF DrainTop
<1>10. UNCHANGED <<free_chunks, available_count, mapped>>
  BY <1>2
<1> QED
  BY <1>3, <1>5, <1>6, <1>7, <1>8, <1>9, <1>10, PushKeeps

\* The purge moves the first drained chunk to the global list.
LEMMA PurgePushKeeps ==
  ASSUME IInv, NEW t \in Threads, PurgePush(t)
  PROVE  IInv'
<1> USE DEF Goto, UnlockGlobal, pool, global, header, env, locals
<1>1. PICK c \in Chunks :
        /\ pc[t] = "pg_push" /\ c = chunk[t] /\ chunk_next[t] = next[c] /\ DrainTop(t) = c
        /\ At("flight", t) = {} /\ At("extent", t) = {} /\ At("held", t) = held[t]
        /\ At("dropped", t) = {} /\ i[t] = 0 /\ \A d \in held[t] : Valid(d)
  <2>1. pc[t] = "pg_push" /\ Local(t) /\ chunk[t] \in Chunks \cup {NULL}
    BY DEF PurgePush, IInv, Locals, TypeOK
  <2> QED
    BY <2>1 DEF Local, HasChunk, DrainTop
<1>2. c \in At("drain", t) /\ ListOf(next[c], next, At("drain", t) \ {c}, NULL)
  <2>1. ListOf(c, next, At("drain", t), NULL)
    BY <1>1 DEF IInv, Intact
  <2> QED
    BY <2>1, ListPop, VmmAssumption
<1>3. /\ pc' = [pc EXCEPT ![t] = "p_loop"] /\ PushGlobal(c) /\ g_global_pool_lock' = FALSE
      /\ chunk' = [chunk EXCEPT ![t] = next[c]] /\ chunk_next' = [chunk_next EXCEPT ![t] = NULL]
      /\ UNCHANGED <<pool, node_id, magic, env, node, base, i, oom>>
  BY <1>1 DEF PurgePush
<1>4. Place(c, "global", NULL) /\ \A d \in Chunks \ {c} : next'[d] = next[d]
  BY <1>3, LocalTypes DEF PushGlobal
<1>5. Moved(t, {c}, "drain", t, "global", NULL)
  <2>1. \A u \in Threads \ {t} : SameLocals(u) /\ pc[u] # "g_pop"
    BY <1>1, <1>3 DEF IInv, TypeOK, SameLocals, Exclusion, InGlobal
  <2> QED
    BY <1>2, <1>3, <1>4, <2>1, MovedOne DEF IInv
<1>6. /\ At("drain", t)' = At("drain", t) \ {c} /\ At("flight", t)' = {}
      /\ At("extent", t)' = {} /\ At("held", t)' = held[t] /\ At("dropped", t)' = {}
  BY <1>1, <1>5, Moves, SMTT(30)
<1>7. /\ ListOf(g_global_free_chunks', next', At("global", NULL)', NULL)
      /\ next' \in [Chunks -> Chunks \cup {NULL}]
  BY <1>3, <1>5, GlobalPushed
<1>8. ListOf(DrainTop(t)', next', At("drain", t)', NULL)
  <2>1. \A d \in At("drain", t) \ {c} : next'[d] = next[d]
    BY <1>4, AtChunks
  <2>2. ListOf(next[c], next', At("drain", t) \ {c}, NULL)
    BY <1>2, <2>1, ListFrame
  <2>3. DrainTop(t)' = next[c]
    BY <1>3, LocalTypes DEF DrainTop
  <2> QED
    BY <1>6, <2>2, <2>3
<1>9. Local(t)'
  <2>1. pc'[t] = "p_loop" /\ i'[t] = 0
    BY <1>1, <1>3 DEF IInv, TypeOK
  <2> QED
    BY <1>1, <1>3, <1>6, <2>1 DEF Local, HasChunk, Valid
<1>10. TypeOK'
  <2>1. place' \in [Chunks -> Places]
    BY <1>5, PlaceTyped, PlaceTypes DEF IInv
  <2> QED
    BY <1>1, <1>3, <1>7, <2>1 DEF IInv, TypeOK, PCs, PushGlobal
<1>11. Exclusion'
  BY <1>1, <1>3, SMTT(30) DEF IInv, TypeOK, Exclusion, InPool, InGlobal
<1>12. UNCHANGED <<free_chunks, available_count, mapped>>
  BY <1>3
<1> QED
  BY <1>5, <1>7, <1>8, <1>9, <1>10, <1>11, <1>12, PushKeeps

\* sys_alloc_extent pushes the next chunk of the extent; the last push returns.
LEMMA ExtentPushKeeps ==
  ASSUME IInv, NEW t \in Threads, ExtentPush(t)
  PROVE  IInv'
<1> USE DEF Goto, UnlockGlobal, pool, global, header, env, locals
<1>1. PICK c \in Chunks, j \in 0..(LZ_EXTENT_CHUNKS - 1), b \in Nat :
        /\ pc[t] = "x_push" /\ j = i[t] /\ b = base[t] /\ c = b + j
        /\ At("extent", t) = c..(b + LZ_EXTENT_CHUNKS - 1) /\ c \in At("extent", t)
        /\ At("flight", t) = {} /\ At("held", t) = held[t]
        /\ At("dropped", t) = {} /\ \A d \in held[t] : Valid(d)
  <2>1. /\ pc[t] = "x_push" /\ Local(t) /\ i[t] \in 0..(LZ_EXTENT_CHUNKS - 1)
        /\ base[t] \in Nat
    BY DEF ExtentPush, IInv, Locals, TypeOK
  <2>2. /\ At("extent", t) = (base[t] + i[t])..(base[t] + LZ_EXTENT_CHUNKS - 1)
        /\ At("flight", t) = {} /\ At("held", t) = held[t]
        /\ At("dropped", t) = {} /\ \A d \in held[t] : Valid(d)
    BY <2>1 DEF Local, HasChunk
  <2>3. base[t] + i[t] \in At("extent", t)
    BY <2>1, <2>2, VmmAssumption, SMTT(30)
  <2> QED
    BY <2>1, <2>2, <2>3, AtChunks
<1>2. /\ PushGlobal(c)
      /\ \/ /\ j + 1 < LZ_EXTENT_CHUNKS /\ pc' = [pc EXCEPT ![t] = "x_push"]
            /\ i' = [i EXCEPT ![t] = j + 1] /\ UNCHANGED <<base, g_global_pool_lock>>
         \/ /\ ~(j + 1 < LZ_EXTENT_CHUNKS) /\ pc' = [pc EXCEPT ![t] = "g_relock"]
            /\ i' = [i EXCEPT ![t] = 0] /\ base' = [base EXCEPT ![t] = 0]
            /\ g_global_pool_lock' = FALSE
      /\ UNCHANGED <<pool, node_id, magic, env, node, chunk, chunk_next, oom>>
  BY <1>1 DEF ExtentPush
<1>3. Place(c, "global", NULL) /\ \A d \in Chunks \ {c} : next'[d] = next[d]
  BY <1>2, LocalTypes DEF PushGlobal
<1>4. Moved(t, {c}, "extent", t, "global", NULL)
  <2>1. \A u \in Threads \ {t} : SameLocals(u) /\ pc[u] # "g_pop"
    BY <1>1, <1>2, SMTT(30) DEF IInv, TypeOK, SameLocals, Exclusion, InGlobal
  <2> QED
    BY <1>1, <1>2, <1>3, <2>1, MovedOne DEF IInv
<1>5. /\ At("extent", t)' = (c + 1)..(b + LZ_EXTENT_CHUNKS - 1) /\ At("flight", t)' = {}
      /\ At("held", t)' = held[t] /\ At("dropped", t)' = {}
  <2>1. At("extent", t)' = At("extent", t) \ {c}
    BY <1>4, Moves, SMTT(30)
  <2>2. (c..(b + LZ_EXTENT_CHUNKS - 1)) \ {c} = (c + 1)..(b + LZ_EXTENT_CHUNKS - 1)
    BY <1>1, VmmAssumption, SMTT(30)
  <2>3. At("flight", t)' = {} /\ At("held", t)' = held[t] /\ At("dropped", t)' = {}
    BY <1>1, <1>4, Moves, SMTT(30)
  <2> QED
    BY <1>1, <2>1, <2>2, <2>3
<1>6. /\ ListOf(g_global_free_chunks', next', At("global", NULL)', NULL)
      /\ next' \in [Chunks -> Chunks \cup {NULL}]
  BY <1>2, <1>4, GlobalPushed
<1>7. Local(t)'
  <2>1. \/ pc'[t] = "x_push" /\ i'[t] = j + 1 /\ base'[t] = b
        \/ pc'[t] = "g_relock" /\ i'[t] = 0 /\ ~(j + 1 < LZ_EXTENT_CHUNKS)
    BY <1>1, <1>2, LocalTypes
  <2>2. pc'[t] = "x_push" =>
          At("extent", t)' = (base'[t] + i'[t])..(base'[t] + LZ_EXTENT_CHUNKS - 1)
    BY <1>1, <1>5, <2>1, SMTT(30)
  <2>3. pc'[t] # "x_push" => At("extent", t)' = {}
    <3>1. c = b + j /\ b \in Nat /\ j \in 0..(LZ_EXTENT_CHUNKS - 1)
      BY <1>1
    <3>2. ~(j + 1 < LZ_EXTENT_CHUNKS) => (c + 1)..(b + LZ_EXTENT_CHUNKS - 1) = {}
      BY <3>1, VmmAssumption, SMTT(30)
    <3> QED
      BY <1>5, <2>1, <3>2
  <2>4. UNCHANGED <<held, magic>>
    BY <1>2
  <2> QED
    BY <1>1, <1>5, <2>1, <2>2, <2>3, <2>4 DEF Local, HasChunk, Valid
<1>8. TypeOK'
  <2>1. place' \in [Chunks -> Places]
    BY <1>4, PlaceTyped, PlaceTypes DEF IInv
  <2>2. i' \in [Threads -> 0..(LZ_EXTENT_CHUNKS - 1)] /\ base' \in [Threads -> Nat]
    <3>1. j + 1 < LZ_EXTENT_CHUNKS => j + 1 \in 0..(LZ_EXTENT_CHUNKS - 1)
      BY VmmAssumption, SMTT(30)
    <3>2. 0 \in 0..(LZ_EXTENT_CHUNKS - 1) /\ 0 \in Nat
      BY VmmAssumption, SMTT(30)
    <3>3. \/ i' = [i EXCEPT ![t] = j + 1] /\ j + 1 < LZ_EXTENT_CHUNKS /\ base' = base
          \/ i' = [i EXCEPT ![t] = 0] /\ base' = [base EXCEPT ![t] = 0]
      BY <1>2
    <3> QED
      BY <3>1, <3>2, <3>3, LocalTypes, SMTT(30)
  <2>3. pc' \in [Threads -> PCs] /\ g_global_pool_lock' \in BOOLEAN
    BY <1>2 DEF IInv, TypeOK, PCs
  <2> QED
    BY <1>1, <1>2, <1>6, <2>1, <2>2, <2>3 DEF IInv, TypeOK, PushGlobal
<1>9. Exclusion'
  <2>1. /\ \A u \in Threads \ {t} : pc'[u] = pc[u]
        /\ \/ pc'[t] = "x_push" /\ g_global_pool_lock' = g_global_pool_lock
           \/ pc'[t] = "g_relock"
        /\ UNCHANGED <<node, pool_lock>>
    BY <1>1, <1>2, LocalTypes
  <2>2. \A u \in Threads \ {t} : ~InGlobal(u)
    BY <1>1 DEF IInv, Exclusion, InGlobal
  <2> QED
    BY <1>1, <2>1, <2>2, SMTT(30) DEF IInv, Exclusion, InPool, InGlobal
<1>10. DrainTop(t)' = DrainTop(t)
  BY <1>1, <1>2, LocalTypes DEF DrainTop
<1>11. UNCHANGED <<free_chunks, available_count, mapped>>
  BY <1>2
<1> QED
  BY <1>4, <1>6, <1>7, <1>8, <1>9, <1>10, <1>11, PushKeeps

\* lz_vmm_purge_cache empties a node's cache and takes its list.
LEMMA PurgeDrainKeeps ==
  ASSUME IInv, NEW t \in Threads, PurgeDrain(t)
  PROVE  IInv'
<1> USE DEF Goto, UnlockPool, pool, global, header, env, locals
<1>1. PICK n \in Nodes, E \in SUBSET Chunks :
        /\ pc[t] = "p_drain" /\ n = node[t] /\ E = At("pool", n)
        /\ At("flight", t) = {} /\ At("extent", t) = {} /\ At("held", t) = held[t]
        /\ At("dropped", t) = {} /\ i[t] = 0 /\ \A d \in held[t] : Valid(d)
  <2>1. pc[t] = "p_drain" /\ Local(t) /\ node[t] \in Nodes
    BY DEF PurgeDrain, IInv, Locals, TypeOK
  <2> QED
    BY <2>1, AtChunks DEF Local, HasChunk
<1>2. /\ pc' = [pc EXCEPT ![t] = "p_loop"]
      /\ chunk' = [chunk EXCEPT ![t] = free_chunks[n]]
      /\ free_chunks' = [free_chunks EXCEPT ![n] = NULL]
      /\ available_count' = [available_count EXCEPT ![n] = 0]
      /\ pool_lock' = [pool_lock EXCEPT ![n] = FALSE]
      /\ UNCHANGED <<global, header, env, node, chunk_next, base, i, oom>>
  BY <1>1 DEF PurgeDrain
<1>3. \A u \in Threads \ {t} : SameLocals(u) /\ ~InPool(u, n)
  BY <1>1, <1>2, SMTT(30) DEF IInv, TypeOK, SameLocals, Exclusion, InPool
<1>4. Moved(t, E, "pool", n, "drain", t)
  <2>1. place' = [d \in Chunks |-> IF d \in E THEN <<"drain", t>> ELSE place[d]]
    BY <1>1 DEF PurgeDrain, At
  <2>2. \A u \in Threads \ {t} : pc[u] = "a_pop" => free_chunks'[node[u]] = free_chunks[node[u]]
    BY <1>2, <1>3 DEF IInv, TypeOK, InPool
  <2>3. UNCHANGED <<global, header>>
    BY <1>2
  <2> QED
    BY <1>1, <1>3, <2>1, <2>2, <2>3 DEF Moved
<1>5. At("drain", t) = {}
  <2>1. ListOf(NULL, next, At("drain", t), NULL)
    BY <1>1 DEF IInv, Intact, DrainTop
  <2> QED
    BY <2>1, ListNull
<1>6. /\ At("pool", n)' = {} /\ At("drain", t)' = E
      /\ At("flight", t)' = {} /\ At("extent", t)' = {} /\ At("held", t)' = held[t]
      /\ At("dropped", t)' = {}
  <2>1. At("pool", n)' = At("pool", n) \ E /\ At("drain", t)' = At("drain", t) \cup E
    BY <1>4, Moves, SMTT(30)
  <2>2. /\ At("flight", t)' = {} /\ At("extent", t)' = {} /\ At("held", t)' = held[t]
        /\ At("dropped", t)' = {}
    BY <1>1, <1>4, Moves, SMTT(30)
  <2> QED
    BY <1>1, <1>5, <2>1, <2>2
<1>7. ListOf(DrainTop(t)', next', At("drain", t)', NULL)
  <2>1. ListOf(free_chunks[n], next, E, NULL)
    BY <1>1 DEF IInv, Intact
  <2>2. DrainTop(t)' = free_chunks[n] /\ next' = next
    BY <1>1, <1>2, LocalTypes DEF DrainTop
  <2> QED
    BY <1>6, <2>1, <2>2
<1>8. ListOf(free_chunks'[n], next', At("pool", n)', NULL) /\ Cache(n)'
  <2>1. free_chunks'[n] = NULL /\ available_count'[n] = 0
    BY <1>2 DEF IInv, TypeOK
  <2>2. Numbered({}, 0) /\ ListOf(NULL, next', {}, NULL)
    BY NumberedEmpty, ListEmpty
  <2>3. Cache(n)'
    BY <1>6, <2>1, <2>2, VmmAssumption, SMTT(30) DEF Cache
  <2> QED
    BY <1>6, <2>1, <2>2, <2>3
<1>9. Local(t)'
  <2>1. pc'[t] = "p_loop" /\ i'[t] = 0 /\ UNCHANGED <<held, magic>>
    BY <1>1, <1>2 DEF IInv, TypeOK
  <2> QED
    BY <1>1, <1>6, <2>1 DEF Local, HasChunk, Valid
<1>10. TypeOK'
  <2>1. place' \in [Chunks -> Places]
    BY <1>4, PlaceTyped, PlaceTypes DEF IInv, ThreadPlaces
  <2>2. free_chunks[n] \in Chunks \cup {NULL} /\ 0 \in Nat
    BY DEF IInv, TypeOK
  <2> QED
    BY <1>2, <2>1, <2>2 DEF IInv, TypeOK, PCs
<1>11. Exclusion'
  BY <1>1, <1>2, SMTT(30) DEF IInv, TypeOK, Exclusion, InPool, InGlobal
<1>12. \A m \in Nodes \ {n} :
         free_chunks'[m] = free_chunks[m] /\ available_count'[m] = available_count[m]
  BY <1>2 DEF IInv, TypeOK
<1>13. UNCHANGED <<g_global_free_chunks, mapped>>
  BY <1>2
<1> QED
  BY <1>4, <1>7, <1>8, <1>9, <1>10, <1>11, <1>12, <1>13, MoveKeeps, SMTT(30) DEF ThreadPlaces

----------------------------------------------------------------------------
(* The invariant holds, and what follows from it.                          *)

\* The state lz_vmm_init and lz_topology_init leave satisfies the invariant.
LEMMA InitIInv == Init => IInv
<1> SUFFICES ASSUME Init PROVE IInv
  BY SMTT(30)
<1> USE DEF Init
<1>1. /\ \A w, x : w # "os" => At(w, x) = {}
      /\ At("os", NULL) = Chunks
  BY DEF At
<1>2. TypeOK
  <2>1. place \in [Chunks -> Places]
    BY PlaceTypes
  <2>2. i \in [Threads -> 0..(LZ_EXTENT_CHUNKS - 1)]
    BY VmmAssumption, SMTT(30)
  <2>3. node_id \in [Chunks -> Nodes] /\ node \in [Threads -> Nodes]
    BY NodeZero
  <2>4. pool_lock \in [Nodes -> BOOLEAN] /\ oom \in [Threads -> BOOLEAN]
    BY SMTT(30)
  <2> QED
    BY <2>1, <2>2, <2>3, <2>4 DEF TypeOK, PCs
<1>3. Exclusion
  BY DEF Exclusion, InPool, InGlobal
<1>4. ListOf(NULL, next, {}, NULL) /\ Numbered({}, 0)
  BY ListEmpty, NumberedEmpty
<1>5. Intact
  <2>1. \A t \in Threads : DrainTop(t) = NULL
    BY DEF DrainTop
  <2>2. \A n \in Nodes : free_chunks[n] = NULL
    BY SMTT(30)
  <2> QED
    BY <1>1, <1>4, <2>1, <2>2 DEF Intact
<1>6. Locals
  BY <1>1 DEF Locals, Local, HasChunk
<1>7. Caches
  <2> SUFFICES ASSUME NEW n \in Nodes PROVE Cache(n)
    BY DEF Caches
  <2>1. At("pool", n) = {} /\ available_count[n] = 0
    BY <1>1
  <2>2. Numbered(At("pool", n), available_count[n])
    BY <1>4, <2>1
  <2> QED
    BY <2>1, <2>2, VmmAssumption, SMTT(30) DEF Cache
<1>8. Mapped
  BY <1>1 DEF Mapped
<1> QED
  BY <1>2, <1>3, <1>5, <1>6, <1>7, <1>8 DEF IInv

\* Every step of every thread preserves it.
LEMMA StepIInv == IInv /\ [Next]_vars => IInv'
<1>1. ASSUME IInv, Next PROVE IInv'
  <2>1. PICK t \in Threads : Call(t) \/ Step(t)
    BY <1>1 DEF Next
  <2>2. QuietStep(t) => IInv'
    BY <1>1, QuietKeepsIInv
  <2>3. AllocPop(t) => IInv'
    BY <1>1, <2>2, AllocPopKeeps DEF QuietStep, AllocMiss
  <2>4. GlobalPop(t) \/ AllocDone(t) \/ GlobalDone(t) => IInv'
    BY <1>1, GlobalPopKeeps, ReturnKeeps
  <2>5. ExtentMap(t) \/ ExtentPush(t) => IInv'
    BY <1>1, ExtentMapKeeps, ExtentPushKeeps
  <2>6. FreeCall(t) \/ FreePush(t) \/ FreeGlobalPush(t) => IInv'
    BY <1>1, FreeCallKeeps, FreePushKeeps, FreeGlobalPushKeeps
  <2>7. PurgeDrain(t) \/ PurgePush(t) => IInv'
    BY <1>1, PurgeDrainKeeps, PurgePushKeeps
  <2> QED
    BY <2>1, <2>2, <2>3, <2>4, <2>5, <2>6, <2>7 DEF Call, Step, QuietStep
<1>2. ASSUME IInv, UNCHANGED vars PROVE IInv'
  <2> USE DEF vars, pool, global, header, env, locals
  <2>1. \A w, x : At(w, x)' = At(w, x)
    BY <1>2 DEF At
  <2>2. \A t \in Threads : DrainTop(t)' = DrainTop(t)
    BY <1>2 DEF DrainTop
  <2>3. Intact'
    BY <1>2, <2>1, <2>2 DEF IInv, Intact
  <2>4. TypeOK' /\ Exclusion'
    BY <1>2 DEF IInv, TypeOK, Exclusion, InPool, InGlobal
  <2>5. Locals'
    BY <1>2, <2>1, SMTT(30) DEF IInv, Locals, Local, HasChunk, Valid
  <2>6. Caches' /\ Mapped'
    BY <1>2, <2>1 DEF IInv, Caches, Cache, Mapped, Valid
  <2> QED
    BY <2>3, <2>4, <2>5, <2>6 DEF IInv
<1> QED
  BY <1>1, <1>2

\* The invariant holds in every reachable state.
THEOREM Invariant == Spec => []IInv
BY InitIInv, StepIInv, PTL DEF Spec

\* The VMM's state is always well typed: in particular no available_count ever
\* wraps below zero, though pops and drains of several threads interleave.
THEOREM TypeCorrect == Spec => []TypeOK
<1>1. IInv => TypeOK
  BY DEF IInv
<1> QED
  BY <1>1, Invariant, PTL

\* No chunk is ever lost or in two places: each mapped chunk is in exactly one of
\* the free lists, a purge's drained list, an extent being pushed, a call in
\* progress or a caller's hands, and each list is one chain of its chunks.
THEOREM NothingLost == Spec => []NoChunkLost
<1>1. ASSUME IInv PROVE NoChunkLost
  <2>1. mapped = {c \in Chunks : place[c][1] # "os"}
    <3>1. \A c \in Chunks : place[c] = <<"os", NULL>> <=> place[c][1] = "os"
      <4> SUFFICES ASSUME NEW c \in Chunks
                   PROVE  place[c] = <<"os", NULL>> <=> place[c][1] = "os"
        BY SMTT(30)
      <4>1. place[c] \in Places
        BY <1>1 DEF IInv, TypeOK
      <4> QED
        BY <4>1, SMTT(30) DEF Places
    <3> QED
      BY <1>1, <3>1 DEF IInv, Mapped, At
  <2>2. ListOf(g_global_free_chunks, next, At("global", NULL), NULL)
    BY <1>1 DEF IInv, Intact
  <2>3. \A t \in Threads : Local(t) /\ ListOf(DrainTop(t), next, At("drain", t), NULL)
    BY <1>1 DEF IInv, Intact, Locals
  <2> QED
    BY <2>1, <2>2, <2>3 DEF NoChunkLost, Local, HasChunk, DrainTop
<1> QED
  BY <1>1, Invariant, PTL

\* Every chunk lz_vmm_alloc_chunk returns carries the magic, the caller's node
\* and a cleared link, whichever of its three sources it came from.
THEOREM Stamped == Spec => HandedOutStamped
<1> DEFINE P == \A t \in Threads : \A c \in held'[t] \ held[t] :
                  Valid(c)' /\ node_id'[c] = node[t] /\ next'[c] = NULL
<1>1. IInv /\ [Next]_vars => [P]_vars
  <2> SUFFICES ASSUME IInv, Next PROVE P
    BY SMTT(30)
  <2>1. PICK t \in Threads : Call(t) \/ Step(t)
    BY DEF Next
  <2>2. ASSUME AllocDone(t) PROVE P
    <3>1. chunk[t] \in Chunks /\ Valid(chunk[t]) /\ node_id[chunk[t]] = node[t]
      BY <2>2, AtChunks DEF IInv, Locals, Local, HasChunk, AllocDone, Goto
    <3> QED
      BY <2>2, <3>1, SMTT(30) DEF IInv, TypeOK, AllocDone, Return, Valid
  <2>3. ASSUME GlobalDone(t) PROVE P
    <3>1. chunk[t] \in Chunks
      BY <2>3, AtChunks DEF IInv, Locals, Local, HasChunk, GlobalDone, Goto
    <3> QED
      BY <2>3, <3>1, SMTT(30) DEF IInv, TypeOK, GlobalDone, Return, Valid
  <2>4. ASSUME FreeCall(t) PROVE P
    BY <2>4, SMTT(30) DEF IInv, TypeOK, FreeCall
  <2>5. ASSUME QuietStep(t) PROVE P
    BY <2>5, QuietSteps DEF IInv, Quiet, env
  <2>6. ASSUME \/ AllocPop(t) \/ GlobalPop(t) \/ ExtentMap(t) \/ ExtentPush(t)
               \/ FreePush(t) \/ FreeGlobalPush(t) \/ PurgeDrain(t) \/ PurgePush(t)
        PROVE  P
    BY <2>6 DEF env, AllocPop, GlobalPop, ExtentMap, ExtentPush, FreePush, FreeGlobalPush,
       PurgeDrain, PurgePush
  <2> QED
    BY <2>1, <2>2, <2>3, <2>4, <2>5, <2>6 DEF Call, Step, QuietStep
<1> QED
  BY <1>1, Invariant, PTL DEF Spec, HandedOutStamped

\* The VMM implements ChunkPool: whatever threads allocate, free and purge
\* concurrently, a chunk is handed out only when mapped and held by nobody.
THEOREM Refinement == Spec => ImplementsChunkPool
<1>1. Init => CP!Init
  BY DEF Init, CP!Init
<1>2. IInv /\ [Next]_vars => [CP!Next]_(CP!vars)
  <2>1. ASSUME UNCHANGED vars PROVE [CP!Next]_(CP!vars)
    BY <2>1 DEF vars, env, CP!vars
  <2>2. ASSUME IInv, Next PROVE [CP!Next]_(CP!vars)
    <3>1. PICK t \in Threads : Call(t) \/ Step(t)
      BY <2>2 DEF Next
    <3>2. ASSUME AllocDone(t) \/ GlobalDone(t) PROVE CP!Next
      <4>1. chunk[t] \in At("flight", t)
        BY <2>2, <3>2 DEF IInv, Locals, Local, HasChunk, AllocDone, GlobalDone, Goto
      <4>2. chunk[t] \in Chunks /\ chunk[t] \notin At("os", NULL)
        BY <4>1, SMTT(30) DEF At
      <4>3. \A u \in Threads : chunk[t] \notin At("held", u)
        BY <4>1, SMTT(30) DEF At
      <4>4. chunk[t] \in mapped /\ \A u \in Threads : chunk[t] \notin held[u]
        BY <2>2, <4>2, <4>3 DEF IInv, Mapped, Locals, Local
      <4>5. held' = [held EXCEPT ![t] = @ \cup {chunk[t]}] /\ UNCHANGED mapped
        BY <3>2 DEF AllocDone, GlobalDone, Return
      <4>6. CP!Alloc(t, chunk[t])
        BY <4>4, <4>5 DEF CP!Alloc
      <4> QED
        BY <4>2, <4>6 DEF CP!Next
    <3>3. ASSUME FreeCall(t) PROVE CP!Next
      <4>1. PICK c \in held[t] : /\ held' = [held EXCEPT ![t] = @ \ {c}]
                                 /\ UNCHANGED mapped
        BY <3>3 DEF FreeCall
      <4>2. c \in Chunks /\ CP!Free(t, c)
        BY <2>2, <4>1 DEF IInv, TypeOK, CP!Free
      <4> QED
        BY <4>2 DEF CP!Next
    <3>4. ASSUME ExtentMap(t) PROVE CP!Next
      <4>1. PICK b \in Chunks :
              /\ b..(b + LZ_EXTENT_CHUNKS - 1) \subseteq Chunks \ mapped
              /\ mapped' = mapped \cup (b..(b + LZ_EXTENT_CHUNKS - 1))
        BY <3>4 DEF ExtentMap
      <4>2. UNCHANGED held
        BY <3>4 DEF ExtentMap
      <4>3. PICK S \in SUBSET Chunks : S \cap mapped = {} /\ mapped' = mapped \cup S
        BY <4>1
      <4> QED
        BY <4>2, <4>3 DEF CP!Next, CP!Map
    <3>5. ASSUME QuietStep(t) PROVE UNCHANGED CP!vars
      BY <2>2, <3>5, QuietSteps DEF IInv, Quiet, env, CP!vars
    <3>6. ASSUME \/ AllocPop(t) \/ GlobalPop(t) \/ ExtentPush(t) \/ FreePush(t)
                 \/ FreeGlobalPush(t) \/ PurgeDrain(t) \/ PurgePush(t)
          PROVE  UNCHANGED CP!vars
      BY <3>6 DEF env, AllocPop, GlobalPop, ExtentPush, FreePush, FreeGlobalPush, PurgeDrain,
         PurgePush, CP!vars
    <3> QED
      BY <3>1, <3>2, <3>3, <3>4, <3>5, <3>6 DEF Call, Step, QuietStep
  <2> QED
    BY <2>1, <2>2
<1> QED
  BY <1>1, <1>2, Invariant, PTL DEF Spec, ImplementsChunkPool, CP!Spec

\* Each node's free list holds exactly the chunks cached there, once each and in
\* one chain from free_chunks to NULL, and available_count is their number,
\* whatever allocations, frees and purges of several threads interleave.
THEOREM CachesAreExact == Spec => []CachesExact
<1>1. IInv => CachesExact
  BY DEF IInv, Intact, Caches, Cache, CachesExact
<1> QED
  BY <1>1, Invariant, PTL
============================================================================
