-------------------------------- MODULE Tlh --------------------------------
(***************************************************************************)
(* The thread-local heaps (tlh/tlh.c) over their slabs (engines/slab.c):   *)
(* allocation from the free list, the bump cursor, the partial list or a   *)
(* new slab; local frees; remote frees, batched and pushed onto the        *)
(* owner's lock-free mailbox; and the owner's reaping of that mailbox.     *)
(*                                                                         *)
(* A heap is private to its thread but for its mailbox, so a step is what  *)
(* a thread does between two accesses to a mailbox, and one node of a      *)
(* reap.  The VMM is what ChunkPool promises: any chunk nobody holds, or   *)
(* NULL.  Telemetry is off (stat_slot is NULL).                            *)
(***************************************************************************)
EXTENDS Slabs, Lists

CONSTANT LZ_BATCH_MAX_SIZE

ASSUME TlhAssumption == LZ_BATCH_MAX_SIZE \in Nat \ {0}

VARIABLES
  slab,                 \* chunk header and lz_slab_t of each chunk
  bins,                 \* bins[t][k]: lz_bin_t
  rtree,                \* chunks taken from the VMM and registered
  link,                 \* the word of a block that a free list runs through
  remote_free_head,     \* each heap's mailbox
  batch,                \* each heap's outgoing_batch
  pc, sc_idx, head,     \* locals: the class wanted, the rest of the reap list,
  old_head, node,       \*   the flush's expected value, the node to enqueue
  place,                \* auxiliary: where each block is
  given                 \* auxiliary: how often it was handed out and not freed

heap   == <<slab, bins, rtree>>
locals == <<pc, sc_idx, head, old_head, node>>
vars   == <<heap, link, remote_free_head, batch, locals, place, given>>

EmptyBatch == [target_tlh |-> NULL, head |-> NULL, tail |-> NULL, count |-> 0]

\* lz_tlh_init of every heap; no chunk has been formatted yet.
Init ==
  /\ slab = [c \in Chunks |->
       [owning_tlh |-> NULL, checksum |-> NULL, next |-> NULL, prev |-> NULL,
        bump_ptr |-> 0, free_list_head |-> NULL, size_class |-> NULL,
        used_objects |-> 0]]
  /\ bins = [t \in Threads |-> [k \in Classes |->
       [current_slab |-> NULL, partial_list |-> NULL, full_list |-> NULL]]]
  /\ rtree = {}
  /\ link = [b \in Blocks |-> [ptr |-> WILD, masked |-> FALSE]]
  /\ remote_free_head = [t \in Threads |-> NULL]
  /\ batch = [t \in Threads |-> EmptyBatch]
  /\ pc = [t \in Threads |-> "idle"]
  /\ sc_idx = [t \in Threads |-> NULL]
  /\ head = [t \in Threads |-> NULL]
  /\ old_head = [t \in Threads |-> NULL]
  /\ node = [t \in Threads |-> NULL]
  /\ place = [b \in Blocks |-> <<"raw", NULL>>]
  /\ given = [b \in Blocks |-> 0]

----------------------------------------------------------------------------
\* What one heap sees of the slabs.
View(t) == [slab |-> slab, bin |-> bins[t], gone |-> {}]

\* The blocks of destroyed slabs that were free are memory of the VMM again.
ReturnBlock(t, b) ==
  LET v == FreeToSlab(View(t), b)
  IN  /\ slab' = v.slab
      /\ bins' = [bins EXCEPT ![t] = v.bin]
      /\ rtree' = rtree \ v.gone
      /\ place' = [x \in Blocks |->
                     IF x # b /\ place[x] # <<"free", NULL>> THEN place[x]
                     ELSE IF x[1] \in v.gone THEN <<"raw", NULL>>
                     ELSE IF x = b THEN <<"free", NULL>> ELSE place[x]]
      /\ link' = [link EXCEPT ![b] = Obfuscate(slab[b[1]].free_list_head)]

----------------------------------------------------------------------------
(* lz_tlh_alloc and lz_tlh_alloc_slow.                                     *)

\* The slab of c gives out block b; the caller may write to it at once.
HandOut(t, v, b) ==
  /\ slab' = [v.slab EXCEPT ![b[1]].used_objects = @ + 1]
  /\ bins' = [bins EXCEPT ![t] = v.bin]
  /\ link' = [link EXCEPT ![b] = Clear(WILD)]
  /\ place' = [place EXCEPT ![b] = <<"live", NULL>>]
  /\ given' = [given EXCEPT ![b] = @ + 1]
  /\ pc' = [pc EXCEPT ![t] = "idle"]
  /\ sc_idx' = [sc_idx EXCEPT ![t] = NULL]
  /\ UNCHANGED <<remote_free_head, batch, head, old_head, node>>

\* Mutation: the head of the free list is not advanced.
PopKeepsHead(t, v, c) ==
  /\ HandOut(t, v, v.slab[c].free_list_head)
  /\ UNCHANGED rtree

\* The head of c's free list is given out.
PopFreeList(t, v, c) ==
  LET b == v.slab[c].free_list_head
  IN  /\ HandOut(t, [v EXCEPT !.slab[c].free_list_head = Deobfuscate(link[b])], b)
      /\ UNCHANGED rtree

\* The block at c's bump cursor is given out.
Bump(t, v, c) ==
  HandOut(t, [v EXCEPT !.slab[c].bump_ptr = @ + 1], <<c, v.slab[c].bump_ptr>>)

HasFree(c) == c # NULL /\ slab[c].free_list_head # NULL
CanBump(c) == c # NULL /\ slab[c].bump_ptr \in 1..max_objects(slab[c])

AllocFast(t, k) ==
  /\ pc[t] = "idle"
  /\ HasFree(bins[t][k].current_slab)
  /\ PopFreeList(t, View(t), bins[t][k].current_slab)

\* The rest of the list to reap is h.  Past its end lzmalloc_gc returns, and an
\* allocation, of class k, reads its bin again.
ReapFrom(t, h, k) ==
  /\ head' = [head EXCEPT ![t] = h]
  /\ pc' = [pc EXCEPT ![t] = IF h # NULL THEN "reap" ELSE IF k = NULL THEN "idle" ELSE "retry"]

\* lz_tlh_reap(t) begins: the mailbox is exchanged for NULL.
Exchange(t, k) ==
  /\ ReapFrom(t, remote_free_head[t], k)
  /\ sc_idx' = [sc_idx EXCEPT ![t] = k]
  /\ remote_free_head' = [remote_free_head EXCEPT ![t] = NULL]
  /\ place' = [b \in Blocks |-> IF place[b] = <<"mail", t>> THEN <<"reap", t>> ELSE place[b]]
  /\ UNCHANGED <<heap, link, batch, old_head, node, given>>

AllocMiss(t, k) ==
  /\ pc[t] = "idle"
  /\ ~HasFree(bins[t][k].current_slab)
  /\ Exchange(t, k)

\* The first step of lzmalloc_gc.
GcCall(t) == pc[t] = "idle" /\ Exchange(t, NULL)

\* Mutation: the block's link is read after it has been pushed on a free list.
ReapNodeLateRead(t) ==
  /\ pc[t] = "reap"
  /\ ReturnBlock(t, head[t])
  /\ ReapFrom(t, ReadClear(Obfuscate(slab[head[t][1]].free_list_head)), sc_idx[t])
  /\ UNCHANGED <<remote_free_head, batch, sc_idx, old_head, node, given>>

\* Mutation: only the first node of the mailbox is taken back.
ReapNodeOnlyFirst(t) ==
  /\ pc[t] = "reap"
  /\ ReturnBlock(t, head[t])
  /\ ReapFrom(t, NULL, sc_idx[t])
  /\ UNCHANGED <<remote_free_head, batch, sc_idx, old_head, node, given>>

ReapNode(t) ==
  /\ pc[t] = "reap"
  /\ ReturnBlock(t, head[t])
  /\ ReapFrom(t, ReadClear(link[head[t]]), sc_idx[t])
  /\ UNCHANGED <<remote_free_head, batch, sc_idx, old_head, node, given>>

\* After the reap the bin is read again.
AllocFreeList(t) ==
  /\ pc[t] = "retry"
  /\ HasFree(bins[t][sc_idx[t]].current_slab)
  /\ PopFreeList(t, View(t), bins[t][sc_idx[t]].current_slab)

AllocBump(t) ==
  LET c == bins[t][sc_idx[t]].current_slab
  IN  /\ pc[t] = "retry"
      /\ ~HasFree(c) /\ CanBump(c)
      /\ Bump(t, View(t), c)
      /\ UNCHANGED rtree

\* The current slab is exhausted, and its cursor is NULL from now on.
Exhausted(t) ==
  /\ pc[t] = "retry"
  /\ LET c == bins[t][sc_idx[t]].current_slab IN ~HasFree(c) /\ ~CanBump(c)

ExhaustedView(t) ==
  LET c == bins[t][sc_idx[t]].current_slab
  IN  IF c = NULL THEN View(t) ELSE [View(t) EXCEPT !.slab[c].bump_ptr = 0]

AllocPartial(t) ==
  LET k == sc_idx[t]
      v == PushFront(ExhaustedView(t), k, "full_list", bins[t][k].current_slab)
  IN  /\ Exhausted(t)
      /\ bins[t][k].partial_list # NULL
      /\ PopFreeList(t, PromotePartial(v, k), bins[t][k].partial_list)

AllocNewSlab(t) ==
  \E c \in Chunks \ rtree :
    LET k == sc_idx[t]
        v == PushFront(lz_slab_create(ExhaustedView(t), t, k, c), k, "full_list",
                       bins[t][k].current_slab)
    IN  /\ Exhausted(t)
        /\ bins[t][k].partial_list = NULL
        /\ Bump(t, SetList(v, k, "current_slab", c), c)
        /\ rtree' = rtree \cup {c}

\* The VMM has no chunk: NULL is returned.
AllocFails(t) ==
  /\ Exhausted(t)
  /\ bins[t][sc_idx[t]].partial_list = NULL
  /\ slab' = ExhaustedView(t).slab
  /\ pc' = [pc EXCEPT ![t] = "idle"]
  /\ sc_idx' = [sc_idx EXCEPT ![t] = NULL]
  /\ UNCHANGED <<bins, rtree, link, remote_free_head, batch, head, old_head, node, place,
                 given>>

----------------------------------------------------------------------------
(* lz_tlh_free, by any thread, of a block the program holds.               *)

Freeable(t, b) == pc[t] = "idle" /\ place[b] = <<"live", NULL>>

Freed(b) == given' = [given EXCEPT ![b] = @ - 1]

FreeLocal(t, b) ==
  /\ Freeable(t, b)
  /\ Freed(b)
  /\ slab[b[1]].owning_tlh = t
  /\ ReturnBlock(t, b)
  /\ UNCHANGED <<remote_free_head, batch, locals>>

\* Mutation: the tail is set on every node.
EnqueueMovesTail(bt, owner, b) ==
  [target_tlh |-> owner, head |-> b, tail |-> b, count |-> bt.count + 1]

\* The batch with node b added in front.
Enqueue(bt, owner, b) ==
  [target_tlh |-> owner, head |-> b, tail |-> IF bt.count = 0 THEN b ELSE bt.tail,
   count |-> bt.count + 1]

\* Mutation: a batch for another owner is not flushed first.
MustFlushOnlyFull(bt, owner) == bt.count >= LZ_BATCH_MAX_SIZE

\* The batch holds nodes and cannot take one more for this owner.
MustFlush(bt, owner) ==
  /\ bt.target_tlh # owner \/ bt.count >= LZ_BATCH_MAX_SIZE
  /\ bt.count # 0 /\ bt.target_tlh # NULL

FreeRemote(t, b) ==
  LET owner == slab[b[1]].owning_tlh
  IN  /\ Freeable(t, b)
      /\ Freed(b)
      /\ owner # t /\ ~MustFlush(batch[t], owner)
      /\ link' = [link EXCEPT ![b] = Clear(batch[t].head)]
      /\ batch' = [batch EXCEPT ![t] = Enqueue(@, owner, b)]
      /\ place' = [place EXCEPT ![b] = <<"batch", t>>]
      /\ UNCHANGED <<heap, remote_free_head, locals>>

\* lz_tlh_flush_outgoing_batch begins: the target's mailbox is read.
LoadHead(t) ==
  /\ pc' = [pc EXCEPT ![t] = "flush"]
  /\ old_head' = [old_head EXCEPT ![t] = remote_free_head[batch[t].target_tlh]]
  /\ UNCHANGED <<heap, remote_free_head, batch, sc_idx, head>>

FreeRemoteFlush(t, b) ==
  LET owner == slab[b[1]].owning_tlh
  IN  /\ Freeable(t, b)
      /\ Freed(b)
      /\ owner # t /\ MustFlush(batch[t], owner)
      /\ link' = [link EXCEPT ![b] = Clear(NULL)]
      /\ node' = [node EXCEPT ![t] = b]
      /\ place' = [place EXCEPT ![b] = <<"node", t>>]
      /\ LoadHead(t)

\* The flush of a thread that exits; its heap is then adopted by another.
FlushCall(t) ==
  /\ pc[t] = "idle" /\ batch[t].count # 0
  /\ LoadHead(t)
  /\ UNCHANGED <<link, node, place, given>>

\* Mutation: the mailbox is overwritten instead of compared and swapped.
FlushSwapUnchecked(t) ==
  LET bt == batch[t]
      b  == node[t]
  IN  /\ pc[t] = "flush"
      /\ remote_free_head' = [remote_free_head EXCEPT ![bt.target_tlh] = bt.head]
      /\ link' = [link EXCEPT ![bt.tail] = Clear(old_head[t])]
      /\ place' = [x \in Blocks |-> IF place[x] = <<"batch", t>> THEN <<"mail", bt.target_tlh>>
                                    ELSE IF x = b THEN <<"batch", t>> ELSE place[x]]
      /\ batch' = [batch EXCEPT ![t] =
                     IF b = NULL THEN EmptyBatch
                     ELSE Enqueue(EmptyBatch, slab[b[1]].owning_tlh, b)]
      /\ pc' = [pc EXCEPT ![t] = "idle"]
      /\ old_head' = [old_head EXCEPT ![t] = NULL]
      /\ node' = [node EXCEPT ![t] = NULL]
      /\ UNCHANGED <<heap, sc_idx, head, given>>

\* The swap succeeds: the batch is in the target's mailbox, and the node whose
\* free caused the flush opens the next batch.
FlushSwap(t) ==
  LET bt == batch[t]
      b  == node[t]
  IN  /\ pc[t] = "flush"
      /\ remote_free_head[bt.target_tlh] = old_head[t]
      /\ remote_free_head' = [remote_free_head EXCEPT ![bt.target_tlh] = bt.head]
      /\ link' = [link EXCEPT ![bt.tail] = Clear(old_head[t])]
      /\ place' = [x \in Blocks |-> IF place[x] = <<"batch", t>> THEN <<"mail", bt.target_tlh>>
                                    ELSE IF x = b THEN <<"batch", t>> ELSE place[x]]
      /\ batch' = [batch EXCEPT ![t] =
                     IF b = NULL THEN EmptyBatch
                     ELSE Enqueue(EmptyBatch, slab[b[1]].owning_tlh, b)]
      /\ pc' = [pc EXCEPT ![t] = "idle"]
      /\ old_head' = [old_head EXCEPT ![t] = NULL]
      /\ node' = [node EXCEPT ![t] = NULL]
      /\ UNCHANGED <<heap, sc_idx, head, given>>

\* Mutation: a failed swap does not reload the expected value.
FlushRetryNoReload(t) ==
  /\ pc[t] = "flush"
  /\ remote_free_head[batch[t].target_tlh] # old_head[t]
  /\ link' = [link EXCEPT ![batch[t].tail] = Clear(old_head[t])]
  /\ UNCHANGED <<heap, remote_free_head, batch, locals, place, given>>

\* The swap fails: the tail has been linked to a stale head and will be again.
FlushRetry(t) ==
  /\ pc[t] = "flush"
  /\ remote_free_head[batch[t].target_tlh] # old_head[t]
  /\ link' = [link EXCEPT ![batch[t].tail] = Clear(old_head[t])]
  /\ old_head' = [old_head EXCEPT ![t] = remote_free_head[batch[t].target_tlh]]
  /\ UNCHANGED <<heap, remote_free_head, batch, pc, sc_idx, head, node, place, given>>

----------------------------------------------------------------------------
Call(t) ==
  \/ \E k \in Classes : AllocFast(t, k) \/ AllocMiss(t, k)
  \/ \E b \in Blocks : FreeLocal(t, b) \/ FreeRemote(t, b) \/ FreeRemoteFlush(t, b)
  \/ GcCall(t) \/ FlushCall(t)

Step(t) ==
  \/ ReapNode(t)
  \/ AllocFreeList(t) \/ AllocBump(t) \/ AllocPartial(t) \/ AllocNewSlab(t) \/ AllocFails(t)
  \/ FlushSwap(t) \/ FlushRetry(t)

Next == \E t \in Threads : Call(t) \/ Step(t)

Spec == Init /\ [][Next]_vars

\* A thread inside a call keeps being scheduled.
FairSpec == Spec /\ \A t \in Threads : WF_vars(Step(t))

----------------------------------------------------------------------------
At(where, who) == {b \in Blocks : place[b] = <<where, who>>}

Places == ({"raw", "live", "free"} \X {NULL}) \cup ({"batch", "mail", "reap", "node"} \X Threads)

\* Type correctness.  No list head is ever WILD: no link is read in the wrong
\* encoding, nor after the program has written over it.
TypeOK ==
  /\ slab \in [Chunks -> SlabType]
  /\ bins \in [Threads -> [Classes -> BinType]]
  /\ rtree \in SUBSET Chunks
  /\ link \in [Blocks -> [ptr : OptBlocks \cup {WILD}, masked : BOOLEAN]]
  /\ remote_free_head \in [Threads -> OptBlocks]
  /\ batch \in [Threads -> [target_tlh : Threads \cup {NULL}, head : OptBlocks,
                            tail : OptBlocks, count : 0..LZ_BATCH_MAX_SIZE]]
  /\ pc \in [Threads -> {"idle", "reap", "retry", "flush"}]
  /\ sc_idx \in [Threads -> Classes \cup {NULL}]
  /\ head \in [Threads -> OptBlocks]
  /\ old_head \in [Threads -> OptBlocks]
  /\ node \in [Threads -> OptBlocks]
  /\ place \in [Blocks -> Places]
  /\ given \in [Blocks -> Int]

\* Blocks of c that have been carved off by the bump cursor.
Carved(c) == {b \in BlocksOf(c) : b[2] \in 1..max_objects(slab[c])
                                  /\ (slab[c].bump_ptr = 0 \/ b[2] < slab[c].bump_ptr)}

FreeBlocks(c) == At("free", NULL) \cap BlocksOf(c)

\* What a block's link leads to, for a reader of either encoding.
NextFree  == [b \in Blocks |-> Deobfuscate(link[b])]
NextClear == [b \in Blocks |-> ReadClear(link[b])]

(* Every list a freed block can be on is intact: a slab's free list, a     *)
(* mailbox, a batch (with its tail and count) and a list being reaped hold *)
(* exactly the blocks put there, once each, whatever pushes, swaps, failed *)
(* swaps and reaps interleave.  A batch in a flush ends at its tail, whose *)
(* link is the last head the flush saw.                                    *)
BlockListsExact ==
  /\ \A c \in rtree : ListOf(slab[c].free_list_head, NextFree, FreeBlocks(c), NULL)
  /\ \A t \in Threads :
       /\ ListOf(remote_free_head[t], NextClear, At("mail", t), NULL)
       /\ ListOf(head[t], NextClear, At("reap", t), NULL)
       /\ LET B    == At("batch", t)
              last == NextClear[batch[t].tail]
          IN  /\ Numbered(B, batch[t].count)
              /\ B # {} => batch[t].tail \in B /\ ListOf(batch[t].head, NextClear, B, last)
              /\ pc[t] # "flush" /\ B # {} => last = NULL
       /\ At("node", t) = IF node[t] = NULL THEN {} ELSE {node[t]}

(* used_objects counts a slab's blocks that are neither free nor uncarved: *)
(* those in the program's hands and those on their way back through a      *)
(* batch or a mailbox.  A slab is destroyed at zero, so a count that       *)
(* drifts would unmap live blocks or keep empty slabs for ever.            *)
UsedObjectsExact ==
  \A c \in rtree : Numbered(Carved(c) \ At("free", NULL), slab[c].used_objects)

Mine(t, k) == {c \in rtree : slab[c].owning_tlh = t /\ slab[c].size_class = k}

NextSlab == [c \in Chunks |-> slab[c].next]
PrevSlab == [c \in Chunks |-> slab[c].prev]

(* "Slabs with at least one free slot" and "Exhausted Slabs (Zero free     *)
(* slots)" (tlh.h): besides the current one, each slab of a bin is on      *)
(* exactly one of the two doubly linked lists, the one its count says, and *)
(* no empty slab is kept on either.  No slab is lost.                      *)
SlabListsExact ==
  \A t \in Threads, k \in Classes :
    LET bin  == bins[t][k]
        rest == Mine(t, k) \ {bin.current_slab}
        full == {c \in rest : slab[c].used_objects = MaxObjects[k]}
    IN  /\ bin.current_slab # NULL => bin.current_slab \in Mine(t, k)
        /\ DoublyListOf(bin.full_list, NextSlab, PrevSlab, full, NULL)
        /\ DoublyListOf(bin.partial_list, NextSlab, PrevSlab, rest \ full, NULL)
        /\ \A c \in rest \ full : slab[c].used_objects > 0 /\ slab[c].free_list_head # NULL

(* A block in the program's hands or on its way back lies in a slab that   *)
(* still exists, and travels to the heap that owns it: reaping, a heap     *)
(* only touches slabs of its own.                                          *)
BlocksBacked ==
  \A b \in Blocks : place[b][1] \notin {"raw", "free"} =>
    /\ b[1] \in rtree /\ b \in Carved(b[1])
    /\ LET owner == slab[b[1]].owning_tlh
           t     == place[b][2]
       IN  /\ place[b][1] = "batch" => owner = batch[t].target_tlh /\ owner # t
           /\ place[b][1] \in {"mail", "reap"} => owner = t

\* Every block that has been handed out and not freed, and how often.
Live == {<<b, slab[b[1]].size_class, given[b]>> : b \in {x \in Blocks : given[x] # 0}}
Pending == {b \in Blocks : place[b][1] \in {"batch", "mail", "reap", "node"}}
BH == INSTANCE BlockHeap WITH live <- Live, pending <- Pending

(* Together the heaps implement BlockHeap: no block is handed out while    *)
(* the program holds it (a second hand-out would show in `given`) or a     *)
(* remote free of it is under way, and no slab is reformatted for another  *)
(* class under a live block.                                               *)
ImplementsBlockHeap == BH!Spec

(* When threads stop making new calls, every call returns: the reap loop   *)
(* ends and a flush's compare-and-swap loop cannot fail for ever.          *)
CallsReturn ==
  <>[][\A t \in Threads : pc[t] = "idle" => pc'[t] = "idle"]_vars
    => <>[](\A t \in Threads : pc[t] = "idle")

(* A block in a mailbox comes back to its slab, provided its owner keeps   *)
(* collecting (by allocation misses or lzmalloc_gc), however many other    *)
(* threads keep pushing.                                                   *)
RemoteFreesReturn ==
  \A t \in Threads :
    []<><<pc[t] = "idle" /\ pc'[t] = "reap">>_vars =>
      \A b \in Blocks : place[b] = <<"mail", t>> ~> place[b][1] \in {"free", "raw"}
============================================================================
