------------------------------ MODULE Registry ------------------------------
(***************************************************************************)
(* How chunks and large objects come into the radix tree and leave it: the *)
(* slab and span engines register a chunk of the VMM when they format it   *)
(* and clear it before they give it back; lz_malloc and lz_memalign map a  *)
(* large object and register each of its 2MB blocks; lz_free finds the     *)
(* owner of a pointer in the tree, and clears a large object's blocks      *)
(* before it unmaps them.  The tree's own steps are those of Rtree.  The   *)
(* VMM is what ChunkPool promises; a chunk is given back by the free of    *)
(* its last block or run, which stands for all of them here.               *)
(***************************************************************************)
EXTENDS Rtree

CONSTANT MaxBlocks       \* bound: the 2MB blocks of the largest object

ASSUME RegistryAssumption ==
  /\ MaxBlocks \in Nat \ {0}
  /\ NULL \notin [direct : BOOLEAN, total : Nat]

VARIABLES
  use,       \* per block: "os", "pool" (mapped, idle in the VMM) or "held"
  header,    \* lz_chunk_header_t at the start of a block: [direct, total], or NULL
  job,       \* per thread, the engine or API call around its tree operation
  objects    \* [base, total, ptr]: what the program holds, ptr the pointer's block

vars == <<treeVars, use, header, job, objects>>

NoObject == [base |-> 0, total |-> 0, ptr |-> 0]
NoJob    == [kind |-> "none", obj |-> NoObject, k |-> 0]

Extent(o) == o.base..(o.base + o.total - 1)

Init ==
  /\ lz_rtree_init
  /\ use = [b \in Blocks |-> "os"]
  /\ header = [b \in Blocks |-> NULL]
  /\ job = [t \in Threads |-> NoJob]
  /\ objects = {}

----------------------------------------------------------------------------
Work(t, kind, o, k) == job' = [job EXCEPT ![t] = [kind |-> kind, obj |-> o, k |-> k]]
Call(t, tree_op)    == op' = [op EXCEPT ![t] = tree_op]
Finish(t)           == job' = [job EXCEPT ![t] = NoJob] /\ Call(t, Idle)

\* Thread t owns o's blocks, writes its header and registers the first block.
Format(t, o, direct) ==
  /\ use' = [b \in Blocks |-> IF b \in Extent(o) THEN "held" ELSE use[b]]
  /\ header' = [header EXCEPT ![o.base] = [direct |-> direct, total |-> o.total]]
  /\ missed' = missed \ Extent(o)
  /\ Work(t, "register", o, 0)
  /\ Call(t, Set(o.base, o.base))
  /\ UNCHANGED <<leaves, entries, mapped, objects>>

\* lz_slab_create, lz_span_alloc: a chunk from the VMM's caches or a new extent.
CreateChunk(t) ==
  /\ job[t].kind = "none"
  /\ \E b \in Blocks : /\ use[b] # "held"
                       /\ Format(t, [base |-> b, total |-> 1, ptr |-> b], FALSE)

\* The large path of lz_malloc and lz_memalign; an alignment of 2MB or more
\* puts the pointer into a later block.
MapDirect(t) ==
  /\ job[t].kind = "none"
  /\ \E o \in [base : Blocks, total : 1..MaxBlocks, ptr : Blocks] :
       /\ Extent(o) \subseteq Blocks /\ o.ptr \in Extent(o)
       /\ \A b \in Extent(o) : use[b] = "os"
       /\ Format(t, o, TRUE)

\* The VMM or the OS has no memory: the caller gets NULL.
Refused(t) == job[t].kind = "none" /\ UNCHANGED vars

Value(t) == IF job[t].kind = "register" THEN job[t].obj.base ELSE NULL

\* Mutation: the loop over an object's blocks stops one short.
MoreBlocksShort(t) == job[t].k + 2 < job[t].obj.total

\* Mutation: the loop runs once too often.
MoreBlocksOver(t) == job[t].k < job[t].obj.total

\* offset < total_bytes, after the increment
MoreBlocks(t) == job[t].k + 1 < job[t].obj.total

\* lz_rtree_set has returned: the loop over the object's blocks goes on, or ends.
NextBlock(t) ==
  /\ At(t, "ret") /\ job[t].kind \in {"register", "clear"}
  /\ IF MoreBlocks(t)
     THEN /\ Work(t, job[t].kind, job[t].obj, job[t].k + 1)
          /\ Call(t, Set(op[t].block + 1, Value(t)))
          /\ UNCHANGED objects
     ELSE IF job[t].kind = "register"
     THEN objects' = objects \cup {job[t].obj} /\ Finish(t)
     ELSE Work(t, "release", job[t].obj, job[t].k) /\ Call(t, Idle) /\ UNCHANGED objects
  /\ UNCHANGED <<leaves, entries, mapped, missed, use, header>>

----------------------------------------------------------------------------
\* The program passes a pointer it holds to lz_free, which looks it up.
FreeCall(t) ==
  /\ job[t].kind = "none"
  /\ \E o \in objects : /\ objects' = objects \ {o}
                        /\ Work(t, "lookup", o, 0)
                        /\ Call(t, Get(o.ptr))
  /\ UNCHANGED <<leaves, entries, mapped, missed, use, header>>

\* No chunk: one more lookup, of the chunk boundary below the pointer (the same
\* block), then lz_free returns without having freed anything.
FreeMiss(t) ==
  /\ At(t, "ret") /\ job[t].kind = "lookup" /\ op[t].value = NULL
  /\ IF job[t].k = 0
     THEN Work(t, "lookup", job[t].obj, 1) /\ Call(t, Get(op[t].block))
     ELSE Finish(t)
  /\ UNCHANGED <<leaves, entries, mapped, missed, use, header, objects>>

\* Mutation: the chunk is given back first and unregistered afterwards
\* (lz_slab_destroy with its last two statements exchanged).
GiveBackFirst(t, chunk) ==
  /\ use' = [b \in Blocks |-> IF b \notin Extent([base |-> chunk, total |-> header[chunk].total])
                              THEN use[b] ELSE IF header[chunk].direct THEN "os" ELSE "pool"]
  /\ UNCHANGED header

\* Nothing is given back before the tree has forgotten it.
BeforeClear(t, chunk) == UNCHANGED <<use, header>>

\* The chunk's blocks are cleared: all those the header counts for a large
\* object, the one block for a chunk (lz_slab_destroy, lz_span_free_local).  A
\* header without its magic number ends the call.
FreeFound(t) ==
  LET chunk == op[t].value
      h     == header[chunk]
  IN  /\ At(t, "ret") /\ job[t].kind = "lookup" /\ chunk # NULL
      /\ IF h = NULL
         THEN Finish(t) /\ UNCHANGED <<use, header>>
         ELSE /\ Work(t, "clear", [base |-> chunk, total |-> h.total, ptr |-> chunk], 0)
              /\ Call(t, Set(chunk, NULL))
              /\ BeforeClear(t, chunk)
      /\ UNCHANGED <<leaves, entries, mapped, missed, objects>>

\* munmap of a large object, or lz_vmm_free_chunk of a chunk.
GiveBack(t) ==
  LET o == job[t].obj
      d == header[o.base] # NULL /\ header[o.base].direct
  IN  /\ job[t].kind = "release"
      /\ use' = [b \in Blocks |-> IF b \notin Extent(o) THEN use[b]
                                  ELSE IF d THEN "os" ELSE "pool"]
      /\ header' = [header EXCEPT ![o.base] = IF d THEN NULL ELSE @]
      /\ Finish(t)
      /\ UNCHANGED <<leaves, entries, mapped, missed, objects>>

Next == \E t \in Threads :
  \/ /\ TreeStep(t)
     /\ UNCHANGED <<use, header, job, objects>>
  \/ CreateChunk(t) \/ MapDirect(t) \/ Refused(t) \/ NextBlock(t)
  \/ FreeCall(t) \/ FreeMiss(t) \/ FreeFound(t) \/ GiveBack(t)

Spec == Init /\ [][Next]_vars

----------------------------------------------------------------------------
\* Type correctness of the tree and of the calls around it.
TypeOK ==
  /\ TreeTypeOK
  /\ use \in [Blocks -> {"os", "pool", "held"}]
  /\ header \in [Blocks -> [direct : BOOLEAN, total : 1..MaxBlocks] \cup {NULL}]
  /\ \A t \in Threads :
       /\ job[t].kind \in {"none", "register", "lookup", "clear", "release"}
       /\ job[t].k \in 0..MaxBlocks
  /\ objects \subseteq [base : Blocks, total : 1..MaxBlocks, ptr : Blocks]

\* Objects whose pointer is with the program or with a lookup of lz_free.
Allocated == objects \cup {job[t].obj : t \in {u \in Threads : job[u].kind = "lookup"}}

(* Every block of an allocated object resolves to the object's header, so  *)
(* that lz_free finds what it is given, unless the block's registration    *)
(* was dropped because no leaf could be mapped; whatever other threads     *)
(* register, clear or install in the same leaf meanwhile.                  *)
AllocatedFound == \A o \in Allocated : \A b \in Extent(o) \ missed : Lookup(b) = o.base

(* "lz_rtree_clear" comes before the memory is given back: a block the     *)
(* process does not use resolves to nothing, so a pointer into memory that *)
(* is unmapped, or idle in the VMM, never resolves to a header there.      *)
NothingStale == \A b \in Blocks : use[b] # "held" => Lookup(b) = NULL

Index == INSTANCE ChunkIndex WITH index <- [b \in Blocks |-> Lookup(b)]

(* Installing a leaf, losing the race for one or failing to map one is     *)
(* invisible: seen through lookups the tree is an array of cells in which  *)
(* every lz_rtree_set changes at most its own, and no chunk replaces       *)
(* another without a clear in between.                                     *)
ImplementsChunkIndex == Index!Spec
=============================================================================
