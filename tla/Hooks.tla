------------------------------- MODULE Hooks -------------------------------
(***************************************************************************)
(* hooks/posix_hooks.c: the libc entry points.  Until the constructor has  *)
(* set g_lz_ready, requests are bumped off a static heap with a compare-   *)
(* and-swap; afterwards they go to hooks/lzmalloc.c (module Api).  Blocks  *)
(* of the static heap stay in the program's hands across that switch.      *)
(*                                                                         *)
(* `held` are the blocks the program owns.  To a block of module Api each  *)
(* adds the request it answers: `asked` bytes, on an `align` boundary,     *)
(* through the call `by`, and whether a realloc carried the old contents   *)
(* over (`intact`).  A failed request changes nothing and is no step.      *)
(***************************************************************************)
EXTENDS Api, FiniteSets, TLC

CONSTANTS
  Threads,
  LZ_BASE_HEAP_SIZE,
  g_base_heap,      \* address of the static heap
  SweptSizes,       \* sizes of malloc while the static heap is unused
  AlignedSizes,     \* sizes of memalign while the static heap is unused
  RequestSizes,     \* sizes of the other requests to lzmalloc.c
  Alignments, Counts,
  BaseSizes, BaseAlignments,
  MaxHeld           \* bound on the blocks of the static heap

LZ_ABI_ALIGNMENT == 16
BaseHeaderSize   == 16

ASSUME HooksAssumption ==
  /\ g_base_heap % LZ_ABI_ALIGNMENT = 0 /\ LZ_BASE_HEAP_SIZE \in Nat
  /\ (SweptSizes \union AlignedSizes \union RequestSizes) \subseteq 0..SIZE_MAX

VARIABLES
  g_lz_ready,
  g_base_offset,
  call,             \* a thread's call of lz_base_malloc_aligned, or NULL
  held,
  trapped           \* the static heap was exhausted: __builtin_trap

vars == <<g_lz_ready, g_base_offset, call, held, trapped>>

Init ==
  /\ g_lz_ready = FALSE
  /\ g_base_offset = 0
  /\ call = [t \in Threads |-> NULL]
  /\ held = {}
  /\ trapped = FALSE

Running(t) == ~trapped /\ call[t] = NULL

Calling == {t \in Threads : call[t] # NULL}

\* Bounds: MaxHeld blocks of the static heap.  lzmalloc.c, which shares no
\* state with it, is asked for one block when nothing is held, and for more by
\* a realloc of what is held.
MayAsk ==
  IF g_lz_ready THEN held = {} /\ Calling = {}
  ELSE Cardinality(held) + Cardinality(Calling) < MaxHeld

Handed(block, size, alignment, by) ==
  block @@ [asked |-> size, align |-> alignment, by |-> by, intact |-> TRUE]

\* The program takes a block that lzmalloc.c returned, unless it is NULL.
Take(block, size, alignment, by) ==
  /\ g_lz_ready
  /\ block # NULL
  /\ held' = held \union {Handed(block, size, alignment, by)}
  /\ UNCHANGED <<g_lz_ready, g_base_offset, call, trapped>>

----------------------------------------------------------------------------
(* The static heap.                                                        *)

\* lz_base_malloc_aligned up to its load of g_base_offset; `old` is the block
\* that realloc replaces.
BaseCall(t, alignment, size, by, old) ==
  /\ ~g_lz_ready
  /\ call' = [call EXCEPT ![t] =
       [alignment |-> IF alignment < LZ_ABI_ALIGNMENT THEN LZ_ABI_ALIGNMENT ELSE alignment,
        size |-> IF size = 0 THEN LZ_ABI_ALIGNMENT ELSE size,
        asked |-> size, by |-> by, old |-> old, current_offset |-> g_base_offset]]
  /\ held' = held \ {old}
  /\ UNCHANGED <<g_lz_ready, g_base_offset, trapped>>

Payload(c) == LZ_ALIGN_UP(g_base_heap + c.current_offset + BaseHeaderSize, c.alignment)

NextOffset(c) == Payload(c) - g_base_heap + LZ_ALIGN_UP(c.size, LZ_ABI_ALIGNMENT)

\* Mutation: the new offset is stored whatever the current one is.
SwapAlways(c) == TRUE

SwapSucceeds(c) == g_base_offset = c.current_offset

BaseBlock(c) ==
  [engine |-> "base", start |-> Payload(c), stride |-> 0,
   room |-> LZ_ALIGN_UP(c.size, LZ_ABI_ALIGNMENT), usable |-> c.size,
   zero |-> IF c.by = "calloc" THEN c.asked ELSE 0]

\* The contents of `old` fit and are copied whole: usable(old) bytes.
CarriesOver(old, new) ==
  old.asked <= old.usable /\ old.usable <= old.room /\ old.usable <= new.room

BaseRetry(t) ==
  /\ ~trapped /\ call[t] # NULL
  /\ ~SwapSucceeds(call[t])
  /\ call' = [call EXCEPT ![t].current_offset = g_base_offset]
  /\ UNCHANGED <<g_lz_ready, g_base_offset, held, trapped>>

\* The bound is tested only once the offset has been moved past it; a thread
\* that gets in before the trap finds the same end of the heap.
BaseExhausted(t) ==
  /\ ~trapped /\ call[t] # NULL
  /\ SwapSucceeds(call[t])
  /\ NextOffset(call[t]) > LZ_BASE_HEAP_SIZE
  /\ g_base_offset' = NextOffset(call[t])
  /\ trapped' = TRUE
  /\ UNCHANGED <<g_lz_ready, call, held>>

BaseReturn(t) ==
  LET c     == call[t]
      block == Handed(BaseBlock(c), c.asked, c.alignment, c.by)
  IN  /\ ~trapped /\ c # NULL
      /\ SwapSucceeds(c)
      /\ NextOffset(c) <= LZ_BASE_HEAP_SIZE
      /\ g_base_offset' = NextOffset(c)
      /\ held' = held \union
           {IF c.old = NULL THEN block ELSE [block EXCEPT !.intact = CarriesOver(c.old, block)]}
      /\ call' = [call EXCEPT ![t] = NULL]
      /\ UNCHANGED <<g_lz_ready, trapped>>

----------------------------------------------------------------------------
(* The entry points.                                                       *)

\* lz_bootstrap_system.
Bootstrap ==
  /\ ~trapped /\ ~g_lz_ready
  /\ g_lz_ready' = TRUE
  /\ UNCHANGED <<g_base_offset, call, held, trapped>>

malloc(t) ==
  /\ Running(t) /\ MayAsk
  /\ \/ \E size \in IF g_base_offset = 0 THEN SweptSizes ELSE RequestSizes :
          Take(lz_malloc(size), size, LZ_ABI_ALIGNMENT, "malloc")
     \/ \E size \in BaseSizes : BaseCall(t, LZ_ABI_ALIGNMENT, size, "malloc", NULL)

\* A product that overflows is refused.
calloc(t) ==
  /\ Running(t) /\ MayAsk
  /\ \E num \in Counts :
       \/ \E size \in RequestSizes :
            /\ num * size <= SIZE_MAX
            /\ Take(lz_calloc(num, size), num * size, LZ_ABI_ALIGNMENT, "calloc")
       \/ \E size \in BaseSizes : BaseCall(t, LZ_ABI_ALIGNMENT, num * size, "calloc", NULL)

\* An aligned request of the static heap; none of the hooks looks at what is
\* asked before it is ready.
BaseAligned(t) ==
  \E alignment \in BaseAlignments, size \in BaseSizes :
    BaseCall(t, alignment, size, "memalign", NULL)

memalign(t) ==
  /\ Running(t) /\ MayAsk
  /\ \/ BaseAligned(t)
     \/ \E alignment \in Alignments,
           size \in IF g_base_offset = 0 THEN AlignedSizes ELSE RequestSizes :
          Take(lz_memalign(alignment, size), size, alignment, "memalign")

posix_memalign(t) ==
  /\ Running(t) /\ MayAsk
  /\ \/ BaseAligned(t)
     \/ \E alignment \in Alignments, size \in RequestSizes :
          Take(lz_posix_memalign(alignment, size), size, alignment, "memalign")

aligned_alloc(t) ==
  /\ Running(t) /\ MayAsk
  /\ \/ BaseAligned(t)
     \/ \E alignment \in Alignments, size \in RequestSizes :
          Take(lz_aligned_alloc(alignment, size), size, alignment, "memalign")

\* The pvalloc of the hooks is valloc; lz_pvalloc is exported beside it.
valloc(t) ==
  /\ Running(t) /\ MayAsk
  /\ \/ \E size \in BaseSizes : BaseCall(t, LZ_PAGE_SIZE, size, "memalign", NULL)
     \/ \E size \in RequestSizes :
          \/ Take(lz_valloc(size), size, LZ_PAGE_SIZE, "memalign")
          \/ Take(lz_pvalloc(size), size, LZ_PAGE_SIZE, "memalign")

\* A block of the static heap is never reused.
free(t) ==
  /\ Running(t)
  /\ \E b \in held : held' = held \ {b}
  /\ UNCHANGED <<g_lz_ready, g_base_offset, call, trapped>>

----------------------------------------------------------------------------
malloc_usable_size(b) == IF b.engine = "base" THEN b.usable ELSE lz_malloc_usable_size(b)

\* A block that is large enough is returned as it is.
ReallocInPlace(t, b, new_size) ==
  /\ new_size <= malloc_usable_size(b)
  /\ held' = (held \ {b}) \union
           {[b EXCEPT !.asked = new_size, !.align = LZ_ABI_ALIGNMENT, !.by = "realloc"]}
  /\ UNCHANGED <<g_lz_ready, g_base_offset, call, trapped>>

\* The block moves to lzmalloc.c; a block whose size reads 0 cannot move, and
\* the old block is freed unless it is of the static heap.
ReallocMove(t, b, new_size) ==
  LET old_size == malloc_usable_size(b)
      new      == Handed(lz_malloc(new_size), new_size, LZ_ABI_ALIGNMENT, "realloc")
  IN  /\ g_lz_ready
      /\ b.engine = "base" \/ old_size # 0
      /\ new_size > old_size
      /\ lz_malloc(new_size) # NULL
      /\ held' = (held \ {b}) \union
           {[new EXCEPT !.intact = CarriesOver([b EXCEPT !.usable = old_size], new)]}
      /\ UNCHANGED <<g_lz_ready, g_base_offset, call, trapped>>

\* Of NULL it is malloc, to size 0 it is free; reallocarray refuses a product
\* that overflows and is realloc.
realloc(t) ==
  /\ Running(t)
  /\ \E b \in held, new_size \in (RequestSizes \union BaseSizes) \ {0} :
       \/ ReallocInPlace(t, b, new_size)
       \/ ReallocMove(t, b, new_size) /\ \A x \in held \ {b} : x.engine = "base"
       \/ /\ new_size \in BaseSizes /\ new_size > malloc_usable_size(b)
          /\ BaseCall(t, LZ_ABI_ALIGNMENT, new_size, "realloc", b)

Trapped == trapped /\ UNCHANGED vars

Next ==
  \/ Bootstrap
  \/ Trapped
  \/ \E t \in Threads :
       \/ malloc(t) \/ calloc(t) \/ memalign(t) \/ posix_memalign(t) \/ aligned_alloc(t)
       \/ valloc(t) \/ free(t) \/ realloc(t)
       \/ BaseRetry(t) \/ BaseExhausted(t) \/ BaseReturn(t)

Spec == Init /\ [][Next]_vars

----------------------------------------------------------------------------
Engines == {"slab", "span", "direct", "base"}

(* The routing of lz_malloc and lz_memalign gives every request a block of *)
(* the engine whose range it falls in: slab blocks of a class, whole pages *)
(* of one chunk, or a mapping that is a multiple of the huge page.         *)
TypeOK ==
  /\ g_lz_ready \in BOOLEAN /\ trapped \in BOOLEAN
  /\ g_base_offset \in Nat
  /\ \A t \in Calling : call[t].current_offset \in 0..g_base_offset
  /\ \A b \in held :
       /\ b.engine \in Engines /\ b.intact \in BOOLEAN
       /\ b.engine # "base" => g_lz_ready
       /\ b.engine = "slab" => b.room <= LZ_MAX_SLAB_OBJ_SIZE
       /\ b.engine = "span" => b.room \in 1..((LZ_SPAN_TOTAL_PAGES - 1) * LZ_PAGE_SIZE)
       /\ b.engine = "direct" => (b.start + b.room) % LZ_HUGE_PAGE_SIZE = 0

(* lz_size_to_class picks a bin that exists, whose blocks hold the request *)
(* and which is the smallest such bin: the shift-and-mask arithmetic of    *)
(* internal/sizes.h is the minimum over lz_class_to_size.                  *)
ClassIsSmallestFit ==
  \A b \in held : b.engine = "slab" /\ b.by = "malloc" =>
    LET k == lz_size_to_class(b.asked)
    IN  /\ k \in 0..(LZ_MAX_SIZE_CLASSES - 1)
        /\ b.room = lz_class_to_size(k)
        /\ b.room >= b.asked
        /\ \A j \in 0..(k - 1) : lz_class_to_size(j) < b.asked

(* The number of blocks the bump pointer of lz_tlh_alloc can cut from a    *)
(* slab is exactly slab->max_objects: the two are computed differently,    *)
(* and rescue_from_full relies on a full slab having used == max_objects.  *)
BumpCutsMaxObjects ==
  \A b \in held : b.engine = "slab" =>
    LET k == lz_size_to_class(b.room)
    IN  /\ max_objects(k) >= 2
        /\ BumpSucceeds(k, max_objects(k) - 1)
        /\ ~BumpSucceeds(k, max_objects(k))

(* A block holds what was asked, and what malloc_usable_size reports, also *)
(* after realloc returned it for another size; sizes so large that the     *)
(* sums of lz_malloc leave size_t are left to AtLeastSize.                 *)
HoldsWhatWasAsked ==
  \A b \in held : b.usable + b.start <= 2^SIZE_WIDTH - LZ_HUGE_PAGE_SIZE =>
    b.asked <= b.usable /\ b.usable <= b.room

(* "Allocates a memory block of at least 'size' bytes." and "Pointer to    *)
(* the allocated block, or NULL on OOM." (include/lzmalloc.h), for every   *)
(* size_t: lz_malloc adds the header and rounds up without a check.        *)
AtLeastSize == \A b \in held : b.room >= b.asked

(* A block lies on the boundary its request names: in the slab engine it   *)
(* is enough that lz_memalign promotes the size to a multiple of the       *)
(* alignment, although the classes that serve it (160, 192, 224, 320, ...) *)
(* are no powers of two; the static heap aligns addresses, not offsets.    *)
(* Empty requests, and alignments above the huge page, are not covered.    *)
AlignedAsAsked ==
  \A b \in held : b.asked > 0 /\ b.align <= LZ_HUGE_PAGE_SIZE =>
    b.start % b.align = 0 /\ b.stride % b.align = 0

(* Blocks of the static heap, headers included, lie inside it and apart    *)
(* from each other, whichever way the compare-and-swap loops of            *)
(* lz_base_malloc_aligned interleave and blocks are reallocated.           *)
BaseBlocksApart ==
  LET base == {b \in held : b.engine = "base"}
  IN  \A b \in base :
        /\ b.start - BaseHeaderSize >= g_base_heap
        /\ b.start + b.room <= g_base_heap + g_base_offset
        /\ g_base_offset <= LZ_BASE_HEAP_SIZE \/ trapped
        /\ \A c \in base \ {b} :
             \/ b.start + b.room <= c.start - BaseHeaderSize
             \/ c.start + c.room <= b.start - BaseHeaderSize

(* realloc carries the program's bytes over and stays inside both blocks,  *)
(* from the static heap to lzmalloc.c and between its engines: it copies   *)
(* what malloc_usable_size reports, not what was asked.                    *)
ReallocCarriesOver == \A b \in held : b.intact

(* The memory of calloc is zero: lz_calloc clears what recycling engines   *)
(* return and leaves fresh mappings alone, by a test of the size.          *)
CallocIsZero == \A b \in held : b.by = "calloc" /\ b.asked > 0 => b.zero >= b.asked
============================================================================
