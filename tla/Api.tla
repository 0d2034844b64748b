-------------------------------- MODULE Api --------------------------------
(***************************************************************************)
(* The routing of hooks/lzmalloc.c: which engine serves a request, and     *)
(* what block it gets.  A block is where its pointer may lie (`start` plus *)
(* a multiple of `stride` bytes from a 2MB boundary), the bytes from there *)
(* to the end of the memory set aside for it (`room`), those               *)
(* lz_malloc_usable_size reports (`usable`), and those known to be zero    *)
(* (`zero`).  NULL stands for every call that returns no block: refused,   *)
(* or ended by a fault.                                                    *)
(***************************************************************************)
EXTENDS Sizes

CONSTANTS LZ_PAGE_SIZE, LZ_SPAN_TOTAL_PAGES, NULL

ASSUME ApiAssumption == LZ_PAGE_SIZE \in Nat \ {0} /\ LZ_SPAN_TOTAL_PAGES \in Nat \ {0}

LZ_MAX_SPAN_OBJ_SIZE == 1048576
PayloadOffset        == 128
SIZE_MAX             == 2^SIZE_WIDTH - 1

----------------------------------------------------------------------------
\* lz_tlh_alloc: a block of the smallest class.
Slab(size) ==
  LET block_size == lz_class_to_size(lz_size_to_class(size))
  IN  [engine |-> "slab", start |-> data_start, stride |-> block_size,
       room |-> block_size, usable |-> block_size, zero |-> 0]

\* lz_span_alloc: whole pages; none at all finds no run.
Span(size) ==
  LET pages == LZ_ALIGN_UP(size, LZ_PAGE_SIZE) \div LZ_PAGE_SIZE
  IN  IF pages = 0 \/ pages >= LZ_SPAN_TOTAL_PAGES THEN NULL
      ELSE [engine |-> "span", start |-> LZ_PAGE_SIZE, stride |-> LZ_PAGE_SIZE,
            room |-> pages * LZ_PAGE_SIZE, usable |-> pages * LZ_PAGE_SIZE, zero |-> 0]

\* lz_sys_alloc_huge_aligned maps total_size and a huge page more, and trims;
\* mmap refuses to map nothing.
MapsHuge(total_size) == Plus(total_size, LZ_HUGE_PAGE_SIZE) # 0

\* Mutation: the object is rounded up before the header is added.
TotalWithoutHeader(offset, size) == LZ_ALIGN_UP(size, LZ_HUGE_PAGE_SIZE)

TotalBytes(offset, size) == LZ_ALIGN_UP(Plus(offset, size), LZ_HUGE_PAGE_SIZE)

\* A mapping of its own, header first; fresh pages are zero.  A total that has
\* wrapped to 0 is trimmed to nothing, and the header's write faults.
Direct(offset, size) ==
  LET total == TotalBytes(offset, size)
  IN  IF ~MapsHuge(total) \/ total = 0 THEN NULL
      ELSE [engine |-> "direct", start |-> offset, stride |-> 0,
            room |-> total - offset, usable |-> size, zero |-> total - offset]

----------------------------------------------------------------------------
lz_malloc(size) ==
  LET s == IF size = 0 THEN 1 ELSE size
  IN  IF s <= LZ_MAX_SLAB_OBJ_SIZE THEN Slab(s)
      ELSE IF s <= LZ_MAX_SPAN_OBJ_SIZE THEN Span(s)
      ELSE Direct(PayloadOffset, s)

is_power_of_two(x) == \E e \in 0..(SIZE_WIDTH - 1) : x = 2^e

\* Mutation: the size is promoted only when it is smaller than the alignment.
MemalignAtLeast(alignment, size) ==
  IF ~is_power_of_two(alignment) THEN NULL
  ELSE IF alignment <= 64 /\ size <= LZ_MAX_SLAB_OBJ_SIZE
  THEN lz_malloc(IF size < alignment THEN alignment ELSE size)
  ELSE IF alignment <= LZ_PAGE_SIZE /\ size <= LZ_MAX_SPAN_OBJ_SIZE THEN Span(size)
  ELSE Direct(LZ_ALIGN_UP(PayloadOffset, alignment), size)

lz_memalign(alignment, size) ==
  IF ~is_power_of_two(alignment) THEN NULL
  ELSE IF alignment <= 64 /\ size <= LZ_MAX_SLAB_OBJ_SIZE
  THEN lz_malloc(LZ_ALIGN_UP(size, alignment))
  ELSE IF alignment <= LZ_PAGE_SIZE /\ size <= LZ_MAX_SPAN_OBJ_SIZE THEN Span(size)
  ELSE Direct(LZ_ALIGN_UP(PayloadOffset, alignment), size)

\* sizeof(void*) = 8; a refused alignment is EINVAL.
lz_posix_memalign(alignment, size) ==
  IF alignment % 8 # 0 THEN NULL ELSE lz_memalign(alignment, size)

lz_aligned_alloc(alignment, size) ==
  IF ~is_power_of_two(alignment) \/ size % alignment # 0 THEN NULL
  ELSE lz_memalign(alignment, size)

lz_valloc(size)  == lz_memalign(LZ_PAGE_SIZE, size)
lz_pvalloc(size) == lz_memalign(LZ_PAGE_SIZE, LZ_ALIGN_UP(size, LZ_PAGE_SIZE))

\* Mutation: the largest request of the span engine is not cleared.
ClearsBelow(total_size) == total_size < LZ_MAX_SPAN_OBJ_SIZE

Clears(total_size) == total_size <= LZ_MAX_SPAN_OBJ_SIZE

\* The product is checked against SIZE_MAX by a division.
lz_calloc(num, size) ==
  LET n     == IF num = 0 \/ size = 0 THEN 1 ELSE num
      s     == IF num = 0 \/ size = 0 THEN 1 ELSE size
      block == lz_malloc(n * s)
  IN  IF SIZE_MAX \div n < s \/ block = NULL THEN NULL
      ELSE IF Clears(n * s) THEN [block EXCEPT !.zero = n * s] ELSE block

\* Mutation: the mapping's length is reported for a large object.
UsableIsTotal(block) == IF block.engine = "direct" THEN block.room + block.start ELSE block.usable

lz_malloc_usable_size(block) == block.usable
============================================================================
