CONSTANTS
  LZ_MAX_SLAB_OBJ_SIZE = 32768
  LZ_HUGE_PAGE_SIZE = 2097152
  LZ_CACHE_LINE_SIZE = 64
  SIZE_WIDTH = 28
  LZ_PAGE_SIZE = 4096
  LZ_SPAN_TOTAL_PAGES = 512
  NULL = NULL
  Threads = {t1, t2}
  LZ_BASE_HEAP_SIZE = 160
  g_base_heap = 8112
  SweptSizes <- Swept
  AlignedSizes <- Promoted
  RequestSizes <- Limits
  Alignments <- HookAlignments
  Counts = {0, 1, 3}
  BaseSizes = {0, 17}
  BaseAlignments = {64}
  MaxHeld = 2
SPECIFICATION Spec
INVARIANT
  AtLeastSize
