CONSTANTS
  NULL = NULL
  Threads = {t1, t2}
  Heaps = {h1, h2}
  ThreadSlots = 1
  AllocBatch = 2
  FreeBatch = 2
  MaxThreadId = 3
  MaxUnfreed = 2
SPECIFICATION Spec
SYMMETRY Symmetry
INVARIANTS
  TypeOK
  HeapInOnePlace
  LockExact
PROPERTIES
  LeavesNothingBehind
  SlabBooksBalance
