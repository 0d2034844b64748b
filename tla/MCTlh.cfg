CONSTANTS
  Threads = {t1, t2}
  Chunks = {c1, c2}
  Classes = {k1, k2}
  MaxObjects <- TwoEach
  LZ_BATCH_MAX_SIZE = 1
  NULL = NULL
  WILD = WILD
SPECIFICATION Spec
SYMMETRY Symmetry
INVARIANTS
  TypeOK
  BlockListsExact
  UsedObjectsExact
  SlabListsExact
PROPERTY
  ImplementsBlockHeap
