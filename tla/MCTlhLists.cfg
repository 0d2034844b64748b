CONSTANTS
  Threads = {t1}
  Chunks = {c1, c2, c3, c4}
  Classes = {k1}
  MaxObjects <- TwoEach
  LZ_BATCH_MAX_SIZE = 1
  NULL = NULL
  WILD = WILD
SPECIFICATION Spec
SYMMETRY Symmetry
INVARIANT SlabListsExact
