CONSTANTS
  Threads = {t1, t2, t3}
  Chunks = {c1, c2}
  Classes = {k1}
  MaxObjects <- TwoEach
  LZ_BATCH_MAX_SIZE = 2
  NULL = NULL
  WILD = WILD
SPECIFICATION Spec
SYMMETRY Symmetry
INVARIANTS
  BlockListsExact
  BlocksBacked
