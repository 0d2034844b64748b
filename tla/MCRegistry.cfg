CONSTANTS
  NULL = NULL
  Threads = {t1, t2}
  Leaves = {l1, l2, l3}
  LZ_RTREE_L1_ENTRIES = 2
  LZ_RTREE_L2_ENTRIES = 2
  MaxBlocks = 2
SPECIFICATION Spec
SYMMETRY Symmetry
INVARIANTS
  TypeOK
  NoLeafLost
  AllocatedFound
  NothingStale
PROPERTY
  ImplementsChunkIndex
