CONSTANTS
  NULL = NULL
  Threads = {t1, t2}
  ChunkCount = 4
  Chunks <- MCChunks
  LZ_MAX_NUMA_NODES = 1
  LZ_VMM_MAX_CACHED_CHUNKS = 1
  LZ_EXTENT_CHUNKS = 2
SPECIFICATION Spec
INVARIANT
  NullOnlyOnOOM
