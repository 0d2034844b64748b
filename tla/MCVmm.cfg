CONSTANTS
  NULL = NULL
  Threads = {t1, t2}
  ChunkCount = 3
  Chunks <- MCChunks
  LZ_MAX_NUMA_NODES = 2
  LZ_VMM_MAX_CACHED_CHUNKS = 1
  LZ_EXTENT_CHUNKS = 3
SPECIFICATION FairSpec
INVARIANTS
  TypeOK
  CachesExact
  NoChunkLost
PROPERTIES
  HandedOutStamped
  ImplementsChunkPool
  CallsReturn
