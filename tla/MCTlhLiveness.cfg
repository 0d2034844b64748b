CONSTANTS
  Threads = {t1, t2, t3}
  Chunks = {c1}
  Classes = {k1}
  MaxObjects <- TwoEach
  LZ_BATCH_MAX_SIZE = 1
  NULL = NULL
  WILD = WILD
SPECIFICATION FairSpec
PROPERTIES CallsReturn RemoteFreesReturn
