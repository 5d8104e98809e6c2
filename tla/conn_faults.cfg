SPECIFICATION Spec
CONSTANTS
  Platform = "linux"
  HeaderSize <- HeaderBytes
  MemoryCache = 2
  GarbageLength = {0, 3}
  NULL = NULL
  Faults = {"split", "cache", "reset"}
  NReq = 2
  VLen <- PairValues
  Start <- PairStart
  RecvBuf = 7
  DiskSize = 2
INVARIANTS TypeOK BufferBounds
