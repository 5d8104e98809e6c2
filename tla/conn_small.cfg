SPECIFICATION Spec
CONSTANTS
  Platform = "windows"
  HeaderSize <- HeaderBytes
  MemoryCache = 2
  GarbageLength = {0, 3}
  NULL = NULL
  Faults = {}
  NReq = 2
  VLen <- SmallValues
  Start <- SmallStart
  RecvBuf = 6
  DiskSize = 8
INVARIANTS NoEarlyAnswer
