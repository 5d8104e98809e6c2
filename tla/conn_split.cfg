SPECIFICATION Spec
CONSTANTS
  Platform = "windows"
  HeaderSize <- HeaderBytes
  MemoryCache = 2
  GarbageLength = {0, 3}
  NULL = NULL
  Faults = {"split"}
  NReq = 4
  VLen <- LargeValues
  Start <- LargeStart
  RecvBuf = 16
  DiskSize = 11
INVARIANTS OwnHeader
