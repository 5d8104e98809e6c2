SPECIFICATION FerrySpec
CONSTANTS
  Platform = "windows"
  HeaderSize <- HeaderBytes
  MemoryCache = 2
  GarbageLength = {0, 3}
  NULL = NULL
  Faults = {"cache", "reset"}
  NReq = 1
  VLen <- ShortValues
  Start <- ShortStart
  RecvBuf = 4
  DiskSize = 16
INVARIANTS ReportedState
CHECK_DEADLOCK FALSE
