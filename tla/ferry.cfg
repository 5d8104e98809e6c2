SPECIFICATION FerryFair
CONSTANTS
  Platform = "windows"
  HeaderSize <- HeaderBytes
  MemoryCache = 2
  GarbageLength = {0, 3}
  NULL = NULL
  Faults = {"reset"}
  NReq = 1
  VLen <- FileValues
  Start <- FileStart
  RecvBuf = 4
  DiskSize = 16
INVARIANTS AnswerMatchesRequest
PROPERTIES ClientEnds HandlerCloses
