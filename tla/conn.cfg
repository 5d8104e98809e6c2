SPECIFICATION FairSpec
CONSTANTS
  Platform = "windows"
  HeaderSize <- HeaderBytes
  MemoryCache = 2
  GarbageLength = {0, 3}
  NULL = NULL
  Faults = {}
  NReq = 4
  VLen <- LargeValues
  Start <- LargeStart
  RecvBuf = 16
  DiskSize = 7
INVARIANTS Framing AnswersInOrder NoEarlyAnswer
PROPERTIES ReadTerminates EveryRequestAnswered ImplementsChannel
