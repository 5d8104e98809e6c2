SPECIFICATION FairSpec
CONSTANTS
  HeaderSize = 1
  MemoryCache = 2
  GarbageLength = {1, 2}
  NULL = NULL
  Faults = {"cache"}
  Client = {c1, c2}
  None = None
  Value = Value
  MaxFd = 4
  MaxRequest = 2
  MaxConnect = 3
INVARIANTS TypeOK OneFilePerDisturbed FullForAReason
PROPERTIES EndNoticed
