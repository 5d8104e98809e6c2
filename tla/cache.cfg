SPECIFICATION Spec
CONSTANTS
  CacheId = {a, b}
  MaxCapacity = 2
  MaxTime = 2
  MemoryCacheLen = 1
  NoFile = NoFile
INVARIANTS TypeOK FifoOrder FileKept
