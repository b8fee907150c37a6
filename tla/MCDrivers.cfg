SPECIFICATION Spec
CONSTANTS
  MemoryMaps <- MCMemoryMaps
  MaxRegions = 4
  PageSize = 2
  ALLOC_START = 8
  Bus <- MCBus
  Info <- MCInfo
  Attached <- MCAttached
  HeapPages = 2
  MaxTables = 1
  DmaSize = 2
  MaxId = 3
  MaxNext = 14
INVARIANTS
  OwnerIsProgrammed
  DmaIsPrivate
CHECK_DEADLOCK FALSE
