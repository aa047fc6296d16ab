SPECIFICATION Spec
CONSTANTS
  HeapLo = 16
  HeapSize = 176
  CHUNKSIZE = 64
  MAX_LEN = 7
  Request <- MCRequest
  Data <- MCData
INVARIANTS HeapTiled FreeListsExact BestFit
PROPERTY ImplementsAllocator
CHECK_DEADLOCK FALSE
