SPECIFICATION HalvesSpec
CONSTANTS
  E = 3
  PDs = 2
  Placement <- MCPlacement
  Garbage <- MCGarbage
  Status = 2
  String <- MCString
  Screen <- MCScreen
  FONT_WIDTH = 2
  FONT_HEIGHT = 2
  Glyph <- MCGlyph
  Hello <- MCHello
  HeapMemory = 16
  HeapMemorySize = 288
  CHUNKSIZE = 128
  Request <- MCRequest
  TestSize <- MCTestSize
  Data <- MCData
  Message <- MCMessage
INVARIANTS AddressSpaces BlocksTiled ScreenShowsTail
PROPERTIES UserStaysInside SyscallTransparent ImplementsAllocator
CHECK_DEADLOCK FALSE
