SPECIFICATION HalvesSpec
CONSTANTS
  Key <- MCKey
  Record <- MCKey
  Last = 8
  Index <- MCIndex
  Request <- MCRequest
  maxfill = 2
  RANDOM_DATA_LEN = 2
PROPERTY OverlapFound
CHECK_DEADLOCK FALSE
