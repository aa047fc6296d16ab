SPECIFICATION HalvesSpec
CONSTANTS
  Key <- MCKey
  Record <- MCKey
  Last = 8
  Index <- MCIndex
  Request <- MCRequest
  maxfill = 2
  RANDOM_DATA_LEN = 2
INVARIANTS RangesLinked NoFalseAlarm JudgesByTheFacts
PROPERTIES LowerOverlapFound
CHECK_DEADLOCK FALSE
