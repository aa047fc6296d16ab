SPECIFICATION EachSpec
CONSTANTS
  v1 = v1
  v2 = v2
  v3 = v3
  BufferEmpty = BufferEmpty
  Value <- PlainValue
  Capacity = 3
  semA = semA
  semB = semB
  n1 = n1
  n2 = n2
  n3 = n3
  Null = Null
  Data <- Semaphore
  Node <- ListNode
  Key <- TreeKey
  Record <- TreeRecord
INVARIANTS TypeOK WellLinked SearchTree
PROPERTIES ImplementsFifo ImplementsSemList ImplementsOrderedMap
CHECK_DEADLOCK FALSE
