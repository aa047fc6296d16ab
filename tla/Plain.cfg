SPECIFICATION Spec
CONSTANTS
  t1 = t1
  t2 = t2
  t3 = t3
  c1 = c1
  c2 = c2
  m1 = m1
  m2 = m2
  null = null
  Thread <- MCThread
  Chan <- TwoChans
  Cap <- CapMixed
  Msg = {m1, m2}
  BufferEmpty = BufferEmpty
  NoMsg = null
  NoChan = null
  Menu <- PlainMenu
  Failing = {}
  MaxCalls <- TwoEach
INVARIANTS
  TypeOK MutexIsALock PermitsConserved PermitMeansRoom DominoAlive
PROPERTY
  ClosedIsFrozen ImplementsChannelSpec
CHECK_DEADLOCK FALSE
