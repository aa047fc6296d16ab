SPECIFICATION RefusedSpec
CONSTANTS
  t1 = t1
  t2 = t2
  t3 = t3
  c1 = c1
  c2 = c2
  m1 = m1
  m2 = m2
  null = null
  Thread <- TwoThreads
  Chan <- OneChan
  Cap <- CapTwo
  Msg = {m1, m2}
  BufferEmpty = BufferEmpty
  NoMsg = null
  NoChan = null
  Menu <- RefusedMenu
  Failing = {}
  MaxCalls <- RefusedCalls
INVARIANT RefusedOnlyWhenEmpty
CHECK_DEADLOCK FALSE
