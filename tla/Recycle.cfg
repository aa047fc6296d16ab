INIT SchedInit
NEXT SchedNext
CONSTANTS
  Nodes = 5
  Topologies <- MCTopologies
  Inf = 99
  Polls = 0
INVARIANT AssertionsHold
CHECK_DEADLOCK FALSE
