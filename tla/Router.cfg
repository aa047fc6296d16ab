SPECIFICATION PromptSpec
CONSTANTS
  Nodes = 4
  Topologies <- MCTopologies
  Inf = 9
  Polls = 0
INVARIANTS NobodyReadsNext VerdictIsFinal AssertionsHold VerdictReadsCurrent
PROPERTY Terminates
