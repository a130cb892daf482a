SPECIFICATION Spec
CONSTANTS
  Worker = {"w1"}
  Sync = {"s1", "s2"}
  MaxBlocks = 2
  MaxAdds = 2
  MaxFound = 1
  MaxCalls = 3
CHECK_DEADLOCK FALSE
INVARIANTS
  PausesBalance
PROPERTIES
  FinallyMinesOnTop
  StopReturns
