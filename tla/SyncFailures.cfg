SPECIFICATION Spec
CONSTANTS
  Consumer = {1, 2}
  Block <- MCBlock
  Genesis = "g"
  Parent <- MCParent
  Work <- MCWork
  NoBlock = "none"
  Tx = {"t"}
  DenseHistory = 0
  BlockLimit = 3
  ReadsWhileRunning = FALSE
  Failures = {"node", "refusal", "exception"}
  Budget <- Failing
CHECK_DEADLOCK FALSE
INVARIANTS
  ChainsLinked
  IntervalFits
PROPERTIES
  FailedAddLeavesNothing
  StopIsKept
