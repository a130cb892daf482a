SPECIFICATION Spec
CONSTANTS
  Consumer = {1, 2}
  Block <- MCBlock
  Genesis = "g"
  Parent <- MCParent
  Work <- MCWork
  NoBlock = "none"
  Tx = {"t"}
  DenseHistory = 0
  BlockLimit = 2
  ReadsWhileRunning = FALSE
  Failures = {}
  Budget <- TwoCalls
CHECK_DEADLOCK FALSE
INVARIANTS
  WaitingMeansSynced
PROPERTIES
  CompletedMeansUpToDate
  EventuallySynced
  CallsReturn
