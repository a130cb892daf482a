SPECIFICATION Spec
CONSTANTS
  Conn = {1, 2}
  Block <- ShortBlock
  Genesis = "g"
  Parent <- ShortParent
  Work <- ShortWork
  InitialTip <- ShortTip
  Rejected = {}
  IdsPerResponse = 4
  BlocksPerRequest = 1
  MaxAdvances = 1
  MaxDrops = 0
CHECK_DEADLOCK FALSE
INVARIANTS
  FinalCondition
