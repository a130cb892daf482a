SPECIFICATION Spec
CONSTANTS
  Conn = {1, 2}
  Block <- MCBlock
  Genesis = "g"
  Parent <- MCParent
  Work <- MCWork
  InitialTip <- MCInitialTip
  Rejected = {"b2"}
  IdsPerResponse = 4
  BlocksPerRequest = 2
  MaxAdvances = 2
  MaxDrops = 1
CHECK_DEADLOCK FALSE
INVARIANTS
  NothingRequestedAtRest
  SynchronizingIsAwaited
PROPERTIES
  SynchronizedHasChain
  EventuallySynchronized
