SPECIFICATION Spec
CONSTANTS
  Block = {"G", "a1", "a2", "b1", "b2", "b3", "v1", "h1", "h2", "e3", "e4"}
  Genesis = "G"
  Tx = {"t1", "t2", "t3"}
  Coinbase <- MCCoinbase
  KeyImage = {"k1", "k3"}
  Amount = {1}
  BlockInfo <- MCBlockInfo
  TxInfo <- MCTxInfo
  Height <- MCHeight
  CumulativeDifficulty <- MCCumulativeDifficulty
  Checkpoints <- Checkpoint4
  MaxBlockCumulativeSize = 10
  LockedTxAllowedDeltaBlocks = 1
  MaxRestarts = 0
INVARIANTS
  TypeOK
  ChainLinked
  NoDoubleSpend
  IndexesMatch
  PoolDisjointFromChain
  AllOrNothing
  RollbackNeverFails
  NoTransactionLost
  WorkNeverDecreases
  FollowerHasMainChain
PROPERTIES
  EveryOperationEnds
  CheckpointsStay
