SPECIFICATION Spec
CONSTANTS
  Block = {"G", "a1", "x1", "x2"}
  Genesis = "G"
  Tx = {"t1", "big"}
  Coinbase <- MCCoinbase
  KeyImage = {"k1", "k7"}
  Amount = {1}
  BlockInfo <- MCBlockInfo
  TxInfo <- MCTxInfo
  Height <- MCHeight
  CumulativeDifficulty <- MCCumulativeDifficulty
  Checkpoints <- NoCheckpoints
  MaxBlockCumulativeSize = 6
  LockedTxAllowedDeltaBlocks = 1
  MaxRestarts = 0
INVARIANTS
  RollbackSucceeds
