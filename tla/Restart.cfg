SPECIFICATION Spec
CONSTANTS
  Block = {"G", "a1", "h1", "o1", "n1", "w1", "d1"}
  Genesis = "G"
  Tx = {"t1", "t4"}
  Coinbase <- MCCoinbase
  KeyImage = {"k1", "k4"}
  Amount = {1}
  BlockInfo <- MCBlockInfo
  TxInfo <- MCTxInfo
  Height <- MCHeight
  CumulativeDifficulty <- MCCumulativeDifficulty
  Checkpoints <- NoCheckpoints
  MaxBlockCumulativeSize = 4
  LockedTxAllowedDeltaBlocks = 1
  MaxRestarts = 2
INVARIANTS
  IndexesMatch
  PoolIndexMatches
