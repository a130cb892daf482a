SPECIFICATION Spec
CONSTANTS
  Tx <- MCTx
  Outputs <- MCOutputs
  Inputs <- MCInputs
  Own = {"b"}
  Keyless = {"n"}
  SpendableAge = 0
  MaxHeight = 3
  MaxBlockTxs = 1
  MaxBatch = 2
  MaxFaults = 2
  SameBlockSpend = FALSE
  DetachSending = FALSE
CHECK_DEADLOCK FALSE
INVARIANTS
  OutputsFollowChain
  SpendsFollowChain
  OneVisiblePerKeyImage
PROPERTIES
  OnlyDoubleSpendThrows
