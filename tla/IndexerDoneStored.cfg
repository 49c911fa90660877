SPECIFICATION Spec
CONSTANTS
  w1 = w1
  w2 = w2
  None = None
  Workers = {w1}
  Blocks = {0, 1}
  TxLogs <- MCTxLogs
  BadTxs <- MCNoBadTxs
  StoreBufferSize = 2
  Faults = {}
  MaxPushes = 2
  MaxExits = 1
INVARIANT DoneMeansStored
CHECK_DEADLOCK FALSE
