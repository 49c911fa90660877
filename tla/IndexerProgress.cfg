SPECIFICATION FairSpec
CONSTANTS
  w1 = w1
  w2 = w2
  None = None
  Workers = {w1, w2}
  Blocks = {0}
  TxLogs <- MCTxLogsShort
  BadTxs <- MCNoBadTxs
  StoreBufferSize = 2
  Faults = {"rpc", "drop", "crash"}
  MaxPushes = 2
  MaxExits = 1
PROPERTIES
  EveryMessageRetired
  DoneEventuallyStored
CHECK_DEADLOCK FALSE
