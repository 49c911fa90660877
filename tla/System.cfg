SPECIFICATION FairSystemSpec
CONSTANTS
  w1 = w1
  None = None
  Workers = {w1}
  Blocks = {0, 1}
  TxLogs <- MCTxLogs
  BadTxs <- MCNoBadTxs
  StoreBufferSize = 1
  Faults = {"rpc", "publish", "crash", "drop", "broker", "shutdown"}
  MaxPushes = 2
  MaxExits = 1
  MaxRetryTime = 1
  ProducerFaults = {"broker"}
  MaxHead = 1
  MaxDones = 2
  MaxDials = 1
  MaxRestarts = 0
INVARIANTS
  NothingMissedSilently
  WatermarkComplete
  OnlyMinedFetched
PROPERTIES
  ImplementsPipeline
  EveryBlockArrives
CHECK_DEADLOCK FALSE
