SPECIFICATION Spec
CONSTANTS
  w1 = w1
  w2 = w2
  None = None
  Workers = {w1, w2}
  Blocks = {0, 1}
  TxLogs <- MCTxLogs
  BadTxs <- MCNoBadTxs
  StoreBufferSize = 2
  Faults = {"rpc", "publish", "drop", "crash"}
  MaxPushes = 2
  MaxExits = 1
SYMMETRY MCSymmetry
INVARIANTS
  TypeOK
  DoneMeansHandedOver
  HandOverOrder
CHECK_DEADLOCK FALSE
