SPECIFICATION Spec
CONSTANTS
  w1 = w1
  w2 = w2
  None = None
  Workers = {w1}
  Blocks = {0, 1}
  TxLogs <- MCTxLogsLong
  BadTxs <- MCBadTxs
  StoreBufferSize = 2
  Faults = {"rpc", "pending", "save", "setup", "publish", "drop", "broker", "crash", "shutdown"}
  MaxPushes = 2
  MaxExits = 1
INVARIANTS
  BadBlockNeverDone
  BufferBounded
  SendServed
PROPERTIES
  AckFollowsOutcome
  ImplementsContract
CHECK_DEADLOCK FALSE
