SPECIFICATION FairSpec
CONSTANTS
  r1 = r1
  r2 = r2
  None = None
  Lists = {r1}
  Gets = {r2}
  MaxHead = 2
  Txs <- MCTxs
  HashRank <- MCHashRank
  Limits = {1, 2}
  UintSize = 8
  MaxRetryTime = 2
  Faults = {"rpc", "redis", "mysql", "save", "wipe", "exit"}
INVARIANTS
  TypeOK
  ListAllOrNone
  RightBlock
  NoTxsMeansNone
PROPERTIES
  EveryRequestAnswered
  EventuallyStored
CHECK_DEADLOCK FALSE
