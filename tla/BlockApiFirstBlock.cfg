SPECIFICATION Spec
CONSTANTS
  r1 = r1
  r2 = r2
  None = None
  Lists = {}
  Gets = {r1}
  MaxHead = 1
  Txs <- MCTxs
  HashRank <- MCHashRankDown
  Limits = {1}
  UintSize = 8
  MaxRetryTime = 2
  Faults = {}
INVARIANT RightBlockAlways
CHECK_DEADLOCK FALSE
