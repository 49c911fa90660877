SPECIFICATION FairSpec
CONSTANTS
  r1 = r1
  r2 = r2
  t1 = t1
  t2 = t2
  t3 = t3
  None = None
  Requests = {r1, r2}
  TxHashes = {t1}
  BlockOf <- MCBlockOf
  Logs <- MCLogs
  BadSender = {}
  Creations = {}
  MaxRetryTime = 2
  Faults = {"rpc", "redis"}
INVARIANT NeverFewerLogs
PROPERTIES
  EveryRequestAnswered
  EventuallyLogged
CHECK_DEADLOCK FALSE
