SPECIFICATION Spec
CONSTANTS
  r1 = r1
  r2 = r2
  t1 = t1
  t2 = t2
  t3 = t3
  None = None
  Requests = {r1, r2}
  TxHashes = {t1, t2, t3}
  BlockOf <- MCBlockOf
  Logs <- MCOneLog
  BadSender = {t2}
  Creations = {t3}
  MaxRetryTime = 2
  Faults = {"rpc", "redis", "save", "wipe", "exit"}
SYMMETRY MCSymmetry
INVARIANTS
  TypeOK
  OnlyMinedSaved
CHECK_DEADLOCK FALSE
