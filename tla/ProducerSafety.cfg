SPECIFICATION FairSpec
CONSTANTS
  MaxRetryTime = 2
  Faults = {"rpc", "reset", "load", "update", "publish", "drop", "broker", "crash"}
  MaxHead = 1
  MaxDones = 2
  MaxDials = 2
  MaxExits = 1
INVARIANTS
  TypeOK
  WatermarkCovered
  OnlyMinedPushed
PROPERTIES
  WatermarkMonotone
  EveryDoneAcked
CHECK_DEADLOCK FALSE
