SPECIFICATION FairSpec
CONSTANTS
  MaxRetryTime = 2
  Faults = {}
  MaxHead = 1
  MaxDones = 3
  MaxDials = 2
  MaxExits = 0
PROPERTY KeepsPushing
CHECK_DEADLOCK FALSE
