SPECIFICATION FairSpec
CONSTANTS
  api = api
  producer = producer
  c1 = c1
  c2 = c2
  NoOne = NoOne
  Services = {api, producer}
  Api = api
  Handlers <- MCHandlers
  Statements = 2
  MaxFails = 1
  MaxSignals = 2
  Calls = {c1, c2}
  RetryLimits = {0, 1, 2}
  RpcFaults = {"rpc", "reset", "dial"}
INVARIANTS
  TypeOK
  SchemaComplete
  PanicNeedsFailedDial
  SignalKept
PROPERTIES
  CutOnlyFromOutside
  SignalEnds
  
CHECK_DEADLOCK FALSE
