SPECIFICATION Spec
CONSTANTS
  ClientTimeout = 65
  RequestTimeout = 15
  ProxyTimeout = 60
  CallTimeout = 10
  PollTimeout = 30
  PollInterval = 2
  DbTime = 8
  Latency = 1
INVARIANTS
  DoneInTime
  ClientOutlivesProxy
CHECK_DEADLOCK FALSE
