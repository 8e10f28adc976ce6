CONSTANTS
  Torn = Torn
  NoEntry = NoEntry
  Client = {c1, c2}
  LOG_QUEUE_DEPTH = 1
  CounterRange = 8
  MaxCalls = 2
  MaxFaults = 0
  MaxResets = 0
SPECIFICATION Spec
CHECK_DEADLOCK FALSE
PROPERTIES
  RecoveryReported
