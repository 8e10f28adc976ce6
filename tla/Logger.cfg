CONSTANTS
  Torn = Torn
  NoEntry = NoEntry
  Client = {c1, c2}
  LOG_QUEUE_DEPTH = 1
  CounterRange = 8
  MaxCalls = 2
  MaxFaults = 2
  MaxResets = 1
SPECIFICATION Spec
CHECK_DEADLOCK FALSE
INVARIANTS
  TypeOK
  NothingLost
  EachTaskInOrder
  OnlyCurrentEntryAtRisk
  DropsNeverSilent
PROPERTIES
  ImplementsDurableLog
  CallsReturn
  AcceptedBecomesDurable
