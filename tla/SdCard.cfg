SPECIFICATION Spec
CONSTANTS
  Blocks = 2
  Data = {old, new}
  TickRange = 64
  InitWindow = 2
  ReadWindow = 1
  WriteWindow = 2
  MaxTime = 2
  MaxCalls = 3
  MaxCount = 2
  MaxFaults = 2
INVARIANTS TypeOK WrittenIsOnCard ReadIsWhatIsOnCard AddressingMatchesCard NothingLeftOpen
PROPERTIES WaitsLastTheirWindow EveryCallReturns ImplementsBlockDevice
CHECK_DEADLOCK FALSE
