SPECIFICATION Spec
CONSTANTS
  Blocks = 2
  Data = {old, new}
  TickRange = 4
  InitWindow = 2
  ReadWindow = 1
  WriteWindow = 2
  MaxTime = 5
  MaxCalls = 3
  MaxCount = 2
  MaxFaults = 1
PROPERTIES WaitsLastTheirWindow
CHECK_DEADLOCK FALSE
