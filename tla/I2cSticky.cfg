SPECIFICATION Spec
CONSTANTS
  MaxLen = 3
  MaxCalls = 3
  MaxFaults = 2
INVARIANTS FalseMeansNackOrTimeout
CHECK_DEADLOCK FALSE
