SPECIFICATION Spec
CONSTANTS
  MaxLen = 3
  MaxCalls = 3
  MaxFaults = 2
INVARIANTS TrueMeansNoNackOrTimeout
CHECK_DEADLOCK FALSE
