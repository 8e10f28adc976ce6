SPECIFICATION Spec
CONSTANTS
  MaxLen = 4
  MaxCalls = 3
  MaxFaults = 3
INVARIANTS TypeOK DeliveredInOrder TrueMeansDelivered
PROPERTIES EveryWriteReturns
CHECK_DEADLOCK FALSE
