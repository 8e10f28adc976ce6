CONSTANTS
  Task = {logger}
  NULL = NULL
  MaxLen = 2
  RxIrqPriorities = {0}
  MaxSyscallPriority = 176
SPECIFICATION Spec
CHECK_DEADLOCK FALSE
PROPERTIES
  EveryTransferReturns
