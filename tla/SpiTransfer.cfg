CONSTANTS
  Task = {logger}
  NULL = NULL
  MaxLen = 6
  RxIrqPriorities = {0, 176}
  MaxSyscallPriority = 176
SPECIFICATION Spec
CHECK_DEADLOCK FALSE
INVARIANTS
  TypeOK
  NoByteLost
  NoLostWakeup
PROPERTIES
  ReturnsOnlyWhenDone
  TransfersReturnWithinCeiling
