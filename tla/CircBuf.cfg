CONSTANTS
  CBUF_SIZE = 8
  Byte = {0, 1}
SPECIFICATION Spec
INVARIANTS
  TypeOK
  NoSlotRace
  LedTogglesOnEachRead
PROPERTIES
  FifoSpec
