CONSTANTS
  SS = 4
  csize = 2
  Clusters = 5
  FatEntries = 5
  DirEntries = 2
  PutUnit = 2
  MaxDword = 99
  MaxFaults = 1
  MaxResets = 1
  Torn = Torn
  Cards <- MCCards
  NoticeSize = 1
  EntrySizes = {1, 5}
  MaxPuts = 3
SPECIFICATION Spec
CHECK_DEADLOCK FALSE
INVARIANTS
  TypeOK
  CardHoldsPrefix
  ChainsSound
  FreeCountNeverShort
  FullOnlyWhenFull
  LeaksBounded
PROPERTIES
  ImplementsFatFile
