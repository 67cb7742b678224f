CONSTANTS
  BufferCount = 2
  Size = 3
  SectorCount = 3
  Empty = Empty
  Torn = Torn
  MaxSeq = 8
  MaxPowerLosses = 1
SPECIFICATION FairSpec
INVARIANTS
  LogInv
  StateAsserted
  ErasedAhead
  InOrder
  OldestGoes
PROPERTIES
  FullIsSaved
  CrashIsSaved
CHECK_DEADLOCK FALSE
