CONSTANTS
  BufferCount = 2
  Size = 3
  SectorCount = 3
  Empty = Empty
  Torn = Torn
  MaxSeq = 2
  MaxPowerLosses = 0
SPECIFICATION FairSpec
PROPERTY CrashReboots
CHECK_DEADLOCK FALSE
