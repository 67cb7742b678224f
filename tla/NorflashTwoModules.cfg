CONSTANTS
  NumModules = 2
  Sectors = {1, 2}
  Owner <- OneSectorEach
  Cells = 2
  Data = {d}
  FF = FF
  Mixed = Mixed
  NONE = NONE
  OpLen = 3
  BuffLen = 2
  Flushers = {f}
  Interleaving = FALSE
  Appending = FALSE
SPECIFICATION FairSpec
INVARIANTS
  NoAssert
  SuspendedByCurrent
PROPERTIES
  ImplementsStore
  QuietDrains
