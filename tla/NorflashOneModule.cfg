CONSTANTS
  NumModules = 1
  Sectors = {1, 2}
  Owner <- OneModule
  Cells = 2
  Data = {d}
  FF = FF
  Mixed = Mixed
  NONE = NONE
  OpLen = 4
  BuffLen = 2
  Flushers = {f}
  Interleaving = FALSE
  Appending = FALSE
SPECIFICATION Spec
INVARIANTS
  StoreInv
  ListsOwnTheirNodes
  EraseDeletes
  DamageOnlyInFlight
  ReadsBuffer
PROPERTY ImplementsStore
