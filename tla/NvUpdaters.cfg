CONSTANTS
  Data = {d0, d1}
  Default = d0
  Erased = Erased
  Garbled = Garbled
  NONE = NONE
  Threads = {main, other}
  Flushers = {main}
  Main = main
  Rebuilding = FALSE
  MaxUpdates = 3
  MaxCrashes = 1
SPECIFICATION Spec
INVARIANTS
  IInv
  CrcMatches
  RewriteFollows
PROPERTY FlushIsDurable
CHECK_DEADLOCK FALSE
