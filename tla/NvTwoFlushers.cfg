CONSTANTS
  Data = {d0, d1}
  Default = d0
  Erased = Erased
  Garbled = Garbled
  NONE = NONE
  Threads = {main, other}
  Flushers = {main, other}
  Main = main
  Rebuilding = FALSE
  MaxUpdates = 2
  MaxCrashes = 0
SPECIFICATION Spec
INVARIANT CrcMatches
CHECK_DEADLOCK FALSE
