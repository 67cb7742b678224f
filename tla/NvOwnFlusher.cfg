CONSTANTS
  Data = {d0, d1}
  Default = d0
  Erased = Erased
  Garbled = Garbled
  NONE = NONE
  Threads = {main}
  Flushers = {main}
  Main = main
  Rebuilding = TRUE
  MaxUpdates = 3
  MaxCrashes = 2
SPECIFICATION FairSpec
INVARIANTS
  OwnInv
  NothingForgotten
PROPERTIES
  EventuallySaved
CHECK_DEADLOCK FALSE
