CONSTANTS
  Timers = {t1, t2, t3}
  NONE = NONE
  MaxTicks = 3
  MaxLate = 1
SPECIFICATION FairSpec
INVARIANTS
  TimerInv
  NeverCollapses
  ListsMatch
  HardwareArmed
  NotLate
PROPERTIES
  NotEarly
  EveryTimerFires
CHECK_DEADLOCK FALSE
