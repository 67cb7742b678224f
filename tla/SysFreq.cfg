CONSTANTS
  UserQty = 3
  FreqQty = 6
  F26M = 1
  F52M = 2
  F104M = 4
  OtherUsers = {"AUD"}
SPECIFICATION Spec
INVARIANTS
  IInv
  SupplyCoversClock
  ClockIsHighestRequest
  LowRequestsReleaseSupply
