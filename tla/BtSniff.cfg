CONSTANTS
  Devices = {d1, d2}
  NumSlots = 8
  NoDevice = NoDevice
  MaxMails = 2
  MaxRefused = 3
SPECIFICATION Spec
INVARIANT RequestsKept
