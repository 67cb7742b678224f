CONSTANTS
  AnswersLateCancel = TRUE
  MaxEvents = 5
  MaxMails = 3
SPECIFICATION FairSpec
INVARIANTS
  SwitchInv
  LastRequestWins
  QuietForProfiles
  Discoverable
PROPERTY EventuallySettled
CHECK_DEADLOCK FALSE
