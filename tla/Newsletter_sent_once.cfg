SPECIFICATION Spec
CONSTANTS
  Letters = {n1}
  Subjects = {n1}
  Addresses <- OneAddress
  Members = {}
  Cap = 1
  BatchSize = 2
  MaxJobs = 4
  MaxAttempts = 2
  Screens = {a1, a2}
  MaxCrashes = 1
  MaxRaises = 2
  MaxResends = 2
INVARIANTS TypeOK OneMailPerQueueing ChainHolds PauseEnds MailInv
PROPERTIES PauseHolds
