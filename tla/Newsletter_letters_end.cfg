SPECIFICATION FairSpec
CONSTANTS
  Letters = {n1}
  Subjects = {n1}
  Addresses <- TwoAddresses
  Members <- OneMember
  Cap = 1
  BatchSize = 2
  MaxJobs = 3
  MaxAttempts = 2
  Screens = {}
  MaxCrashes = 0
  MaxRaises = 1
  MaxResends = 0
PROPERTIES EveryDeliveryEnds
INVARIANTS OneMailPerQueueing PauseEnds
