SPECIFICATION Spec
CONSTANTS
  Letters = {n1}
  Subjects = {n1}
  Addresses <- TwoAddresses
  Members <- OneMember
  Cap = 2
  BatchSize = 2
  MaxJobs = 3
  MaxAttempts = 2
  Screens = {}
  MaxCrashes = 1
  MaxRaises = 0
  MaxResends = 0
INVARIANTS RestartResumes
