SPECIFICATION Spec
CONSTANTS
  PaymentRecords = {r1}
  Mails = {m1}
  Subjects = {"sweep", "once", m1}
  MaxJobs = 3
  MaxAttempts = 2
  MaxCrashes = 1
  MaxRaises = 2
INVARIANTS TypeOK  OneCadence SweepGoesOn 
PROPERTIES CauseGetsTask TaskIsClosed
