SPECIFICATION Spec
CONSTANTS
  Failures = {"FAILED"}
  None = None
  Products <- OneProduct
  Price <- OnePrice
  MaxQuantity = 2
  MaxRecord = 2
  Admins = {a1}
  Calls = {c1}
  MaxChanges = 0
  MaxEdits = 1
  MaxCrashes = 0
INVARIANTS PaidIsCovered
CHECK_DEADLOCK FALSE
