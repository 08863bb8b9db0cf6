SPECIFICATION Spec
CONSTANTS
  Failures = {"FAILED"}
  None = None
  Products <- OneProduct
  Price <- OnePrice
  MaxQuantity = 2
  MaxRecord = 3
  Admins = {a1, a2}
  Calls = {c1}
  MaxChanges = 2
  MaxEdits = 1
  MaxCrashes = 1
INVARIANTS TypeOK BookedIsDated
PROPERTIES WebhookKeepsBooking ClaimFollowsOrder OneOpenPost PaidIsSettled
\* The payments are settled and nobody changes anything any more.
CHECK_DEADLOCK FALSE
