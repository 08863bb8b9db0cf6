SPECIFICATION Spec
SYMMETRY Symmetry
CONSTANTS
  DaysPerYear = 3
  RenewalStarts = {1, 2}
  NextYearFroms = {1}
  Sessions = {s1, s2}
  LastDay = 7
  MaxRow = 3
  MaxPayment = 2
  MaxBoard = 1
  MaxCorrections = 1
INVARIANTS TypeOK OneRowPerYear OfferIsKept WhoMustRenewCan NoGap
PROPERTIES RenewalBuysNewDays
\* The last day is over and the bounds are reached.
CHECK_DEADLOCK FALSE
