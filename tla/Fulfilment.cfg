SPECIFICATION FairSpec
CONSTANTS
  s1 = s1
  i1 = i1
  i2 = i2
  Sale = {s1}
  Item = {i1, i2}
  SaleOf <- MCSaleOf
  Handler = {h1, h2}
  None = None
  Ordered = TRUE
  BatchSize = 1
  MaxAttempts = 2
  MaxResends = 1
  MaxFaults = 1
INVARIANTS FulfilmentInv RefundHonoured
PROPERTIES ImplementsLicence EventsSettle LinksGoOut
CHECK_DEADLOCK FALSE
