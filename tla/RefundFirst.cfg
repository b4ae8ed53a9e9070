SPECIFICATION Spec
CONSTANTS
  s1 = s1
  i1 = i1
  i2 = i2
  Sale = {s1}
  Item = {i1, i2}
  SaleOf <- MCSaleOf
  Handler = {h1, h2}
  None = None
  Ordered = FALSE
  BatchSize = 1
  MaxAttempts = 2
  MaxResends = 0
  MaxFaults = 0
INVARIANT RefundHonoured
CHECK_DEADLOCK FALSE
