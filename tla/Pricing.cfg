SPECIFICATION Spec
CONSTANTS
  Pence = {1, 2, 3}
  Cents = {1, 2}
  None = None
  Idle = Idle
  Patcher = {p1}
  Drain = 3
  Horizon = 3
INVARIANTS PricingInv NoPoundRefused FloorWasAsked
