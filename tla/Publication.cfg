SPECIFICATION Spec
CONSTANTS
  Amount = {1, 2}
  Publisher = {p1, p2}
  Stub = Stub
  None = None
  Freedom = {}
INVARIANTS PublicationInv Sellable Traced ChargedAsShown
