SPECIFICATION Spec
CONSTANTS
  Worker = {w1, w2, w3}
  None = None
  NoFile = NoFile
  Token = {1, 2, 3, 4, 5, 6, 7}
  StaleAfter = 2
  StealStale = 1
  MaxFaults = 0
  Env = {"overrun"}
INVARIANT SingleHolder
