SPECIFICATION Spec
CONSTANTS
  Worker = {w1, w2, w3, w4}
  None = None
  NoFile = NoFile
  Token = {1, 2, 3, 4, 5, 6, 7, 8, 9}
  StaleAfter = 2
  StealStale = 1
  MaxFaults = 2
  Env = {"io"}
SYMMETRY WorkerSymmetry
INVARIANTS LockInv SingleHolder
PROPERTIES OnlyHolderRemoves ImplementsLease
