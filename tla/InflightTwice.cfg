SPECIFICATION Spec
CONSTANTS
  Worker = {w1, w2, w3}
  NoFile = NoFile
  Stale = 9
  Ttl = 4
  MaxFaults = 0
INVARIANT OneRecoverer
CHECK_DEADLOCK FALSE
