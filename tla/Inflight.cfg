SPECIFICATION FairSpec
CONSTANTS
  Worker = {w1, w2, w3}
  NoFile = NoFile
  Stale = 2
  Ttl = 1
  MaxFaults = 2
INVARIANTS InflightInv
PROPERTIES ImplementsQueue EventuallyRuled
CHECK_DEADLOCK FALSE
