SPECIFICATION VettingSpec
CONSTANTS
  Checks = 3
  HardGates = 2
  Critical = {2}
  MinSupported = 2
INVARIANT EvidenceOutlivesClock
CHECK_DEADLOCK FALSE
