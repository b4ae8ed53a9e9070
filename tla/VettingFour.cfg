SPECIFICATION VettingSpec
CONSTANTS
  Checks = 4
  HardGates = 2
  Critical = {2}
  MinSupported = 2
INVARIANTS VettingInv RulingIsEarned EarlyStopSound
CHECK_DEADLOCK FALSE
