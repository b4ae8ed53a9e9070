SPECIFICATION VettingSpec
CONSTANTS
  Checks = 3
  HardGates = 2
  Critical = {1}
  MinSupported = 2
INVARIANTS VettingInv RulingIsEarned EarlyStopSound
CHECK_DEADLOCK FALSE
