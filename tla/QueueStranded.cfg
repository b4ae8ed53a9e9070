SPECIFICATION Spec
CONSTANTS
  Worker = {w1, w2}
  Foreign = {}
  Publishers = {}
  None = None
  Outcome <- MCOutcome
  RevetKills = FALSE
  MaxAttempts = 1
  Ttl = 2
  MaxFaults = 0
  Env = {"torn"}
INVARIANT NeverStranded
CHECK_DEADLOCK FALSE
