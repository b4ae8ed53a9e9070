SPECIFICATION Spec
CONSTANTS
  Worker = {w1, w2, w3}
  Foreign = {w3}
  Publishers = {}
  None = None
  Outcome <- MCOutcome
  RevetKills = FALSE
  MaxAttempts = 1
  Ttl = 2
  MaxFaults = 1
  Env = {"db"}
INVARIANTS QueueInv SingleVet RowBacked RenameFinds
PROPERTIES ImplementsLease
CHECK_DEADLOCK FALSE
