SPECIFICATION FairSpec
CONSTANTS
  Worker = {w1, w2}
  Foreign = {w2}
  Publishers = {w1, w2}
  None = None
  Outcome <- MCFewOutcomes
  RevetKills = TRUE
  MaxAttempts = 2
  Ttl = 2
  MaxFaults = 1
  Env = {"db", "overrun", "torn"}
INVARIANTS SinglePublisher
PROPERTIES RowReturns
CHECK_DEADLOCK FALSE
