SPECIFICATION PoolFairSpec
CONSTANTS
  Batch = 4
  Workers = 2
  Limits = {0, 2}
INVARIANTS PoolInv CandidatesAccounted
PROPERTIES BatchEnds
CHECK_DEADLOCK FALSE
