SPECIFICATION PoolSpec
CONSTANTS
  Batch = 4
  Workers = 2
  Limits = {0, 2}
INVARIANT StreakStops
CHECK_DEADLOCK FALSE
