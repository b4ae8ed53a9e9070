SPECIFICATION PoolSpec
CONSTANTS
  Batch = 4
  Workers = 2
  Limits = {0, 2}
PROPERTY EscapeIsImmediate
CHECK_DEADLOCK FALSE
