SPECIFICATION FairSpec
CONSTANTS
  Worker = {w1, w2}
  None = None
  NoFile = NoFile
  Token = {1, 2, 3, 4, 5}
  StaleAfter = 1
  StealStale = 1
  MaxFaults = 2
  Env = {"io", "leak", "overrun", "stall", "blink"}
PROPERTIES OrphanClears
