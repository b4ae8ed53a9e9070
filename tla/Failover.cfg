SPECIFICATION FairSpec
CONSTANTS
  v1 = v1
  v2 = v2
  w1 = w1
  p1 = p1
  p2 = p2
  Worker <- MCWorker
  Process = {p1, p2}
  ProcOf <- MCProcOf
  Grounding = {p2}
  Threshold = 1
  Cooldown = 1
  NoMark = NoMark
  Window = {2}
  Strikes = 1
  Spacing <- MCSpacing
  Gap = 1
  MaxEvents = 1
INVARIANTS FailoverInv
PROPERTIES OneProbePerWindow PickedUp
