SPECIFICATION Spec
CONSTANTS
  v1 = v1
  v2 = v2
  w1 = w1
  p1 = p1
  p2 = p2
  Worker <- MCWorker
  Process = {p1, p2}
  ProcOf <- MCProcOf
  Grounding = {p2}
  Threshold = 2
  Cooldown = 1
  NoMark = NoMark
  Window = {2}
  Strikes = 2
  Spacing <- MCSpacings
  Gap = 1
  MaxEvents = 1
SYMMETRY MCSymmetry
INVARIANTS FailoverInv
PROPERTIES OneProbePerWindow
