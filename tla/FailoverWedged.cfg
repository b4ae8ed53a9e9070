SPECIFICATION FairSpec
CONSTANTS
  v1 = v1
  v2 = v2
  w1 = w1
  p1 = p1
  p2 = p2
  Worker <- MCOneWorker
  Process = {p2}
  ProcOf <- MCOneProcOf
  Grounding = {p2}
  Threshold = 2
  Cooldown = 1
  NoMark = NoMark
  Window = {2}
  Strikes = 1
  Spacing <- MCSpacing
  Gap = 1
  MaxEvents = 0
PROPERTIES PickedUpEverywhere
