SPECIFICATION FairSpec
CONSTANTS
  Pack = {p1, p2}
  Published = {p1, p2}
  Sweeper = {s1}
  Retirer = {o1}
  Run = {r1, r2}
  None = None
  Nothing = Nothing
  Fragment = Fragment
  MaxFaults = 1
INVARIANTS WithdrawalInv Accounted
PROPERTIES OnlyCondemned Withdrawn
