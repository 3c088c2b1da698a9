SPECIFICATION FairSpec
CONSTANTS
  q = q
  h = h
  c = c
  Cycle <- MCCycle
  Lightweight <- MCLightweight
  Wants <- MCCadenceWants
  Writer = {w1}
  Runner = {r1}
  Gate = {g1}
  Crasher = {r1}
  MaxId = 2
  MaxTic = 2
  MaxCrash = 1
  SameSecond = FALSE
CHECK_DEADLOCK FALSE
PROPERTY CadenceLands
