SPECIFICATION Spec
CONSTANTS
  q = q
  h = h
  c = c
  Cycle <- MCCycle
  Lightweight <- MCLightweight
  Wants <- MCWants
  Writer = {w1,w2}
  Runner = {}
  Gate = {g1}
  Crasher = {}
  MaxId = 2
  MaxTic = 1
  MaxCrash = 0
  SameSecond = FALSE
SYMMETRY MCSymmetry
CHECK_DEADLOCK FALSE
INVARIANT ConsumedMeansRan
