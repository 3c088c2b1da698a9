SPECIFICATION Spec
CONSTANTS
  q = q
  h = h
  c = c
  Cycle <- MCCycle
  Lightweight <- MCLightweight
  Wants <- MCCadenceWants
  Writer = {w1}
  Runner = {r1,r2}
  Gate = {g1}
  Crasher = {}
  MaxId = 2
  MaxTic = 2
  MaxCrash = 0
  SameSecond = FALSE
SYMMETRY MCSymmetry
CHECK_DEADLOCK FALSE
INVARIANT ConsumedMeansRan
INVARIANT ObligationConserved
