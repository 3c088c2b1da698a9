SPECIFICATION Spec
CONSTANTS
  q = q
  h = h
  c = c
  Cycle <- MCCycle
  Lightweight <- MCLightweight
  Wants <- MCCadenceWants
  Writer = {w1}
  Runner = {r1}
  Gate = {g1}
  Crasher = {w1,r1}
  MaxId = 3
  MaxTic = 2
  MaxCrash = 2
  SameSecond = FALSE
SYMMETRY MCSymmetry
CHECK_DEADLOCK FALSE
INVARIANT BoundaryOnce
INVARIANT ObligationConserved
