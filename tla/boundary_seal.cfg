SPECIFICATION Spec
CONSTANTS
  s1 = s1
  s2 = s2
  NoSession = none
  Session <- MCSession
  Invocation <- MCArmed
  Cadence = {c1}
  CadenceCrasher = {}
  Hook = {h1,h2}
  HookCrasher = {h1,h2}
  MaxEmission = 2
  MaxKill = 1
  MaxSeal = 2
  MaxPause = 1
SYMMETRY MCSymmetry
CHECK_DEADLOCK FALSE
INVARIANT BoundaryAgreed
INVARIANT ActivatedBySeal
INVARIANT ConsumedOnce
INVARIANT PausedByChoice
