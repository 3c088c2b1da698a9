SPECIFICATION Spec
CONSTANTS
  s1 = s1
  s2 = s2
  NoSession = none
  Session <- MCSession
  Invocation <- MCInvocation
  Cadence = {c1,c2}
  CadenceCrasher = {c1,c2}
  Hook = {}
  HookCrasher = {}
  MaxEmission = 3
  MaxKill = 2
  MaxSeal = 0
  MaxPause = 0
SYMMETRY MCSymmetry
CHECK_DEADLOCK FALSE
INVARIANT SealTypeOK
INVARIANT CountersConsecutive
INVARIANT PhantomRefused
INVARIANT TicHasConformation
