SPECIFICATION FairSpec
CONSTANTS
  i1 = i1
  p1 = p1
  p2 = p2
  Id = {i1}
  Session = {p1}
  Runner = {p2}
  Stepper = {p1, p2}
  Reviewer = {p2}
  Crasher = {p2}
  MaxText = 2
  MaxCrash = 1
CHECK_DEADLOCK FALSE
INVARIANT TypeOK
INVARIANT BornOnce
INVARIANT BlockAfterRow
PROPERTY VerdictHolds
PROPERTY TextKept
PROPERTY BaselineOpens
