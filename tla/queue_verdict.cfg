SPECIFICATION Spec
CONSTANTS
  i1 = i1
  p1 = p1
  p2 = p2
  Id = {i1}
  Session = {p1}
  Runner = {}
  Stepper = {}
  Reviewer = {p2}
  Crasher = {}
  MaxText = 2
  MaxCrash = 0
CHECK_DEADLOCK FALSE
PROPERTY StatusNotRenamed
