SPECIFICATION Spec
CONSTANTS
  s1 = s1
  s2 = s2
  s3 = s3
  N = 3
  Radix = 1
  Hub = {0}
  Worker = {0, 1, 2}
  Solution = {s1, s2, s3}
  Value <- MCValue
  Owner <- MCOwner
  Parameters <- MCParameters
  MaxRampUp = 1
  MaxFound = 3
INVARIANTS ReposInv CutOffIsReal FlowIsControlled PrintsTheBest
PROPERTIES EventuallyComplete
CHECK_DEADLOCK FALSE
