SPECIFICATION Spec
CONSTANTS
  FirstSize = 2
  Sizes = {1}
  ClusterSize = 2
  Sub = {1, 2, 3}
  Root = 1
  Children <- Tree
  Bound <- TreeBound
  InitialGuess = 2
  MaxCheckpoint = 2
  MaxKills = 1
INVARIANTS RestartIsPossible
CHECK_DEADLOCK FALSE
