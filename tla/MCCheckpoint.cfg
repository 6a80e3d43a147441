SPECIFICATION FairSpec
CONSTANTS
  FirstSize = 2
  Sizes = {1, 2, 3}
  ClusterSize = 2
  Sub = {1, 2, 3}
  Root = 1
  Children <- Tree
  Bound <- TreeBound
  InitialGuess = 2
  MaxCheckpoint = 2
  MaxKills = 1
INVARIANTS CheckpointInv SearchSurvives GenerationSurvives SourceHasSolution
PROPERTIES CheckpointCompletes
CHECK_DEADLOCK FALSE
