SPECIFICATION MCSpec
CONSTANTS
  Shape <- UpToFive
  Value = {1, 2}
  RampUpPoolLimit = 3
  MaxProblems = 7
INVARIANTS NobodyIsForgotten MessagesAreKept SearchIsTheSame CrossoverIsRight
PROPERTIES EverybodyRuns
CHECK_DEADLOCK FALSE
