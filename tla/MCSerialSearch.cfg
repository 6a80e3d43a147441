SPECIFICATION FairSpec
CONSTANTS
  Problems <- MCProblems
  Parameters <- MCParameters
  MaxHeuristic = 1
INVARIANTS TypeOK PoolIsSound BoundIsValid
PROPERTIES ImplementsBranchAndBound
CHECK_DEADLOCK FALSE
