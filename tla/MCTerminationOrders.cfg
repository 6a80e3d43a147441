SPECIFICATION OrderSpec
CONSTANTS
  NumProc = 3
  NumHub = 2
  BroadcastRadix = 2
  ClusterRadix = 2
  HubOf <- TwoHubs
  InitialLoad <- AtHub
  Scenario <- Orders
INVARIANTS TypeOK TerminationIsAgreed OrderedViewIsCurrent
PROPERTIES ThreadsDetect OrderedTerminates
CHECK_DEADLOCK FALSE
