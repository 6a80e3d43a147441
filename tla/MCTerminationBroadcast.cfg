SPECIFICATION Spec
CONSTANTS
  NumProc = 5
  NumHub = 1
  BroadcastRadix = 2
  ClusterRadix = 2
  HubOf <- FourWorkers
  InitialLoad <- AtWorker
  Scenario <- Found
INVARIANTS TerminationIsReal
CHECK_DEADLOCK FALSE
