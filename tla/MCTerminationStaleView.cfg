SPECIFICATION Spec
CONSTANTS
  NumProc = 3
  NumHub = 2
  BroadcastRadix = 2
  ClusterRadix = 2
  HubOf <- TwoHubs
  InitialLoad <- AtHub
  Scenario <- StaleView
PROPERTIES EventuallyTerminated
CHECK_DEADLOCK FALSE
