SPECIFICATION Spec
CONSTANTS
  N = 3
  Radix = 1
  MaxValue = 2
  Hub <- TwoHubs
  Worker <- TwoHubsWorkers
  HubOf <- TwoHubsOf
INVARIANTS PruningInv AgreementAtQuiescence BroadcastInv SourceHoldsSolution BroadcastLeavesNothing
PROPERTIES EventuallyIdle
CHECK_DEADLOCK FALSE
