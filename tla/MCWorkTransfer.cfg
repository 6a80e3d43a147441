SPECIFICATION MCSpec
CONSTANTS
  r = r
  a = a
  b = b
  c = c
  d = d
  Hub = {0}
  Worker = {1, 2}
  HubOf <- OneHubOf
  Sub <- SmallTree
  Root = r
  Children <- SmallTreeChildren
  Bound <- SmallTreeBound
  Start = 1
  NoIncumbent = 9
  Address = {1, 2, 3, 4}
  MaxBuffered = 2
INVARIANTS TokensAreSound WorkInv TwoHubsAreSound
PROPERTIES DeliveriesAreLive EventuallyIdle
CHECK_DEADLOCK FALSE
