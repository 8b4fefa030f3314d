SPECIFICATION FairSpec
CONSTANTS
  a = a
  b = b
  c = c
  Nodes = {a, b}
  Links <- Pair
  MaxBacklog = 9
  MaxDrops = 2
  MaxCrashes = 1
INVARIANTS
  KnownAreAdded
PROPERTY
  EventuallyShared
CHECK_DEADLOCK FALSE
