SPECIFICATION FairSpec
CONSTANTS
  a = a
  b = b
  c = c
  Nodes = {a, b, c}
  Links <- Line
  MaxBacklog = 0
  MaxDrops = 0
  MaxCrashes = 0
INVARIANTS
  TypeOK
  AddedOnce
  KnownAreAdded
PROPERTY
  EventuallyShared
CHECK_DEADLOCK FALSE
