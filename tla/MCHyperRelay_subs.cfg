SPECIFICATION Spec
CONSTANTS
  c1 = c1
  c2 = c2
  s1 = s1
  s2 = s2
  Events <- Notes
  Valid <- Notes
  Kind <- MCKind
  PubKey <- MCPubKey
  CreatedAt <- MCCreatedAt
  Deletes <- MCDeletes
  SameD <- MCSameD
  FilterSets <- AskLatest
  Conns = {c1, c2}
  IdsOf <- Separate
  Started = TRUE
  RemoteDBs <- Far
  MaxEvents = 1
  MaxReqs = 2
INVARIANTS
  TypeOK
  SentOnce
  EoseAfterStored
  ClosedLeavesNothing
  FutureEvents
CHECK_DEADLOCK FALSE
