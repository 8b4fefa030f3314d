SPECIFICATION Spec
CONSTANTS
  c1 = c1
  c2 = c2
  s1 = s1
  s2 = s2
  Events <- OneNote
  Valid <- OneNote
  Kind <- MCKind
  PubKey <- MCPubKey
  CreatedAt <- MCCreatedAt
  Deletes <- MCDeletes
  SameD <- MCSameD
  FilterSets <- AskAll
  Conns = {c1, c2}
  IdsOf <- Separate
  Started = FALSE
  RemoteDBs <- None
  MaxEvents = 1
  MaxReqs = 2
INVARIANTS
  FutureEvents
CHECK_DEADLOCK FALSE
