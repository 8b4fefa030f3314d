SPECIFICATION FairSpec
CONSTANTS
  c1 = c1
  c2 = c2
  s1 = s1
  s2 = s2
  Events <- Kinds
  Valid <- Kinds
  Kind <- MCKind
  PubKey <- MCPubKey
  CreatedAt <- MCCreatedAt
  Deletes <- MCDeletes
  SameD <- MCSameD
  FilterSets <- AskAlice
  Conns = {c1}
  IdsOf <- Separate
  Started = FALSE
  RemoteDBs <- Versions
  MaxEvents = 2
  MaxReqs = 1
INVARIANTS
  EoseAfterStored
PROPERTIES
  OnlyAuthorRemoves
  EveryReqEnds
  OkMeansStored
CHECK_DEADLOCK FALSE
