SPECIFICATION Spec
CONSTANTS
  alice = alice
  bob = bob
  a1 = a1
  a2 = a2
  c1 = c1
  b1 = b1
  b2 = b2
  m1 = m1
  w1 = w1
  w2 = w2
  d = d
  NoKey = NoKey
  Torn = Torn
  Other = Other
  Garbled = Garbled
  Users = {w1, w2, d}
  Web = {w1, w2}
  Keys = {alice, bob}
  Wanted = {bob, NoKey}
  DefKey = alice
  Events <- MCEvents
  Author <- MCAuthor
  Kind <- MCKind
  PTags <- MCPTags
  Unreadable = {a2}
  Stored <- MCStored
  Relays = {"nip01", "wss", "hyper"}
  Budgets <- MCBudgets
  MaxFaults = 1
INVARIANTS
  TypeOK
  RowsFollowList
  FetchIsComplete
PROPERTIES
  OwnKey
  ClicksEnd
CHECK_DEADLOCK FALSE
