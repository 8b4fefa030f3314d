SPECIFICATION Spec
CONSTANTS
  alice = alice
  bob = bob
  a1 = a1
  a2 = a2
  c1 = c1
  b1 = b1
  b2 = b2
  m1 = m1
  w1 = w1
  w2 = w2
  d = d
  NoKey = NoKey
  Torn = Torn
  Other = Other
  Garbled = Garbled
  Users = {w1}
  Web = {w1}
  Keys = {alice, bob}
  Wanted = {bob, NoKey}
  DefKey = alice
  Events <- MCEvents
  Author <- MCAuthor
  Kind <- MCKind
  PTags <- MCPTags
  Unreadable = {a2}
  Stored <- MCStored
  Relays = {"wss"}
  Budgets <- Alone
  MaxFaults = 0
PROPERTY
  SendEnds
CHECK_DEADLOCK FALSE
