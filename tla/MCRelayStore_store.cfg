SPECIFICATION Spec
CONSTANTS
  h = h
  e1 = e1
  e2 = e2
  bad = bad
  alice = alice
  bob = bob
  Events <- MCEvents
  Malformed <- MCMalformed
  Authors <- MCAuthors
  PubKey <- MCPubKey
  Relays = {w1, w2, h}
  w1 = w1
  w2 = w2
  HttpRelays = {h}
  MaxEvents = 2
  MaxCrashes = 1
  MaxOpenErrors = 1
INVARIANTS
  TypeOK
  AnsweredEventsAreStored
  AnsweredEventsAreRemembered
PROPERTIES
  AppendHeals
  EoseMeansNothingStored
  ImplementsArchive
