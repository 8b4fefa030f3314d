SPECIFICATION Spec
CONSTANTS
  quick = quick
  slow = slow
  None = None
  Clients = {quick, slow}
  Slow = {slow}
  HeaderSize = 2
  EventSize = 2
  RequestSize = 1
  EmptySize = 1
  ItemSize = 1
  Window = 3
  MaxFaults = 1
INVARIANTS
  TypeOK
  ParsedIsWhole
  ReadsOwnWrite
  FileRepeats
PROPERTIES
  ImplementsService
  EveryPostEnds
CHECK_DEADLOCK FALSE
