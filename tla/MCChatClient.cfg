CONSTANTS
  c1 = c1
  c2 = c2
  Clients <- MCClients
  Tab = c1
  MaxMessages = 2
  MaxChunks = 2
  MaxExtras = 1
  MaxWire = 2
SPECIFICATION ClientSpec
INVARIANTS
  EveryChunkShown
  WaitHasReason
PROPERTIES
  ProcessingEnds
CHECK_DEADLOCK FALSE
