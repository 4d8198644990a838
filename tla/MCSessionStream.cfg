CONSTANTS
  c1 = c1
  c2 = c2
  Clients <- MCClients
  MaxClients = 2
  MaxMessages = 2
  MaxChunks = 2
SPECIFICATION FairSpec
INVARIANTS
  ControllerTracksLive
  ReplayConsistent
  ReplyFollowsQuestion
PROPERTIES
  ImplementsService
  BufferReleased
CHECK_DEADLOCK FALSE
