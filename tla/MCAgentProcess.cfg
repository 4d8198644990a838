CONSTANTS
  m1 = m1
  m2 = m2
  st1 = st1
  x1 = x1
  x2 = x2
  h1 = h1
  h2 = h2
  None = None
  Sends <- MCSends
  Streams <- MCStreams
  Ops <- MCOps
  Handles <- MCHandles
SPECIFICATION FairSpec
INVARIANTS
  SerialUnlessRevived
  QueueHoldsWaiting
PROPERTIES
  ProcessLostOnlyByOverlap
  IdleAgentStops
  QueuedIsServed
CHECK_DEADLOCK FALSE
