CONSTANTS
  m1 = m1
  m2 = m2
  Messages <- MCMessages
  Flavors <- MCFlavors
  MaxLines = 2
  None = None
SPECIFICATION Spec
INVARIANTS
  StopReachesChild
  CancelReachesChild
  OwnAnswer
PROPERTIES
  StreamsEnd
CHECK_DEADLOCK FALSE
