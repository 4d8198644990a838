CONSTANTS
  s1 = s1
  s2 = s2
  k1 = k1
  k2 = k2
  o1 = o1
  p1 = p1
  p2 = p2
  p3 = p3
  None = None
  Sessions <- MCSessions
  Calls <- MCCalls
  Configs <- MCConfigs
  Handles <- MCHandles
  MaxProcesses = 1
SPECIFICATION PoolSpec
SYMMETRY Symmetry
INVARIANTS
  BoundedOvershoot
PROPERTY DroppedOnlyByRace
CHECK_DEADLOCK FALSE
