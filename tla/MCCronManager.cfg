CONSTANTS
  c1 = c1
  c2 = c2
  on = on
  other = other
  off = off
  bad = bad
  r1 = r1
  r2 = r2
  k1 = k1
  k2 = k2
  None = None
  Torn = Torn
  Ids <- MCIds
  Entries <- MCEntries
  Enabled <- MCEnabled
  Sound <- MCSound
  Runs <- MCRuns
  Saves <- MCSaves
SPECIFICATION Spec
SYMMETRY Symmetry
INVARIANTS
  ExecutingIsExact
  JobsMatchCrons
  QuietDiskIsCurrent
CHECK_DEADLOCK FALSE
