SPECIFICATION Spec
CONSTANTS
  Ids = {u, s}
  Seeds = {s}
  Defs = {d1, d2}
  Objects = {o1, o2}
  Calls = {k1, k2}
  MaxAgents = 2
  None = None
SYMMETRY Symmetry
INVARIANT StoreMatchesPool
INVARIANT NoOrphans
PROPERTY UserEditsSurvive
CONSTRAINT OnlySeedsRace
