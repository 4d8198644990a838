CONSTANTS
  c1 = c1
  a1 = a1
  a2 = a2
  e1 = e1
  e2 = e2
  None = None
  Consoles <- MCConsoles
  Addrs <- MCAddrs
  AddrOf <- MCAddrOf
  MaxRequests = 2
  Window = 2
  MaxEntries = 1
  SweepEvery = 2
  Buffer = 2
  History = 2
  MaxDebugClients = 1
  MaxShown = 1
  Filters <- MCFilters
  KindOf <- MCKindOf
  MaxEvents = 3
  MaxConns <- MCMaxConns
  MaxVisits = 2
  MaxTime = 2
  Pages <- MCPages
  MaxCalls = 2
  MaxEdits = 2
  MaxElsewhere = 1
  MaxIds = 2
  Entries = {e1, e2}
  Queries = {"", "x", "y"}
  Options = {"naive", "hybrid"}
  MaxChanges = 3
  MaxMutations = 1
SPECIFICATION DashSpec
INVARIANTS
  FeedUnbroken
  LimitHolds
  QuietPageIsCurrent
  SearchIsCurrent
PROPERTIES
  SavesKeepTheRest
CONSTRAINT MCEither
CHECK_DEADLOCK FALSE
