SPECIFICATION AuditOnly
CONSTANTS
  w1 = w1
  w2 = w2
  h1 = h1
  p1 = p1
  p2 = p2
  s1 = s1
  s2 = s2
  None = None
  Writers <- MCProcs
  MaxRecords = 3
  MaxSkips = 1
  TornWrites = TRUE
  Bg = bg
  Callers <- MCProcs
  InServer = FALSE
  SpoolMax = 2
  BatchMax = 2
  FlushBatch = 2
  MaxSealed = 3
  MaxFailures = 0
  MaxAged = 1
  MaxFaults = 1
  People <- MCPeople
  Hooks <- MCHooks
  FreeAttempts = 0
  Lockout = 1
  Window = 1
  MaxTime = 1
  MaxSets = 2
  Subs <- MCSubs
  Mains <- MCProcs
  MaxFiles = 3
INVARIANT
  RanIsRecorded
