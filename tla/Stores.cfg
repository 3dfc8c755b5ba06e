SPECIFICATION StoresSpec
CONSTANTS
  None = None
  h1 = h1
  h2 = h2
  e1 = e1
  e2 = e2
  e3 = e3
  u = u
  c = c
  x = x
  n1 = n1
  n2 = n2
  f1 = f1
  f2 = f2
  r1 = r1
  r2 = r2
  r3 = r3
  NoBlock = NoBlock
  b1 = b1
  d1 = d1
  d2 = d2
  d3 = d3
  Layers <- MCLayers
  Sites <- MCSites
  Hooks <- MCHooks
  SessionCalls <- MCSessionCalls
  Tags <- MCTags
  TagPolicies <- MCPolicies
  HistCap = 6
  MaxDeaths = 1
  Calls <- MCCalls
  NameOf <- MCNameOf
  FrameworkOf <- MCFrameworkOf
  MaxKeys = 1
  MaxStops = 1
  Releases <- MCReleases
  MaxKills = 1
  MaxFlips = 2
  Gateways <- MCHooks
  Requests <- MCHooks
  GatewayOf <- MCGatewayOf
  MaxSignIns = 2
  MaxTokens = 2
  MaxLosses = 1
  Definitions <- MCDefinitions
  Poisoned <- MCPoisoned
SYMMETRY HooksAlike
INVARIANTS
  PartsTypeOK
  FloorHolds
  CombinationHeld
  StoredIsPrefix
  NeverStuck
  SpentOnce
  TrustIsReviewed
PROPERTIES
  CountedOnce
\* The histories are bounded: at their bounds nothing is left to do.
CHECK_DEADLOCK FALSE
