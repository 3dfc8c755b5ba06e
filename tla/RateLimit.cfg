SPECIFICATION Spec
CONSTANTS
  p1 = p1
  p2 = p2
  alice = alice
  bob = bob
  c1 = c1
  NoCall = NoCall
  NoRequest = NoRequest
  Procs <- MCProcs
  Identities <- MCIdentities
  Calls <- MCCalls
  Limits <- MCLimits
  Window = 2
  MaxTime = 3
  MaxRows = 3
  MaxRollbacks = 1
SYMMETRY ProcsAlike
INVARIANTS
  WindowHolds
  OneSlotPerCall
  RetryAfterIsExact
PROPERTY
  KeepsPromise
