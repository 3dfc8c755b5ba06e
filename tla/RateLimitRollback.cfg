SPECIFICATION Spec
CONSTANTS
  p1 = p1
  p2 = p2
  alice = alice
  bob = bob
  c1 = c1
  NoCall = NoCall
  NoRequest = NoRequest
  Procs <- OneProc
  Identities <- MCIdentities
  Calls <- MCCalls
  Limits <- OneLimit
  Window = 2
  MaxTime = 4
  MaxRows = 3
  MaxRollbacks = 1

INVARIANT
  RollbackFreesNothing
