SPECIFICATION Spec
CONSTANTS
  c1 = c1
  c2 = c2
  f1 = f1
  f2 = f2
  h1 = h1
  h2 = h2
  Hooks = {h1, h2}
  Calls = {c1, c2}
  NoCall = NoCall
  Fps = {f1, f2}
  NoFp = NoFp
  FpOf <- SameAction
  PendingTTL = 2
  ApprovedTTL = 1
  HoldFor = 1
  Keep = 1
  MaxReqs = 2
  HooksMayDie = TRUE
INVARIANTS
  SpentByOneCall
  AllowedByApproval
  OnePendingPerAction
PROPERTIES
  SpentWhileValid
  DecisionIsFinal
SYMMETRY Symmetry
