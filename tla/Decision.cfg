SPECIFICATION PartsSpec
CONSTANTS
  h1 = h1
  h2 = h2
  main = main
  sub = sub
  k1 = k1
  NoKey = NoKey
  Idle = Idle
  NoAct = NoAct
  None = None
  Screens <- MCScreens
  Devices <- MCDevices
  a1 = a1
  a2 = a2
  a3 = a3
  f1 = f1
  f2 = f2
  Hooks <- MCHooks
  Parents <- MCParents
  Keys <- MCKeys
  Actions <- MCActions
  FingerprintOf <- MCFingerprintOf
  Cap = 1
  MaxLines = 3
  MaxAnswers = 1
  Window = 1
  MaxTime = 2
  MaxPauses = 2
  MaxOrders = 1
SYMMETRY HooksAlike
INVARIANTS
  PartsTypeOK
  CapHolds
  OneReservation
  LaunchIsCounted
  AllowedWasCleared
  NeverSilent
  ObserveSparesOrders
  DenyWins
PROPERTY
  PauseIsDeliberate
\* The histories are bounded: at their bounds nothing is left to do.
CHECK_DEADLOCK FALSE
