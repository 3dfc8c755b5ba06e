SPECIFICATION LiveSpec
CONSTANTS
  NoCall = NoCall
  f1 = f1
  NoFp = NoFp
  h1 = h1
  h2 = h2
  bg = bg
  c1 = c1
  c2 = c2
  t1 = t1
  NoBlock = NoBlock
  b1 = b1
  None = None
  Calls <- MCCalls
  ToolOf <- MCToolOf
  Rounds = 2
  MaxRequests = 2
  NoRequest = NoRequest
INVARIANT
  RunsAsApproved
PROPERTIES
  WaitEnds
  HoldEnds
  Shipped
  PolicyArrives
\* The histories are bounded: at their bounds nothing is left to do.
CHECK_DEADLOCK FALSE
