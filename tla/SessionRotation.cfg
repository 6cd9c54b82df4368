SPECIFICATION FairSpec
CONSTANTS
  timer = timer
  t1 = t1
  t2 = t2
  t3 = t3
  t4 = t4
  Rotators <- TimerOnly
  Tokens <- FourTokens
  TTL = 4
  IdentityGiven = FALSE
  Faults <- AnyFault
  MaxFaults = 3
INVARIANTS
  InUseNotRevoked
  ServedInTime
PROPERTIES
  ServedAgain
