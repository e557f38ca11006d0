SPECIFICATION FairSpec
CONSTANTS
  Drone = {1, 2, 3}
  Frontier = {a}
  None = none
  a = a
  Hears <- AllHear
  Views <- Maps
  MaxAge = 1
  ClaimTtl = 2
  FailureTtl = 4
  MaxFaults = 1
INVARIANTS
  TypeOK
  ContestIsShort
  LowerClaimHolds
PROPERTIES
  RescueSettles
