SPECIFICATION FairSpec
CONSTANTS
  Drone = {1, 2}
  DroneNum = 3
  Coarse = {1, 2}
  Fine = {}
  Children <- NoChildren
  Divisible = {}
  AttemptInterval = 1
  PairOptInterval = 1
  StateFreshness = 2
  RelevanceReturns = FALSE
  CandidatesFail = TRUE
  StartTime = 1
  Horizon = 2
  MaxTime = 5
  BeaconLife = 1
  MaxRequests = 2
  MaxUpdates = 0
CHECK_DEADLOCK FALSE
PROPERTIES
  OwnershipConverges
  TransferLosesNothing
  ImplementsExchange
