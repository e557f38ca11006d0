SPECIFICATION Spec
CONSTANTS
  Drone = {1, 2}
  DroneNum = 3
  Coarse = {1}
  Fine = {11, 12}
  Children <- TwoChildren
  Divisible = {1}
  AttemptInterval = 2
  PairOptInterval = 1
  StateFreshness = 2
  RelevanceReturns = FALSE
  CandidatesFail = TRUE
  StartTime = 2
  Horizon = 3
  MaxTime = 3
  BeaconLife = 1
  MaxRequests = 2
  MaxUpdates = 1
CHECK_DEADLOCK FALSE
INVARIANTS
  TypeOK
  ClaimsBounded
  OneSenderAtATime
  EligibleAgain
  EverySlotIsMet
PROPERTIES
  RouteChangeIsVersioned
