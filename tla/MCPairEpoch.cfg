SPECIFICATION Spec
CONSTANTS
  Drone = {1, 2}
  DroneNum = 3
  Coarse = {1}
  Fine = {11}
  Children <- TwoChildren
  Divisible = {1}
  AttemptInterval = 2
  PairOptInterval = 1
  StateFreshness = 2
  RelevanceReturns = TRUE
  CandidatesFail = TRUE
  StartTime = 2
  Horizon = 2
  MaxTime = 2
  BeaconLife = 1
  MaxRequests = 2
  MaxUpdates = 3
CHECK_DEADLOCK FALSE
PROPERTIES
  PairEpochKept
