SPECIFICATION LossSpec
CONSTANTS
  Drone = {1, 2, 3}
  DroneNum = 4
  Coarse = {1}
  Fine = {}
  Children <- NoChildren
  Divisible = {}
  AttemptInterval = 1
  PairOptInterval = 1
  StateFreshness = 0
  RelevanceReturns = FALSE
  CandidatesFail = FALSE
  StartTime = 1
  Horizon = 2
  MaxTime = 2
  BeaconLife = 1
  MaxRequests = 2
  MaxUpdates = 0
CHECK_DEADLOCK FALSE
INVARIANTS
  VersionNamesRoute
  LossesAreHalfTaken
  ClaimsHeld
