SPECIFICATION Spec
CONSTANTS
  View = {}
  Grid = {g1}
  Peer = {p1}
  None = none
  FallbackRelease = 2
  PlanFailBlock = 2
  PeerIsLower = TRUE
INVARIANTS
  TypeOK
  HandledNeverExecutes
  ExecutesWholeTrajectory
  EmergencyBrakes
PROPERTIES
  StopsForAReason
