SPECIFICATION Spec
CONSTANTS
  View = {}
  Grid = {g1}
  Peer = {p1}
  None = none
  FallbackRelease = 3
  PlanFailBlock = 4
  PeerIsLower = TRUE
PROPERTIES
  RespectsClaim
