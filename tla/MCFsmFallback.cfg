SPECIFICATION Spec
CONSTANTS
  View = {v1}
  Grid = {g1}
  Peer = {}
  None = none
  FallbackRelease = 3
  PlanFailBlock = 4
  PeerIsLower = TRUE
INVARIANTS
  ReleasesFailingGrid
