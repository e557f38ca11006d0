SPECIFICATION FairSpec
CONSTANTS
  View = {v1}
  Grid = {g1}
  Peer = {}
  None = none
  FallbackRelease = 2
  PlanFailBlock = 2
  PeerIsLower = TRUE
PROPERTIES
  ResumesWork
