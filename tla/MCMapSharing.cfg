SPECIFICATION FairSpec
CONSTANTS
  Drone = {1, 2, 3}
  Ground = 3
  Link <- Line
  v1 = v1
  v2 = v2
  v3 = v3
  Voxel = {v1, v2, v3}
  Scans <- Views
  ChunkSize = 2
  MaxId = 100
  Bound = 6
INVARIANTS
  TypeOK
  CopiesAgree
  SealedOnce
  MergeIsUnion
  MissedIsDifference
PROPERTIES
  LocalObservationsWin
  KnowledgeSpreads
