SPECIFICATION FairSpec
CONSTANTS
  World <- Findings
  CommandTimeout = 1
  BlockDwell = 1
  ReportPeriod = 2
  StuckDwell = 2
  RecoveryTime = 2
  Cooldown = 1
  MaxConn = 2
  MaxQueue = 1
INVARIANTS
  LoopTypeOK
  ReverseIsShort
PROPERTIES
  RecoveriesApart
  LoopCatchesUp
  HeldIsTold
  FreeIsTold
  NotForeverStanding
