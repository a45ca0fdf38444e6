CONSTANTS
  Own = {"x"}
  Others = {"o"}
  Syncs <- MCSyncs
  MaxHeight = 2
  MaxImports = 1
  BeijingBlock = 2
  StaleThreshold = 0
  ResubmitAdjustChanSize = 2
SPECIFICATION FairSpec
INVARIANTS
  NewWorkStopsOld

  
CHECK_DEADLOCK FALSE
