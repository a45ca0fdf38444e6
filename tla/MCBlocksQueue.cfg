CONSTANTS
  Peers = {p}
  MinSyncPeers = 1
  BlocksPerPeriod = 2
  LookaheadSteps = 2
  MaxPendingRequests = 2
  ResyncLag = 2
  MaxHeight = 3
  MaxFaults = 1
SPECIFICATION FairSpec
INVARIANTS
  NextBlockCovered
PROPERTIES
  EndsAtGoal
  
CHECK_DEADLOCK FALSE
