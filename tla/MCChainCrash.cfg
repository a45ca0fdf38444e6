CONSTANTS
  Account = {"a"}
  Network <- MCShort
  Mines = {1, 2}
  MaxFutureBlocks = 1
  MaxWaiting = 1
  MaxMined = 1
  MaxCrashes = 1
SPECIFICATION FairSpec
INVARIANTS
  CanonicalIsChainOfHead
  

  
  
