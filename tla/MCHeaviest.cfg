CONSTANTS
  Account = {"a", "b"}
  Network <- MCNetwork
  Mines = {}
  MaxFutureBlocks = 2
  MaxWaiting = 1
  MaxMined = 1
  MaxCrashes = 0
SPECIFICATION Spec
INVARIANTS
  HeadIsHeaviest
CHECK_DEADLOCK FALSE
