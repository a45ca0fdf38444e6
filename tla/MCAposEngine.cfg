CONSTANTS
  WordSize = 8
  Address = {0, 1, 2, 3}
  Epoch = 3
  GenesisSigners = {1, 2}
  Local = 1
  Mining = TRUE
  CheckpointInterval = 2
  FullImmutabilityThreshold = 4
  InmemorySnapshots = 1
  Ballots <- MCBallots
  MaxNumber = 3
  MaxBlocks = 4
  MaxAhead = 1
  MaxStoreErrors = 1
SPECIFICATION Spec
INVARIANTS
  TypeOK
  
  
  StoredBlocksVerify
  RestartIsCheap
CHECK_DEADLOCK FALSE
