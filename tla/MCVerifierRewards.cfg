CONSTANTS
  a = a
  b = b
  Address = {a, b}
  Key = {1, 2}
  Root = {"r", "s"}
  None = None
  WordSize = 16
  Epoch = 2
  Beijing = 1
  RewardLimit = 5
  RewardPerBlock <- MCRewardPerBlock
  MaxRewardPerEpoch <- MCMaxRewardPerEpoch
  MinSigns = 1
  SigCap = 1
  Deposits <- MCDeposits
  Genesis <- MCGenesis
  Changes <- MCChanges
  Mines = {3}
  Prompt = TRUE
  MaxNumber = 5
  MaxLogs = 1
  MaxWaiting = 1
  MaxPushed = 1
SYMMETRY Accounts
SPECIFICATION Spec
INVARIANTS
  
  
  
  PayoutReadsChain
CHECK_DEADLOCK FALSE
