CONSTANTS
  A = A
  B = B
  Account <- MCAccount
  Txs <- MCTxs
  Start <- MCStart
  Funds <- MCFunds
  wallet = wallet
  gossip = gossip
  Batches <- MCBatches
  LocalCaller = {wallet}
  RemoteCaller = {gossip}
  PriceLimit = 10
  PriceBump = 10
  AccountSlots = 1
  GlobalSlots = 3
  AccountQueue = 1
  GlobalQueue = 2
  UrgentRatio = 2
  FloatingRatio = 1
  MaxBlocks = 1
  MaxAdds = 3
SPECIFICATION Spec
INVARIANTS
  LookupMatchesLists
  PendingIsExecutable
  PoolIsBounded
  NothingForgotten
PROPERTIES
  RunSettlesPool
  LocalsStay
CHECK_DEADLOCK FALSE
