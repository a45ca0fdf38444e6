CONSTANTS
  Filters = {f}
  Clients = {c}
  f = f
  c = c
  Types = {"minedAndPendingLogs", "pendingTxs"}
  ClientCap = 1
  MaxEvents = 2
SPECIFICATION FairSpec
INVARIANTS
  EventsInOrder
  NoUseAfterUnsubscribe
PROPERTIES
  FiltersProgress
CHECK_DEADLOCK FALSE
