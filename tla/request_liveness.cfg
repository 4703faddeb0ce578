CONSTANTS
  None = None
  Dangling = Dangling
  r1 = r1
  r2 = r2
  Requests = {r1}
SPECIFICATION FairSpec
PROPERTIES
  FinalizedIsFreed
  FuturesDropped
  CancelReturns
CHECK_DEADLOCK FALSE
