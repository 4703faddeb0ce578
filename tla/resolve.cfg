CONSTANTS
  Requests = {r1, r2, r3}
  None = None
  Dangling = Dangling
  RingSize = 2
SPECIFICATION FairSpec
INVARIANTS
  TypeOK
  ReleasedOnce
  CallbackOnLiveRequest
  NoneLeaked
PROPERTIES
  LookupEnds
  ImplementsLease
CHECK_DEADLOCK FALSE
