CONSTANTS
  None = None
  Dangling = Dangling
  r1 = r1
  r2 = r2
  Requests = {r1, r2}
SYMMETRY Perms
SPECIFICATION Spec
INVARIANTS
  TypeOK
  PollsOnLiveRequest
  TornDownTasksClosed
  FiniUsesLiveMemory
  FinalizationInFlight
CHECK_DEADLOCK FALSE
