CONSTANTS
  None = None
  Dangling = Dangling
  r1 = r1
  r2 = r2
  Requests = {r1}
SPECIFICATION Spec
INVARIANT FutureDroppedAtTeardown
CHECK_DEADLOCK FALSE
