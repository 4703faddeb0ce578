CONSTANTS
  None = None
  p0 = p0
  p1 = p1
  p2 = p2
  t0 = t0
  t1 = t1
  Processes = {p0, p1}
  Root = p0
  Threads = {t0, t1}
  MainThread = t0
  Misuse = FALSE
SPECIFICATION Spec
INVARIANT InitProcessSurvives
CHECK_DEADLOCK FALSE
