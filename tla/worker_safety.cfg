CONSTANTS
  None = None
  p0 = p0
  p1 = p1
  p2 = p2
  t0 = t0
  t1 = t1
  Processes = {p0, p1, p2}
  Root = p0
  Threads = {t0, t1}
  MainThread = t0
  Misuse = TRUE
SYMMETRY Perms
SPECIFICATION Spec
INVARIANTS
  TypeOK
  SignalsOwnLoop
  NoSilentLoss
CHECK_DEADLOCK FALSE
