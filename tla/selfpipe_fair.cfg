CONSTANTS
  Main = Main
  None = None
  w1 = w1
  w2 = w2
  w3 = w3
  a = a
  b = b
  c = c
  Threads = {w1, w2}
  Tasks = {a, b}
  BatchSizes = {0, 2}
  Backend = "selfpipe"
  Capacity = 2
  ReadBuf = 1
  StoreBuffering = FALSE
SPECIFICATION FairSpec
INVARIANTS
  TypeOK
PROPERTIES
  WokenIsPolled
  NginxNotStarved
  ImplementsExecutor
