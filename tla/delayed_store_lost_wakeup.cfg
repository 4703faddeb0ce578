CONSTANTS
  Main = Main
  None = None
  w1 = w1
  w2 = w2
  w3 = w3
  a = a
  b = b
  c = c
  Threads = {w1}
  Tasks = {a, b}
  BatchSizes = {2}
  Backend = "eventfd"
  Capacity = 8
  ReadBuf = 128
  StoreBuffering = TRUE
SPECIFICATION Spec
INVARIANT NoLostWakeup
CHECK_DEADLOCK FALSE
