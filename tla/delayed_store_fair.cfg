CONSTANTS
  Main = Main
  None = None
  w1 = w1
  w2 = w2
  w3 = w3
  a = a
  b = b
  c = c
  Threads = {w1, w2}
  Tasks = {a, b}
  BatchSizes = {0, 2}
  Backend = "eventfd"
  Capacity = 8
  ReadBuf = 128
  StoreBuffering = TRUE
SPECIFICATION FairSpec
PROPERTIES
  LostWakeupRepaired
CHECK_DEADLOCK FALSE
