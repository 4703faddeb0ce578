CONSTANTS
  Requests = {r1}
  None = None
  Kinds = {"yielding", "compat", "sidecar", "resolve", "hyper_nginx", "hyper_tokio", "reqwest"}
  Children = 3
SPECIFICATION FairSpec
INVARIANTS
  TypeOK
  RequestOwned
  NoOrphans
  NoLostWake
PROPERTIES
  HandlerEnds
  TasksEnd
CHECK_DEADLOCK FALSE
