CONSTANTS
  None = None
  MaxChunks = 2
  MaxWrites = 2
SPECIFICATION FairSpec
INVARIANTS
  TypeOK
  ConnectionOwned
  HandlersOnLiveMemory
  WaiterRegistered
  WaitsAreTimed
PROPERTIES
  TasksEnd
  ImplementsLease
CHECK_DEADLOCK FALSE
