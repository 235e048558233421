CONSTANTS
  MaxRecords = 3
  MaxConnections = 3
  MaxCrashes = 2
  OutputFlushChunks = 2
  CapacityRecords = 4
SPECIFICATION Spec
INVARIANTS
  NeverGapped
CHECK_DEADLOCK FALSE
