CONSTANTS
  MaxRecords = 3
  MaxConnections = 2
  MaxCrashes = 1
  OutputFlushChunks = 2
  CapacityRecords = 2
SPECIFICATION FairProcessSpec
INVARIANTS
  TypeOK
  NothingLost
  NeverGapped
PROPERTIES
  ReconciledBeforeNewWork
  EventuallyCommitted
  EventuallyReconciled
  ImplementsReliableLog
CHECK_DEADLOCK FALSE
