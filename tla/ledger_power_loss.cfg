CONSTANTS
  MaxRecords = 3
  MaxConnections = 2
  MaxCrashes = 2
  OutputFlushChunks = 2
  CapacityRecords = 4
SPECIFICATION Spec
INVARIANTS
  OneRecordPerSequence
  CommittedContiguously
  AcknowledgedIsCommitted
PROPERTIES
  NeverRegresses
CHECK_DEADLOCK FALSE
