SPECIFICATION Spec
CONSTANTS
  MaxSessions = 1
  MaxExecutions = 1
  MaxCommands = 2
  Budget <- OnlyCancel
INVARIANTS
  CancelledMeansStopped
CHECK_DEADLOCK FALSE
