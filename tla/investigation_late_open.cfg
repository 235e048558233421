SPECIFICATION Spec
CONSTANTS
  MaxSessions = 1
  MaxExecutions = 1
  MaxCommands = 2
  Budget <- OnlyClose
INVARIANTS
  ConfirmedCleanup
CHECK_DEADLOCK FALSE
