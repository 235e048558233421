SPECIFICATION FairSpec
CONSTANTS
  MaxSessions = 1
  MaxExecutions = 1
  MaxCommands = 2
  Budget <- Nothing
PROPERTIES
  DispatchedIsReconciled
CHECK_DEADLOCK FALSE
