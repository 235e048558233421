SPECIFICATION FairSpec
CONSTANTS
  MaxSessions = 1
  MaxExecutions = 1
  MaxCommands = 1
  Budget <- TwoFailures
INVARIANTS
  TypeOK
PROPERTIES
  AcceptedWorkEnds
  SessionsSettle
CHECK_DEADLOCK FALSE
