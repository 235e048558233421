SPECIFICATION FairSpec
CONSTANTS
  None = None
  Executions <- ThreeExecutions
  Waiters <- TwoWaiters
  MaxSteps = 2
INVARIANTS
  TypeOK
  NoLostWakeup
  EntriesAreCounted
  CompletedMeansTerminal
  ScriptBudgetHolds
PROPERTIES
  WaitsReturn
CHECK_DEADLOCK FALSE
