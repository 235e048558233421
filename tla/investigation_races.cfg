SPECIFICATION Spec
CONSTANTS
  MaxSessions = 1
  MaxExecutions = 1
  MaxCommands = 2
  Budget <- AnyTwo
INVARIANTS
  RunsAtMostOnce
  NeverRanUnlessRepeated
  FinishedMeansStopped
  RevokedLeavesNoLiveSession
  ReconciledViewsAgree
  CleanupUnlessReopened
PROPERTIES
  OutcomesAreFinal
CHECK_DEADLOCK FALSE
