SPECIFICATION FairSpec
CONSTANTS
  MaxTasks = 2
  MaxPages = 2
  Pipelines <- MCPipelines
INVARIANTS CompletedHasOutput CompletedIsPaid
PROPERTIES OutcomeIsFinal WorkersExit
CHECK_DEADLOCK FALSE
