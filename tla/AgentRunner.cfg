SPECIFICATION Spec
CONSTANTS
  MaxRetries = 2
  MaxRuns = 3
  None = None
INVARIANTS
  PromptCarriesEachError
  FailureReportsLastAttempt
  CountersReconcile
PROPERTIES
  KeepsContract
  EveryRunEnds
CHECK_DEADLOCK FALSE
