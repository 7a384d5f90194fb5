CONSTANTS
  sweeper = sweeper
  curator = curator
  Task <- MCTask
  Cleanup <- MCTask
  Priority <- MCPriority
  MaxRetries = 2
  MaxEpoch = 2
  NoEpoch = NoEpoch
SPECIFICATION Spec
INVARIANTS
  OneCleanupRunning
  EveryAttemptLoggedOnce
  LogAgreesWithStatus
  RequestEndsWithAttempt
PROPERTY ImplementsContract
CHECK_DEADLOCK FALSE
