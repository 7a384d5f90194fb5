CONSTANTS
  t1 = t1
  d1 = d1
  d2 = d2
  Task <- OneTask
  Cleanup <- OneTask
  Recurring <- OneTask
  Priority <- One
  MaxRetries = 2
  MaxEpoch = 2
  NoEpoch = NoEpoch
  NoAttempt = NoAttempt
  NoPass = NoPass
  Daemon <- OneDaemon
  Bound <- LiveBound
SPECIFICATION FairWorkerSpec
INVARIANTS
  ClaimsBounded
  RunLoopSurvives
PROPERTIES
  OwnAttemptKept
  EveryTaskEnds
