CONSTANTS
  t1 = t1
  d1 = d1
  d2 = d2
  Task <- OneTask
  Cleanup <- OneTask
  Recurring <- None
  Priority <- One
  MaxRetries = 2
  MaxEpoch = 2
  NoEpoch = NoEpoch
  NoAttempt = NoAttempt
  NoPass = NoPass
  Daemon <- TwoDaemons
  Bound <- SharedBound
SPECIFICATION WorkerSpec
INVARIANTS
  AttemptsExclusive
  SettlesOwnAttempt
SYMMETRY DaemonSymmetry
CHECK_DEADLOCK FALSE
