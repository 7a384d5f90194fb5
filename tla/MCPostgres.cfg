\* Two maintenance tasks, two sessions that overlap in every way.
CONSTANTS
  sweeper = sweeper
  curator = curator
  s1 = s1
  s2 = s2
  Task <- MCTask
  Cleanup <- MCTask
  MaxRetries = 2
  MaxEpoch = 2
  Session <- MCSession
  NoSession = NoSession
  NoTask = NoTask
  NoEpoch = NoEpoch
SPECIFICATION Spec
SYMMETRY Perms
INVARIANTS
  OneRunPerAttempt
  LockDiscipline
PROPERTY ImplementsContract
CHECK_DEADLOCK FALSE
