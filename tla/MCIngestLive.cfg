\* Liveness: one thought, two attempts.
SPECIFICATION FairSpec
CONSTANTS
  Entry = {1}
  Task = {t1}
  MaxEpoch = 2
  BatchSize = 1
  Enforce = FALSE
  Landing = {k1, k2}
  Sweeper = {d1}
  Bound <- Storm
  NoTask = NoTask
  NoAction = NoAction
CHECK_DEADLOCK FALSE
INVARIANT NothingLost
PROPERTY ClaimsDoNotStrand
