\* Enforced: two thoughts, two attempts of one task.
SPECIFICATION Spec
CONSTANTS
  Entry = {1, 2}
  Task = {t1}
  MaxEpoch = 2
  BatchSize = 2
  Enforce = TRUE
  Landing = {k1, k2}
  Sweeper = {d1}
  Bound <- Storm
  NoTask = NoTask
  NoAction = NoAction
CHECK_DEADLOCK FALSE
SYMMETRY Perms
INVARIANTS AppliedOnce ReceiptsComplete
