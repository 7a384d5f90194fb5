CONSTANTS
  Task = {t1, t2}
  Item = {i1}
  BatchLimit = 2
  MaxAttempts = 2
  MaxGrants = 2
  MaxCrashes = 1
  NoOwner = NoOwner
SPECIFICATION FairItemSpec
INVARIANTS
  LeaseIntact
PROPERTIES
  LeaksReturned
CHECK_DEADLOCK FALSE
