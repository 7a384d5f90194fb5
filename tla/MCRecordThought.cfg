CONSTANTS
  Thought <- MCThought
  Caller <- MCCaller
  Worker = worker
  Boot = boot
  Flusher = flusher
  IngestTask = {k1}
  NoTask = NoTask
  MaxOutbox = 1
  FlushLimit = 2
  MaxFaults = 1
  NoWrite = NoWrite
SPECIFICATION FairSpec
INVARIANTS
  AcknowledgedKept
  DuplicatesExplained
  PendingHasTask
PROPERTY OutboxDrains
CHECK_DEADLOCK FALSE
