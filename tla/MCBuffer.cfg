\* Two callers, a queue of three places, batches of up to two items.
SPECIFICATION FairBufferSpec
CONSTANTS
  Caller = {c1, c2}
  Worker = w
  Item = {1, 2, 3, 4}
  MaxWrite = 2
  LowWatermarks = {1, 2}
  HighWatermark = 2
  MaxQueueSize = 3
  Unbounded = Unbounded
  FlushInterval = 1
INVARIANTS
  DeliveredInOrder
  FlushWaitsForItsItems
  CloseIsTruthful
  QueueBounded
PROPERTIES
  EveryCallReturns
  ItemsDoNotLinger
