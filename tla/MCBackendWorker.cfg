SPECIFICATION FairSpec
CONSTANTS
  Threads = {1, 2}
  Flushers = {1}
  QueueCapacity = 1
  Configs <- StopAndBatch
INVARIANTS
  NothingLostOrReordered
  OrderedWithinGrace
  FlushCoversEarlierEvents
  StopDrains
PROPERTIES
  FlushReleased
  StopReturns
