SPECIFICATION FairSpec
CONSTANTS
  InitialCapacity = 2
  MaxCapacity = 8
  Powers = {1, 2, 4, 8, 16}
  Sizes = {1, 3, 5, 9}
  ShrinkCapacities = {2, 4}
  NodeIds = {1, 2, 3}
  MaxMessages = 3
INVARIANTS
  NoUseAfterDelete
  RemovedOnlyWhenDrained
PROPERTIES
  ImplementsFrontendQueue
  BlockedProducerProceeds
\* Nothing happens after an exited thread's queue was removed.
CHECK_DEADLOCK FALSE
