SPECIFICATION Spec
CONSTANTS
  Threads = {1, 2}
  Flushers = {1}
  QueueCapacity = 1
  Configs <- LateRegistration
INVARIANTS
  FlushCoversEarlierEvents
