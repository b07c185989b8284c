SPECIFICATION FairSpec
CONSTANTS
  Threads = {"a", "b"}
  Capacity = 1
  MaxEvents = 2
  MaxDrops = 1
  CountMod = 16
INVARIANTS
  NoDanglingContext
  CountSettles
PROPERTIES
  PublishedIsProcessed
  ExitedIsRemoved
