SPECIFICATION FairSpec
CONSTANTS
  Capacity = 4
  Laps = 2
  ReaderStorePercent = 75
  Sizes = {2, 3, 4, 5}
INVARIANTS
  NoOverwrite
  ReadsWholeMessage
PROPERTIES
  ImplementsFrontendQueue
  BlockedWriterProceeds
