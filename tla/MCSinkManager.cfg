SPECIFICATION FairSpec
CONSTANTS
  t1 = t1
  t2 = t2
  a = a
  b = b
  NoSink = NoSink
  Threads <- MCThreads
  Ids <- MCIds
  Instances = {1, 2, 3}
INVARIANT OneSinkPerId
PROPERTY ReservationsEnd
