SPECIFICATION FairSpec
CONSTANTS
  t1 = t1
  t2 = t2
  n1 = n1
  n2 = n2
  s1 = s1
  NoThread = NoThread
  NoLogger = NoLogger
  Threads <- MCThreads
  Names <- MCNames
  Sinks <- MCSinks
  WaitForEmpty = FALSE
  MaxGen <- MCMaxGen
  MaxEvents = 1
  MaxStops = 1
INVARIANT NoDanglingLogger
INVARIANT RemovalIsComplete
INVARIANT InvalidatedAreNoticed
PROPERTY BlockingRemovalReturns
CHECK_DEADLOCK FALSE
