SPECIFICATION LifecycleSpec
CONSTANTS
  Workloads <- MCWorkloads
  Threads = {"main", "other"}
  Readers = {"main", "other"}
  Null = Null
  Signals = {"SIGTERM", "SIGSEGV", "SIGABRT", "SIGKILL", "SIGALRM"}
  Fixed = {"SIGKILL"}
  Epoch = 100
  Lag = 1
  Gap = 3
  MaxInterval = 6
  MaxResyncs = 12
INVARIANT LifecycleRight
PROPERTY CaughtSignalEnds
CHECK_DEADLOCK FALSE
