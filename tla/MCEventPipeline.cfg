SPECIFICATION PipelineSpec
CONSTANTS
  Workloads <- MCWorkloads
  MaxCalls = 10
  Literals <- MCLiterals
  Digits <- MCDigits
  NsPerSecond = 1000
  Null = Null
  MaxStringLength = 5
  InlineCapacity = 2
  MaxPathLength = 20
  IntMax = 12
  CompileActiveLevel = 0
  Events = {}
  NoEvent <- NewEvent
  InitialCapacity = 1
  Capacities = {1, 2, 4}
  Wrap = 8
INVARIANT OutputsRight
INVARIANT FiltersApply
INVARIANT EventsIntact
INVARIANT MetricsRight
PROPERTY ImplementsLastEvents
CHECK_DEADLOCK FALSE
