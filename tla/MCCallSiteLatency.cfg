SPECIFICATION BenchmarkFairSpec
CONSTANTS
  ThreadCounts <- SmallThreadCounts
  NumIterations = 3
  MessagesPerIteration = 2
  Latencies = {1, 2}
INVARIANTS MeasuredTogether ReportsRight
PROPERTY BenchmarkEnds
CHECK_DEADLOCK FALSE
