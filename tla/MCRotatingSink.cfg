CONSTANTS
  Configs <- MCConfigs
  Bounds <- MCBounds
  Lateness <- MCLateness
  Sizes = {1, 2}
  DayLength = 2
SPECIFICATION RotatingSpec
INVARIANTS FilesHoldTheLog SizeStaysRight HeaderHeadsEachFile RotatesOnTime
CHECK_DEADLOCK FALSE
