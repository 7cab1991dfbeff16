CONSTANTS
  r1 = r1
  r2 = r2
  Runs <- TwoRuns
  First = r1
  Visits <- AllVisits
  Steps = 2
  MaxLoads = 2
  MaxPosts = 1
SPECIFICATION FairSpec
PROPERTIES
  CatchesUp
  StopIsSeen
  RetryLands
CHECK_DEADLOCK FALSE
