CONSTANTS
  Visits <- AllVisits
  MaxEdits = 1
  MaxPolls = 1
  MaxCalls = 2
SPECIFICATION FairSpec
INVARIANT
  NoStaleReview
PROPERTIES
  StartDecides
  CloseHandsOver
CHECK_DEADLOCK FALSE
