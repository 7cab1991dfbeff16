CONSTANTS
  Pipelines <- AllPipelines
  MaxAttempt = 2
  MaxVersion = 2
  MaxCommits = 2
  MaxFaults = 2
  Good = {2}
  AIMay = {"commit", "switch"}
SPECIFICATION FairSpec
INVARIANTS
  PushedPassesTests
  CheckoutRecovers
  CheckoutIsFresh
  WorkIsCommitted
PROPERTIES
  RunEnds
CHECK_DEADLOCK FALSE
