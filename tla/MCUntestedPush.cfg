CONSTANTS
  Pipelines <- OnlyLintRetries
  MaxAttempt = 2
  MaxVersion = 2
  MaxCommits = 0
  MaxFaults = 0
  Good = {2}
  AIMay = {}
SPECIFICATION Spec
INVARIANT PushedPassesTests
CHECK_DEADLOCK FALSE
