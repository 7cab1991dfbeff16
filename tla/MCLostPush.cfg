CONSTANTS
  Pipelines <- OnlyIssues
  MaxAttempt = 2
  MaxVersion = 2
  MaxCommits = 0
  MaxFaults = 1
  Good = {2}
  AIMay = {}
SPECIFICATION Spec
INVARIANT SuccessIsPushed
CHECK_DEADLOCK FALSE
