CONSTANTS
  N = 2
  OnFailure <- GateRetries
  MaxRetries <- TwoOnSecond
  MaxAttempt = 2
  RequireApproval = {2}
  Triage = {}
  GitPush = {}
  DinD = {1}
  Requests = {q1, q2}
  Ops = {"approve", "delete", "stop"}
  MaxCrashes = 1
SPECIFICATION FairSpec
CHECK_DEADLOCK FALSE
PROPERTIES
  TerminalSticky
  RunSettles
  DeletionCompletes
  CompletionEventuallyRecorded
