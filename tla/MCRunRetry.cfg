\* triage, test (back to triage, two attempts; gated), push (gated, with preview).
CONSTANTS
  N = 3
  OnFailure <- RetryToFirst
  MaxRetries <- TwoAttempts
  MaxAttempt = 2
  RequireApproval = {2, 3}
  Triage = {1}
  GitPush = {3}
  DinD = {2}
  Requests = {q1, q2, q3}
  Ops = {"approve", "delete", "select"}
  MaxCrashes = 1
SPECIFICATION Spec
SYMMETRY Symmetry
INVARIANTS
  TypeOK
  OneJobAtATime
  StepsInOrder
  SuccessIsComplete
  NoUnapprovedStep
PROPERTIES
  ImplementsLifecycle
  RetryIsFresh
CHECK_DEADLOCK FALSE
