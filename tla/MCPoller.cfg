\* A Pipeline that asks for nothing, then for issues, then runs on a schedule.
CONSTANTS
  Issues = {i1}
  Trigger <- Edited
  Pollers = {p1, p2}
  Runs = {r1, r2}
  PromptCache = TRUE
  Requests = {q1}
  Ops = {"skip", "clear", "retry", "stop", "delete"}
  MaxCrashes = 1
  Sched = Sched
  Spot = Spot
  None = None
SPECIFICATION FairSpec
INVARIANT
  NoStrayPoller
PROPERTIES
  OneRunEach
  PollerFollowsSpec
  IssueHandled
CHECK_DEADLOCK FALSE
