CONSTANTS
  Requests = {q1, q2}
  Ops = {"startChat", "message", "stopChat", "refresh", "artifacts", "approve", "delete"}
  Previews = {d1, d2}
SPECIFICATION FairSpec
CHECK_DEADLOCK FALSE
PROPERTIES
  NeverBack
  DeletionCleansUp
  LoneChatHeals
