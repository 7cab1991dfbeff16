CONSTANTS
  Names = {"my-pipeline", "b"}
  Default = "my-pipeline"
  NoName = ""
  MaxEdits <- FewEdits
  MaxTyped = 2
  MaxPosts = 2
  MaxLost = 1
  Pipelines = {"p", "q"}
  Keys = {"1"}
  None = "none"
  Open <- SomeOpen
  MaxAsks = 2
  MaxCalls = 2
  Ids = {1, 2}
  OfIn <- TwoWorlds
  Home = "p"
  PageSize = 1
  MaxClicks = 1
  Used = {"detail"}
  Options = {"x", "y"}
  MaxVer = 2
  Slots = {1, 2}
SPECIFICATION DashboardSpec
INVARIANTS
  RecordsMatch
  DeletesConfirmed
  OnePipelineEach
PROPERTIES
  SentIsShown
  StaysNew
CHECK_DEADLOCK FALSE
