-------------------------------- MODULE Dashboard --------------------------------
(***************************************************************************)
(* The pages of the dashboard that stand by themselves                     *)
(* (dashboard/src/App.tsx): the history of issues, the lists of runs, the  *)
(* views that load one text, and the page that creates a pipeline.  A      *)
(* route mounts one page, whose state begins anew and is lost when another *)
(* route is taken, so that a behaviour here is a visit to one of them.     *)
(* RunPage and ApprovalCard have the page of a run.                        *)
(***************************************************************************)
EXTENDS PipelineForm

CONSTANTS
  Pipelines,
  Keys, Open, None, MaxAsks, MaxCalls,         \* of IssueHistory
  Ids, OfIn, Home, PageSize, Used, MaxClicks,  \* of RunList
  Options, MaxVer, Slots                       \* of LiveView

ASSUME HistoryAssumption ==
  Open \subseteq Pipelines \X Keys /\ None \notin Pipelines
ASSUME ListAssumption ==
  /\ Ids \subseteq Nat /\ IsFiniteSet(Ids)
  /\ OfIn \in [{"list", "detail"} -> [Ids -> Pipelines]] /\ Home \in Pipelines
  /\ Used \subseteq {"list", "detail"} /\ PageSize \in Nat \ {0} /\ MaxClicks \in Nat
ASSUME ViewAssumption == MaxVer \in Nat /\ Options # {}

VARIABLES
  route,                                                    \* the page that is mounted
  handled, rows, asks, calls, page, unseen,                 \* IssueHistory
  view, server, shown, load, ui, arming, busy, clicks,      \* RunList
  kind, ver, active, v, loads                               \* LiveView

History == INSTANCE IssueHistory WITH load <- rows
List == INSTANCE RunList WITH posts <- clicks, MaxPosts <- MaxClicks
View == INSTANCE LiveView

history == <<handled, rows, asks, calls, page, unseen>>
list == <<view, server, shown, load, ui, arming, busy, clicks>>
text == <<kind, ver, active, v, loads>>
all == <<route, vars, history, list, text>>

\* "/" and "/pipelines/:namespace/:name" both list runs.
Routes == {"/history", "/", "/logs", "/pipelines/new"}

\* A page that is not mounted has no state: it stands at one of its first states.
DashboardInit ==
  /\ route \in Routes
  /\ Init /\ History!Init /\ List!Init /\ View!Init
  /\ route # "/history" => handled = {}
  /\ route # "/" => view = "list" /\ \A i \in Ids : server[i] = "active"
  /\ route # "/logs" => kind = "file" /\ ~active
  /\ route # "/pipelines/new" => section = "steps"

VisitForm == route = "/pipelines/new" /\ Next /\ UNCHANGED <<route, history, list, text>>

VisitHistory ==
  route = "/history" /\ History!Next /\ UNCHANGED <<route, vars, list, text>>

VisitList == route = "/" /\ List!Next /\ UNCHANGED <<route, vars, history, text>>

VisitText == route = "/logs" /\ View!Next /\ UNCHANGED <<route, vars, history, list>>

DashboardNext == VisitForm \/ VisitHistory \/ VisitList \/ VisitText

OpenList == route = "/" /\ view = "list"

\* A step of the list of all pipelines, or of a view of one text.  The list of one
\* pipeline loads in one part what the other loads in several.
OfList(A) == OpenList /\ A /\ UNCHANGED <<route, vars, history, text>>
OfText(A) == route = "/logs" /\ A /\ UNCHANGED <<route, vars, history, list>>

\* The intervals go on, every load is served and answered, and not always with an
\* error.
LoadsEnd ==
  /\ WF_all(OfList(List!LoadNow))
  /\ WF_all(OfList(List!SlowArrives \/ \E q \in Pipelines : List!Serve(q)))
  /\ WF_all(OfText(\E s \in Slots : View!Send(s)))
  /\ \A s \in Slots : WF_all(OfText(View!Serve(s) \/ View!Arrives(s) \/ View!Fails(s)))
  /\ SF_all(OfText(\E s \in Slots : View!Arrives(s)))

DashboardSpec == DashboardInit /\ [][DashboardNext]_all /\ LoadsEnd

-----------------------------------------------------------------------------
(* Properties, stated and explained in the modules of the pages.           *)

\* The table of the history and what the server has handled do not drift apart.
RecordsMatch == History!RecordsMatch

\* A run is deleted only after two clicks on its own button (DeleteButton.tsx).
DeletesConfirmed == List!DeletesConfirmed

\* What a page shows has come to rest: no run changes, and the visitor of a view of
\* one text neither selects nor opens anything nor turns its interval on or off.
Rests == server' = server /\ v'.choice = v.choice /\ v'.open = v.open /\ v'.auto = v.auto

\* Loads are not put in order, and an older answer may come after a newer one.  But
\* when what a page shows has come to rest it is of the newest version in the end,
\* and no late answer takes the page back any more (PipelineList.tsx,
\* OperatorLogs.tsx, StepCard of RunDetail.tsx, ArtifactsPanel.tsx).
StaysNew ==
  <>[][Rests]_all =>
    <>[]((OpenList => List!NotOld) /\ (route = "/logs" => View!NotOld))
=============================================================================
