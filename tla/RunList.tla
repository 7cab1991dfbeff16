-------------------------------- MODULE RunList --------------------------------
(***************************************************************************)
(* The pages that list runs: all pipelines (dashboard/src/pages/           *)
(* PipelineList.tsx) and one of them (PipelineDetail.tsx), with the        *)
(* buttons of a row (StopButton, RetryButton, DeleteButton), against a     *)
(* server in which runs are created, start, end and go.                    *)
(*                                                                         *)
(* The pages load every 3 seconds and wait for no earlier load: one load   *)
(* may be slow, its parts served at different moments, while others come   *)
(* and go.  React keeps the state of a row's buttons under the row's key.  *)
(***************************************************************************)
EXTENDS Integers, FiniteSets

CONSTANTS
  Ids,        \* the runs, in the order of their creation
  Pipelines,
  OfIn,       \* the pipeline of each run, in a world for each of the pages
  Home,       \* the pipeline that PipelineDetail shows
  PageSize,   \* runs on a page (5 and 20 in the code)
  Used,       \* bound: the pages on which the visitor uses the buttons of a row
  MaxPosts    \* bound of the POSTs and DELETEs in flight

Views == {"list", "detail"}

VARIABLES
  view,     \* which of the two pages is open
  server,   \* the phase of each run
  shown,    \* the phases as the page has loaded them
  load,     \* the slow load
  ui,       \* the rest of the state of the page
  arming,   \* delete buttons that wait for the second click
  busy,     \* buttons that are disabled
  posts     \* POSTs and DELETEs in flight

vars == <<view, server, shown, load, ui, arming, busy, posts>>
buttons == <<arming, busy, posts>>

\* A new run has no startedAt.
Terminal == {"ended", "deleting"}
Absent == {"none", "gone"}
Phases == {"new", "active"} \cup Terminal \cup Absent
NoRuns == [i \in Ids |-> "none"]

\* creating: a run of a pipeline without trigger has been asked for.
UI == [st : {"loading", "shown", "error", "left"}, activeOnly : BOOLEAN,
       page : [Pipelines -> 0 .. Cardinality(Ids)], creating : BOOLEAN]
NewUI == [st |-> "loading", activeOnly |-> FALSE,
          page |-> [q \in Pipelines |-> 0], creating |-> FALSE]

Kinds == {"stop", "retry", "delete"}
Post == [kind : Kinds, id : Ids, by : Ids, key : Nat, own : BOOLEAN, served : BOOLEAN]

Of == OfIn[view]
Pipes == IF view = "list" THEN Pipelines ELSE {Home}
Part(q) == {i \in Ids : Of[i] = q}

-----------------------------------------------------------------------------
(* What is on the screen: s is the list as it was loaded, u the page.      *)

Filtered(s, u, q) ==
  {i \in Part(q) : s[i] \notin Absent /\ (u.activeOnly => s[i] \notin Terminal)}

\* handleListRuns sorts by startedAt, the runs without one last.
Before(s, i, j) ==
  \/ s[i] # "new" /\ s[j] = "new"
  \/ s[i] # "new" /\ s[j] # "new" /\ i > j
  \/ s[i] = "new" /\ s[j] = "new" /\ i < j

Place(s, u, i) == Cardinality({j \in Filtered(s, u, Of[i]) : Before(s, j, i)})
Pages(s, u, q) == (Cardinality(Filtered(s, u, q)) + PageSize - 1) \div PageSize

OnPage(s, u, i) ==
  /\ u.st = "shown" /\ Of[i] \in Pipes /\ i \in Filtered(s, u, Of[i])
  /\ Place(s, u, i) \div PageSize = u.page[Of[i]]

\* Broken variant of KeyOf: the place in the list.
KeyByPlace(s, u, i) == Place(s, u, i)

\* key={r.name}
KeyOf(s, u, i) == i

\* The buttons that are rendered: a row has Delete, and Retry or Stop.
Mounted(s, u) ==
  LET rows == {i \in Ids : OnPage(s, u, i)}
  IN  {<<"delete", KeyOf(s, u, i)>> : i \in rows}
      \cup {<<IF s[i] \in Terminal THEN "retry" ELSE "stop", KeyOf(s, u, i)>> : i \in rows}

\* The page is rendered again; a button that is not rendered loses its state.
Render(s, u) ==
  LET live == Mounted(s, u)
  IN  /\ shown' = s /\ ui' = u
      /\ arming' = {a \in arming : <<"delete", a.key>> \in live}
      /\ busy' = busy \cap live
      /\ posts' = {[p EXCEPT !.own = @ /\ <<p.kind, p.key>> \in live] : p \in posts}

-----------------------------------------------------------------------------
(* The server.                                                             *)

Becomes(i, from, to) == server[i] \in from /\ server' = [server EXCEPT ![i] = to]
Newest(i) == \A j \in Ids : server[j] = "none" => i <= j
NewRun(q) == \E i \in Part(q) : Newest(i) /\ Becomes(i, {"none"}, "new")

Server ==
  /\ \/ \E q \in Pipes : NewRun(q)
     \/ \E i \in {j \in Ids : Of[j] \in Pipes} :
          \/ Becomes(i, {"new"}, "active")
          \/ Becomes(i, {"new", "active"}, "ended")
          \/ Becomes(i, {"deleting"}, "gone")
  /\ UNCHANGED <<view, shown, load, ui, buttons>>

-----------------------------------------------------------------------------
(* Loads.                                                                  *)

Showing == ui.st \in {"loading", "shown"}
NoLoad == [on |-> FALSE, left |-> {}, runs |-> NoRuns]
Loaded == IF ui.st = "loading" THEN [ui EXCEPT !.st = "shown"] ELSE ui
Seen(q, s) == [i \in Ids |-> IF i \in Part(q) THEN server[i] ELSE s[i]]
Fresh == [i \in Ids |-> IF Of[i] \in Pipes THEN server[i] ELSE "none"]

\* A load that is answered at once.
LoadNow ==
  /\ Showing
  /\ Render(Fresh, Loaded)
  /\ UNCHANGED <<view, server, load>>

SlowLoad ==
  /\ Showing /\ ~load.on
  /\ load' = [on |-> TRUE, left |-> Pipes, runs |-> NoRuns]
  /\ UNCHANGED <<view, server, shown, ui, buttons>>

\* The runs of one pipeline; the list leaves out a pipeline that answers an error.
Serve(q) ==
  /\ load.on /\ q \in load.left
  /\ \/ load' = [load EXCEPT !.left = @ \ {q}, !.runs = Seen(q, @)]
     \/ view = "list" /\ load' = [load EXCEPT !.left = @ \ {q}]
  /\ UNCHANGED <<view, server, shown, ui, buttons>>

SlowArrives ==
  /\ load.on /\ load.left = {}
  /\ load' = NoLoad
  /\ Render(load.runs, Loaded)
  /\ UNCHANGED <<view, server>>

\* setError: no later load takes it back, and what it loads is not seen.
LoadFails ==
  /\ Showing
  /\ Render(NoRuns, [NewUI EXCEPT !.st = "error"])
  /\ load' = NoLoad
  /\ UNCHANGED <<view, server>>

-----------------------------------------------------------------------------
(* The visitor.                                                            *)

Turn(q, d) ==
  /\ ui.st = "shown" /\ q \in Pipes /\ Pages(shown, ui, q) > 1
  /\ \/ d = -1 /\ ui.page[q] # 0
     \/ d = 1 /\ ui.page[q] < Pages(shown, ui, q) - 1
  /\ Render(shown, [ui EXCEPT !.page[q] = @ + d])
  /\ UNCHANGED <<view, server, load>>

ToggleActive ==
  /\ ui.st = "shown"
  /\ Render(shown, [ui EXCEPT !.activeOnly = ~@, !.page = NewUI.page])
  /\ UNCHANGED <<view, server, load>>

Sends(kind, i, by, key) ==
  /\ Cardinality(posts) < MaxPosts
  /\ busy' = busy \cup {<<kind, key>>}
  /\ posts' = posts \cup {[kind |-> kind, id |-> i, by |-> by, key |-> key,
                           own |-> TRUE, served |-> FALSE]}

CanClick(kind, i) ==
  view \in Used /\ OnPage(shown, ui, i) /\ <<kind, KeyOf(shown, ui, i)>> \in Mounted(shown, ui) \ busy

Click(kind, i) ==
  /\ CanClick(kind, i) /\ Sends(kind, i, i, KeyOf(shown, ui, i))
  /\ UNCHANGED <<view, server, shown, load, ui, arming>>

\* The first click arms the button for 3 seconds, a second one deletes.
ClickDelete(i) ==
  LET key == KeyOf(shown, ui, i)
      armed == {a \in arming : a.key = key}
  IN  /\ CanClick("delete", i)
      /\ IF armed = {} THEN arming' = arming \cup {[key |-> key, by |-> i]} /\ UNCHANGED <<busy, posts>>
         ELSE (\E a \in armed : Sends("delete", i, a.by, key)) /\ UNCHANGED arming
      /\ UNCHANGED <<view, server, shown, load, ui>>

Disarm(a) ==
  /\ arming' = arming \ {a}
  /\ UNCHANGED <<view, server, shown, load, ui, busy, posts>>

\* The dialog of PipelineDetail; its button is disabled while creating.
ClickCreate ==
  /\ view = "detail" /\ ui.st = "shown" /\ ~ui.creating
  /\ ui' = [ui EXCEPT !.creating = TRUE]
  /\ UNCHANGED <<view, server, shown, load, buttons>>

\* The new run is listed by a later load; or an alert.
Created ==
  /\ ui.creating
  /\ ui' = [ui EXCEPT !.creating = FALSE]
  /\ UNCHANGED server \/ NewRun(Home)
  /\ UNCHANGED <<view, shown, load, buttons>>

-----------------------------------------------------------------------------
(* The server's part, and the answers to the buttons.  After a success a   *)
(* button stays disabled; Retry leaves the page for the new run's.         *)

Effect(p) ==
  CASE p.kind = "stop"   -> Becomes(p.id, {"new", "active", "deleting"}, "ended")
    [] p.kind = "delete" -> Becomes(p.id, Phases \ Absent, "deleting")
    [] p.kind = "retry"  -> server[p.id] \notin Absent /\ NewRun(Of[p.id])

ServePost(p) ==
  /\ ~p.served /\ Effect(p)
  /\ posts' = (posts \ {p}) \cup {[p EXCEPT !.served = TRUE]}
  /\ UNCHANGED <<view, shown, load, ui, arming, busy>>

Answered(p) ==
  /\ p.served
  /\ IF p.kind = "retry"
     THEN /\ ui' = [NewUI EXCEPT !.st = "left"]
          /\ shown' = NoRuns /\ load' = NoLoad
          /\ busy' = {} /\ arming' = {} /\ posts' = {}
     ELSE posts' = posts \ {p} /\ UNCHANGED <<ui, shown, load, busy, arming>>
  /\ UNCHANGED <<view, server>>

\* Refused, or the answer is lost, when the server has served it or before; a failed
\* delete is no longer armed either.
Refused(p) ==
  /\ posts' = posts \ {p}
  /\ busy' = IF p.own THEN busy \ {<<p.kind, p.key>>} ELSE busy
  /\ arming' = IF p.own /\ p.kind = "delete" THEN {a \in arming : a.key # p.key} ELSE arming
  /\ UNCHANGED <<view, server, shown, load, ui>>

-----------------------------------------------------------------------------
Init ==
  /\ view \in Views
  /\ server \in {[i \in Ids |-> IF i <= n THEN "active" ELSE "none"] : n \in Ids}
  /\ shown = NoRuns /\ ui = NewUI
  /\ load = NoLoad
  /\ arming = {} /\ busy = {} /\ posts = {}

Loads == LoadNow \/ SlowLoad \/ SlowArrives \/ LoadFails \/ \E q \in Pipelines : Serve(q)

Visitor ==
  \/ ToggleActive \/ ClickCreate
  \/ \E q \in Pipelines, d \in {-1, 1} : Turn(q, d)
  \/ \E i \in Ids : ClickDelete(i) \/ (\E kind \in {"stop", "retry"} : Click(kind, i))

Answers == Created \/ \E p \in posts : ServePost(p) \/ Answered(p) \/ Refused(p)

Timers == \E a \in arming : Disarm(a)

Next == Server \/ Loads \/ Visitor \/ Answers \/ Timers

Spec == Init /\ [][Next]_vars

-----------------------------------------------------------------------------
(* Properties.                                                             *)

TypeOK ==
  /\ view \in Views
  /\ server \in [Ids -> Phases] /\ shown \in [Ids -> Phases]
  /\ load \in [on : BOOLEAN, left : SUBSET Pipelines, runs : [Ids -> Phases]]
  /\ ui \in UI /\ arming \subseteq [key : Nat, by : Ids]
  /\ busy \subseteq Kinds \X Nat /\ posts \subseteq Post

\* A run is deleted only after two clicks on its own button, however the rows
\* have moved between the clicks.
DeletesConfirmed == \A p \in posts : p.by = p.id

\* What the page shows of a run is what the server has.  A load may leave out a
\* pipeline that has answered an error.
NotOld == \A i \in Ids : shown[i] \in {"none", server[i]}
=============================================================================
