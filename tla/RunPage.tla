-------------------------------- MODULE RunPage --------------------------------
(***************************************************************************)
(* The run page of the dashboard (dashboard/src/pages/RunDetail.tsx) with  *)
(* its buttons and its two question cards, against a server that runs,     *)
(* asks, ends and deletes runs.  Every load and every POST is a request    *)
(* that the server serves at one moment and that is answered at a later    *)
(* one, in any order; an answer may be lost after its effect.              *)
(*                                                                         *)
(* PipelineRun has the reconciler's own races; here a run is its phase,    *)
(* its current step and the step that was approved.                        *)
(***************************************************************************)
EXTENDS Integers, FiniteSets, SequencesExt

CONSTANTS
  Runs,      \* the runs: the first one and those that retrying creates
  First,     \* the run that exists at the start
  Visits,    \* visits explored: the run's phase at the start, the buttons used
  Steps,     \* number of steps of a run: a triage, then steps to be approved
  MaxLoads,  \* bound of the loads in flight
  MaxPosts   \* bound of the POSTs in flight

VARIABLES
  uses,     \* the buttons this visitor uses
  server,   \* the runs as the server has them
  at,       \* the run in the page's URL, or Away
  shown,    \* what setRun stored last: the run, its phase and its step
  err,      \* the page shows an error
  due,      \* runs whose load has been called and waits for a request slot
  loads,    \* loads sent and not yet served, by the run they ask for
  slow,     \* the answer of a load that was served and has not arrived yet
  posts,    \* POSTs and DELETEs in flight
  held      \* buttons that stay disabled after their request succeeded

vars == <<uses, server, at, shown, err, due, loads, slow, posts, held>>
page == <<uses, at, shown, err, due, loads, slow, held>>

Away == "away"
Ended == {"Succeeded", "Failed", "Stopped", "Deleting"}
Phases == {"None", "Pending", "Running", "WaitRepo", "WaitStep", "Gone"} \cup Ended

\* The phases in which RunDetail sets no interval.
Stable == Ended \cup {"WaitStep"}

Buttons == {"stop", "retry", "delete", "approve", "select"}

\* A run: its phase and current step, and whether the question it asks in that
\* step has been answered (spec.selectedRepo in the first, spec.approvedStep).
Run == [phase : Phases, step : 1 .. Steps, ok : BOOLEAN]
NewRun == [phase |-> "Pending", step |-> 1, ok |-> FALSE]
NoRun == [NewRun EXCEPT !.phase = "None"]

ASSUME RunPageAssumption ==
  /\ First \in Runs
  /\ Visits \subseteq [uses : SUBSET Buttons, phase : Phases]
  /\ Steps \in Nat \ {0}
  /\ MaxLoads \in Nat \ {0}
  /\ MaxPosts \in Nat \ {0}

\* What a component knows of a run; run stays null until the first load.
View == [run : Runs, phase : Phases, step : 1 .. Steps]
NoView == [run |-> First, phase |-> "None", step |-> 1]
Known(v) == v.phase # "None"
Exists(r) == server[r].phase \notin {"None", "Gone"}
ViewOf(r) == [run |-> r, phase |-> server[r].phase, step |-> server[r].step]

Post == [kind : Buttons, run : Runs, own : BOOLEAN,
         live : BOOLEAN, st : {"sent", "yes"}, new : Runs]

\* Which buttons are on the page: none while it loads or after an error.
Mounted(b, v, e) ==
  /\ Known(v) /\ ~e
  /\ CASE b = "stop"    -> v.phase \notin Ended
       [] b = "retry"   -> v.phase \in Ended
       [] b = "delete"  -> TRUE
       [] b = "approve" -> v.phase = "WaitStep"
       [] b = "select"  -> v.phase = "WaitRepo"

Busy(b) == held[b] \/ \E i \in DOMAIN posts : posts[i].kind = b /\ posts[i].own

\* Broken variant of Polling: the interval is set once, and the first answer
\* clears it.
PollsForFirst == at # Away /\ ~err /\ ~Known(shown)

Polling == at # Away /\ ~err /\ shown.phase \notin Stable

-----------------------------------------------------------------------------
(* The server: the reconciler and other visitors.                          *)

Step(r, p, q) ==
  /\ server[r].phase = p
  /\ server' = [server EXCEPT ![r].phase = q]

Starts(r) == Step(r, "Pending", "Running")
Asks(r) ==
  ~server[r].ok /\ Step(r, "Running", IF server[r].step = 1 THEN "WaitRepo" ELSE "WaitStep")
Resumes(r) ==
  server[r].ok /\ (Step(r, "WaitStep", "Running") \/ Step(r, "WaitRepo", "Running"))
Fails(r) == Step(r, "Running", "Failed")
Removed(r) == Step(r, "Deleting", "Gone")

\* A triage that is sure of its repository asks nothing.
StepDone(r) ==
  /\ server[r].phase = "Running" /\ (server[r].ok \/ server[r].step = 1)
  /\ server' = [server EXCEPT ![r] =
                  IF @.step = Steps THEN [@ EXCEPT !.phase = "Succeeded"]
                  ELSE [@ EXCEPT !.step = @ + 1, !.ok = FALSE]]

\* A visitor of the list page stops or deletes the run.
Elsewhere(r) ==
  /\ Exists(r)
  /\ \/ /\ server[r].phase \notin Ended
        /\ server' = [server EXCEPT ![r].phase = "Stopped"]
     \/ /\ server[r].phase # "Deleting"
        /\ server' = [server EXCEPT ![r].phase = "Deleting"]

Server ==
  /\ \E r \in Runs :
       \/ Starts(r) \/ Asks(r) \/ Resumes(r) \/ Fails(r)
       \/ Removed(r) \/ StepDone(r) \/ Elsewhere(r)
  /\ UNCHANGED <<page, posts>>

-----------------------------------------------------------------------------
(* Loads.                                                                  *)

\* A component that is no longer rendered loses its state; its request in
\* flight goes on without it.
Kept(v, e) == [b \in Buttons |-> held[b] /\ Mounted(b, v, e)]

Orphaned(ps, v, e) ==
  [i \in DOMAIN ps |-> [ps[i] EXCEPT !.own = @ /\ Mounted(ps[i].kind, v, e)]]

InFlight == Len(loads) + (IF Known(slow) THEN 1 ELSE 0)

\* The interval of the effect: every 3 seconds while the shown phase may change.
Poll ==
  /\ Polling /\ InFlight < MaxLoads
  /\ loads' = Append(loads, at)
  /\ UNCHANGED <<uses, server, at, shown, err, due, slow, posts, held>>

\* A load that an effect or a button's callback has called.
LoadNow(r) ==
  /\ r \in due /\ InFlight < MaxLoads
  /\ loads' = Append(loads, r)
  /\ due' = due \ {r}
  /\ UNCHANGED <<uses, server, at, shown, err, slow, posts, held>>

\* The server answers, and the answer takes its time: loads sent or served after
\* it may arrive before it.
ServeSlowly(i) ==
  /\ Exists(loads[i]) /\ ~Known(slow)
  /\ slow' = ViewOf(loads[i])
  /\ loads' = RemoveAt(loads, i)
  /\ UNCHANGED <<uses, server, at, shown, err, due, posts, held>>

\* The effect depends on load, phase and waitingFor: it loads again when the
\* answer changes one of them.
EffectRuns(v) == IF v.phase # shown.phase THEN {at} ELSE {}

SetRun(v) ==
  /\ shown' = v
  /\ due' = due \cup EffectRuns(v)
  /\ held' = Kept(v, err)
  /\ posts' = Orphaned(posts, v, err)
  /\ UNCHANGED <<uses, server, at, err>>

ServeAtOnce(i) ==
  /\ Exists(loads[i])
  /\ SetRun(ViewOf(loads[i]))
  /\ loads' = RemoveAt(loads, i)
  /\ UNCHANGED slow

ArriveLate ==
  /\ Known(slow)
  /\ SetRun(slow)
  /\ slow' = NoView
  /\ UNCHANGED loads

\* The run is gone, or the request or its answer is lost.  No later load takes
\* the error away, so that what the page loads behind it is forgotten here.
LoadFails(i) ==
  /\ i \in DOMAIN loads
  /\ err' = TRUE
  /\ shown' = NoView /\ due' = {} /\ loads' = <<>> /\ slow' = NoView
  /\ held' = Kept(NoView, TRUE)
  /\ posts' = Orphaned(posts, NoView, TRUE)
  /\ UNCHANGED <<uses, server, at>>

Loading ==
  \/ Poll
  \/ \E r \in Runs : LoadNow(r)
  \/ \E i \in DOMAIN loads : ServeSlowly(i) \/ ServeAtOnce(i) \/ LoadFails(i)
  \/ ArriveLate

-----------------------------------------------------------------------------
(* Buttons.                                                                *)

\* Stop, Retry and Delete act on the run of the URL, the cards on the run shown.
Target(b) == IF b \in {"approve", "select"} THEN shown.run ELSE at

CanClick(b) ==
  /\ b \in uses /\ at # Away /\ Mounted(b, shown, err) /\ ~Busy(b) /\ Len(posts) < MaxPosts

\* The delete button takes a second click, which its first one asks for.
Click(b) ==
  /\ CanClick(b)
  /\ posts' = Append(posts, [kind |-> b, run |-> Target(b),
                             own |-> TRUE, live |-> TRUE, st |-> "sent", new |-> First])
  /\ UNCHANGED <<server, page>>

\* The handlers of the server.
Accepts(p) ==
  /\ Exists(p.run)
  /\ CASE p.kind = "stop"    -> server[p.run].phase \notin Ended \ {"Deleting"}
       [] p.kind = "retry"   -> \E r \in Runs : server[r] = NoRun
       [] p.kind = "delete"  -> TRUE
       [] p.kind = "approve" -> server[p.run].phase = "WaitStep"
       [] p.kind = "select"  -> server[p.run].phase \in {"WaitRepo", "WaitStep"}

Effect(p, new) ==
  CASE p.kind = "stop"    -> [server EXCEPT ![p.run].phase = "Stopped"]
    [] p.kind = "retry"   -> [server EXCEPT ![new] = NewRun]
    [] p.kind = "delete"  -> [server EXCEPT ![p.run].phase = "Deleting"]
    [] p.kind = "approve" -> [server EXCEPT ![p.run].ok = TRUE]
    [] p.kind = "select"  -> [server EXCEPT ![p.run].ok = @ \/ server[p.run].step = 1]

\* The retry of a run creates a run of a new name.
Served(i, new) ==
  /\ posts[i].st = "sent" /\ Accepts(posts[i])
  /\ IF posts[i].kind = "retry" THEN server[new] = NoRun ELSE new = First
  /\ server' = Effect(posts[i], new)

ServePost(i) ==
  /\ \E new \in Runs :
       /\ Served(i, new)
       /\ posts' = [posts EXCEPT ![i].st = "yes", ![i].new = new]
  /\ UNCHANGED page

\* The handler refuses, or the request or its answer is lost: the button is
\* enabled again.
PostFails(i) ==
  /\ posts[i].st = "sent"
  /\ UNCHANGED server \/ \E new \in Runs : Served(i, new)
  /\ posts' = RemoveAt(posts, i)
  /\ UNCHANGED <<uses, at, shown, err, due, loads, slow, held>>

\* Broken variant of AnswerReload: it is left to the interval to load the run.
AnswerWithoutLoad(i) ==
  /\ posts[i].st = "yes" /\ posts[i].kind \in {"stop", "approve", "select"}
  /\ held' = [held EXCEPT ![posts[i].kind] =
                @ \/ (posts[i].kind = "stop" /\ posts[i].own)]
  /\ posts' = RemoveAt(posts, i)
  /\ UNCHANGED <<uses, server, at, shown, err, due, loads, slow>>

\* onStopped, onApproved and onSelected are the load of the run the button was
\* rendered for; the stop button stays disabled.
AnswerReload(i) ==
  /\ posts[i].st = "yes" /\ posts[i].kind \in {"stop", "approve", "select"}
  /\ due' = IF posts[i].live /\ ~err THEN due \cup {posts[i].run} ELSE due
  /\ held' = [held EXCEPT ![posts[i].kind] =
                @ \/ (posts[i].kind = "stop" /\ posts[i].own)]
  /\ posts' = RemoveAt(posts, i)
  /\ UNCHANGED <<uses, server, at, shown, err, loads, slow>>

\* A fresh instance of the page for run r, or no page.
Mount(r, wanted) ==
  /\ at' = r
  /\ shown' = NoView /\ err' = FALSE /\ loads' = <<>> /\ slow' = NoView /\ due' = wanted
  /\ held' = [b \in Buttons |-> FALSE]

\* The page is gone, and with it the buttons; their requests go on.
Outlived(ps) == [i \in DOMAIN ps |-> [ps[i] EXCEPT !.own = FALSE, !.live = FALSE]]

\* Broken variant of AnswerRetry: the effect does not depend on load.
AnswerRetryNoEffect(i) ==
  /\ posts[i].st = "yes" /\ posts[i].kind = "retry"
  /\ at' = posts[i].new
  /\ held' = [held EXCEPT !["retry"] = @ \/ posts[i].own]
  /\ posts' = RemoveAt(posts, i)
  /\ UNCHANGED <<uses, server, shown, err, due, loads, slow>>

\* navigate to the new run: the same instance of the page gets another name,
\* and keeps what it shows until the new run is loaded.
AnswerRetry(i) ==
  /\ posts[i].st = "yes" /\ posts[i].kind = "retry"
  /\ IF at = Away \* the answer takes the visitor back to a run
     THEN Mount(posts[i].new, {posts[i].new}) /\ posts' = RemoveAt(posts, i)
     ELSE /\ at' = posts[i].new
          /\ due' = IF err THEN due ELSE due \cup {posts[i].new}
          /\ held' = [held EXCEPT !["retry"] = @ \/ posts[i].own]
          /\ posts' = RemoveAt(posts, i)
          /\ UNCHANGED <<shown, err, loads, slow>>
  /\ UNCHANGED <<uses, server>>

\* onDeleted navigates to the Pipeline's page.
AnswerDelete(i) ==
  /\ posts[i].st = "yes" /\ posts[i].kind = "delete"
  /\ Mount(Away, {})
  /\ posts' = Outlived(RemoveAt(posts, i))
  /\ UNCHANGED <<uses, server>>

Answering ==
  \E i \in DOMAIN posts :
    ServePost(i) \/ PostFails(i) \/ AnswerReload(i) \/ AnswerRetry(i) \/ AnswerDelete(i)

-----------------------------------------------------------------------------
\* The visitor follows a link away from the page.
Leave ==
  /\ at # Away
  /\ Mount(Away, {})
  /\ posts' = Outlived(posts)
  /\ UNCHANGED <<uses, server>>

Init ==
  /\ \E visit \in Visits :
       /\ uses = visit.uses
       /\ server = [r \in Runs |-> IF r = First THEN [NewRun EXCEPT !.phase = visit.phase]
                                  ELSE NoRun]
  /\ at = First /\ shown = NoView /\ err = FALSE
  /\ due = {First} /\ loads = <<>> /\ slow = NoView /\ posts = <<>>
  /\ held = [b \in Buttons |-> FALSE]

Next == 
  \/ Server \/ Loading \/ Answering \/ Leave
  \/ \E b \in Buttons : Click(b)

Spec == Init /\ [][Next]_vars

\* The timer of the page runs, requests are answered in the end, callbacks are
\* called.  Nothing is asked of the reconciler or of the visitor.
Fairness ==
  /\ WF_vars(Poll)
  /\ \A r \in Runs : WF_vars(LoadNow(r))
  /\ \A i \in 1 .. MaxLoads :
       WF_vars(i \in DOMAIN loads /\ (ServeSlowly(i) \/ ServeAtOnce(i) \/ LoadFails(i)))
  /\ WF_vars(ArriveLate)
  /\ \A i \in 1 .. MaxPosts :
       /\ WF_vars(i \in DOMAIN posts /\ (ServePost(i) \/ PostFails(i)))
       /\ WF_vars(i \in DOMAIN posts
                    /\ (AnswerReload(i) \/ AnswerRetry(i) \/ AnswerDelete(i)))

FairSpec == Spec /\ Fairness
-----------------------------------------------------------------------------
(* Properties.                                                             *)

\* Every variable has its type: the page shows a run only with a phase it can
\* have, and no more requests are in flight than the browser sends.
TypeOK ==
  /\ uses \in SUBSET Buttons
  /\ server \in [Runs -> Run]
  /\ at \in Runs \cup {Away}
  /\ shown \in View
  /\ err \in BOOLEAN
  /\ due \in SUBSET Runs
  /\ loads \in Seq(Runs) /\ slow \in View /\ InFlight <= MaxLoads
  /\ posts \in Seq(Post) /\ Len(posts) <= MaxPosts
  /\ held \in [Buttons -> BOOLEAN]

Agrees == shown.run = at /\ shown.phase = server[at].phase /\ shown.step = server[at].step

\* A page that stays on a run without an error ends up showing what the server
\* has, whatever order its answers arrive in, or rests in a phase in which it
\* does not poll (the effect of RunDetail).
CatchesUp ==
  \A r \in Runs :
    <>[](at = r /\ ~err) => <>[](shown.phase \in Stable \/ (at = r /\ Agrees))

StopGranted(r) ==
  \E i \in DOMAIN posts :
    posts[i].kind = "stop" /\ posts[i].run = r /\ posts[i].st = "yes"

\* A stop that the server has confirmed is seen on the page that sent it, also
\* when the page does not poll because it asks for an approval (onStopped).
StopIsSeen ==
  \A r \in Runs :
    (StopGranted(r) /\ at = r) ~> (at # r \/ err \/ shown.phase \in Ended)

RetryGranted(r) ==
  \E i \in DOMAIN posts :
    posts[i].kind = "retry" /\ posts[i].new = r /\ posts[i].st = "yes"

\* A retry the server has confirmed ends with the new run on the page, although
\* the page shows an ended run, for which it does not poll, when it moves.
RetryLands ==
  \A r \in Runs :
    RetryGranted(r) ~> ((at = r /\ shown.run = r) \/ (at # r /\ ~RetryGranted(r)) \/ err)
=============================================================================
