------------------------------ MODULE IssuePoller ------------------------------
(***************************************************************************)
(* One Pipeline, its poller and the runs it gives rise to:                 *)
(* internal/controller/pipeline_controller.go starts and replaces the      *)
(* poller goroutine, the poller asks the tracker for issues and creates a  *)
(* PipelineRun for each one that has neither a run nor a history entry,    *)
(* and handlers of internal/dashboard/server.go skip, clear, retry, stop   *)
(* and delete.  Of a run only its dedup label and whether it is under way, *)
(* ended or being deleted matter here; PipelineRun has the rest.           *)
(*                                                                         *)
(* The operator reads the Pipeline and the runs from informer caches, the  *)
(* dashboard reads the API server; both write the history database.        *)
(***************************************************************************)
EXTENDS Integers, Sequences

CONSTANTS
  Issues,       \* keys of the open issues in the tracker
  Trigger,      \* Trigger[v] is the kind of trigger in the v-th spec written
  Pollers,      \* goroutines
  Runs,         \* identities of PipelineRun objects, reused once gone
  PromptCache,  \* whether the informer is faster than the poll interval
  Requests,     \* HTTP requests the dashboard serves in one behaviour
  Ops,          \* the kinds of request explored
  MaxCrashes,   \* bound of the operator restarts explored
  Sched,        \* label of the runs of a schedule
  Spot,         \* label of the runs that no trigger looks for
  None          \* no goroutine, no creator

Versions == DOMAIN Trigger
Keys == Issues \cup {Sched, Spot}

\* "unusable" is a trigger without kind or with a secret that cannot be read,
\* "badCron" a schedule that does not parse.
ASSUME TriggerAssumption ==
  /\ Trigger \in Seq({"none", "issues", "schedule", "unusable", "badCron"})
  /\ Trigger # <<>>
  /\ PromptCache \in BOOLEAN
ASSUME NameAssumption ==
  /\ None \notin Pollers
  /\ Sched # Spot /\ {Sched, Spot} \cap Issues = {}
  /\ Ops \subseteq {"skip", "clear", "retry", "stop", "delete"}
  /\ MaxCrashes \in Nat

VARIABLES
  pipeline,  \* the Pipeline object; generation 0 when there is none
  seen,      \* the operator's informer copy of it
  table,     \* its entry in PipelineReconciler.pollers
  poller,    \* the goroutines
  runs,      \* the PipelineRun objects
  cached,    \* the operator's informer copy of them
  history,   \* issues with a row in completed_issues
  req,       \* progress of each HTTP request
  claimed,   \* history variable: <<p, k>> when p created a run for the key k
             \* and nothing has released k since
  crashes    \* operator restarts so far

vars == <<pipeline, seen, table, poller, runs, cached, history, req, claimed,
          crashes>>
cluster == <<pipeline, seen, runs, cached>>

-----------------------------------------------------------------------------
(* Data *)

\* The generation counts the specs, and the first one is 1.
Pipeline == [generation : 0 .. Len(Trigger), active : BOOLEAN]

NoEntry == [generation |-> 0, id |-> None]

Idle == [pc |-> "idle", live |-> FALSE, version |-> 1, todo |-> {}, key |-> Sched]

\* The poller of a schedule waits for its time, every other one polls at once.
Started(v) ==
  [pc |-> CASE Trigger[v] = "issues" -> "poll" [] Trigger[v] = "schedule" -> "wait"
            [] OTHER -> "exit",
   live |-> TRUE, version |-> v, todo |-> {}, key |-> Sched]

NoRun == [phase |-> "none", key |-> Sched, skipped |-> FALSE, by |-> None]
NewRun(key, skipped, by) ==
  [phase |-> "active", key |-> key, skipped |-> skipped, by |-> by]

NewRequest == [pc |-> "new", key |-> Sched]

\* A new object takes an identity that no copy knows any more.
Free == {r \in Runs : runs[r] = NoRun /\ cached[r] = NoRun}
Create(run) ==
  /\ Free # {}
  /\ runs' = [runs EXCEPT ![CHOOSE r \in Free : TRUE] = run]

\* What allows a key's next run: the user's wish, the removal of a run that was
\* not recorded, the end of a scheduled run.
Release(key) == claimed' = {c \in claimed : c[2] # key}
Lost(key) == IF key \in history THEN claimed' = claimed ELSE Release(key)
Ended(key) == IF key = Sched THEN Release(key) ELSE claimed' = claimed

Init ==
  /\ pipeline = [generation |-> 1, active |-> FALSE]
  /\ seen = pipeline
  /\ table = NoEntry
  /\ poller = [p \in Pollers |-> Idle]
  /\ runs = [r \in Runs |-> NoRun]
  /\ cached = runs
  /\ history = {}
  /\ req = [q \in Requests |-> NewRequest]
  /\ claimed = {}
  /\ crashes = 0

-----------------------------------------------------------------------------
(* The user edits and deletes the Pipeline. *)

UpdatePipeline ==
  /\ pipeline.generation # 0
  /\ pipeline.generation + 1 \in Versions
  /\ pipeline' = [pipeline EXCEPT !.generation = @ + 1]
  /\ UNCHANGED <<seen, table, poller, runs, cached, history, req, claimed, crashes>>

DeletePipeline ==
  /\ pipeline.generation # 0
  /\ pipeline' = [generation |-> 0, active |-> FALSE]
  /\ UNCHANGED <<seen, table, poller, runs, cached, history, req, claimed, crashes>>

-----------------------------------------------------------------------------
(* The Pipeline reconciler: one pass on the cached Pipeline *)

Cancelled(entry) ==
  [p \in Pollers |-> IF p = entry.id THEN [poller[p] EXCEPT !.live = FALSE] ELSE poller[p]]

StopPoller ==
  /\ table' = NoEntry
  /\ poller' = Cancelled(table)

\* A status update on a stale cache is a conflict, and the pass is repeated.
SetActive(b) ==
  pipeline' = IF seen = pipeline THEN [pipeline EXCEPT !.active = b] ELSE pipeline

StartPoller(rest) ==
  LET free == {p \in Pollers : poller[p].pc = "idle"}
      p    == CHOOSE p \in free : TRUE
  IN  /\ free # {}
      /\ poller' = [rest EXCEPT ![p] = Started(seen.generation)]
      /\ table' = [generation |-> seen.generation, id |-> p]

\* Broken variants of EnsurePoller: the old poller is not cancelled; a poller
\* that exists is kept whatever its generation.
EnsureSecondPoller ==
  IF table.id # None /\ table.generation = seen.generation
  THEN UNCHANGED <<table, poller>>
  ELSE StartPoller(poller)
EnsureAnyPoller ==
  IF table.id # None
  THEN UNCHANGED <<table, poller>>
  ELSE StartPoller(poller)

\* A poller of the same generation is left alone.
EnsurePoller ==
  IF table.id # None /\ table.generation = seen.generation
  THEN UNCHANGED <<table, poller>>
  ELSE StartPoller(Cancelled(table))

ReconcileGone ==
  /\ seen.generation = 0
  /\ StopPoller
  /\ UNCHANGED pipeline

ReconcileNoTrigger ==
  /\ seen.generation # 0
  /\ Trigger[seen.generation] = "none"
  /\ StopPoller
  /\ SetActive(FALSE)

\* An unusable trigger ends the pass before it reaches the poller.
ReconcileTrigger ==
  /\ seen.generation # 0
  /\ Trigger[seen.generation] \notin {"none", "unusable"}
  /\ EnsurePoller
  /\ SetActive(TRUE)

Reconcile ==
  /\ ReconcileGone \/ ReconcileNoTrigger \/ ReconcileTrigger
  /\ UNCHANGED <<seen, runs, cached, history, req, claimed, crashes>>

-----------------------------------------------------------------------------
(* The poller goroutine *)

Goto(p, pc) == poller' = [poller EXCEPT ![p].pc = pc]

\* The poller is done with the key it looked at.
Return(p) ==
  poller' = [poller EXCEPT ![p].pc = IF poller[p].key = Sched THEN "wait" ELSE "next",
                           ![p].key = Sched]

\* A cancelled context ends the goroutine at its next look at it.
Exit(p) ==
  /\ poller[p].pc # "idle"
  /\ poller[p].live => poller[p].pc = "exit"
  /\ poller' = [poller EXCEPT ![p] = Idle]
  /\ claimed' = {c \in claimed : c[1] # p}
  /\ UNCHANGED <<cluster, table, history, req, crashes>>

Fetch(p) ==
  /\ poller[p].pc = "poll"
  /\ poller[p].live
  /\ poller' = [poller EXCEPT ![p].pc = "next", ![p].todo = Issues]
  /\ UNCHANGED <<cluster, table, history, req, claimed, crashes>>

\* Broken variant of FetchFails: the error ends the goroutine.
FetchFatal(p) ==
  /\ poller[p].pc = "poll"
  /\ Goto(p, "exit")
  /\ UNCHANGED <<cluster, table, history, req, claimed, crashes>>

FetchFails(p) ==
  /\ poller[p].pc = "poll"
  /\ Goto(p, "wait")
  /\ UNCHANGED <<cluster, table, history, req, claimed, crashes>>

\* Broken variant of Exists: runs that are under way are not looked for.
ExistsEnded(key) == \E r \in Runs : cached[r].key = key /\ cached[r].phase = "ended"

\* Layer 1: an issue is taken as long as it has a run, a schedule as long as its
\* run has not ended.
Exists(key) ==
  \E r \in Runs : /\ cached[r].phase # "none"
                  /\ cached[r].key = key
                  /\ key = Sched => cached[r].phase # "ended"

NextIssue(p) ==
  /\ poller[p].pc = "next"
  /\ poller[p].live
  /\ \E i \in poller[p].todo :
       poller' = [poller EXCEPT ![p].todo = @ \ {i},
                                ![p].key = IF Exists(i) THEN @ ELSE i,
                                ![p].pc = IF Exists(i) THEN "next" ELSE "history"]
  /\ UNCHANGED <<cluster, table, history, req, claimed, crashes>>

PollDone(p) ==
  /\ poller[p].pc = "next"
  /\ poller[p].todo = {}
  /\ Goto(p, "wait")
  /\ UNCHANGED <<cluster, table, history, req, claimed, crashes>>

\* Broken variant of CheckHistory: layer 2 is left out.
SkipHistory(p) ==
  /\ poller[p].pc = "history"
  /\ poller[p].live
  /\ Goto(p, "create")
  /\ UNCHANGED <<cluster, table, history, req, claimed, crashes>>

\* Layer 2.
CheckHistory(p) ==
  /\ poller[p].pc = "history"
  /\ poller[p].live
  /\ IF poller[p].key \in history THEN Return(p) ELSE Goto(p, "create")
  /\ UNCHANGED <<cluster, table, history, req, claimed, crashes>>

\* The request may already be on its way when the context is cancelled.
CreateRun(p) ==
  /\ poller[p].pc = "create"
  /\ seen.generation # 0
  /\ Create(NewRun(poller[p].key, FALSE, p))
  /\ claimed' = claimed \cup {<<p, poller[p].key>>}
  /\ Return(p)
  /\ UNCHANGED <<pipeline, seen, cached, table, history, req, crashes>>

CreateFails(p) ==
  /\ poller[p].pc = "create"
  /\ Return(p)
  /\ UNCHANGED <<cluster, table, history, req, claimed, crashes>>

\* The ticker of the poll interval, or the time of the schedule.
Tick(p) ==
  /\ poller[p].pc = "wait"
  /\ poller[p].live
  /\ PromptCache => \A r \in Runs : runs[r].by = p => cached[r] # NoRun
  /\ \/ /\ Trigger[poller[p].version] = "issues"
        /\ Goto(p, "poll")
     \/ /\ Trigger[poller[p].version] = "schedule"
        /\ ~Exists(Sched)
        /\ poller' = [poller EXCEPT ![p].pc = "create", ![p].key = Sched]
  /\ UNCHANGED <<cluster, table, history, req, claimed, crashes>>

Poll(p) ==
  \/ Fetch(p) \/ FetchFails(p) \/ NextIssue(p) \/ PollDone(p)
  \/ CheckHistory(p) \/ CreateRun(p) \/ CreateFails(p) \/ Tick(p) \/ Exit(p)

-----------------------------------------------------------------------------
(* The runs *)

RunEnds(r) ==
  /\ runs[r].phase = "active"
  /\ runs' = [runs EXCEPT ![r].phase = "ended"]
  /\ Ended(runs[r].key)
  /\ UNCHANGED <<pipeline, seen, cached, table, poller, history, req, crashes>>

\* Every pass on a run that has ended records it; a schedule's is not recorded,
\* a spot run's entry is under a name no poller asks for.
RecordCompletion(r) ==
  /\ cached[r].phase = "ended"
  /\ history' = history \cup ({cached[r].key} \cap Issues)
  /\ UNCHANGED <<cluster, table, poller, req, claimed, crashes>>

RemoveRun(r) ==
  /\ cached[r].phase = "deleting"
  /\ runs[r] # NoRun
  /\ runs' = [runs EXCEPT ![r] = NoRun]
  /\ Lost(runs[r].key)
  /\ UNCHANGED <<pipeline, seen, cached, table, poller, history, req, crashes>>

\* The Pipeline owns its runs.
CollectRun(r) ==
  /\ runs[r] # NoRun
  /\ pipeline.generation = 0
  /\ runs' = [runs EXCEPT ![r] = NoRun]
  /\ Lost(runs[r].key)
  /\ UNCHANGED <<pipeline, seen, cached, table, poller, history, req, crashes>>

-----------------------------------------------------------------------------
(* The dashboard: requests that write *)

Step(q, from, to, key) ==
  /\ req[q].pc = from
  /\ req' = [req EXCEPT ![q] = [pc |-> to, key |-> key]]

\* The skip run blocks the issue through its label.
SkipCreate(q) ==
  /\ "skip" \in Ops
  /\ pipeline.generation # 0
  /\ \E i \in Issues :
       /\ Step(q, "new", "mark", i)
       /\ Create(NewRun(i, TRUE, None))
  /\ UNCHANGED <<pipeline, seen, cached, table, poller, history, claimed, crashes>>

StopRun(q) ==
  /\ "stop" \in Ops
  /\ \E r \in Runs :
       /\ runs[r].phase \in {"active", "deleting"}
       /\ Step(q, "new", "mark", runs[r].key)
       /\ runs' = [runs EXCEPT ![r].phase = "ended"]
       /\ Ended(runs[r].key)
  /\ UNCHANGED <<pipeline, seen, cached, table, poller, history, crashes>>

\* The last act of a skip and of a stop.
MarkCompleted(q) ==
  /\ Step(q, "mark", "done", Sched)
  /\ history' = history \cup ({req[q].key} \cap Issues)
  /\ UNCHANGED <<cluster, table, poller, claimed, crashes>>

ClearRuns(q) ==
  /\ "clear" \in Ops
  /\ \E i \in Issues :
       /\ Step(q, "new", "forget", i)
       /\ runs' = [r \in Runs |-> IF runs[r].key = i /\ runs[r].skipped THEN NoRun
                                  ELSE runs[r]]
       /\ Release(i)
  /\ UNCHANGED <<pipeline, seen, cached, table, poller, history, crashes>>

ClearRecord(q) ==
  /\ Step(q, "forget", "done", Sched)
  /\ history' = history \ {req[q].key}
  /\ Release(req[q].key)
  /\ UNCHANGED <<cluster, table, poller, crashes>>

\* The new run has no trigger-type label.
RetryLabel(key) == IF key = Sched THEN Spot ELSE key

RetryClear(q) ==
  /\ "retry" \in Ops
  /\ pipeline.generation # 0
  /\ \E r \in Runs :
       /\ runs[r] # NoRun
       /\ Step(q, "new", "retry", RetryLabel(runs[r].key))
       /\ history' = history \ {runs[r].key}
       /\ Release(RetryLabel(runs[r].key))
  /\ UNCHANGED <<cluster, table, poller, crashes>>

RetryCreate(q) ==
  /\ Step(q, "retry", "done", Sched)
  /\ Create(NewRun(req[q].key, FALSE, None))
  /\ UNCHANGED <<pipeline, seen, cached, table, poller, history, claimed, crashes>>

DeleteRun(q) ==
  /\ "delete" \in Ops
  /\ \E r \in Runs :
       /\ runs[r].phase \in {"active", "ended"}
       /\ Step(q, "new", "done", Sched)
       /\ runs' = [runs EXCEPT ![r].phase = "deleting"]
  /\ UNCHANGED <<pipeline, seen, cached, table, poller, history, claimed, crashes>>

Dashboard(q) ==
  \/ SkipCreate(q) \/ StopRun(q) \/ MarkCompleted(q) \/ ClearRuns(q) \/ ClearRecord(q)
  \/ RetryClear(q) \/ RetryCreate(q) \/ DeleteRun(q)

-----------------------------------------------------------------------------
(* Informers and the operator's process *)

SyncPipeline ==
  /\ seen # pipeline
  /\ seen' = pipeline
  /\ UNCHANGED <<pipeline, table, poller, runs, cached, history, req, claimed, crashes>>

SyncRun(r) ==
  /\ cached[r] # runs[r]
  /\ cached' = [cached EXCEPT ![r] = runs[r]]
  /\ UNCHANGED <<pipeline, seen, table, poller, runs, history, req, claimed, crashes>>

Restart ==
  /\ crashes < MaxCrashes
  /\ crashes' = crashes + 1
  /\ seen' = pipeline
  /\ cached' = runs
  /\ table' = NoEntry
  /\ poller' = [p \in Pollers |-> Idle]
  /\ claimed' = {}
  /\ UNCHANGED <<pipeline, runs, history, req>>

RunStep(r) ==
  RunEnds(r) \/ RecordCompletion(r) \/ RemoveRun(r) \/ CollectRun(r) \/ SyncRun(r)

Next ==
  \/ UpdatePipeline \/ DeletePipeline
  \/ SyncPipeline \/ Reconcile \/ Restart
  \/ \E p \in Pollers : Poll(p)
  \/ \E r \in Runs : RunStep(r)
  \/ \E q \in Requests : Dashboard(q)

Spec == Init /\ [][Next]_vars

-----------------------------------------------------------------------------
(* Safety *)

RunRecord == [phase : {"none", "active", "ended", "deleting"}, key : Keys,
              skipped : BOOLEAN, by : Pollers \cup {None}]

\* Every variable keeps its type.
TypeOK ==
  /\ pipeline \in Pipeline /\ seen \in Pipeline
  /\ table \in [generation : Nat, id : Pollers \cup {None}]
  /\ poller \in [Pollers -> [pc : {"idle", "poll", "next", "history", "create", "wait", "exit"},
                            live : BOOLEAN, version : Versions, todo : SUBSET Issues,
                            key : Issues \cup {Sched}]]
  /\ runs \in [Runs -> RunRecord] /\ cached \in [Runs -> RunRecord]
  /\ history \subseteq Issues
  /\ req \in [Requests -> [pc : {"new", "mark", "forget", "retry", "done"}, key : Keys]]
  /\ claimed \subseteq Pollers \X Keys
  /\ crashes \in Nat

\* The table knows every poller that has not been cancelled: no goroutine goes on
\* polling that ensurePoller and stopPoller can no longer reach.
NoStrayPoller ==
  \A p \in Pollers : poller[p].live => table.id = p

\* While it lives, a poller creates one run for an issue - also when the run has
\* been recorded and removed - and one at a time for its schedule, unless
\* the user cleared or retried it or removed a run that was not recorded yet.
OneRunEach ==
  [][\A p \in Pollers, k \in Keys : <<p, k>> \in claimed =>
       ~ \E r \in Runs : runs[r] = NoRun /\ runs'[r].by = p /\ runs'[r].key = k]_vars

-----------------------------------------------------------------------------
(* Liveness *)

\* Goroutines, informers, reconcilers, the garbage collector and requests that
\* have begun keep going; of the attempts to fetch, and of those to create, some
\* succeed.
Fairness ==
  /\ WF_vars(SyncPipeline \/ Reconcile)
  /\ \A p \in Pollers : WF_vars(Poll(p))
  /\ SF_vars(\E p \in Pollers : Fetch(p)) /\ SF_vars(\E p \in Pollers : CreateRun(p))
  /\ \A r \in Runs :
       WF_vars(SyncRun(r) \/ RecordCompletion(r) \/ RemoveRun(r) \/ CollectRun(r))
  /\ \A q \in Requests : WF_vars(MarkCompleted(q) \/ ClearRecord(q) \/ RetryCreate(q))

FairSpec == Spec /\ Fairness

InStep ==
  LET busy == {p \in Pollers : poller[p].pc # "idle"}
      kind == IF pipeline.generation = 0 THEN "none" ELSE Trigger[pipeline.generation]
  IN  CASE kind = "none" -> busy = {} /\ ~pipeline.active
        [] kind \in {"issues", "schedule"} ->
             /\ pipeline.active
             /\ \E p \in Pollers : busy = {p} /\ poller[p].version = pipeline.generation
        [] OTHER -> TRUE

\* Once the user leaves the Pipeline alone, one poller runs, on its last spec, or
\* none when it has no trigger, and the status says so.
PollerFollowsSpec == <>[]InStep

\* An open issue of a Pipeline that asks for issues is never forgotten: again and
\* again it has a run or an entry in the history.
IssueHandled ==
  \A i \in Issues :
    <>[](pipeline.generation # 0 /\ Trigger[pipeline.generation] = "issues")
      => []<>(i \in history \/ \E r \in Runs : runs[r] # NoRun /\ runs[r].key = i)

=============================================================================
