------------------------------ MODULE PipelineRun ------------------------------
(***************************************************************************)
(* One PipelineRun object from its creation to its removal: the reconciler *)
(* of internal/controller/pipelinerun_controller.go drives it, the HTTP    *)
(* handlers of internal/dashboard/server.go stop, delete, approve and      *)
(* answer it, and Kubernetes runs the Jobs the reconciler creates.         *)
(*                                                                         *)
(* The reconciler reads the run and its Jobs from informer caches, which   *)
(* may lag; a handler reads the API server.  Both then write, and a status *)
(* or spec update carries the resourceVersion that was read: it fails with *)
(* a conflict when the object was written since.  `fresh' is the set of    *)
(* holders whose copy still carries the current resourceVersion.  Job      *)
(* creation and deletion carry no version and always take effect.          *)
(*                                                                         *)
(* A status update that is the only write of its pass is one action with   *)
(* the read it is based on, enabled while the cache is fresh: a conflict   *)
(* changes nothing.  A pass with another write first is split where the    *)
(* next write may find the object changed.                                 *)
(***************************************************************************)
EXTENDS Integers, FiniteSets

CONSTANTS
  N,                \* number of steps of the Pipeline; a step is its index
  OnFailure,        \* OnFailure[s] is the step s jumps to on failure, 0 for none
  MaxRetries,       \* MaxRetries[s] as written in the Pipeline, 0 when absent
  MaxAttempt,       \* bound of every attempt number, implied by MaxRetries
  RequireApproval,  \* steps with requireApproval
  Triage,           \* steps of type triage
  GitPush,          \* steps of type git-push
  DinD,             \* steps with the Docker-in-Docker sidecar
  Requests,         \* HTTP requests the dashboard serves in one behaviour
  Ops,              \* the kinds of request explored
  MaxCrashes        \* bound of the operator restarts explored

Steps == 1 .. N
Attempts == 1 .. MaxAttempt

\* maxRetries of 0 means 3.
Retries(s) == IF MaxRetries[s] = 0 THEN 3 ELSE MaxRetries[s]

ASSUME StepsAssumption == N \in Nat \ {0}
ASSUME AttemptAssumption == MaxAttempt \in Nat \ {0}
ASSUME RetryAssumption ==
  /\ OnFailure \in [Steps -> 0 .. N]
  /\ MaxRetries \in [Steps -> Nat]
  /\ \A s \in Steps : OnFailure[s] # 0 => Retries(s) <= MaxAttempt
ASSUME StepKindAssumption ==
  /\ RequireApproval \subseteq Steps
  /\ Triage \subseteq Steps
  /\ GitPush \subseteq Steps
  /\ DinD \subseteq Steps
ASSUME RequestAssumption ==
  /\ {"cache", "rec"} \cap Requests = {}
  /\ Ops \subseteq {"stop", "delete", "approve", "select"}
  /\ MaxCrashes \in Nat

VARIABLES
  run,        \* the PipelineRun object in the API server
  cache,      \* the operator's informer copy of it
  fresh,      \* who holds a copy with the current resourceVersion
  rec,        \* where the reconciler is between two writes of one pass
  jobs,       \* the Jobs in the API server
  jobCache,   \* the operator's informer copy of them
  objects,    \* the run's other objects in the cluster
  history,    \* phase recorded for the run's issue in the history database
  req,        \* progress of each HTTP request
  approvals,  \* history variable: <<step, attempt>> the user has approved
  completed,  \* history variable: the Jobs that have succeeded
  crashes     \* operator restarts so far

vars == <<run, cache, fresh, rec, jobs, jobCache, objects, history, req,
          approvals, completed, crashes>>
aux == <<approvals, completed, crashes>>

-----------------------------------------------------------------------------
(* Data *)

Terminal == {"Succeeded", "Failed", "Stopped"}

\* The phase of a new object is empty; the code treats it as Pending.  "Gone"
\* is not a phase of the code: the object is no longer in the API server.
Phases == {"Pending", "Running", "WaitingForInput", "Deleting", "Gone"}
            \cup Terminal

\* "" is a step status that reconcilePending has not created yet.
StepPhases == {"", "Pending", "Initializing", "Running", "WaitingForInput"}
                \cup Terminal

\* job is the attempt number at the end of the recorded jobName, 0 for "".
StepStatus == [phase : StepPhases, attempt : 0 .. MaxAttempt,
               job : 0 .. MaxAttempt]

NoStatus == [phase |-> "", attempt |-> 0, job |-> 0]

\* finished is finishedAt # nil; pvc, diffJob and chatPod say whether the
\* status names the object.
Run == [phase : Phases, cur : 0 .. N,
        waitingFor : {"", "step-approval", "repo-selection"},
        steps : [Steps -> StepStatus], finished : BOOLEAN,
        pvc : BOOLEAN, diffJob : BOOLEAN, chatPod : BOOLEAN,
        approved : 0 .. N, selected : BOOLEAN, skipped : BOOLEAN]

\* A step's Job is named after the step and the attempt; <<0, 0>> is the diff
\* preview Job of the run.
StepJobs == Steps \X Attempts
DiffJob == <<0, 0>>
Jobs == StepJobs \cup {DiffJob}
JobStates == {"none", "active", "succeeded", "failed"}

NewRun(skip) ==
  [phase |-> "Pending", cur |-> 0, waitingFor |-> "",
   steps |-> [s \in Steps |-> NoStatus], finished |-> FALSE,
   pvc |-> FALSE, diffJob |-> FALSE, chatPod |-> FALSE,
   approved |-> 0, selected |-> FALSE, skipped |-> skip]

AttemptOf(r, s) == IF r.steps[s].attempt = 0 THEN 1 ELSE r.steps[s].attempt
CurJob(r) == <<r.cur, AttemptOf(r, r.cur)>>

RecordedJobs(r) == {<<s, r.steps[s].job>> : s \in {t \in Steps : r.steps[t].job # 0}}

DeleteJobs(js) == jobs' = [j \in Jobs |-> IF j \in js THEN "none" ELSE jobs[j]]

-----------------------------------------------------------------------------
(* What a pass of the reconciler writes into the status *)

Initialized(r) ==
  [r EXCEPT !.phase = "Running", !.pvc = TRUE, !.cur = 1,
            !.steps = [s \in Steps |-> [phase |-> "Pending", attempt |-> 0,
                                        job |-> 0]]]

Failed(r) ==
  [r EXCEPT !.phase = "Failed", !.finished = TRUE,
            !.steps = [@ EXCEPT ![r.cur].phase = "Failed"]]

StepDone(r) == [r EXCEPT !.steps = [@ EXCEPT ![r.cur].phase = "Succeeded"]]

Advanced(r) ==
  IF r.cur = N THEN [r EXCEPT !.phase = "Succeeded", !.cur = 0, !.finished = TRUE]
               ELSE [r EXCEPT !.cur = r.cur + 1]

JobRecorded(r) ==
  LET a == AttemptOf(r, r.cur)
  IN  [r EXCEPT !.steps = [@ EXCEPT ![r.cur] =
        [phase |-> IF r.cur \in DinD THEN "Initializing" ELSE "Running",
         attempt |-> a, job |-> a]]]

\* Broken variant of JumpedBack: only the failing step gets a new attempt.
JumpedBackSameAttempt(r) ==
  LET a == AttemptOf(r, r.cur)
      t == OnFailure[r.cur]
  IN  [r EXCEPT !.cur = t,
        !.steps = [@ EXCEPT ![r.cur].phase = "Failed", ![r.cur].attempt = a + 1,
                            ![t].phase = "Pending", ![t].job = 0]]

JumpedBack(r) ==
  LET a == AttemptOf(r, r.cur)
      t == OnFailure[r.cur]
  IN  [r EXCEPT !.cur = t,
        !.steps = [@ EXCEPT ![r.cur].phase = "Failed", ![r.cur].attempt = a + 1,
                            ![t] = [phase |-> "Pending", attempt |-> a + 1,
                                    job |-> 0]]]

Awaiting(r, diff) ==
  [r EXCEPT !.phase = "WaitingForInput", !.waitingFor = "step-approval",
            !.diffJob = diff,
            !.steps = [@ EXCEPT ![r.cur].phase = "WaitingForInput"]]

Resumed(r) ==
  [r EXCEPT !.phase = "Running", !.waitingFor = "", !.diffJob = FALSE,
            !.chatPod = FALSE]

\* The repo-selection branch leaves CurrentStep alone when triage came last.
RepoChosen(r) ==
  IF r.cur = N
  THEN [r EXCEPT !.phase = "Succeeded", !.waitingFor = "", !.finished = TRUE]
  ELSE [r EXCEPT !.phase = "Running", !.waitingFor = "", !.cur = r.cur + 1]

StoppedByUser(r) ==
  [r EXCEPT !.phase = "Stopped", !.finished = TRUE,
            !.steps = [s \in Steps |->
               IF r.steps[s].phase \in {"Running", "Pending", "Initializing"}
               THEN [r.steps[s] EXCEPT !.phase = "Stopped"]
               ELSE r.steps[s]]]

-----------------------------------------------------------------------------
(* Initial states: the object was just created and the operator has seen it. *)

Init ==
  /\ \E skip \in BOOLEAN : run = NewRun(skip)
  /\ cache = run
  /\ fresh = {"cache"}
  /\ rec = "idle"
  /\ jobs = [j \in Jobs |-> "none"]
  /\ jobCache = [j \in Jobs |-> "none"]
  /\ objects = {}
  /\ history = ""
  /\ req = [q \in Requests |-> [pc |-> "new", kill |-> {}]]
  /\ approvals = {}
  /\ completed = {}
  /\ crashes = 0

-----------------------------------------------------------------------------
(* The reconciler.  Every pass starts idle, from the cache. *)

Starts(phase) == rec = "idle" /\ cache.phase = phase

\* The pass ends with a status update based on the cache alone.
UpdateFromCache(new) ==
  /\ "cache" \in fresh
  /\ run' = new
  /\ fresh' = {}
  /\ UNCHANGED <<cache, jobs, jobCache, objects, history, req, aux>>

\* The pass goes on to `pc' with the copy of the run it started from.
GoOn(pc) ==
  /\ rec' = pc
  /\ fresh' = IF "cache" \in fresh THEN fresh \cup {"rec"} ELSE fresh \ {"rec"}
  /\ UNCHANGED <<run, cache, jobCache, history, req, aux>>

\* The second write of a pass: the status update, or its conflict.
FinishUpdate(new) ==
  /\ rec' = "idle"
  /\ \/ /\ "rec" \in fresh
        /\ run' = new
        /\ fresh' = {}
     \/ /\ "rec" \notin fresh
        /\ UNCHANGED <<run, fresh>>
  /\ UNCHANGED <<cache, jobs, jobCache, objects, history, req, aux>>

\* A run the user skipped before it started.
RecSkip ==
  /\ Starts("Pending")
  /\ cache.skipped
  /\ UpdateFromCache([cache EXCEPT !.phase = "Stopped", !.finished = TRUE])
  /\ rec' = "skip"

RecSkipRecord ==
  /\ rec = "skip"
  /\ rec' = "idle"
  /\ history' = "Stopped"
  /\ UNCHANGED <<run, cache, fresh, jobs, jobCache, objects, req, aux>>

\* The workspace claim is created even when the status update conflicts.
RecPending ==
  /\ Starts("Pending")
  /\ ~cache.skipped
  /\ objects' = objects \cup {"pvc"}
  /\ \/ /\ "cache" \in fresh
        /\ run' = Initialized(cache)
        /\ fresh' = {}
     \/ /\ "cache" \notin fresh
        /\ UNCHANGED <<run, fresh>>
  /\ UNCHANGED <<cache, rec, jobs, jobCache, history, req, aux>>

JobMissing == Starts("Running") /\ jobCache[CurJob(cache)] = "none"
\* Broken variant of NeedsApproval: one approval for all steps.
NeedsFirstApproval == cache.cur \in RequireApproval /\ cache.approved = 0

NeedsApproval == cache.cur \in RequireApproval /\ cache.approved # cache.cur

\* The step waits for approval; a git-push step first gets a diff preview,
\* whose creation may fail without consequence.
RecGate ==
  /\ JobMissing
  /\ NeedsApproval
  /\ \/ /\ cache.cur \in GitPush
        /\ jobCache[DiffJob] # "none"
        /\ GoOn("awaitDiff")
        /\ UNCHANGED jobs
     \/ /\ cache.cur \in GitPush
        /\ jobCache[DiffJob] = "none"
        /\ jobs[DiffJob] = "none"
        /\ jobs' = [jobs EXCEPT ![DiffJob] = "active"]
        /\ GoOn("awaitDiff")
     \/ /\ cache.cur \in GitPush => jobCache[DiffJob] = "none"
        /\ GoOn("await")
        /\ UNCHANGED jobs
  /\ UNCHANGED objects

RecAwait ==
  /\ rec \in {"await", "awaitDiff"}
  /\ FinishUpdate(Awaiting(run, rec = "awaitDiff"))

\* An existing Job makes the creation fail and the pass return its error.
RecCreateJob ==
  /\ JobMissing
  /\ ~NeedsApproval
  /\ jobs[CurJob(cache)] = "none"
  /\ jobs' = [jobs EXCEPT ![CurJob(cache)] = "active"]
  /\ GoOn("record")
  /\ UNCHANGED objects

RecRecordJob ==
  /\ rec = "record"
  /\ FinishUpdate(JobRecorded(run))

RecBuildFails ==
  /\ JobMissing
  /\ ~NeedsApproval
  /\ UpdateFromCache(Failed(cache))
  /\ UNCHANGED rec

\* The pod of a DinD step has left its init containers.  The code goes on to
\* the Job's status in the same pass; the next pass does it here.
RecInitialized ==
  /\ Starts("Running")
  /\ cache.steps[cache.cur].phase = "Initializing"
  /\ jobCache[CurJob(cache)] # "none"
  /\ jobs[CurJob(cache)] = "active"
  /\ UpdateFromCache([cache EXCEPT !.steps = [@ EXCEPT ![cache.cur].phase = "Running"]])
  /\ UNCHANGED rec

\* Broken variants of JobSucceeded: any Job that has not failed, any that ended.
JobNotFailed == Starts("Running") /\ jobCache[CurJob(cache)] \notin {"none", "failed"}
JobEnded == Starts("Running") /\ jobCache[CurJob(cache)] \in {"succeeded", "failed"}

JobSucceeded == Starts("Running") /\ jobCache[CurJob(cache)] = "succeeded"
JobFailed == Starts("Running") /\ jobCache[CurJob(cache)] = "failed"

RecStepSucceeded ==
  /\ JobSucceeded
  /\ UpdateFromCache(Advanced(StepDone(cache)))
  /\ UNCHANGED rec

\* The triage result cannot be read, or names no owner/repo.
RecTriageFails ==
  /\ JobSucceeded
  /\ cache.cur \in Triage
  /\ UpdateFromCache(Failed(cache))
  /\ UNCHANGED rec

RecTriageUnsure ==
  /\ JobSucceeded
  /\ cache.cur \in Triage
  /\ UpdateFromCache([StepDone(cache) EXCEPT !.phase = "WaitingForInput",
                                             !.waitingFor = "repo-selection"])
  /\ UNCHANGED rec

\* Broken variant of MayRetry: maxRetries is not consulted.
MayAlwaysRetry(r) == OnFailure[r.cur] # 0

MayRetry(r) == OnFailure[r.cur] # 0 /\ AttemptOf(r, r.cur) < Retries(r.cur)

RecRetry ==
  /\ JobFailed
  /\ MayRetry(cache)
  /\ UpdateFromCache(JumpedBack(cache))
  /\ UNCHANGED rec

RecStepFails ==
  /\ JobFailed
  /\ ~MayRetry(cache)
  /\ UpdateFromCache(Failed(cache))
  /\ UNCHANGED rec

\* Broken variant of RecApproved: an approval counts once its preview exists.
RecPreviewApproved ==
  /\ Starts("WaitingForInput")
  /\ cache.waitingFor = "step-approval"
  /\ cache.approved = cache.cur
  /\ cache.diffJob
  /\ DeleteJobs({DiffJob})
  /\ objects' = objects \ (IF cache.chatPod THEN {"chatPod"} ELSE {})
  /\ GoOn("resume")

\* The approval has arrived: the diff Job and the chat pod leave the workspace
\* before the status says Running.
RecApproved ==
  /\ Starts("WaitingForInput")
  /\ cache.waitingFor = "step-approval"
  /\ cache.approved = cache.cur
  /\ DeleteJobs(IF cache.diffJob THEN {DiffJob} ELSE {})
  /\ objects' = objects \ (IF cache.chatPod THEN {"chatPod"} ELSE {})
  /\ GoOn("resume")

RecResume ==
  /\ rec = "resume"
  /\ FinishUpdate(Resumed(run))

\* Broken variant of RecRepoSelected: the reason of the wait is not looked at.
RecAnySelected ==
  /\ Starts("WaitingForInput")
  /\ cache.selected
  /\ UpdateFromCache(RepoChosen(cache))
  /\ UNCHANGED rec

RecRepoSelected ==
  /\ Starts("WaitingForInput")
  /\ cache.waitingFor # "step-approval"
  /\ cache.selected
  /\ UpdateFromCache(RepoChosen(cache))
  /\ UNCHANGED rec

\* Broken variant of RecDeleting: only a run that has ended is cleaned up.
RecDeletingFinished ==
  /\ Starts("Deleting")
  /\ cache.finished
  /\ DeleteJobs(RecordedJobs(cache) \cup (IF cache.diffJob THEN {DiffJob} ELSE {}))
  /\ objects' = objects \ {"artifactsPod", "chatPod", "pvc"}
  /\ GoOn("delete")

\* Removes what the cached status names, then the object itself whatever its
\* version.
RecDeleting ==
  /\ Starts("Deleting")
  /\ DeleteJobs(RecordedJobs(cache) \cup (IF cache.diffJob THEN {DiffJob} ELSE {}))
  /\ objects' = objects \ ({"artifactsPod"}
                            \cup (IF cache.chatPod THEN {"chatPod"} ELSE {})
                            \cup (IF cache.pvc THEN {"pvc"} ELSE {}))
  /\ GoOn("delete")

RecDeleteCR ==
  /\ rec = "delete"
  /\ rec' = "idle"
  /\ run' = [run EXCEPT !.phase = "Gone"]
  /\ fresh' = {}
  /\ UNCHANGED <<cache, jobs, jobCache, objects, history, req, aux>>

\* Broken variant of RecComplete: only success is recorded.
RecCompleteSucceeded ==
  /\ rec = "idle"
  /\ cache.phase = "Succeeded"
  /\ history' = cache.phase
  /\ UNCHANGED <<run, cache, fresh, rec, jobs, jobCache, objects, req, aux>>

RecComplete ==
  /\ rec = "idle"
  /\ cache.phase \in Terminal
  /\ history' = cache.phase
  /\ UNCHANGED <<run, cache, fresh, rec, jobs, jobCache, objects, req, aux>>

Reconcile ==
  \/ RecSkip \/ RecSkipRecord \/ RecPending
  \/ RecGate \/ RecAwait
  \/ RecCreateJob \/ RecRecordJob \/ RecBuildFails \/ RecInitialized
  \/ RecStepSucceeded \/ RecTriageFails \/ RecTriageUnsure
  \/ RecRetry \/ RecStepFails
  \/ RecApproved \/ RecResume \/ RecRepoSelected
  \/ RecDeleting \/ RecDeleteCR
  \/ RecComplete

-----------------------------------------------------------------------------
(* The dashboard.  A request that is refused when it reads changes nothing   *)
(* and is not modelled; its update may still meet a conflict.                *)

Get(q, op) ==
  /\ op \in Ops
  /\ req[q].pc = "new"
  /\ fresh' = fresh \cup {q}
  /\ UNCHANGED <<run, cache, rec, jobs, jobCache, objects, history, aux>>

\* Broken variant of Put: an update that carries no version.
PutAnyVersion(q, new, next) ==
  /\ run' = new
  /\ fresh' = {}
  /\ req' = [req EXCEPT ![q].pc = next]
  /\ UNCHANGED <<cache, rec, jobs, jobCache, objects, history, completed, crashes>>

Put(q, new, next) ==
  /\ \/ /\ q \in fresh
        /\ run' = new
        /\ fresh' = {}
        /\ req' = [req EXCEPT ![q].pc = next]
     \/ /\ q \notin fresh
        /\ req' = [req EXCEPT ![q].pc = "done"]
        /\ UNCHANGED <<run, fresh>>
  /\ UNCHANGED <<cache, rec, jobs, jobCache, objects, history, completed, crashes>>

\* Jobs of the steps whose recorded phase is Running.
StopGet(q) ==
  /\ run.phase \notin Terminal \cup {"Gone"}
  /\ Get(q, "stop")
  /\ req' = [req EXCEPT ![q] =
       [pc |-> "kill",
        kill |-> {<<s, run.steps[s].job>> : s \in {t \in Steps :
                    run.steps[t].job # 0 /\ run.steps[t].phase = "Running"}}]]

StopKill(q) ==
  /\ req[q].pc = "kill"
  /\ DeleteJobs(req[q].kill)
  /\ req' = [req EXCEPT ![q] = [pc |-> "stop", kill |-> {}]]
  /\ UNCHANGED <<run, cache, fresh, rec, jobCache, objects, history, aux>>

StopPut(q) ==
  /\ req[q].pc = "stop"
  /\ Put(q, StoppedByUser(run), "stopped")
  /\ UNCHANGED approvals

StopRecord(q) ==
  /\ req[q].pc = "stopped"
  /\ req' = [req EXCEPT ![q].pc = "done"]
  /\ history' = "Stopped"
  /\ UNCHANGED <<run, cache, fresh, rec, jobs, jobCache, objects, aux>>

DeleteGet(q) ==
  /\ run.phase \notin {"Deleting", "Gone"}
  /\ Get(q, "delete")
  /\ req' = [req EXCEPT ![q].pc = "delete"]

DeletePut(q) ==
  /\ req[q].pc = "delete"
  /\ Put(q, [run EXCEPT !.phase = "Deleting"], "done")
  /\ UNCHANGED approvals

ApproveGet(q) ==
  /\ run.phase = "WaitingForInput"
  /\ run.waitingFor = "step-approval"
  /\ Get(q, "approve")
  /\ req' = [req EXCEPT ![q].pc = "approve"]

ApprovePut(q) ==
  /\ req[q].pc = "approve"
  /\ Put(q, [run EXCEPT !.approved = run.cur], "done")
  /\ approvals' = IF q \in fresh THEN approvals \cup {CurJob(run)} ELSE approvals

SelectGet(q) ==
  /\ run.phase = "WaitingForInput"
  /\ Get(q, "select")
  /\ req' = [req EXCEPT ![q].pc = "select"]

SelectPut(q) ==
  /\ req[q].pc = "select"
  /\ Put(q, [run EXCEPT !.selected = TRUE], "done")
  /\ UNCHANGED approvals

Dashboard(q) ==
  \/ StopGet(q) \/ StopKill(q) \/ StopPut(q) \/ StopRecord(q)
  \/ DeleteGet(q) \/ DeletePut(q)
  \/ ApproveGet(q) \/ ApprovePut(q)
  \/ SelectGet(q) \/ SelectPut(q)

-----------------------------------------------------------------------------
(* Kubernetes and the operator's process *)

JobFinishes(j) ==
  /\ jobs[j] = "active"
  /\ \E outcome \in {"succeeded", "failed"} :
       /\ jobs' = [jobs EXCEPT ![j] = outcome]
       /\ completed' = IF outcome = "succeeded" THEN completed \cup {j} ELSE completed
  /\ UNCHANGED <<run, cache, fresh, rec, jobCache, objects, history, req, approvals,
                 crashes>>

SyncRun ==
  /\ "cache" \notin fresh
  /\ cache' = run
  /\ fresh' = fresh \cup {"cache"}
  /\ UNCHANGED <<run, rec, jobs, jobCache, objects, history, req, aux>>

SyncJob(j) ==
  /\ jobCache[j] # jobs[j]
  /\ jobCache' = [jobCache EXCEPT ![j] = jobs[j]]
  /\ UNCHANGED <<run, cache, fresh, rec, jobs, objects, history, req, aux>>

\* Every object of the run has an owner reference to it.
CollectGarbage ==
  /\ run.phase = "Gone"
  /\ objects # {} \/ \E j \in Jobs : jobs[j] # "none"
  /\ jobs' = [j \in Jobs |-> "none"]
  /\ objects' = {}
  /\ UNCHANGED <<run, cache, fresh, rec, jobCache, history, req, aux>>

\* The operator's process dies in the middle of a pass; the new one lists
\* everything before it reconciles.
Restart ==
  /\ rec # "idle"
  /\ crashes < MaxCrashes
  /\ crashes' = crashes + 1
  /\ rec' = "idle"
  /\ cache' = run
  /\ jobCache' = jobs
  /\ fresh' = (fresh \ {"rec"}) \cup {"cache"}
  /\ UNCHANGED <<run, jobs, objects, history, req, approvals, completed>>

Cluster == SyncRun \/ CollectGarbage \/ \E j \in Jobs : SyncJob(j) \/ JobFinishes(j)

Next == Reconcile \/ Cluster \/ Restart \/ \E q \in Requests : Dashboard(q)

Spec == Init /\ [][Next]_vars

-----------------------------------------------------------------------------
(* Safety *)

RequestPcs == {"new", "kill", "stop", "stopped", "delete", "approve", "select", "done"}

\* Every variable keeps its type; in particular no attempt number exceeds what
\* maxRetries allows.
TypeOK ==
  /\ run \in Run
  /\ cache \in Run
  /\ fresh \subseteq {"cache", "rec"} \cup Requests
  /\ rec \in {"idle", "skip", "await", "awaitDiff", "record", "resume", "delete"}
  /\ jobs \in [Jobs -> JobStates]
  /\ jobCache \in [Jobs -> JobStates]
  /\ objects \subseteq {"pvc", "chatPod", "artifactsPod"}
  /\ history \in {""} \cup Terminal
  /\ req \in [Requests -> [pc : RequestPcs, kill : SUBSET Jobs]]
  /\ approvals \subseteq StepJobs
  /\ completed \subseteq Jobs
  /\ crashes \in Nat

\* A run that has ended never runs again: from a terminal phase the object only
\* goes to deletion, whatever stale copy a reconciler pass or a request holds.
TerminalSticky ==
  [][run.phase \in Terminal => run'.phase \in {run.phase, "Deleting", "Gone"}]_vars

\* Steps share one workspace volume, so at most one of their Jobs is active
\* (reconcileRunning creates a Job only for the current step and attempt).
OneJobAtATime ==
  \A j, k \in StepJobs : jobs[j] = "active" /\ jobs[k] = "active" => j = k

\* A Job of a step exists only if each earlier step has had a Job that
\* succeeded: neither a retry, nor an answer to triage, nor a stop that lost
\* its race, nor a lagging cache skips a step.
StepsInOrder ==
  \A j \in StepJobs : jobs[j] # "none" =>
    \A s \in 1 .. (j[1] - 1) : \E a \in Attempts : <<s, a>> \in completed

\* A run ends Succeeded only when every step is Succeeded and the Job of its
\* last attempt did succeed.
SuccessIsComplete ==
  run.phase = "Succeeded" =>
    \A s \in Steps : /\ run.steps[s].phase = "Succeeded"
                     /\ <<s, AttemptOf(run, s)>> \in completed

\* A requireApproval step has a Job only once the user has approved the step,
\* at that attempt or another: no approval of some other step, lagging cache or
\* lost update lets it run before (NotFound branch of reconcileRunning).
NoUnapprovedStep ==
  \A j \in StepJobs : j[1] \in RequireApproval /\ jobs[j] # "none" =>
    \E a \in Attempts : <<j[1], a>> \in approvals

\* A step reset to Pending by a failure runs again: no Job of its new attempt
\* number is left from before (reconcileRunning would take its old result).
RetryIsFresh ==
  [][\A s \in Steps :
       run.steps[s].phase \notin {"", "Pending"} /\ run'.steps[s].phase = "Pending"
         => jobs[<<s, run'.steps[s].attempt>>] = "none"]_vars

-----------------------------------------------------------------------------
(* Refinement *)

ActiveSteps == {s \in Steps : \E a \in Attempts : jobs[<<s, a>>] = "active"}

\* When no request stops it, a run keeps the promise of RunLifecycle.
Lifecycle == INSTANCE RunLifecycle WITH
  phase   <- run.phase,
  at      <- run.cur,
  working <- IF ActiveSteps = {} THEN 0 ELSE CHOOSE s \in ActiveSteps : TRUE,
  passed  <- {s \in Steps : \E a \in Attempts : <<s, a>> \in completed}

\* The run of a pipeline behaves as its lifecycle says: steps one at a time and
\* in order, and each end of the run only when it is due.
ImplementsLifecycle == Lifecycle!Spec

-----------------------------------------------------------------------------
(* Liveness *)

\* controller-runtime retries a failed pass and watch events arrive, so each
\* kind of pass, each informer and each request that has begun keeps going;
\* the pods of a Job end.  Users need not act and the process need not crash.
Fairness ==
  /\ WF_vars(Reconcile)
  /\ WF_vars(SyncRun)
  /\ WF_vars(CollectGarbage)
  /\ \A j \in Jobs : WF_vars(SyncJob(j)) /\ WF_vars(JobFinishes(j))
  /\ \A q \in Requests : WF_vars(StopKill(q) \/ StopPut(q) \/ StopRecord(q)
                            \/ DeletePut(q) \/ ApprovePut(q) \/ SelectPut(q))

FairSpec == Spec /\ Fairness

AwaitsUser ==
  /\ run.phase = "WaitingForInput"
  /\ run.waitingFor = "step-approval" => run.approved # run.cur

\* A run never gets stuck, its approval given or none asked for: it ends, waits
\* for an answer that has not come, or is deleted (Reconcile and its branches).
RunSettles ==
  run.phase \in {"Pending", "Running", "WaitingForInput"}
    ~> AwaitsUser \/ run.phase \in Terminal \cup {"Gone"}

\* Deletion ends with neither the object nor anything it owned, unless a stop
\* takes the run back to Stopped.
DeletionCompletes ==
  run.phase = "Deleting"
    ~> \/ run.phase = "Gone" /\ objects = {} /\ \A j \in Jobs : jobs[j] = "none"
       \/ run.phase = "Stopped"

\* A run that ends is recorded, unless the user deletes it.
CompletionEventuallyRecorded ==
  run.phase \in Terminal ~> history # "" \/ run.phase \in {"Deleting", "Gone"}

=============================================================================
