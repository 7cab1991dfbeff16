------------------------------ MODULE PipelineEdit ------------------------------
(***************************************************************************)
(* A run whose Pipeline is edited while it is under way.  The reconciler   *)
(* finds the current step by its name in the Pipeline as it is now, and    *)
(* the step's status by that step's index in the list the run began with   *)
(* (internal/controller/pipelinerun_controller.go:216-230).  An index      *)
(* beyond that list is a panic: controller-runtime recovers it, nothing is *)
(* written and the pass is tried again.                                    *)
(*                                                                         *)
(* PipelineRun has the lags and conflicts of one unedited run; here the    *)
(* copies of the run and its Jobs are exact and that of the Pipeline lags. *)
(***************************************************************************)
EXTENDS Integers, Sequences

CONSTANTS
  Specs,       \* the lists of steps the Pipeline may have
  MaxAttempt,  \* bound of every attempt number, implied by maxRetries
  MaxEdits     \* bound of the edits explored

None == ""

Retries(s) == IF s.maxRetries = 0 THEN 3 ELSE s.maxRetries

Attempts == 1 .. MaxAttempt

Names == UNION {{l[i].name : i \in DOMAIN l} : l \in Specs}

\* A step as far as the reconciler follows it, an absent onFailure being None.
StepSpec == [name : Names, onFailure : Names \cup {None}, maxRetries : Nat,
             requireApproval : BOOLEAN]

ASSUME PipelineEditAssumption ==
  /\ MaxAttempt \in Nat \ {0} /\ MaxEdits \in Nat
  /\ None \notin Names
  /\ \A l \in Specs : l # <<>> /\ l \in Seq(StepSpec)
  /\ \A l \in Specs : \A i \in DOMAIN l :
       l[i].onFailure # None => Retries(l[i]) <= MaxAttempt

\* "name is the step identifier" (api/v1alpha1/pipeline_types.go:308); nothing
\* checks it.
DistinctNames ==
  \A l \in Specs : \A i, k \in DOMAIN l : l[i].name = l[k].name => i = k

VARIABLES
  pipeline,   \* steps of the Pipeline in the API server
  seen,       \* steps of the operator's informer copy
  run,        \* the PipelineRun
  jobs,       \* its Jobs, by step name and attempt
  edits,      \* edits so far
  used        \* history variable: the lists passes have worked with

vars == <<pipeline, seen, run, jobs, edits, used>>

Jobs == Names \X Attempts
NoJob == <<None, 0>>

Phases == {"Pending", "Running", "WaitingForInput", "Succeeded", "Failed"}

StepStatus == [name : Names, phase : Phases, attempt : 0 .. MaxAttempt,
               job : Jobs \cup {NoJob}]

\* findStep: the first step of the name, 0 if there is none.
findStep(l, n) ==
  IF \A i \in DOMAIN l : l[i].name # n THEN 0
  ELSE CHOOSE i \in DOMAIN l : l[i].name = n /\ \A k \in 1 .. (i - 1) : l[k].name # n

AttemptAt(i) == IF run.steps[i].attempt = 0 THEN 1 ELSE run.steps[i].attempt

\* The Job a pass looks for: the name from the Pipeline, the attempt from the
\* status at the same index.
JobAt(i) == <<seen[i].name, AttemptAt(i)>>

-----------------------------------------------------------------------------
Init ==
  /\ pipeline \in Specs
  /\ seen = pipeline
  /\ run = [phase |-> "Pending", cur |-> None, steps |-> <<>>, approved |-> None]
  /\ jobs = [j \in Jobs |-> "none"]
  /\ edits = 0
  /\ used = {}

\* The dashboard or kubectl replaces the steps; nothing asks for runs under way.
Edit ==
  /\ edits < MaxEdits
  /\ edits' = edits + 1
  /\ pipeline' \in Specs \ {pipeline}
  /\ UNCHANGED <<seen, run, jobs, used>>

SyncPipeline ==
  /\ seen # pipeline
  /\ seen' = pipeline
  /\ UNCHANGED <<pipeline, run, jobs, edits, used>>

\* A pass writes the run and has worked with the list it saw.
Pass(new) ==
  /\ run' = new
  /\ used' = used \cup {seen}
  /\ UNCHANGED <<pipeline, seen, edits>>

Initialize ==
  /\ run.phase = "Pending"
  /\ Pass([run EXCEPT !.phase = "Running", !.cur = seen[1].name,
             !.steps = [i \in DOMAIN seen |->
                [name |-> seen[i].name, phase |-> "Pending", attempt |-> 0, job |-> NoJob]]])
  /\ UNCHANGED jobs

\* failRun marks the status that bears the current step's name, if one does.
FailRun ==
  LET i == findStep(run.steps, run.cur)
  IN  /\ Pass([run EXCEPT !.phase = "Failed",
                 !.steps = IF i = 0 THEN @ ELSE [@ EXCEPT ![i].phase = "Failed"]])
      /\ UNCHANGED jobs

StepNotFound == run.phase = "Running" /\ findStep(seen, run.cur) = 0 /\ FailRun

\* The pass has found the current step and its status, with the Job's state.
At(i, states) ==
  /\ run.phase = "Running"
  /\ i = findStep(seen, run.cur)
  /\ i \in DOMAIN run.steps
  /\ jobs[JobAt(i)] \in states

Gated(i) == seen[i].requireApproval /\ run.approved # seen[i].name

AwaitApproval(i) ==
  /\ At(i, {"none"})
  /\ Gated(i)
  /\ Pass([run EXCEPT !.phase = "WaitingForInput", !.steps[i].phase = "WaitingForInput"])
  /\ UNCHANGED jobs

\* The Job is created; the status update after it may be lost.
CreateJob(i) ==
  /\ At(i, {"none"})
  /\ ~ Gated(i)
  /\ jobs' = [jobs EXCEPT ![JobAt(i)] = "active"]
  /\ \E recorded \in BOOLEAN :
       Pass(IF recorded
            THEN [run EXCEPT !.steps[i] = [@ EXCEPT !.phase = "Running", !.job = JobAt(i),
                                                    !.attempt = AttemptAt(i)]]
            ELSE run)

\* Broken variant of Advanced: the run ends before the last step.
AdvancedShort(r, i) ==
  IF i + 1 >= Len(seen) THEN [r EXCEPT !.phase = "Succeeded", !.cur = None]
                        ELSE [r EXCEPT !.cur = seen[i + 1].name]

Advanced(r, i) ==
  IF i >= Len(seen) THEN [r EXCEPT !.phase = "Succeeded", !.cur = None]
                    ELSE [r EXCEPT !.cur = seen[i + 1].name]

StepSucceeds(i) ==
  /\ At(i, {"succeeded"})
  /\ Pass(Advanced([run EXCEPT !.steps[i].phase = "Succeeded"], i))
  /\ UNCHANGED jobs

MayRetry(i) == seen[i].onFailure # None /\ AttemptAt(i) < Retries(seen[i])

\* Broken variant of JumpedBack: the failing step keeps its attempt.
JumpedBackOnly(i, t) ==
  [run EXCEPT !.cur = seen[i].onFailure, !.steps[i].phase = "Failed",
              !.steps[t] = [@ EXCEPT !.phase = "Pending", !.job = NoJob]]

JumpedBack(i, t) ==
  LET a == AttemptAt(i) + 1
  IN  [run EXCEPT !.cur = seen[i].onFailure,
                  !.steps[i] = [@ EXCEPT !.phase = "Failed", !.attempt = a],
                  !.steps[t] = [@ EXCEPT !.phase = "Pending", !.attempt = a, !.job = NoJob]]

StepRetries(i) ==
  /\ At(i, {"failed"})
  /\ MayRetry(i)
  /\ \E t \in DOMAIN run.steps :
       t = findStep(seen, seen[i].onFailure) /\ Pass(JumpedBack(i, t))
  /\ UNCHANGED jobs

\* No retry is left, or the Pipeline no longer has the step to jump to.
StepFails(i) ==
  /\ At(i, {"failed"})
  /\ MayRetry(i) => findStep(seen, seen[i].onFailure) = 0
  /\ FailRun

\* The wait compares names and does not look at the Pipeline.
Resume ==
  /\ run.phase = "WaitingForInput"
  /\ run.approved = run.cur
  /\ Pass([run EXCEPT !.phase = "Running"])
  /\ UNCHANGED jobs

Approve ==
  /\ run.phase = "WaitingForInput"
  /\ run' = [run EXCEPT !.approved = run.cur]
  /\ UNCHANGED <<pipeline, seen, jobs, edits, used>>

JobEnds(j) ==
  /\ jobs[j] = "active"
  /\ \E outcome \in {"succeeded", "failed"} : jobs' = [jobs EXCEPT ![j] = outcome]
  /\ UNCHANGED <<pipeline, seen, run, edits, used>>

Reconcile ==
  \/ Initialize \/ StepNotFound \/ Resume
  \/ \E i \in DOMAIN seen :
       AwaitApproval(i) \/ CreateJob(i) \/ StepSucceeds(i) \/ StepRetries(i) \/ StepFails(i)

Next == Reconcile \/ Edit \/ SyncPipeline \/ Approve \/ \E j \in Jobs : JobEnds(j)

Spec == Init /\ [][Next]_vars

\* Passes are requeued, the informer delivers, Jobs end; nobody need approve.
FairSpec ==
  /\ Spec
  /\ WF_vars(Reconcile) /\ WF_vars(SyncPipeline)
  /\ \A j \in Jobs : WF_vars(JobEnds(j))

-----------------------------------------------------------------------------
\* Every variable keeps its type; whatever is edited, no step is tried more
\* often than the largest maxRetries allows (reconcileRunning).
TypeOK ==
  /\ pipeline \in Specs /\ seen \in Specs /\ used \subseteq Specs
  /\ run.phase \in Phases /\ run.cur \in Names \cup {None}
  /\ run.approved \in Names \cup {None}
  /\ run.steps \in Seq(StepStatus)
  /\ jobs \in [Jobs -> {"none", "active", "succeeded", "failed"}]
  /\ edits \in 0 .. MaxEdits

Done(n) == \E a \in Attempts : jobs[<<n, a>>] = "succeeded"

\* No edit has moved or renamed a step that the run began with.
Anchored ==
  \A l \in used : \A i \in DOMAIN l \cap DOMAIN run.steps : l[i].name = run.steps[i].name

\* Each status that names a Job names one of its own step (JobName and Name of
\* StepStatus, written by reconcileRunning).
StatusIsOfItsStep ==
  \A i \in DOMAIN run.steps : run.steps[i].job[1] \in {None, run.steps[i].name}

\* No step of a list the run has met jumps forward when it fails.
RetriesGoBack ==
  \A l \in used : \A i \in DOMAIN l : findStep(l, l[i].onFailure) <= i

\* Edits that leave the steps where they are do no harm: statuses belong to
\* their steps, Jobs run one at a time, each after those of all earlier steps,
\* and success is that of a whole list the run has met.
AnchoredEditsAreSafe ==
  Anchored /\ RetriesGoBack =>
    /\ StatusIsOfItsStep
    /\ \A j, k \in Jobs : jobs[j] = "active" /\ jobs[k] = "active" => j = k
    /\ \A i \in DOMAIN run.steps :
         (\E a \in Attempts : jobs[<<run.steps[i].name, a>>] # "none")
           => \A k \in 1 .. (i - 1) : Done(run.steps[k].name)
    /\ run.phase = "Succeeded" => \E l \in used : \A i \in DOMAIN l : Done(l[i].name)

\* An edit hangs a run only by making the Pipeline longer than it was: with no
\* more steps than the run has statuses, the run ends or waits, however steps
\* were moved, removed or renamed.
EditedRunSettles ==
  <>[](run.phase = "Pending" \/ Len(pipeline) <= Len(run.steps))
    => (run.phase \in {"Pending", "Running"} ~> run.phase \notin {"Pending", "Running"})

=============================================================================
