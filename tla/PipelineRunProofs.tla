--------------------------- MODULE PipelineRunProofs ---------------------------
(***************************************************************************)
(* Proofs about PipelineRun for every pipeline and every set of requests:  *)
(* its types, its end and its approvals; the order of its steps when       *)
(* failures jump backwards; that retries start afresh when they do not     *)
(* meet; when nobody stops the run, that Jobs run one at a time and the    *)
(* run is a RunLifecycle; and what a RunLifecycle promises.                *)
(***************************************************************************)
EXTENDS PipelineRun, TLAPS

-----------------------------------------------------------------------------
(* What the status writes of the reconciler make of a well-typed run. *)

LEMMA StepsType ==
  ASSUME NEW r \in Run
  PROVE  r.steps \in [Steps -> StepStatus] /\ r.cur \in 0 .. N
BY DEF Run

LEMMA SetCur ==
  ASSUME NEW r \in Run, NEW c \in 0 .. N
  PROVE  /\ [r EXCEPT !.cur = c] \in Run
         /\ [r EXCEPT !.cur = c].phase = r.phase
         /\ [r EXCEPT !.cur = c].cur = c
         /\ [r EXCEPT !.cur = c].approved = r.approved
BY DEF Run

LEMMA SetSteps ==
  ASSUME NEW r \in Run, NEW st \in [Steps -> StepStatus]
  PROVE  /\ [r EXCEPT !.steps = st] \in Run
         /\ [r EXCEPT !.steps = st].phase = r.phase
         /\ [r EXCEPT !.steps = st].cur = r.cur
         /\ [r EXCEPT !.steps = st].steps = st
         /\ [r EXCEPT !.steps = st].approved = r.approved
BY DEF Run

LEMMA SetPhase ==
  ASSUME NEW r \in Run, NEW p \in Phases
  PROVE  /\ [r EXCEPT !.phase = p] \in Run
         /\ [r EXCEPT !.phase = p].phase = p
         /\ [r EXCEPT !.phase = p].cur = r.cur
         /\ [r EXCEPT !.phase = p].approved = r.approved
BY DEF Run

LEMMA SetFinished ==
  ASSUME NEW r \in Run
  PROVE  /\ [r EXCEPT !.finished = TRUE] \in Run
         /\ [r EXCEPT !.finished = TRUE].phase = r.phase
         /\ [r EXCEPT !.finished = TRUE].cur = r.cur
         /\ [r EXCEPT !.finished = TRUE].approved = r.approved
BY DEF Run

LEMMA StatusType ==
  ASSUME NEW st \in [Steps -> StepStatus], NEW s, NEW p \in StepPhases
  PROVE  [st EXCEPT ![s].phase = p] \in [Steps -> StepStatus]
BY DEF StepStatus

LEMMA AttemptType ==
  ASSUME NEW r \in Run, NEW s \in Steps
  PROVE  AttemptOf(r, s) \in Attempts
<1>1. r.steps[s] \in StepStatus
  BY StepsType
<1>2. r.steps[s].attempt \in 0 .. MaxAttempt
  BY <1>1 DEF StepStatus
<1> QED
  BY <1>2, AttemptAssumption DEF AttemptOf, Attempts

LEMMA InitializedType ==
  ASSUME NEW r \in Run
  PROVE  /\ Initialized(r) \in Run
         /\ Initialized(r).phase = "Running"
         /\ Initialized(r).cur = 1
         /\ Initialized(r).approved = r.approved
<1> DEFINE st == [s \in Steps |-> [phase |-> "Pending", attempt |-> 0, job |-> 0]]
<1>1. st \in [Steps -> StepStatus]
  BY AttemptAssumption DEF StepStatus, StepPhases
<1> DEFINE r1 == [r EXCEPT !.phase = "Running", !.pvc = TRUE]
           r2 == [r1 EXCEPT !.cur = 1]
<1>2. r1 \in Run /\ r1.phase = "Running" /\ r1.approved = r.approved
  BY DEF Run, Phases
<1>3. Initialized(r) = [r2 EXCEPT !.steps = st]
  BY DEF Initialized
<1> HIDE DEF st, r1
<1>4. r2 \in Run /\ r2.phase = "Running" /\ r2.cur = 1 /\ r2.approved = r.approved
  BY <1>2, SetCur, StepsAssumption
<1> HIDE DEF r2
<1> QED
  BY <1>1, <1>3, <1>4, SetSteps

LEMMA FailedType ==
  ASSUME NEW r \in Run
  PROVE  /\ Failed(r) \in Run
         /\ Failed(r).phase = "Failed"
         /\ Failed(r).approved = r.approved
<1> DEFINE st == [r.steps EXCEPT ![r.cur].phase = "Failed"]
<1>1. st \in [Steps -> StepStatus]
  BY StepsType, StatusType DEF StepPhases, Terminal
<1>2. Failed(r) = [r EXCEPT !.phase = "Failed", !.finished = TRUE, !.steps = st]
  BY DEF Failed
<1> HIDE DEF st
<1> QED
  BY <1>1, <1>2 DEF Run, Phases, Terminal

LEMMA StepDoneType ==
  ASSUME NEW r \in Run
  PROVE  /\ StepDone(r) \in Run
         /\ StepDone(r).phase = r.phase
         /\ StepDone(r).cur = r.cur
         /\ StepDone(r).approved = r.approved
<1> DEFINE st == [r.steps EXCEPT ![r.cur].phase = "Succeeded"]
<1>1. st \in [Steps -> StepStatus]
  BY StepsType, StatusType DEF StepPhases, Terminal
<1>2. StepDone(r) = [r EXCEPT !.steps = st]
  BY DEF StepDone
<1> HIDE DEF st
<1> QED
  BY <1>1, <1>2 DEF Run

LEMMA AdvancedType ==
  ASSUME NEW r \in Run, r.cur \in Steps
  PROVE  /\ Advanced(r) \in Run
         /\ Advanced(r).approved = r.approved
         /\ \/ Advanced(r).phase = "Succeeded"
            \/ Advanced(r).phase = r.phase /\ Advanced(r).cur \in Steps
<1>1. CASE r.cur = N
  <2> DEFINE r1 == [r EXCEPT !.phase = "Succeeded"]
             r2 == [r1 EXCEPT !.cur = 0]
  <2>1. Advanced(r) = [r2 EXCEPT !.finished = TRUE]
    BY <1>1 DEF Advanced
  <2>2. r1 \in Run /\ r1.phase = "Succeeded" /\ r1.approved = r.approved
    BY SetPhase DEF Phases, Terminal
  <2> HIDE DEF r1
  <2>3. r2 \in Run /\ r2.phase = "Succeeded" /\ r2.approved = r.approved
    BY <2>2, SetCur, StepsAssumption
  <2> HIDE DEF r2
  <2> QED
    BY <2>1, <2>3, SetFinished
<1>2. CASE r.cur # N
  <2>1. Advanced(r) = [r EXCEPT !.cur = r.cur + 1]
    BY <1>2 DEF Advanced
  <2>2. r.cur + 1 \in 0 .. N /\ r.cur + 1 \in Steps
    BY <1>2, StepsAssumption DEF Steps
  <2> QED
    BY <2>1, <2>2, SetCur
<1> QED
  BY <1>1, <1>2

LEMMA JobRecordedType ==
  ASSUME NEW r \in Run, r.cur \in Steps
  PROVE  /\ JobRecorded(r) \in Run
         /\ JobRecorded(r).phase = r.phase
         /\ JobRecorded(r).cur = r.cur
         /\ JobRecorded(r).approved = r.approved
<1> DEFINE a == AttemptOf(r, r.cur)
<1>1. a \in Attempts
  BY AttemptType
<1> HIDE DEF a
<1> DEFINE st == [phase |-> IF r.cur \in DinD THEN "Initializing" ELSE "Running",
                  attempt |-> a, job |-> a]
<1>2. st \in StepStatus
  BY <1>1, AttemptAssumption DEF StepStatus, StepPhases, Attempts
<1> DEFINE sts == [r.steps EXCEPT ![r.cur] = st]
<1>3. JobRecorded(r) = [r EXCEPT !.steps = sts]
  BY DEF JobRecorded, a
<1> HIDE DEF st
<1>4. sts \in [Steps -> StepStatus]
  BY <1>2, StepsType
<1> HIDE DEF sts
<1> QED
  BY <1>3, <1>4, SetSteps

LEMMA JumpedBackType ==
  ASSUME NEW r \in Run, r.cur \in Steps, MayRetry(r)
  PROVE  /\ JumpedBack(r) \in Run
         /\ JumpedBack(r).phase = r.phase
         /\ JumpedBack(r).cur \in Steps
         /\ JumpedBack(r).approved = r.approved
<1> DEFINE a == AttemptOf(r, r.cur)
           t == OnFailure[r.cur]
           st == [phase |-> "Pending", attempt |-> a + 1, job |-> 0]
           back == [r.steps EXCEPT ![r.cur].phase = "Failed", ![r.cur].attempt = a + 1,
                                   ![t] = st]
<1>1. a \in Attempts /\ a < Retries(r.cur)
  BY AttemptType DEF MayRetry
<1>2. t \in Steps
  BY RetryAssumption, StepsAssumption DEF MayRetry, Steps
<1>3. Retries(r.cur) <= MaxAttempt /\ Retries(r.cur) \in Nat
  BY RetryAssumption DEF MayRetry, Retries
<1>4. a + 1 \in 0 .. MaxAttempt
  BY <1>1, <1>3, AttemptAssumption DEF Attempts
<1> DEFINE r1 == [r EXCEPT !.cur = t]
<1>5. JumpedBack(r) = [r1 EXCEPT !.steps = back]
  BY DEF JumpedBack
<1> HIDE DEF a, t
<1>6. st \in StepStatus
  BY <1>4, AttemptAssumption DEF StepStatus, StepPhases
<1>7. back \in [Steps -> StepStatus]
  <2>1. [r.steps EXCEPT ![r.cur].phase = "Failed"] \in [Steps -> StepStatus]
    BY StepsType, StatusType DEF StepPhases, Terminal
  <2>2. [r.steps EXCEPT ![r.cur].phase = "Failed", ![r.cur].attempt = a + 1]
          \in [Steps -> StepStatus]
    BY <2>1, <1>4 DEF StepStatus
  <2> QED
    BY <2>2, <1>6
<1> HIDE DEF back
<1>8. r1 \in Run /\ r1.phase = r.phase /\ r1.cur = t /\ r1.approved = r.approved
  BY <1>2, SetCur, StepsAssumption DEF Steps
<1> HIDE DEF r1
<1> QED
  BY <1>2, <1>5, <1>7, <1>8, SetSteps

LEMMA AwaitingType ==
  ASSUME NEW r \in Run, NEW d \in BOOLEAN
  PROVE  /\ Awaiting(r, d) \in Run
         /\ Awaiting(r, d).phase = "WaitingForInput"
         /\ Awaiting(r, d).cur = r.cur
         /\ Awaiting(r, d).approved = r.approved
<1> DEFINE st == [r.steps EXCEPT ![r.cur].phase = "WaitingForInput"]
<1>1. st \in [Steps -> StepStatus]
  BY StepsType, StatusType DEF StepPhases
<1>2. Awaiting(r, d) = [r EXCEPT !.phase = "WaitingForInput",
                                 !.waitingFor = "step-approval",
                                 !.diffJob = d, !.steps = st]
  BY DEF Awaiting
<1> HIDE DEF st
<1> QED
  BY <1>1, <1>2 DEF Run, Phases

LEMMA ResumedType ==
  ASSUME NEW r \in Run
  PROVE  /\ Resumed(r) \in Run
         /\ Resumed(r).phase = "Running"
         /\ Resumed(r).cur = r.cur
         /\ Resumed(r).approved = r.approved
BY DEF Resumed, Run, Phases

LEMMA RepoChosenType ==
  ASSUME NEW r \in Run, r.cur \in Steps
  PROVE  /\ RepoChosen(r) \in Run
         /\ RepoChosen(r).approved = r.approved
         /\ \/ RepoChosen(r).phase = "Succeeded"
            \/ RepoChosen(r).phase = "Running" /\ RepoChosen(r).cur \in Steps
<1>1. CASE r.cur = N
  <2> DEFINE r1 == [r EXCEPT !.phase = "Succeeded", !.waitingFor = ""]
  <2>1. RepoChosen(r) = [r1 EXCEPT !.finished = TRUE]
    BY <1>1 DEF RepoChosen
  <2>2. r1 \in Run /\ r1.phase = "Succeeded" /\ r1.approved = r.approved
    BY DEF Run, Phases, Terminal
  <2> HIDE DEF r1
  <2> QED
    BY <2>1, <2>2, SetFinished
<1>2. CASE r.cur # N
  <2> DEFINE r1 == [r EXCEPT !.phase = "Running", !.waitingFor = ""]
  <2>1. RepoChosen(r) = [r1 EXCEPT !.cur = r.cur + 1]
    BY <1>2 DEF RepoChosen
  <2>2. r.cur + 1 \in 0 .. N /\ r.cur + 1 \in Steps
    BY <1>2, StepsAssumption DEF Steps
  <2>3. r1 \in Run /\ r1.phase = "Running" /\ r1.approved = r.approved
    BY DEF Run, Phases
  <2> HIDE DEF r1
  <2> QED
    BY <2>1, <2>2, <2>3, SetCur
<1> QED
  BY <1>1, <1>2

LEMMA StoppedByUserType ==
  ASSUME NEW r \in Run
  PROVE  /\ StoppedByUser(r) \in Run
         /\ StoppedByUser(r).phase = "Stopped"
         /\ StoppedByUser(r).approved = r.approved
<1> DEFINE st == [s \in Steps |->
                   IF r.steps[s].phase \in {"Running", "Pending", "Initializing"}
                   THEN [r.steps[s] EXCEPT !.phase = "Stopped"]
                   ELSE r.steps[s]]
<1>1. \A s \in Steps : st[s] \in StepStatus
  BY StepsType DEF StepStatus, StepPhases, Terminal
<1>2. st \in [Steps -> StepStatus]
  BY <1>1
<1>3. StoppedByUser(r) = [r EXCEPT !.phase = "Stopped", !.finished = TRUE, !.steps = st]
  BY DEF StoppedByUser
<1> HIDE DEF st
<1> QED
  BY <1>2, <1>3 DEF Run, Phases, Terminal

-----------------------------------------------------------------------------
(* The inductive invariant.  TypeOK alone is not inductive: a pass and a    *)
(* request write what they computed from an older copy, so the invariant    *)
(* says what is still true of the object while that copy is current.        *)

\* A run under way has a current step.
CurOK(r) == r.phase \in {"Running", "WaitingForInput"} => r.cur \in Steps

\* The step a run was approved for has been approved by the user.
ApprovedOK(r) == r.approved # 0 => \E a \in Attempts : <<r.approved, a>> \in approvals

RunOK(r) == CurOK(r) /\ ApprovedOK(r)

\* The phase the reconciler saw when its pass got to rec.
RecFits(pc, r) ==
  /\ pc \in {"await", "awaitDiff", "record"} => r.phase = "Running"
  /\ pc = "resume" => r.phase = "WaitingForInput"

\* The phase a request saw when it read the run.
ReqFits(pc, r) ==
  /\ pc \in {"kill", "stop"} => r.phase \notin Terminal \cup {"Gone"}
  /\ pc = "delete" => r.phase \notin {"Deleting", "Gone"}
  /\ pc \in {"approve", "select"} => r.phase = "WaitingForInput"

\* A copy that carries the current version is the object.
Snapshots ==
  /\ "cache" \in fresh => cache = run
  /\ "rec" \in fresh => RecFits(rec, run)
  /\ \A q \in Requests : q \in fresh => ReqFits(req[q].pc, run)

IInv ==
  /\ TypeOK
  /\ RunOK(run) /\ RunOK(cache)
  /\ Snapshots
  /\ NoUnapprovedStep

-----------------------------------------------------------------------------
(* The two ways a step treats the object: it writes it or it leaves it.     *)

RecPcs == {"idle", "skip", "await", "awaitDiff", "record", "resume", "delete"}

\* The types of everything but the object and its copies.
RestOK ==
  /\ rec \in RecPcs
  /\ jobs \in [Jobs -> JobStates]
  /\ jobCache \in [Jobs -> JobStates]
  /\ objects \subseteq {"pvc", "chatPod", "artifactsPod"}
  /\ history \in {""} \cup Terminal
  /\ req \in [Requests -> [pc : RequestPcs, kill : SUBSET Jobs]]
  /\ approvals \subseteq StepJobs
  /\ completed \subseteq Jobs
  /\ crashes \in Nat

LEMMA TypeParts ==
  TypeOK <=> /\ run \in Run /\ cache \in Run
             /\ fresh \subseteq {"cache", "rec"} \cup Requests
             /\ RestOK
BY DEF TypeOK, RestOK, RecPcs

\* A write of the object takes the version away from every other copy.
LEMMA WriteInv ==
  ASSUME IInv, RestOK',
         run' \in Run, CurOK(run'),
         run'.approved # 0 => \E a \in Attempts : <<run'.approved, a>> \in approvals',
         fresh' = {}, cache' = cache, approvals \subseteq approvals',
         \A j \in StepJobs : jobs'[j] # "none" => jobs[j] # "none"
  PROVE  IInv'
<1>1. TypeOK /\ RunOK(cache) /\ NoUnapprovedStep /\ cache \in Run
  BY TypeParts DEF IInv
<1>2. TypeOK'
  BY <1>1 DEF TypeOK, RestOK, RecPcs
<1>3. RunOK(run)' /\ RunOK(cache)'
  BY <1>1 DEF RunOK, CurOK, ApprovedOK
<1>4. Snapshots'
  BY DEF Snapshots
<1>5. NoUnapprovedStep'
  BY <1>1 DEF NoUnapprovedStep
<1> QED
  BY <1>2, <1>3, <1>4, <1>5 DEF IInv

\* A step that leaves the object alone may hand out its version.
LEMMA KeepInv ==
  ASSUME IInv, RestOK', UNCHANGED <<run, cache, approvals>>,
         fresh' \subseteq {"cache", "rec"} \cup Requests,
         "cache" \in fresh' => "cache" \in fresh,
         "rec" \in fresh' => RecFits(rec', run),
         \A q \in Requests : q \in fresh' => ReqFits(req'[q].pc, run),
         \A j \in StepJobs : jobs'[j] # "none" /\ j[1] \in RequireApproval =>
            jobs[j] # "none" \/ \E a \in Attempts : <<j[1], a>> \in approvals
  PROVE  IInv'
<1>1. TypeOK /\ RunOK(run) /\ RunOK(cache) /\ NoUnapprovedStep
      /\ run \in Run /\ cache \in Run /\ Snapshots
  BY TypeParts DEF IInv
<1>2. TypeOK'
  BY <1>1 DEF TypeOK, RestOK, RecPcs
<1>3. RunOK(run)' /\ RunOK(cache)'
  BY <1>1 DEF RunOK, CurOK, ApprovedOK
<1>4. Snapshots'
  BY <1>1 DEF Snapshots, RecFits, ReqFits
<1>5. NoUnapprovedStep'
  BY <1>1 DEF NoUnapprovedStep
<1> QED
  BY <1>2, <1>3, <1>4, <1>5 DEF IInv

LEMMA JobsType ==
  ASSUME NEW js, NEW f \in [Jobs -> JobStates]
  PROVE  /\ [j \in Jobs |-> IF j \in js THEN "none" ELSE f[j]] \in [Jobs -> JobStates]
         /\ \A j \in Jobs, v \in JobStates : [f EXCEPT ![j] = v] \in [Jobs -> JobStates]
BY DEF JobStates

-----------------------------------------------------------------------------
(* The reconciler *)

\* What TerminalSticky says of one step.
StickyStep == run.phase \in Terminal => run'.phase \in {run.phase, "Deleting", "Gone"}

LEMMA Parts ==
  ASSUME IInv
  PROVE  /\ run \in Run /\ cache \in Run /\ RestOK
         /\ fresh \subseteq {"cache", "rec"} \cup Requests
         /\ RunOK(run) /\ RunOK(cache) /\ Snapshots /\ NoUnapprovedStep
BY TypeParts DEF IInv

LEMMA UpdateStep ==
  ASSUME IInv, NEW new \in Run, UpdateFromCache(new), CurOK(new),
         new.approved = cache.approved, rec' \in RecPcs, cache.phase \notin Terminal
  PROVE  IInv' /\ StickyStep
<1>1. cache = run /\ run' = new /\ fresh' = {} /\ cache' = cache /\ approvals' = approvals
      /\ jobs' = jobs
  BY Parts DEF UpdateFromCache, Snapshots, aux
<1>2. RestOK'
  BY Parts DEF UpdateFromCache, RestOK, aux
<1>3. run'.approved # 0 => \E a \in Attempts : <<run'.approved, a>> \in approvals'
  BY <1>1, Parts DEF RunOK, ApprovedOK
<1>4. CurOK(run')
  BY <1>1
<1>5. IInv'
  BY <1>1, <1>2, <1>3, <1>4, WriteInv
<1> QED
  BY <1>1, <1>5 DEF StickyStep

LEMMA FinishStep ==
  ASSUME IInv, NEW new, FinishUpdate(new),
         "rec" \in fresh => /\ new \in Run /\ CurOK(new)
                            /\ new.approved = run.approved
                            /\ run.phase \notin Terminal
  PROVE  IInv' /\ StickyStep
<1>1. RestOK'
  BY Parts DEF FinishUpdate, RestOK, RecPcs, aux
<1>2. CASE "rec" \in fresh /\ run' = new /\ fresh' = {}
  <2>1. CurOK(run') /\ run' \in Run
    BY <1>2
  <2>2. run'.approved # 0 => \E a \in Attempts : <<run'.approved, a>> \in approvals'
    BY <1>2, Parts DEF RunOK, ApprovedOK, FinishUpdate, aux
  <2>3. cache' = cache /\ approvals' = approvals /\ jobs' = jobs
    BY DEF FinishUpdate, aux
  <2>4. IInv'
    BY <1>1, <1>2, <2>1, <2>2, <2>3, WriteInv
  <2> QED
    BY <1>2, <2>4 DEF StickyStep
<1>3. CASE "rec" \notin fresh /\ UNCHANGED <<run, fresh>>
  <2>1. UNCHANGED <<run, cache, approvals, fresh, jobs, req>>
    BY <1>3 DEF FinishUpdate, aux
  <2>2. \A q \in Requests : q \in fresh' => ReqFits(req'[q].pc, run)
    BY <2>1, Parts DEF Snapshots
  <2>3. fresh' \subseteq {"cache", "rec"} \cup Requests
    BY <2>1, Parts
  <2>4. IInv'
    BY <1>1, <1>3, <2>1, <2>2, <2>3, KeepInv
  <2> QED
    BY <2>1, <2>4 DEF StickyStep
<1> QED
  BY <1>2, <1>3 DEF FinishUpdate

LEMMA GoOnStep ==
  ASSUME IInv, NEW pc \in RecPcs, GoOn(pc),
         "cache" \in fresh => RecFits(pc, cache),
         jobs' \in [Jobs -> JobStates],
         objects' \subseteq {"pvc", "chatPod", "artifactsPod"},
         \A j \in StepJobs : jobs'[j] # "none" /\ j[1] \in RequireApproval =>
            jobs[j] # "none" \/ \E a \in Attempts : <<j[1], a>> \in approvals
  PROVE  IInv' /\ StickyStep
<1>1. RestOK'
  BY Parts DEF GoOn, RestOK, aux
<1>2. UNCHANGED <<run, cache, approvals, req>> /\ rec' = pc
  BY DEF GoOn, aux
<1>3. /\ fresh' \subseteq {"cache", "rec"} \cup Requests
      /\ "cache" \in fresh' => "cache" \in fresh
      /\ "rec" \in fresh' => "cache" \in fresh
      /\ \A q \in Requests : q \in fresh' => q \in fresh
  BY Parts, RequestAssumption DEF GoOn
<1>4. "rec" \in fresh' => RecFits(rec', run)
  BY <1>2, <1>3, Parts DEF Snapshots
<1>5. \A q \in Requests : q \in fresh' => ReqFits(req'[q].pc, run)
  BY <1>2, <1>3, Parts DEF Snapshots
<1>6. IInv'
  BY <1>1, <1>2, <1>3, <1>4, <1>5, KeepInv
<1> QED
  BY <1>2, <1>6 DEF StickyStep

LEMMA DiffIsNoStepJob == DiffJob \in Jobs /\ DiffJob \notin StepJobs
BY DEF DiffJob, Jobs, StepJobs, Steps

\* Jobs that only disappear do no harm.
LEMMA DeleteJobsStep ==
  ASSUME RestOK, NEW js, DeleteJobs(js)
  PROVE  /\ jobs' \in [Jobs -> JobStates]
         /\ \A j \in StepJobs : jobs'[j] # "none" => jobs[j] # "none"
<1>1. jobs' = [j \in Jobs |-> IF j \in js THEN "none" ELSE jobs[j]]
  BY DEF DeleteJobs
<1>2. jobs \in [Jobs -> JobStates]
  BY DEF RestOK
<1>3. \A j \in StepJobs : jobs'[j] = IF j \in js THEN "none" ELSE jobs[j]
  BY <1>1 DEF Jobs
<1> QED
  BY <1>1, <1>2, <1>3, JobsType

LEMMA CurJobType ==
  ASSUME NEW r \in Run, CurOK(r), r.phase \in {"Running", "WaitingForInput"}
  PROVE  CurJob(r) \in StepJobs /\ CurJob(r)[1] = r.cur
BY AttemptType DEF CurOK, CurJob, StepJobs

LEMMA RunningCur ==
  ASSUME IInv, Starts("Running")
  PROVE  cache \in Run /\ cache.phase = "Running" /\ cache.cur \in Steps /\ rec = "idle"
BY Parts DEF Starts, RunOK, CurOK

LEMMA SkipStep == ASSUME IInv, RecSkip PROVE IInv' /\ StickyStep
<1> DEFINE new == [cache EXCEPT !.phase = "Stopped", !.finished = TRUE]
<1>1. new \in Run /\ new.phase = "Stopped" /\ new.approved = cache.approved
  BY Parts DEF Run, Phases, Terminal
<1>2. UpdateFromCache(new) /\ rec' \in RecPcs /\ cache.phase \notin Terminal
  BY DEF RecSkip, RecPcs, Starts, Terminal
<1>3. CurOK(new)
  BY <1>1 DEF CurOK
<1> HIDE DEF new
<1> QED
  BY <1>1, <1>2, <1>3, UpdateStep

LEMMA PendingStep == ASSUME IInv, RecPending PROVE IInv' /\ StickyStep
<1>1. Initialized(cache) \in Run /\ Initialized(cache).phase = "Running"
      /\ Initialized(cache).cur = 1 /\ Initialized(cache).approved = cache.approved
  BY Parts, InitializedType
<1>2. RestOK'
  BY Parts DEF RecPending, RestOK, RecPcs, aux
<1>3. UNCHANGED <<cache, jobs, rec, req, approvals>>
  BY DEF RecPending, aux
<1>4. CASE "cache" \in fresh /\ run' = Initialized(cache) /\ fresh' = {}
  <2>1. cache = run /\ run.phase = "Pending"
    BY <1>4, Parts DEF Snapshots, RecPending, Starts
  <2>2. run' \in Run /\ CurOK(run')
    BY <1>1, <1>4, StepsAssumption DEF CurOK, Steps
  <2>3. run'.approved # 0 => \E a \in Attempts : <<run'.approved, a>> \in approvals'
    BY <1>1, <1>3, <1>4, Parts DEF RunOK, ApprovedOK
  <2>4. IInv'
    BY <1>2, <1>3, <1>4, <2>2, <2>3, WriteInv
  <2> QED
    BY <2>1, <2>4 DEF StickyStep, Terminal
<1>5. CASE "cache" \notin fresh /\ UNCHANGED <<run, fresh>>
  <2>1. "rec" \in fresh' => RecFits(rec', run)
    BY <1>3, <1>5, Parts DEF Snapshots
  <2>2. \A q \in Requests : q \in fresh' => ReqFits(req'[q].pc, run)
    BY <1>3, <1>5, Parts DEF Snapshots
  <2>3. fresh' \subseteq {"cache", "rec"} \cup Requests
    BY <1>5, Parts
  <2>4. IInv'
    BY <1>2, <1>3, <1>5, <2>1, <2>2, <2>3, KeepInv
  <2> QED
    BY <1>5, <2>4 DEF StickyStep
<1> QED
  BY <1>4, <1>5 DEF RecPending

LEMMA GateStep == ASSUME IInv, RecGate PROVE IInv' /\ StickyStep
<1>1. cache.phase = "Running"
  BY DEF RecGate, JobMissing, Starts
<1>2. PICK pc \in {"await", "awaitDiff"} : GoOn(pc)
  BY DEF RecGate
<1>3. jobs' = jobs \/ jobs' = [jobs EXCEPT ![DiffJob] = "active"]
  BY DEF RecGate
<1>4. jobs' \in [Jobs -> JobStates]
  BY <1>3, Parts, DiffIsNoStepJob, JobsType DEF RestOK, JobStates
<1>5. \A j \in StepJobs : jobs'[j] # "none" => jobs[j] # "none"
  <2>1. \A j \in StepJobs : j \in Jobs /\ j # DiffJob
    BY DiffIsNoStepJob DEF Jobs
  <2> QED
    BY <1>3, <2>1, Parts DEF RestOK
<1>6. objects' \subseteq {"pvc", "chatPod", "artifactsPod"}
  BY Parts DEF RecGate, RestOK
<1>7. RecFits(pc, cache) /\ pc \in RecPcs
  BY <1>1 DEF RecFits, RecPcs
<1> QED
  BY <1>2, <1>4, <1>5, <1>6, <1>7, GoOnStep

LEMMA AwaitStep == ASSUME IInv, RecAwait PROVE IInv' /\ StickyStep
<1> DEFINE new == Awaiting(run, rec = "awaitDiff")
<1>1. FinishUpdate(new)
  BY DEF RecAwait
<1>2. new \in Run /\ new.phase = "WaitingForInput" /\ new.cur = run.cur
      /\ new.approved = run.approved
  BY Parts, AwaitingType
<1> HIDE DEF new
<1>3. "rec" \in fresh => run.phase = "Running" /\ CurOK(new)
  BY <1>2, Parts DEF RecAwait, Snapshots, RecFits, RunOK, CurOK
<1> QED
  BY <1>1, <1>2, <1>3, FinishStep DEF Terminal

LEMMA CreateJobStep == ASSUME IInv, RecCreateJob PROVE IInv' /\ StickyStep
<1>1. cache \in Run /\ cache.phase = "Running" /\ cache.cur \in Steps
  BY RunningCur DEF RecCreateJob, JobMissing
<1>2. CurJob(cache) \in StepJobs /\ CurJob(cache)[1] = cache.cur
  BY <1>1, CurJobType DEF CurOK
<1>3. GoOn("record") /\ jobs' = [jobs EXCEPT ![CurJob(cache)] = "active"]
      /\ objects' = objects
  BY DEF RecCreateJob
<1>4. jobs' \in [Jobs -> JobStates]
  BY <1>2, <1>3, Parts, JobsType DEF RestOK, JobStates, Jobs
<1>5. cache.cur \in RequireApproval => \E a \in Attempts : <<cache.cur, a>> \in approvals
  <2>1. cache.cur \in RequireApproval => cache.approved = cache.cur
    BY DEF RecCreateJob, NeedsApproval
  <2>2. cache.cur # 0
    BY <1>1 DEF Steps
  <2> QED
    BY <2>1, <2>2, Parts DEF RunOK, ApprovedOK
<1>6. \A j \in StepJobs : jobs'[j] # "none" /\ j[1] \in RequireApproval =>
         jobs[j] # "none" \/ \E a \in Attempts : <<j[1], a>> \in approvals
  BY <1>2, <1>3, <1>5
<1>7. objects' \subseteq {"pvc", "chatPod", "artifactsPod"}
  BY <1>3, Parts DEF RestOK
<1>8. RecFits("record", cache) /\ "record" \in RecPcs
  BY <1>1 DEF RecFits, RecPcs
<1> QED
  BY <1>3, <1>4, <1>6, <1>7, <1>8, GoOnStep

LEMMA RecordJobStep == ASSUME IInv, RecRecordJob PROVE IInv' /\ StickyStep
<1>1. FinishUpdate(JobRecorded(run))
  BY DEF RecRecordJob
<1>2. "rec" \in fresh => run.phase = "Running" /\ run.cur \in Steps
  BY Parts DEF RecRecordJob, Snapshots, RecFits, RunOK, CurOK
<1>3. "rec" \in fresh => JobRecorded(run) \in Run /\ CurOK(JobRecorded(run))
                         /\ JobRecorded(run).approved = run.approved
  BY <1>2, Parts, JobRecordedType DEF CurOK
<1> QED
  BY <1>1, <1>2, <1>3, FinishStep DEF Terminal

LEMMA FailedStep ==
  ASSUME IInv, cache.phase = "Running", UpdateFromCache(Failed(cache)), rec' \in RecPcs
  PROVE  IInv' /\ StickyStep
<1>1. Failed(cache) \in Run /\ Failed(cache).phase = "Failed"
      /\ Failed(cache).approved = cache.approved
  BY Parts, FailedType
<1>2. CurOK(Failed(cache))
  BY <1>1 DEF CurOK
<1> QED
  BY <1>1, <1>2, UpdateStep DEF Terminal

LEMMA InitializedStep == ASSUME IInv, RecInitialized PROVE IInv' /\ StickyStep
<1> DEFINE st == [cache.steps EXCEPT ![cache.cur].phase = "Running"]
           new == [cache EXCEPT !.steps = st]
<1>1. cache \in Run /\ cache.phase = "Running" /\ cache.cur \in Steps /\ rec = "idle"
  BY RunningCur DEF RecInitialized
<1>2. UpdateFromCache(new) /\ rec' \in RecPcs
  BY <1>1 DEF RecInitialized, RecPcs
<1>3. st \in [Steps -> StepStatus]
  BY <1>1, StepsType, StatusType DEF StepPhases
<1> HIDE DEF st
<1>4. new \in Run /\ new.phase = "Running" /\ new.cur = cache.cur
      /\ new.approved = cache.approved
  BY <1>1, <1>3, SetSteps
<1> HIDE DEF new
<1> QED
  BY <1>1, <1>2, <1>4, UpdateStep DEF CurOK, Terminal

LEMMA StepSucceededStep == ASSUME IInv, RecStepSucceeded PROVE IInv' /\ StickyStep
<1> DEFINE done == StepDone(cache)
           new == Advanced(done)
<1>1. cache \in Run /\ cache.phase = "Running" /\ cache.cur \in Steps /\ rec = "idle"
  BY RunningCur DEF RecStepSucceeded, JobSucceeded
<1>2. UpdateFromCache(new) /\ rec' \in RecPcs
  BY <1>1 DEF RecStepSucceeded, RecPcs
<1>3. done \in Run /\ done.phase = "Running" /\ done.cur \in Steps
      /\ done.approved = cache.approved
  BY <1>1, StepDoneType
<1> HIDE DEF done
<1>4. new \in Run /\ new.approved = cache.approved /\ CurOK(new)
  BY <1>3, AdvancedType DEF CurOK
<1> HIDE DEF new
<1> QED
  BY <1>1, <1>2, <1>4, UpdateStep DEF Terminal

LEMMA TriageUnsureStep == ASSUME IInv, RecTriageUnsure PROVE IInv' /\ StickyStep
<1> DEFINE done == StepDone(cache)
           new == [done EXCEPT !.phase = "WaitingForInput",
                               !.waitingFor = "repo-selection"]
<1>1. cache \in Run /\ cache.phase = "Running" /\ cache.cur \in Steps /\ rec = "idle"
  BY RunningCur DEF RecTriageUnsure, JobSucceeded
<1>2. UpdateFromCache(new) /\ rec' \in RecPcs
  BY <1>1 DEF RecTriageUnsure, RecPcs
<1>3. done \in Run /\ done.cur \in Steps /\ done.approved = cache.approved
  BY <1>1, StepDoneType
<1> HIDE DEF done
<1>4. new \in Run /\ new.cur \in Steps /\ new.approved = cache.approved
  BY <1>3 DEF Run, Phases
<1> HIDE DEF new
<1> QED
  BY <1>1, <1>2, <1>4, UpdateStep DEF CurOK, Terminal

LEMMA RetryStep == ASSUME IInv, RecRetry PROVE IInv' /\ StickyStep
<1>1. cache \in Run /\ cache.phase = "Running" /\ cache.cur \in Steps /\ rec = "idle"
  BY RunningCur DEF RecRetry, JobFailed
<1>2. UpdateFromCache(JumpedBack(cache)) /\ rec' \in RecPcs /\ MayRetry(cache)
  BY <1>1 DEF RecRetry, RecPcs
<1>3. JumpedBack(cache) \in Run /\ CurOK(JumpedBack(cache))
      /\ JumpedBack(cache).approved = cache.approved
  BY <1>1, <1>2, JumpedBackType DEF CurOK
<1> QED
  BY <1>1, <1>2, <1>3, UpdateStep DEF Terminal

LEMMA ApprovedStep == ASSUME IInv, RecApproved PROVE IInv' /\ StickyStep
<1>1. GoOn("resume") /\ cache.phase = "WaitingForInput"
  BY DEF RecApproved, Starts
<1>2. PICK js : DeleteJobs(js)
  BY DEF RecApproved
<1>3. jobs' \in [Jobs -> JobStates]
      /\ \A j \in StepJobs : jobs'[j] # "none" => jobs[j] # "none"
  BY <1>2, Parts, DeleteJobsStep
<1>4. objects' \subseteq {"pvc", "chatPod", "artifactsPod"}
  BY Parts DEF RecApproved, RestOK
<1>5. RecFits("resume", cache) /\ "resume" \in RecPcs
  BY <1>1 DEF RecFits, RecPcs
<1> QED
  BY <1>1, <1>3, <1>4, <1>5, GoOnStep

LEMMA ResumeStep == ASSUME IInv, RecResume PROVE IInv' /\ StickyStep
<1>1. FinishUpdate(Resumed(run))
  BY DEF RecResume
<1>2. Resumed(run) \in Run /\ Resumed(run).cur = run.cur
      /\ Resumed(run).approved = run.approved
  BY Parts, ResumedType
<1>3. "rec" \in fresh => run.phase = "WaitingForInput" /\ CurOK(Resumed(run))
  BY <1>2, Parts DEF RecResume, Snapshots, RecFits, RunOK, CurOK
<1> QED
  BY <1>1, <1>2, <1>3, FinishStep DEF Terminal

LEMMA RepoSelectedStep == ASSUME IInv, RecRepoSelected PROVE IInv' /\ StickyStep
<1>1. cache \in Run /\ cache.phase = "WaitingForInput" /\ cache.cur \in Steps
      /\ rec = "idle"
  BY Parts DEF RecRepoSelected, Starts, RunOK, CurOK
<1>2. UpdateFromCache(RepoChosen(cache)) /\ rec' \in RecPcs
  BY <1>1 DEF RecRepoSelected, RecPcs
<1>3. RepoChosen(cache) \in Run /\ CurOK(RepoChosen(cache))
      /\ RepoChosen(cache).approved = cache.approved
  BY <1>1, RepoChosenType DEF CurOK
<1> QED
  BY <1>1, <1>2, <1>3, UpdateStep DEF Terminal

LEMMA DeletingStep == ASSUME IInv, RecDeleting PROVE IInv' /\ StickyStep
<1>1. GoOn("delete") /\ cache.phase = "Deleting"
  BY DEF RecDeleting, Starts
<1>2. PICK js : DeleteJobs(js)
  BY DEF RecDeleting
<1>3. jobs' \in [Jobs -> JobStates]
      /\ \A j \in StepJobs : jobs'[j] # "none" => jobs[j] # "none"
  BY <1>2, Parts, DeleteJobsStep
<1>4. objects' \subseteq {"pvc", "chatPod", "artifactsPod"}
  BY Parts DEF RecDeleting, RestOK
<1>5. RecFits("delete", cache) /\ "delete" \in RecPcs
  BY DEF RecFits, RecPcs
<1> QED
  BY <1>1, <1>3, <1>4, <1>5, GoOnStep

LEMMA DeleteCRStep == ASSUME IInv, RecDeleteCR PROVE IInv' /\ StickyStep
<1>1. run' \in Run /\ run'.phase = "Gone" /\ run'.approved = run.approved
  BY Parts, SetPhase DEF RecDeleteCR, Phases
<1>2. RestOK' /\ UNCHANGED <<cache, jobs, approvals>> /\ fresh' = {}
  BY Parts DEF RecDeleteCR, RestOK, RecPcs, aux
<1>3. CurOK(run')
  BY <1>1 DEF CurOK
<1>4. run'.approved # 0 => \E a \in Attempts : <<run'.approved, a>> \in approvals'
  BY <1>1, <1>2, Parts DEF RunOK, ApprovedOK
<1>5. IInv'
  BY <1>1, <1>2, <1>3, <1>4, WriteInv
<1> QED
  BY <1>1, <1>5 DEF StickyStep

\* Recording the end of a run touches only the history database.
LEMMA CompleteStep ==
  ASSUME IInv, RecComplete \/ RecSkipRecord
  PROVE  IInv' /\ StickyStep
<1>1. RestOK' /\ UNCHANGED <<run, cache, fresh, jobs, req, approvals>>
  BY Parts DEF RecComplete, RecSkipRecord, RestOK, RecPcs, Terminal, aux
<1>2. "rec" \in fresh => RecFits(rec', run)
  BY Parts DEF RecComplete, RecSkipRecord, Snapshots, RecFits
<1>3. fresh' \subseteq {"cache", "rec"} \cup Requests
      /\ \A q \in Requests : q \in fresh' => ReqFits(req'[q].pc, run)
  BY <1>1, Parts DEF Snapshots
<1>4. IInv'
  BY <1>1, <1>2, <1>3, KeepInv
<1> QED
  BY <1>1, <1>4 DEF StickyStep

LEMMA ReconcileStep == ASSUME IInv, Reconcile PROVE IInv' /\ StickyStep
<1>1. CASE RecBuildFails
  BY <1>1, FailedStep, RunningCur DEF RecBuildFails, JobMissing, RecPcs
<1>2. CASE RecTriageFails
  BY <1>2, FailedStep, RunningCur DEF RecTriageFails, JobSucceeded, RecPcs
<1>3. CASE RecStepFails
  BY <1>3, FailedStep, RunningCur DEF RecStepFails, JobFailed, RecPcs
<1> QED
  BY <1>1, <1>2, <1>3, SkipStep, CompleteStep, PendingStep, GateStep, AwaitStep,
     CreateJobStep, RecordJobStep, InitializedStep, StepSucceededStep,
     TriageUnsureStep, RetryStep, ApprovedStep, ResumeStep, RepoSelectedStep,
     DeletingStep, DeleteCRStep
     DEF Reconcile

-----------------------------------------------------------------------------
(* The dashboard *)

LEMMA ReqType ==
  ASSUME RestOK, NEW q \in Requests, NEW p \in RequestPcs, NEW k \in SUBSET Jobs
  PROVE  /\ [req EXCEPT ![q].pc = p] \in [Requests -> [pc : RequestPcs, kill : SUBSET Jobs]]
         /\ [req EXCEPT ![q] = [pc |-> p, kill |-> k]]
              \in [Requests -> [pc : RequestPcs, kill : SUBSET Jobs]]
BY DEF RestOK

\* A request reads the run: it now holds the current version.
LEMMA GetStep ==
  ASSUME IInv, NEW q \in Requests, NEW op, Get(q, op),
         req' \in [Requests -> [pc : RequestPcs, kill : SUBSET Jobs]],
         ReqFits(req'[q].pc, run),
         \A p \in Requests \ {q} : req'[p] = req[p]
  PROVE  IInv' /\ StickyStep
<1>1. RestOK' /\ UNCHANGED <<run, cache, jobs, rec, approvals>> /\ fresh' = fresh \cup {q}
  BY Parts DEF Get, RestOK, aux
<1>2. q # "rec" /\ q # "cache"
  BY RequestAssumption
<1>3. "rec" \in fresh' => RecFits(rec', run)
  BY <1>1, <1>2, Parts DEF Snapshots
<1>4. \A p \in Requests : p \in fresh' => ReqFits(req'[p].pc, run)
  BY <1>1, Parts DEF Snapshots
<1>5. fresh' \subseteq {"cache", "rec"} \cup Requests /\ ("cache" \in fresh' => "cache" \in fresh)
  BY <1>1, <1>2, Parts
<1>6. IInv'
  BY <1>1, <1>3, <1>4, <1>5, KeepInv
<1> QED
  BY <1>1, <1>6 DEF StickyStep

\* A request updates the run, or meets a conflict and ends.
LEMMA PutStep ==
  ASSUME IInv, NEW q \in Requests, NEW new, NEW next \in RequestPcs, Put(q, new, next),
         approvals \subseteq approvals', approvals' \subseteq StepJobs,
         q \notin fresh => approvals' = approvals,
         q \in fresh => /\ new \in Run /\ CurOK(new)
                        /\ new.approved # 0 =>
                             \E a \in Attempts : <<new.approved, a>> \in approvals'
                        /\ run.phase \in Terminal => new.phase \in {run.phase, "Deleting"}
  PROVE  IInv' /\ StickyStep
<1>1. UNCHANGED <<cache, rec, jobs, jobCache, objects, history, completed, crashes>>
  BY DEF Put
<1>2. req' \in [Requests -> [pc : RequestPcs, kill : SUBSET Jobs]]
  <2>1. "done" \in RequestPcs /\ RestOK
    BY Parts DEF RequestPcs
  <2>2. req' = [req EXCEPT ![q].pc = next] \/ req' = [req EXCEPT ![q].pc = "done"]
    BY DEF Put
  <2>3. [req EXCEPT ![q].pc = next] \in [Requests -> [pc : RequestPcs, kill : SUBSET Jobs]]
    BY <2>1, ReqType
  <2>4. [req EXCEPT ![q].pc = "done"] \in [Requests -> [pc : RequestPcs, kill : SUBSET Jobs]]
    BY <2>1, ReqType
  <2> QED
    BY <2>2, <2>3, <2>4
<1>3. RestOK'
  BY <1>1, <1>2, Parts DEF RestOK
<1>4. CASE q \in fresh /\ run' = new /\ fresh' = {}
  <2>1. run' \in Run /\ CurOK(run')
    BY <1>4
  <2>2. run'.approved # 0 => \E a \in Attempts : <<run'.approved, a>> \in approvals'
    BY <1>4
  <2>3. IInv'
    BY <1>1, <1>3, <1>4, <2>1, <2>2, WriteInv
  <2> QED
    BY <1>4, <2>3 DEF StickyStep
<1>5. CASE q \notin fresh /\ req' = [req EXCEPT ![q].pc = "done"] /\ UNCHANGED <<run, fresh>>
  <2>1. \A p \in Requests : p \in fresh' => ReqFits(req'[p].pc, run)
    BY <1>5, Parts DEF Snapshots, RestOK
  <2>2. "rec" \in fresh' => RecFits(rec', run)
    BY <1>1, <1>5, Parts DEF Snapshots
  <2>3. fresh' \subseteq {"cache", "rec"} \cup Requests
    BY <1>5, Parts
  <2>4. IInv'
    BY <1>1, <1>3, <1>5, <2>1, <2>2, <2>3, KeepInv
  <2> QED
    BY <1>5, <2>4 DEF StickyStep
<1> QED
  BY <1>4, <1>5 DEF Put

LEMMA StopGetStep == ASSUME IInv, NEW q \in Requests, StopGet(q) PROVE IInv' /\ StickyStep
<1> DEFINE k == {<<s, run.steps[s].job>> : s \in {t \in Steps :
                    run.steps[t].job # 0 /\ run.steps[t].phase = "Running"}}
<1>1. k \in SUBSET Jobs
  <2>1. \A s \in Steps : run.steps[s].job \in 0 .. MaxAttempt
    BY Parts, StepsType DEF StepStatus
  <2>2. \A s \in Steps : run.steps[s].job # 0 => <<s, run.steps[s].job>> \in Jobs
    BY <2>1, AttemptAssumption DEF Jobs, StepJobs, Attempts
  <2> QED
    BY <2>2
<1>2. req' = [req EXCEPT ![q] = [pc |-> "kill", kill |-> k]] /\ Get(q, "stop")
  BY DEF StopGet
<1> HIDE DEF k
<1>3. req' \in [Requests -> [pc : RequestPcs, kill : SUBSET Jobs]]
  BY <1>1, <1>2, Parts, ReqType DEF RequestPcs
<1>4. req'[q].pc = "kill" /\ \A p \in Requests \ {q} : req'[p] = req[p]
  BY <1>2, Parts DEF RestOK
<1>5. ReqFits(req'[q].pc, run)
  BY <1>4 DEF ReqFits, StopGet
<1> QED
  BY <1>2, <1>3, <1>4, <1>5, GetStep

LEMMA StopKillStep == ASSUME IInv, NEW q \in Requests, StopKill(q) PROVE IInv' /\ StickyStep
<1>1. UNCHANGED <<run, cache, fresh, rec, jobCache, objects, history, approvals,
                  completed, crashes>>
  BY DEF StopKill, aux
<1>2. PICK js : DeleteJobs(js)
  BY DEF StopKill
<1>3. jobs' \in [Jobs -> JobStates]
      /\ \A j \in StepJobs : jobs'[j] # "none" => jobs[j] # "none"
  BY <1>2, Parts, DeleteJobsStep
<1>4. req' = [req EXCEPT ![q] = [pc |-> "stop", kill |-> {}]] /\ req[q].pc = "kill"
  BY DEF StopKill
<1>5. req' \in [Requests -> [pc : RequestPcs, kill : SUBSET Jobs]]
  BY <1>4, Parts, ReqType DEF RequestPcs
<1>6. RestOK'
  BY <1>1, <1>3, <1>5, Parts DEF RestOK
<1>7. \A p \in Requests : p \in fresh' => ReqFits(req'[p].pc, run)
  BY <1>1, <1>4, Parts DEF Snapshots, ReqFits, RestOK
<1>8. "rec" \in fresh' => RecFits(rec', run)
  BY <1>1, Parts DEF Snapshots
<1>9. fresh' \subseteq {"cache", "rec"} \cup Requests
  BY <1>1, Parts
<1>10. IInv'
  BY <1>1, <1>3, <1>6, <1>7, <1>8, <1>9, KeepInv
<1> QED
  BY <1>1, <1>10 DEF StickyStep

LEMMA StopPutStep == ASSUME IInv, NEW q \in Requests, StopPut(q) PROVE IInv' /\ StickyStep
<1>1. Put(q, StoppedByUser(run), "stopped") /\ approvals' = approvals
      /\ approvals' \subseteq StepJobs /\ "stopped" \in RequestPcs
  BY Parts DEF StopPut, RestOK, RequestPcs
<1>2. StoppedByUser(run) \in Run /\ StoppedByUser(run).approved = run.approved
      /\ CurOK(StoppedByUser(run))
  BY Parts, StoppedByUserType DEF CurOK
<1>3. q \in fresh => run.phase \notin Terminal
  BY Parts DEF StopPut, Snapshots, ReqFits
<1>4. run.approved # 0 => \E a \in Attempts : <<run.approved, a>> \in approvals
  BY Parts DEF RunOK, ApprovedOK
<1> QED
  BY <1>1, <1>2, <1>3, <1>4, PutStep

\* The last write of a stop goes to the history database.
LEMMA StopRecordStep ==
  ASSUME IInv, NEW q \in Requests, StopRecord(q)
  PROVE  IInv' /\ StickyStep
<1>1. UNCHANGED <<run, cache, fresh, rec, jobs, jobCache, objects, approvals,
                  completed, crashes>> /\ history' = "Stopped"
  BY DEF StopRecord, aux
<1>2. req' = [req EXCEPT ![q].pc = "done"]
  BY DEF StopRecord
<1>3. req' \in [Requests -> [pc : RequestPcs, kill : SUBSET Jobs]]
  <2>1. "done" \in RequestPcs /\ RestOK
    BY Parts DEF RequestPcs
  <2> QED
    BY <1>2, <2>1, ReqType
<1>4. RestOK'
  BY <1>1, <1>3, Parts DEF RestOK, Terminal
<1>5. \A p \in Requests : p \in fresh' => ReqFits(req'[p].pc, run)
  BY <1>1, <1>2, Parts DEF Snapshots, ReqFits, RestOK
<1>6. "rec" \in fresh' => RecFits(rec', run)
  BY <1>1, Parts DEF Snapshots
<1>7. fresh' \subseteq {"cache", "rec"} \cup Requests
  BY <1>1, Parts
<1>8. IInv'
  BY <1>1, <1>4, <1>5, <1>6, <1>7, KeepInv
<1> QED
  BY <1>1, <1>8 DEF StickyStep

\* Delete, approve and select read the run in the same way.
LEMMA OtherGetStep ==
  ASSUME IInv, NEW q \in Requests, DeleteGet(q) \/ ApproveGet(q) \/ SelectGet(q)
  PROVE  IInv' /\ StickyStep
<1>1. PICK p \in {"delete", "approve", "select"} :
        Get(q, p) /\ req' = [req EXCEPT ![q].pc = p] /\ ReqFits(p, run)
  BY DEF DeleteGet, ApproveGet, SelectGet, ReqFits
<1>2. req' \in [Requests -> [pc : RequestPcs, kill : SUBSET Jobs]]
  <2>1. p \in RequestPcs /\ RestOK
    BY Parts DEF RequestPcs
  <2> QED
    BY <1>1, <2>1, ReqType
<1>3. req'[q].pc = p /\ \A x \in Requests \ {q} : req'[x] = req[x]
  BY <1>1, Parts DEF RestOK
<1> QED
  BY <1>1, <1>2, <1>3, GetStep

LEMMA DeletePutStep == ASSUME IInv, NEW q \in Requests, DeletePut(q) PROVE IInv' /\ StickyStep
<1> DEFINE new == [run EXCEPT !.phase = "Deleting"]
<1>1. Put(q, new, "done") /\ approvals' = approvals /\ approvals' \subseteq StepJobs
      /\ "done" \in RequestPcs
  BY Parts DEF DeletePut, RestOK, RequestPcs
<1>2. new \in Run /\ new.phase = "Deleting" /\ new.approved = run.approved
  BY Parts, SetPhase DEF Phases
<1> HIDE DEF new
<1>3. run.approved # 0 => \E a \in Attempts : <<run.approved, a>> \in approvals
  BY Parts DEF RunOK, ApprovedOK
<1>4. CurOK(new)
  BY <1>2 DEF CurOK
<1> QED
  BY <1>1, <1>2, <1>3, <1>4, PutStep

\* The approval names the current step, which is recorded as approved.
LEMMA ApprovePutStep ==
  ASSUME IInv, NEW q \in Requests, ApprovePut(q)
  PROVE  IInv' /\ StickyStep
<1> DEFINE new == [run EXCEPT !.approved = run.cur]
<1>1. Put(q, new, "done") /\ "done" \in RequestPcs
      /\ approvals' = IF q \in fresh THEN approvals \cup {CurJob(run)} ELSE approvals
  BY DEF ApprovePut, RequestPcs
<1>2. new \in Run /\ new.phase = run.phase /\ new.cur = run.cur /\ new.approved = run.cur
  BY Parts DEF Run
<1> HIDE DEF new
<1>3. q \in fresh => run.phase = "WaitingForInput"
  BY Parts DEF ApprovePut, Snapshots, ReqFits
<1>4. CurOK(new)
  BY <1>2, Parts DEF RunOK, CurOK
<1>5. q \in fresh => CurJob(run) \in StepJobs
  BY <1>3, Parts, CurJobType DEF RunOK
<1>6. approvals' \subseteq StepJobs
  BY <1>1, <1>5, Parts DEF RestOK
<1>7. q \in fresh => \E a \in Attempts : <<new.approved, a>> \in approvals'
  BY <1>1, <1>2, <1>5 DEF CurJob, StepJobs
<1> QED
  BY <1>1, <1>2, <1>3, <1>4, <1>6, <1>7, PutStep DEF Terminal

LEMMA SelectPutStep == ASSUME IInv, NEW q \in Requests, SelectPut(q) PROVE IInv' /\ StickyStep
<1> DEFINE new == [run EXCEPT !.selected = TRUE]
<1>1. Put(q, new, "done") /\ approvals' = approvals /\ approvals' \subseteq StepJobs
      /\ "done" \in RequestPcs
  BY Parts DEF SelectPut, RestOK, RequestPcs
<1>2. new \in Run /\ new.phase = run.phase /\ new.cur = run.cur
      /\ new.approved = run.approved
  BY Parts DEF Run
<1> HIDE DEF new
<1>3. run.approved # 0 => \E a \in Attempts : <<run.approved, a>> \in approvals
  BY Parts DEF RunOK, ApprovedOK
<1>4. CurOK(new)
  BY <1>2, Parts DEF CurOK, RunOK
<1> QED
  BY <1>1, <1>2, <1>3, <1>4, PutStep

LEMMA DashboardStep ==
  ASSUME IInv, NEW q \in Requests, Dashboard(q)
  PROVE  IInv' /\ StickyStep
BY StopGetStep, StopKillStep, StopPutStep, StopRecordStep, OtherGetStep,
   DeletePutStep, ApprovePutStep, SelectPutStep DEF Dashboard

-----------------------------------------------------------------------------
(* Kubernetes, the informers and the operator's process *)

LEMMA JobFinishesStep ==
  ASSUME IInv, NEW j \in Jobs, JobFinishes(j)
  PROVE  IInv' /\ StickyStep
<1>1. UNCHANGED <<run, cache, fresh, rec, jobCache, objects, history, req, approvals,
                  crashes>>
  BY DEF JobFinishes
<1>2. PICK outcome \in {"succeeded", "failed"} :
        /\ jobs' = [jobs EXCEPT ![j] = outcome]
        /\ completed' = IF outcome = "succeeded" THEN completed \cup {j} ELSE completed
  BY DEF JobFinishes
<1>3. jobs' \in [Jobs -> JobStates] /\ completed' \subseteq Jobs
  BY <1>2, Parts, JobsType DEF RestOK, JobStates
<1>4. RestOK'
  BY <1>1, <1>3, Parts DEF RestOK
<1>5. \A k \in StepJobs : jobs'[k] # "none" => jobs[k] # "none"
  BY <1>2, Parts DEF JobFinishes, RestOK, Jobs
<1>6. \A q \in Requests : q \in fresh' => ReqFits(req'[q].pc, run)
  BY <1>1, Parts DEF Snapshots
<1>7. "rec" \in fresh' => RecFits(rec', run)
  BY <1>1, Parts DEF Snapshots
<1>8. fresh' \subseteq {"cache", "rec"} \cup Requests
  BY <1>1, Parts
<1>9. IInv'
  BY <1>1, <1>4, <1>5, <1>6, <1>7, <1>8, KeepInv
<1> QED
  BY <1>1, <1>9 DEF StickyStep

\* The object's copy in the cache, refreshed by an event or by a restart.
LEMMA RefreshStep ==
  ASSUME IInv, RestOK', UNCHANGED <<run, jobs, req, approvals>>, cache' = run,
         fresh' \subseteq fresh \cup {"cache"},
         "rec" \in fresh' => rec' = rec
  PROVE  IInv' /\ StickyStep
<1>1. TypeOK'
  BY Parts DEF TypeOK, RestOK, RecPcs
<1>2. RunOK(run)' /\ RunOK(cache)' /\ NoUnapprovedStep'
  BY Parts DEF RunOK, CurOK, ApprovedOK, NoUnapprovedStep
<1>3. Snapshots'
  BY Parts, RequestAssumption DEF Snapshots, RecFits, ReqFits
<1>4. StickyStep
  BY DEF StickyStep
<1> QED
  BY <1>1, <1>2, <1>3, <1>4 DEF IInv

LEMMA ClusterStep == ASSUME IInv, Cluster \/ Restart PROVE IInv' /\ StickyStep
<1>1. CASE SyncRun
  <2>1. RestOK'
    BY <1>1, Parts DEF SyncRun, RestOK, aux
  <2> QED
    BY <1>1, <2>1, RefreshStep DEF SyncRun, aux
<1>2. CASE Restart
  <2>1. RestOK'
    <3>1. UNCHANGED <<jobs, objects, history, req, approvals, completed>>
          /\ rec' = "idle" /\ jobCache' = jobs /\ crashes' = crashes + 1
      BY <1>2 DEF Restart
    <3>2. crashes \in Nat
      BY Parts DEF RestOK
    <3>3. crashes' \in Nat
      BY <3>1, <3>2
    <3> QED
      BY <3>1, <3>3, Parts DEF RestOK, RecPcs
  <2>2. fresh' \subseteq fresh \cup {"cache"} /\ "rec" \notin fresh'
    BY <1>2 DEF Restart
  <2> QED
    BY <1>2, <2>1, <2>2, RefreshStep DEF Restart
<1>3. CASE CollectGarbage \/ \E j \in Jobs : SyncJob(j)
  <2>1. UNCHANGED <<run, cache, fresh, rec, history, req, approvals, completed, crashes>>
    BY <1>3 DEF CollectGarbage, SyncJob, aux
  <2>2. jobs' = jobs \/ jobs' = [j \in Jobs |-> "none"]
    BY <1>3 DEF CollectGarbage, SyncJob
  <2>3. jobs' \in [Jobs -> JobStates]
        /\ \A j \in StepJobs : jobs'[j] # "none" => jobs[j] # "none"
    BY <2>2, Parts DEF RestOK, Jobs, JobStates
  <2>4. jobCache' \in [Jobs -> JobStates] /\ objects' \subseteq {"pvc", "chatPod", "artifactsPod"}
    BY <1>3, Parts DEF CollectGarbage, SyncJob, RestOK
  <2>5. RestOK'
    BY <2>1, <2>3, <2>4, Parts DEF RestOK
  <2>6. \A q \in Requests : q \in fresh' => ReqFits(req'[q].pc, run)
    BY <2>1, Parts DEF Snapshots
  <2>7. "rec" \in fresh' => RecFits(rec', run)
    BY <2>1, Parts DEF Snapshots
  <2>8. fresh' \subseteq {"cache", "rec"} \cup Requests
    BY <2>1, Parts
  <2>9. IInv'
    BY <2>1, <2>3, <2>5, <2>6, <2>7, <2>8, KeepInv
  <2> QED
    BY <2>1, <2>9 DEF StickyStep
<1> QED
  BY <1>1, <1>2, <1>3, JobFinishesStep DEF Cluster

-----------------------------------------------------------------------------
LEMMA InitInv == Init => IInv
<1> SUFFICES ASSUME Init PROVE IInv
  OBVIOUS
<1>1. PICK skip \in BOOLEAN : run = NewRun(skip)
  BY DEF Init
<1> DEFINE st == [s \in Steps |-> NoStatus]
<1>2. st \in [Steps -> StepStatus]
  BY AttemptAssumption DEF NoStatus, StepStatus, StepPhases
<1>a. run = [phase |-> "Pending", cur |-> 0, waitingFor |-> "", steps |-> st,
             finished |-> FALSE, pvc |-> FALSE, diffJob |-> FALSE, chatPod |-> FALSE,
             approved |-> 0, selected |-> FALSE, skipped |-> skip]
  BY <1>1 DEF NewRun
<1> HIDE DEF st
<1>b. 0 \in 0 .. N /\ skip \in BOOLEAN
  BY StepsAssumption
<1>c. run \in Run
  BY <1>2, <1>a, <1>b DEF Run, Phases
<1>3. run \in Run /\ run.phase = "Pending" /\ run.approved = 0
  BY <1>a, <1>c
<1>4. RestOK
  BY DEF Init, RestOK, RecPcs, JobStates, RequestPcs
<1>5. TypeOK
  BY <1>3, <1>4, TypeParts DEF Init
<1>6. RunOK(run) /\ RunOK(cache)
  BY <1>3 DEF Init, RunOK, CurOK, ApprovedOK
<1>7. Snapshots
  BY RequestAssumption DEF Init, Snapshots
<1>8. NoUnapprovedStep
  BY DEF Init, NoUnapprovedStep, Jobs
<1> QED
  BY <1>5, <1>6, <1>7, <1>8 DEF IInv

LEMMA NextInv == ASSUME IInv, [Next]_vars PROVE IInv' /\ StickyStep
<1>1. CASE UNCHANGED vars
  <2>1. RestOK' /\ UNCHANGED <<run, cache, jobs, approvals, fresh, rec, req>>
    BY <1>1, Parts DEF vars, RestOK
  <2>2. fresh' \subseteq {"cache", "rec"} \cup Requests
        /\ ("rec" \in fresh' => RecFits(rec', run))
        /\ \A q \in Requests : q \in fresh' => ReqFits(req'[q].pc, run)
    BY <2>1, Parts DEF Snapshots
  <2>3. IInv'
    BY <2>1, <2>2, KeepInv
  <2> QED
    BY <2>1, <2>3 DEF StickyStep
<1> QED
  BY <1>1, ReconcileStep, ClusterStep, DashboardStep DEF Next

\* Every variable keeps its type, for every pipeline and whatever requests
\* arrive; no attempt number exceeds MaxAttempt (JumpedBack, reconcileRunning).
THEOREM TypeCorrect == Spec => []TypeOK
<1>1. IInv => TypeOK
  BY DEF IInv
<1> QED
  BY InitInv, NextInv, <1>1, PTL DEF Spec

\* A run that has ended never runs again, however stale the copies of the
\* reconciler and of the requests are.
THEOREM TerminalIsSticky == Spec => TerminalSticky
<1>1. IInv /\ [Next]_vars =>
        [run.phase \in Terminal => run'.phase \in {run.phase, "Deleting", "Gone"}]_vars
  BY NextInv DEF StickyStep
<1> QED
  BY InitInv, NextInv, <1>1, PTL DEF Spec, TerminalSticky

\* No step that requires approval has a Job before the user approved the step.
THEOREM ApprovalRequired == Spec => []NoUnapprovedStep
<1>1. IInv => NoUnapprovedStep
  BY DEF IInv
<1> QED
  BY InitInv, NextInv, <1>1, PTL DEF Spec

-----------------------------------------------------------------------------
(* What a step does to the run, its copy and its Jobs.                     *)

Ended == {"succeeded", "failed"}
UnderWay == {"Running", "WaitingForInput"}
Live == {"Pending"} \cup UnderWay

RepoWait(r) == r.phase = "WaitingForInput" /\ r.waitingFor # "step-approval"

Unapproved(r) == r.cur \in RequireApproval /\ r.approved # r.cur

\* No step is at another attempt, and none is to run again.
SameAttempts(r, n) ==
  /\ n.cur = r.cur
  /\ \A s \in Steps : AttemptOf(n, s) = AttemptOf(r, s)
  /\ \A s \in Steps : n.steps[s].phase = "Pending" => r.steps[s].phase = "Pending"

StepJobsKept == \A j \in StepJobs : jobs'[j] = jobs[j]

\* A write that leaves the run at the Job where it is.
Hold ==
  /\ run.phase \in UnderWay /\ run'.phase \in UnderWay
  /\ SameAttempts(run, run')
  /\ \A s \in Steps \ {run.cur} : run'.steps[s].phase = run.steps[s].phase
  /\ RepoWait(run') => RepoWait(run) /\ run'.steps = run.steps
  /\ run'.approved \in {run.approved, run.cur}
  /\ run'.phase = "Running" => run'.approved = run.approved
  /\ run.phase = "Running" /\ run'.phase = "WaitingForInput" =>
       "rec" \in fresh /\ rec \in {"await", "awaitDiff"} /\ run'.approved = run.approved

Begin ==
  /\ run.phase = "Pending" /\ run'.phase = "Running" /\ run'.cur = 1 /\ cache = run
  /\ run' = Initialized(run)

CurEnded(outcome) ==
  cache = run /\ run.phase = "Running" /\ jobCache[CurJob(run)] = outcome

Pass == CurEnded("succeeded") /\ run' = Advanced(StepDone(run))

AskRepo ==
  /\ CurEnded("succeeded")
  /\ run' = [StepDone(run) EXCEPT !.phase = "WaitingForInput", !.waitingFor = "repo-selection"]

JumpBack == CurEnded("failed") /\ MayRetry(run) /\ run' = JumpedBack(run)

Choose == cache = run /\ RepoWait(run) /\ run' = RepoChosen(run)

\* A write that ends the run where it is.
End ==
  /\ SameAttempts(run, run')
  /\ \/ run.phase = "Pending" /\ run'.phase = "Stopped"
     \/ run.phase = "Running" /\ run'.phase = "Failed"
     \/ (\E q \in Requests : req[q].pc = "stop") /\ run'.phase = "Stopped"
     \/ run.phase \notin {"Deleting", "Gone"} /\ run'.phase = "Deleting"
     \/ rec = "delete" /\ run'.phase = "Gone"

Written ==
  /\ UNCHANGED <<cache, jobCache, completed>>
  /\ StepJobsKept
  /\ Hold \/ Begin \/ Pass \/ AskRepo \/ JumpBack \/ Choose \/ End

Untouched == UNCHANGED <<run, cache, jobCache, completed>> /\ StepJobsKept

Launched ==
  /\ UNCHANGED <<run, cache, jobCache, completed>>
  /\ cache.phase = "Running" /\ ~ Unapproved(cache)
  /\ jobs[CurJob(cache)] = "none"
  /\ jobs' = [jobs EXCEPT ![CurJob(cache)] = "active"]

Killed ==
  /\ UNCHANGED <<run, cache, jobCache, completed>>
  /\ \/ cache.phase = "Deleting" \/ (\E q \in Requests : req[q].pc = "kill")
     \/ run.phase = "Gone" /\ \A j \in StepJobs : jobs'[j] = "none"
  /\ \A j \in StepJobs : jobs'[j] \in {"none", jobs[j]}

Synced == cache' = run /\ UNCHANGED <<run, jobs, jobCache, completed>>

Restarted == cache' = run /\ jobCache' = jobs /\ UNCHANGED <<run, jobs, completed>>

Effect ==
  \/ Untouched \/ Written \/ Launched \/ Killed \/ Synced \/ Restarted
  \/ \E j \in Jobs : JobFinishes(j) \/ SyncJob(j)

LEMMA SameRunAttempts == ASSUME NEW r, NEW n, n.cur = r.cur, n.steps = r.steps PROVE SameAttempts(r, n)
BY DEF SameAttempts, AttemptOf

LEMMA FailedAttempts == ASSUME NEW r \in Run PROVE SameAttempts(r, Failed(r)) /\ Failed(r).phase = "Failed"
<1>1. ASSUME NEW st \in [Steps -> StepStatus], NEW c
      PROVE  \A s \in Steps : [st EXCEPT ![c].phase = "Failed"][s].attempt = st[s].attempt
  BY <1>1 DEF StepStatus
<1>2. r.steps \in [Steps -> StepStatus]
  BY DEF Run
<1>3. /\ Failed(r).cur = r.cur /\ Failed(r).phase = "Failed"
      /\ Failed(r).steps = [r.steps EXCEPT ![r.cur].phase = "Failed"]
  BY DEF Failed, Run
<1> QED  BY <1>1, <1>2, <1>3 DEF SameAttempts, AttemptOf

LEMMA SkipEffect == ASSUME IInv, RecSkip PROVE Written
<1>1. cache = run /\ run.phase = "Pending" /\ run \in Run
  BY Parts DEF RecSkip, UpdateFromCache, Snapshots, Starts
<1>2. run' = [run EXCEPT !.phase = "Stopped", !.finished = TRUE]
  BY <1>1 DEF RecSkip, UpdateFromCache
<1>3. run'.phase = "Stopped" /\ run'.cur = run.cur /\ run'.steps = run.steps
  BY <1>1, <1>2 DEF Run
<1>4. End
  BY <1>1, <1>3, SameRunAttempts DEF End
<1> QED  BY <1>4 DEF Written, RecSkip, UpdateFromCache, StepJobsKept, aux

LEMMA PendingEffect == ASSUME IInv, RecPending PROVE Written \/ Untouched
<1>1. CASE "cache" \in fresh /\ run' = Initialized(cache)
  <2>1. cache = run /\ run.phase = "Pending" /\ run \in Run
    BY <1>1, Parts DEF RecPending, Snapshots, Starts
  <2>2. run'.phase = "Running" /\ run'.cur = 1
    BY <1>1, <2>1, InitializedType
  <2> QED  BY <2>1, <2>2 DEF Written, Begin, RecPending, StepJobsKept, aux
<1>2. CASE UNCHANGED run
  BY <1>2 DEF Untouched, RecPending, StepJobsKept, aux
<1> QED  BY <1>1, <1>2 DEF RecPending

LEMMA GateEffect == ASSUME IInv, RecGate PROVE Untouched
<1>1. jobs' = jobs \/ jobs' = [jobs EXCEPT ![DiffJob] = "active"]
  BY DEF RecGate
<1>2. jobs \in [Jobs -> JobStates] /\ StepJobs \subseteq Jobs
  BY Parts DEF RestOK, Jobs
<1>3. StepJobsKept
  BY <1>1, <1>2, DiffIsNoStepJob DEF StepJobsKept
<1> QED  BY <1>3 DEF RecGate, GoOn, Untouched, aux

\* The second write of a pass holds the run where it is, or conflicts.
LEMMA FinishEffect ==
  ASSUME IInv, NEW new, FinishUpdate(new),
         "rec" \in fresh /\ run' = new => Hold
  PROVE  Written \/ Untouched
<1>1. UNCHANGED <<cache, jobCache, completed>> /\ StepJobsKept
  BY DEF FinishUpdate, StepJobsKept, aux
<1>2. CASE UNCHANGED run
  BY <1>1, <1>2 DEF Untouched
<1>3. CASE "rec" \in fresh /\ run' = new
  BY <1>1, <1>3 DEF Written
<1> QED  BY <1>2, <1>3 DEF FinishUpdate

\* What Hold asks of the steps.
SameSteps(r, n) ==
  SameAttempts(r, n) /\ \A s \in Steps \ {r.cur} : n.steps[s].phase = r.steps[s].phase

LEMMA AwaitingShape ==
  ASSUME NEW r \in Run, NEW d \in BOOLEAN
  PROVE  SameSteps(r, Awaiting(r, d)) /\ Awaiting(r, d).waitingFor = "step-approval"
<1>1. ASSUME NEW st \in [Steps -> StepStatus], NEW c
      PROVE  \A s \in Steps : LET u == [st EXCEPT ![c].phase = "WaitingForInput"] IN
               u[s].attempt = st[s].attempt /\ (s # c => u[s].phase = st[s].phase)
  BY <1>1 DEF StepStatus
<1>2. r.steps \in [Steps -> StepStatus]
  BY DEF Run
<1>3. /\ Awaiting(r, d).cur = r.cur /\ Awaiting(r, d).waitingFor = "step-approval"
      /\ Awaiting(r, d).steps = [r.steps EXCEPT ![r.cur].phase = "WaitingForInput"]
  BY DEF Awaiting, Run
<1> QED  BY <1>1, <1>2, <1>3 DEF SameSteps, SameAttempts, AttemptOf

LEMMA JobRecordedShape ==
  ASSUME NEW r \in Run, r.cur \in Steps
  PROVE  SameSteps(r, JobRecorded(r)) /\ JobRecorded(r).waitingFor = r.waitingFor
<1> DEFINE a == AttemptOf(r, r.cur)
           st == [phase |-> IF r.cur \in DinD THEN "Initializing" ELSE "Running",
                  attempt |-> a, job |-> a]
<1>1. a \in Attempts /\ a # 0
  BY AttemptType, AttemptAssumption DEF Attempts
<1>2. r.steps \in [Steps -> StepStatus]
  BY DEF Run
<1>3. /\ JobRecorded(r).cur = r.cur /\ JobRecorded(r).waitingFor = r.waitingFor
      /\ JobRecorded(r).steps = [r.steps EXCEPT ![r.cur] = st]
  BY DEF JobRecorded, Run
<1>4. /\ JobRecorded(r).steps[r.cur].attempt = a
      /\ \A s \in Steps \ {r.cur} : JobRecorded(r).steps[s] = r.steps[s]
  BY <1>2, <1>3
<1> QED  BY <1>1, <1>3, <1>4 DEF SameSteps, SameAttempts, AttemptOf

LEMMA InitializedShape ==
  ASSUME NEW r \in Run
  PROVE  LET n == [r EXCEPT !.steps = [@ EXCEPT ![r.cur].phase = "Running"]]
         IN  /\ SameSteps(r, n) /\ n.waitingFor = r.waitingFor /\ n.phase = r.phase
             /\ n.approved = r.approved
<1> DEFINE n == [r EXCEPT !.steps = [@ EXCEPT ![r.cur].phase = "Running"]]
<1>1. ASSUME NEW st \in [Steps -> StepStatus], NEW c
      PROVE  \A s \in Steps : LET u == [st EXCEPT ![c].phase = "Running"] IN
               u[s].attempt = st[s].attempt /\ (s # c => u[s].phase = st[s].phase)
  BY <1>1 DEF StepStatus
<1>2. r.steps \in [Steps -> StepStatus]
  BY DEF Run
<1>3. /\ n.cur = r.cur /\ n.waitingFor = r.waitingFor /\ n.phase = r.phase
      /\ n.approved = r.approved
      /\ n.steps = [r.steps EXCEPT ![r.cur].phase = "Running"]
  BY DEF Run
<1> QED  BY <1>1, <1>2, <1>3 DEF SameSteps, SameAttempts, AttemptOf

LEMMA ResumedShape ==
  ASSUME NEW r \in Run
  PROVE  SameSteps(r, Resumed(r)) /\ Resumed(r).waitingFor = "" /\ Resumed(r).steps = r.steps
<1>1. /\ Resumed(r).cur = r.cur /\ Resumed(r).steps = r.steps
      /\ Resumed(r).waitingFor = ""
  BY DEF Resumed, Run
<1> QED  BY <1>1, SameRunAttempts DEF SameSteps

LEMMA StoppedShape ==
  ASSUME NEW r \in Run
  PROVE  SameAttempts(r, StoppedByUser(r))
<1>1. ASSUME NEW s \in Steps
      PROVE  /\ StoppedByUser(r).steps[s].attempt = r.steps[s].attempt
             /\ StoppedByUser(r).steps[s].phase = "Pending" => r.steps[s].phase = "Pending"
  <2>1. StoppedByUser(r).steps[s] = r.steps[s]
          \/ StoppedByUser(r).steps[s] = [r.steps[s] EXCEPT !.phase = "Stopped"]
    BY DEF StoppedByUser, Run
  <2>2. r.steps[s] \in StepStatus
    BY DEF Run
  <2> QED  BY <2>1, <2>2 DEF StepStatus
<1>2. StoppedByUser(r).cur = r.cur
  BY DEF StoppedByUser, Run
<1> QED  BY <1>1, <1>2 DEF SameAttempts, AttemptOf

LEMMA AwaitEffect == ASSUME IInv, RecAwait PROVE Written \/ Untouched
<1> DEFINE d == (rec = "awaitDiff")
<1>1. FinishUpdate(Awaiting(run, d)) /\ rec \in {"await", "awaitDiff"} /\ d \in BOOLEAN
  BY DEF RecAwait
<1>2. ASSUME "rec" \in fresh, run' = Awaiting(run, d)
      PROVE  Hold
  <2>1. run \in Run /\ run.phase = "Running"
    BY <1>1, <1>2, Parts DEF Snapshots, RecFits
  <2>2. run'.phase = "WaitingForInput" /\ run'.approved = run.approved
    BY <1>1, <1>2, <2>1, AwaitingType
  <2>3. SameSteps(run, run') /\ run'.waitingFor = "step-approval"
    BY <1>1, <1>2, <2>1, AwaitingShape
  <2> QED  BY <1>1, <1>2, <2>1, <2>2, <2>3 DEF Hold, SameSteps, RepoWait, UnderWay
<1> HIDE DEF d
<1> QED  BY <1>1, <1>2, FinishEffect

LEMMA RecordEffect == ASSUME IInv, RecRecordJob PROVE Written \/ Untouched
<1>1. FinishUpdate(JobRecorded(run)) /\ rec = "record"
  BY DEF RecRecordJob
<1>2. ASSUME "rec" \in fresh, run' = JobRecorded(run)
      PROVE  Hold
  <2>1. run \in Run /\ run.phase = "Running" /\ run.cur \in Steps
    BY <1>1, <1>2, Parts DEF Snapshots, RecFits, RunOK, CurOK
  <2>2. run'.phase = "Running" /\ run'.approved = run.approved
    BY <1>2, <2>1, JobRecordedType
  <2>3. SameSteps(run, run')
    BY <1>2, <2>1, JobRecordedShape
  <2> QED  BY <2>1, <2>2, <2>3 DEF Hold, SameSteps, RepoWait, UnderWay
<1> QED  BY <1>1, <1>2, FinishEffect

LEMMA ResumeEffect == ASSUME IInv, RecResume PROVE Written \/ Untouched
<1>1. FinishUpdate(Resumed(run)) /\ rec = "resume"
  BY DEF RecResume
<1>2. ASSUME "rec" \in fresh, run' = Resumed(run)
      PROVE  Hold
  <2>1. run \in Run /\ run.phase = "WaitingForInput"
    BY <1>1, <1>2, Parts DEF Snapshots, RecFits
  <2>2. run'.phase = "Running" /\ run'.approved = run.approved
    BY <1>2, <2>1, ResumedType
  <2>3. SameSteps(run, run')
    BY <1>2, <2>1, ResumedShape
  <2> QED  BY <2>1, <2>2, <2>3 DEF Hold, SameSteps, RepoWait, UnderWay
<1> QED  BY <1>1, <1>2, FinishEffect

LEMMA CreateEffect == ASSUME IInv, RecCreateJob PROVE Launched
BY DEF RecCreateJob, JobMissing, Starts, NeedsApproval, Unapproved, GoOn, Launched, aux

\* A pass that updates the status from a current cache.
LEMMA FromCache ==
  ASSUME IInv, NEW new, UpdateFromCache(new), cache.phase = "Running"
  PROVE  /\ cache = run /\ run \in Run /\ run.phase = "Running" /\ run.cur \in Steps
         /\ run' = new
         /\ UNCHANGED <<cache, jobCache, completed>> /\ StepJobsKept
BY Parts DEF UpdateFromCache, Snapshots, RunOK, CurOK, StepJobsKept, aux

LEMMA FailEffect ==
  ASSUME IInv, cache.phase = "Running", UpdateFromCache(Failed(cache))
  PROVE  Written
<1>1. /\ cache = run /\ run \in Run /\ run.phase = "Running" /\ run' = Failed(run)
      /\ UNCHANGED <<cache, jobCache, completed>> /\ StepJobsKept
  BY FromCache
<1> QED  BY <1>1, FailedAttempts DEF Written, End

LEMMA InitializedEffect == ASSUME IInv, RecInitialized PROVE Written
<1> DEFINE new == [cache EXCEPT !.steps = [@ EXCEPT ![cache.cur].phase = "Running"]]
<1>1. UpdateFromCache(new) /\ cache.phase = "Running"
  BY DEF RecInitialized, Starts
<1>2. /\ cache = run /\ run \in Run /\ run.phase = "Running" /\ run' = new
      /\ UNCHANGED <<cache, jobCache, completed>> /\ StepJobsKept
  BY <1>1, FromCache
<1>3. SameSteps(run, run') /\ run'.phase = "Running" /\ run'.approved = run.approved
  BY <1>2, InitializedShape
<1>4. Hold
  BY <1>2, <1>3 DEF Hold, SameSteps, RepoWait, UnderWay
<1> QED  BY <1>2, <1>4 DEF Written

LEMMA PassEffect ==
  ASSUME IInv, RecStepSucceeded \/ RecTriageUnsure \/ RecRetry
  PROVE  Written
<1>1. cache.phase = "Running"
  BY DEF RecStepSucceeded, RecTriageUnsure, RecRetry, JobSucceeded, JobFailed, Starts
<1>2. CASE RecStepSucceeded
  <2>1. UpdateFromCache(Advanced(StepDone(cache))) /\ jobCache[CurJob(cache)] = "succeeded"
    BY <1>2 DEF RecStepSucceeded, JobSucceeded
  <2> QED  BY <1>1, <2>1, FromCache DEF Written, Pass, CurEnded
<1>3. CASE RecTriageUnsure
  <2> DEFINE new(r) == [StepDone(r) EXCEPT !.phase = "WaitingForInput",
                                           !.waitingFor = "repo-selection"]
  <2>1. UpdateFromCache(new(cache)) /\ jobCache[CurJob(cache)] = "succeeded"
    BY <1>3 DEF RecTriageUnsure, JobSucceeded
  <2>2. /\ cache = run /\ run.phase = "Running" /\ run' = new(cache)
        /\ UNCHANGED <<cache, jobCache, completed>> /\ StepJobsKept
    BY <1>1, <2>1, FromCache
  <2> QED  BY <2>1, <2>2 DEF Written, AskRepo, CurEnded
<1>4. CASE RecRetry
  <2>1. UpdateFromCache(JumpedBack(cache)) /\ jobCache[CurJob(cache)] = "failed" /\ MayRetry(cache)
    BY <1>4 DEF RecRetry, JobFailed
  <2> QED  BY <1>1, <2>1, FromCache DEF Written, JumpBack, CurEnded
<1> QED  BY <1>2, <1>3, <1>4

LEMMA ChooseEffect == ASSUME IInv, RecRepoSelected PROVE Written
BY Parts
   DEF RecRepoSelected, UpdateFromCache, Snapshots, Starts, Written, Choose, RepoWait,
       StepJobsKept, aux

LEMMA DeleteEffect ==
  ASSUME IInv, NEW js, DeleteJobs(js)
  PROVE  \A j \in StepJobs : jobs'[j] = IF j \in js THEN "none" ELSE jobs[j]
BY DEF DeleteJobs, Jobs

LEMMA ApprovedEffect == ASSUME IInv, RecApproved PROVE Untouched
<1>1. PICK js \in SUBSET {DiffJob} : DeleteJobs(js)
  BY DEF RecApproved
<1>2. StepJobsKept
  BY <1>1, DeleteEffect, DiffIsNoStepJob DEF StepJobsKept
<1> QED  BY <1>2 DEF RecApproved, GoOn, Untouched, aux

LEMMA DeletingEffect == ASSUME IInv, RecDeleting PROVE Killed
<1>1. PICK js : DeleteJobs(js)
  BY DEF RecDeleting
<1>2. \A j \in StepJobs : jobs'[j] \in {"none", jobs[j]}
  BY <1>1, DeleteEffect
<1> QED  BY <1>2 DEF RecDeleting, GoOn, Killed, Starts, aux

LEMMA DeleteCREffect == ASSUME IInv, RecDeleteCR PROVE Written
<1>1. run' = [run EXCEPT !.phase = "Gone"] /\ run \in Run
  BY Parts DEF RecDeleteCR
<1>2. run'.phase = "Gone" /\ run'.cur = run.cur /\ run'.steps = run.steps
  BY <1>1 DEF Run
<1>3. End
  BY <1>2, SameRunAttempts DEF End, RecDeleteCR
<1> QED  BY <1>3 DEF RecDeleteCR, Written, StepJobsKept, aux

LEMMA ReconcileEffect == ASSUME IInv, Reconcile PROVE Effect
<1>1. CASE RecBuildFails \/ RecTriageFails \/ RecStepFails
  <2>1. cache.phase = "Running" /\ UpdateFromCache(Failed(cache))
    BY <1>1 DEF RecBuildFails, RecTriageFails, RecStepFails, JobMissing, JobSucceeded, JobFailed,
                Starts
  <2> QED  BY <2>1, FailEffect DEF Effect
<1>2. CASE RecSkipRecord \/ RecComplete
  BY <1>2 DEF RecSkipRecord, RecComplete, Effect, Untouched, StepJobsKept, aux
<1> QED
  BY <1>1, <1>2, SkipEffect, PendingEffect, GateEffect, AwaitEffect, CreateEffect, RecordEffect,
     InitializedEffect, PassEffect, ApprovedEffect, ResumeEffect, ChooseEffect, DeletingEffect,
     DeleteCREffect
     DEF Reconcile, Effect

\* Requests.
LEMMA PutEffect ==
  ASSUME IInv, NEW q \in Requests, NEW new, NEW next, Put(q, new, next),
         q \in fresh /\ run' = new => Hold \/ End
  PROVE  Written \/ Untouched
<1>1. UNCHANGED <<cache, jobCache, completed>> /\ StepJobsKept
  BY DEF Put, StepJobsKept
<1>2. CASE UNCHANGED run
  BY <1>1, <1>2 DEF Untouched
<1>3. CASE q \in fresh /\ run' = new
  BY <1>1, <1>3 DEF Written
<1> QED  BY <1>2, <1>3 DEF Put

LEMMA DashboardEffect == ASSUME IInv, NEW q \in Requests, Dashboard(q) PROVE Effect
<1>1. run \in Run
  BY Parts
<1>2. CASE StopGet(q) \/ DeleteGet(q) \/ ApproveGet(q) \/ SelectGet(q) \/ StopRecord(q)
  BY <1>2 DEF StopGet, DeleteGet, ApproveGet, SelectGet, StopRecord, Get, Effect, Untouched,
              StepJobsKept, aux
<1>3. CASE StopKill(q)
  <2>1. \A j \in StepJobs : jobs'[j] \in {"none", jobs[j]}
    BY <1>3, DeleteEffect DEF StopKill
  <2> QED  BY <1>3, <2>1 DEF StopKill, Effect, Killed, aux
<1>4. CASE StopPut(q)
  <2>1. ASSUME run' = StoppedByUser(run)
        PROVE  End
    BY <1>1, <1>4, <2>1, StoppedByUserType, StoppedShape DEF StopPut, End
  <2> QED  BY <1>4, <2>1, PutEffect DEF StopPut, Effect
<1>5. CASE DeletePut(q)
  <2>1. ASSUME q \in fresh, run' = [run EXCEPT !.phase = "Deleting"]
        PROVE  End
    <3>1. run'.phase = "Deleting" /\ run'.cur = run.cur /\ run'.steps = run.steps
      BY <1>1, <2>1 DEF Run
    <3>2. run.phase \notin {"Deleting", "Gone"}
      BY <1>5, <2>1, Parts DEF DeletePut, Snapshots, ReqFits
    <3> QED  BY <3>1, <3>2, SameRunAttempts DEF End
  <2> QED  BY <1>5, <2>1, PutEffect DEF DeletePut, Effect
<1>6. CASE ApprovePut(q)
  <2>1. ASSUME q \in fresh, run' = [run EXCEPT !.approved = run.cur]
        PROVE  Hold
    <3>1. /\ run'.phase = run.phase /\ run'.cur = run.cur /\ run'.steps = run.steps
          /\ run'.waitingFor = run.waitingFor /\ run'.approved = run.cur
      BY <1>1, <2>1 DEF Run
    <3>2. run.phase = "WaitingForInput"
      BY <1>6, <2>1, Parts DEF ApprovePut, Snapshots, ReqFits
    <3> QED  BY <3>1, <3>2, SameRunAttempts DEF Hold, RepoWait, UnderWay
  <2> QED  BY <1>6, <2>1, PutEffect DEF ApprovePut, Effect
<1>7. CASE SelectPut(q)
  <2>1. ASSUME q \in fresh, run' = [run EXCEPT !.selected = TRUE]
        PROVE  Hold
    <3>1. /\ run'.phase = run.phase /\ run'.cur = run.cur /\ run'.steps = run.steps
          /\ run'.waitingFor = run.waitingFor /\ run'.approved = run.approved
      BY <1>1, <2>1 DEF Run
    <3>2. run.phase = "WaitingForInput"
      BY <1>7, <2>1, Parts DEF SelectPut, Snapshots, ReqFits
    <3> QED  BY <3>1, <3>2, SameRunAttempts DEF Hold, RepoWait, UnderWay
  <2> QED  BY <1>7, <2>1, PutEffect DEF SelectPut, Effect
<1> QED  BY <1>2, <1>3, <1>4, <1>5, <1>6, <1>7 DEF Dashboard

LEMMA NextEffect == ASSUME IInv, [Next]_vars PROVE Effect
<1>1. CASE UNCHANGED vars
  BY <1>1 DEF vars, Effect, Untouched, StepJobsKept
<1>2. CASE SyncRun \/ Restart
  BY <1>2 DEF SyncRun, Restart, Effect, Synced, Restarted, aux
<1>3. CASE CollectGarbage
  <2>1. \A j \in StepJobs : jobs'[j] = "none"
    BY <1>3 DEF CollectGarbage, Jobs
  <2> QED  BY <1>3, <2>1 DEF CollectGarbage, Effect, Killed, aux
<1>4. ASSUME NEW j \in Jobs, SyncJob(j) \/ JobFinishes(j)
      PROVE  Effect
  BY <1>4 DEF Effect
<1> QED  BY <1>1, <1>2, <1>3, <1>4, ReconcileEffect, DashboardEffect DEF Next, Cluster

-----------------------------------------------------------------------------
(* The order of the steps.                                                 *)

Passed(r, s, done) == r.steps[s].phase = "Succeeded" /\ <<s, AttemptOf(r, s)>> \in done

\* What the place of a run says of the steps behind it.
Progress(r, done) ==
  /\ r.phase \in UnderWay => \A s \in Steps : s < r.cur => Passed(r, s, done)
  /\ RepoWait(r) => Passed(r, r.cur, done)
  /\ r.phase = "Succeeded" => \A s \in Steps : Passed(r, s, done)

SuccessReal ==
  \A j \in StepJobs : jobs[j] = "succeeded" \/ jobCache[j] = "succeeded" => j \in completed

OrderInv == Progress(run, completed) /\ Progress(cache, completed) /\ SuccessReal /\ StepsInOrder

BackwardRetries == \A s \in Steps : OnFailure[s] <= s

LEMMA ProgressGrows ==
  ASSUME NEW r, NEW d, NEW e, d \subseteq e, Progress(r, d)
  PROVE  Progress(r, e)
BY DEF Progress, Passed

LEMMA HoldProgress ==
  ASSUME Hold, Progress(run, completed)
  PROVE  Progress(run', completed)
<1>1. /\ run'.cur = run.cur /\ run.phase \in UnderWay /\ run'.phase # "Succeeded"
      /\ \A s \in Steps : AttemptOf(run', s) = AttemptOf(run, s)
  BY DEF Hold, SameAttempts, UnderWay
<1>2. \A s \in Steps : s < run.cur => Passed(run, s, completed) /\ s # run.cur
  BY <1>1 DEF Progress, Steps
<1>3. \A s \in Steps : s < run'.cur => Passed(run', s, completed)
  BY <1>1, <1>2 DEF Hold, Passed
<1>4. RepoWait(run') => Passed(run', run'.cur, completed)
  BY <1>1 DEF Hold, Progress, Passed, AttemptOf
<1> QED  BY <1>1, <1>3, <1>4 DEF Progress

LEMMA EndProgress ==
  ASSUME End
  PROVE  Progress(run', completed)
BY DEF End, Progress, UnderWay, RepoWait

LEMMA StepDoneShape ==
  ASSUME NEW r \in Run, r.cur \in Steps
  PROVE  /\ SameSteps(r, StepDone(r)) /\ StepDone(r).steps[r.cur].phase = "Succeeded"
         /\ StepDone(r).waitingFor = r.waitingFor
<1>1. ASSUME NEW st \in [Steps -> StepStatus], NEW c \in Steps
      PROVE  LET u == [st EXCEPT ![c].phase = "Succeeded"] IN
               /\ u[c].phase = "Succeeded"
               /\ \A s \in Steps : u[s].attempt = st[s].attempt
                                   /\ (s # c => u[s].phase = st[s].phase)
  BY <1>1 DEF StepStatus
<1>2. r.steps \in [Steps -> StepStatus]
  BY DEF Run
<1>3. /\ StepDone(r).cur = r.cur /\ StepDone(r).waitingFor = r.waitingFor
      /\ StepDone(r).steps = [r.steps EXCEPT ![r.cur].phase = "Succeeded"]
  BY DEF StepDone, Run
<1> QED  BY <1>1, <1>2, <1>3 DEF SameSteps, SameAttempts, AttemptOf

\* Advanced keeps the steps and moves one place on, or succeeds at the last.
LEMMA AdvancedShape ==
  ASSUME NEW r \in Run, r.cur \in Steps
  PROVE  /\ Advanced(r).steps = r.steps /\ Advanced(r).approved = r.approved
         /\ Advanced(r).waitingFor = r.waitingFor
         /\ \/ r.cur = N /\ Advanced(r).phase = "Succeeded" /\ Advanced(r).cur = 0
            \/ r.cur < N /\ Advanced(r).phase = r.phase /\ Advanced(r).cur = r.cur + 1
<1>1. r.cur = N \/ (r.cur # N /\ r.cur < N)
  BY StepsAssumption DEF Steps
<1>2. CASE r.cur = N
  <2>1. Advanced(r) = [r EXCEPT !.phase = "Succeeded", !.cur = 0, !.finished = TRUE]
    BY <1>2 DEF Advanced
  <2> QED  BY <1>2, <2>1 DEF Run
<1>3. CASE r.cur # N /\ r.cur < N
  <2>1. Advanced(r) = [r EXCEPT !.cur = r.cur + 1]
    BY <1>3 DEF Advanced
  <2> QED  BY <1>3, <2>1 DEF Run
<1> QED  BY <1>1, <1>2, <1>3

LEMMA RepoChosenShape ==
  ASSUME NEW r \in Run, r.cur \in Steps
  PROVE  /\ RepoChosen(r).steps = r.steps /\ RepoChosen(r).approved = r.approved
         /\ RepoChosen(r).waitingFor = ""
         /\ \/ r.cur = N /\ RepoChosen(r).phase = "Succeeded" /\ RepoChosen(r).cur = r.cur
            \/ r.cur < N /\ RepoChosen(r).phase = "Running" /\ RepoChosen(r).cur = r.cur + 1
<1>1. r.cur = N \/ (r.cur # N /\ r.cur < N)
  BY StepsAssumption DEF Steps
<1>2. CASE r.cur = N
  <2>1. RepoChosen(r) = [r EXCEPT !.phase = "Succeeded", !.waitingFor = "", !.finished = TRUE]
    BY <1>2 DEF RepoChosen
  <2> QED  BY <1>2, <2>1 DEF Run
<1>3. CASE r.cur # N /\ r.cur < N
  <2>1. RepoChosen(r) = [r EXCEPT !.phase = "Running", !.waitingFor = "", !.cur = r.cur + 1]
    BY <1>3 DEF RepoChosen
  <2> QED  BY <1>3, <2>1 DEF Run
<1> QED  BY <1>1, <1>2, <1>3

LEMMA JumpedBackShape ==
  ASSUME NEW r \in Run, r.cur \in Steps, MayRetry(r), BackwardRetries
  PROVE  /\ JumpedBack(r).cur = OnFailure[r.cur] /\ OnFailure[r.cur] \in Steps
         /\ OnFailure[r.cur] <= r.cur
         /\ \A s \in Steps : s < OnFailure[r.cur] => JumpedBack(r).steps[s] = r.steps[s]
         /\ JumpedBack(r).waitingFor = r.waitingFor
<1> DEFINE t == OnFailure[r.cur]
           a == AttemptOf(r, r.cur)
<1>1. t \in Steps /\ t <= r.cur
  BY RetryAssumption, StepsAssumption DEF MayRetry, Steps, BackwardRetries
<1>2. ASSUME NEW st \in [Steps -> StepStatus], NEW b, NEW n,
             NEW s \in Steps, s # r.cur, s # t
      PROVE  [st EXCEPT ![r.cur].phase = "Failed", ![r.cur].attempt = b, ![t] = n][s] = st[s]
  BY <1>2
<1>3. r.steps \in [Steps -> StepStatus]
  BY DEF Run
<1>4. /\ JumpedBack(r).cur = t /\ JumpedBack(r).waitingFor = r.waitingFor
      /\ JumpedBack(r).steps =
           [r.steps EXCEPT ![r.cur].phase = "Failed", ![r.cur].attempt = a + 1,
                           ![t] = [phase |-> "Pending", attempt |-> a + 1, job |-> 0]]
  BY DEF JumpedBack, Run
<1> HIDE DEF t, a
<1>5. \A s \in Steps : s < t => s # r.cur /\ s # t
  BY <1>1 DEF Steps
<1>6. \A s \in Steps : s < t => JumpedBack(r).steps[s] = r.steps[s]
  BY <1>2, <1>3, <1>4, <1>5
<1> QED  BY <1>1, <1>4, <1>6 DEF t

\* The current step is passed too once the run moves on.
LEMMA NextProgress ==
  ASSUME NEW r, NEW n, NEW done, r.cur \in Steps, n.steps = r.steps, ~ RepoWait(n),
         \A s \in Steps : s <= r.cur => Passed(r, s, done),
         \/ r.cur = N /\ n.phase = "Succeeded"
         \/ r.cur < N /\ n.phase = "Running" /\ n.cur = r.cur + 1
  PROVE  Progress(n, done)
<1>1. \A s \in Steps : s <= r.cur => Passed(n, s, done)
  BY DEF Passed, AttemptOf
<1>2. \A s \in Steps : s <= N /\ (s < r.cur + 1 => s <= r.cur)
  BY StepsAssumption DEF Steps
<1> QED  BY <1>1, <1>2 DEF Progress, UnderWay

LEMMA PassProgress ==
  ASSUME IInv, OrderInv, Pass \/ AskRepo \/ JumpBack \/ Choose, BackwardRetries
  PROVE  Progress(run', completed)
<1>1. run \in Run /\ run.phase \in UnderWay /\ run.cur \in Steps
  BY Parts DEF Pass, AskRepo, JumpBack, Choose, CurEnded, RepoWait, RunOK, CurOK, UnderWay
<1>2. \A s \in Steps : s < run.cur => Passed(run, s, completed)
  BY <1>1 DEF OrderInv, Progress
<1>3. \A s \in Steps : s <= run.cur => s < run.cur \/ s = run.cur
  BY <1>1 DEF Steps
<1> DEFINE d == StepDone(run)
<1>4. ASSUME CurEnded("succeeded")
      PROVE  /\ \A s \in Steps : s <= run.cur => Passed(d, s, completed)
             /\ d \in Run /\ d.phase = "Running" /\ d.cur = run.cur
  <2>1. CurJob(run) \in completed
    BY <1>1, <1>4, AttemptType DEF CurEnded, OrderInv, SuccessReal, CurJob, StepJobs
  <2>2. Passed(d, run.cur, completed)
    BY <1>1, <2>1, StepDoneShape DEF Passed, CurJob, SameSteps, SameAttempts
  <2>3. \A s \in Steps : s < run.cur => Passed(d, s, completed)
    BY <1>1, <1>2, StepDoneShape DEF Passed, SameSteps, SameAttempts, Steps
  <2> QED  BY <1>1, <1>3, <1>4, <2>2, <2>3, StepDoneType DEF CurEnded
<1> HIDE DEF d
<1>5. CASE Pass
  <2>1. CurEnded("succeeded") /\ run' = Advanced(d)
    BY <1>5 DEF Pass, d
  <2>2. /\ run'.steps = d.steps
        /\ \/ d.cur = N /\ run'.phase = "Succeeded"
           \/ d.cur < N /\ run'.phase = "Running" /\ run'.cur = d.cur + 1
    BY <1>1, <1>4, <2>1, AdvancedShape
  <2> QED  BY <1>1, <1>4, <2>1, <2>2, NextProgress DEF RepoWait
<1>6. CASE AskRepo
  <2>1. CurEnded("succeeded")
        /\ run' = [d EXCEPT !.phase = "WaitingForInput", !.waitingFor = "repo-selection"]
    BY <1>6 DEF AskRepo, d
  <2>2. run'.steps = d.steps /\ run'.cur = d.cur /\ run'.phase = "WaitingForInput"
    BY <1>4, <2>1 DEF Run
  <2>3. \A s \in Steps : s <= run.cur => Passed(run', s, completed)
    BY <1>4, <2>1, <2>2 DEF Passed, AttemptOf
  <2>4. \A s \in Steps : s < run.cur => s <= run.cur
    BY <1>1 DEF Steps
  <2>5. run.cur <= run.cur
    BY <1>1 DEF Steps
  <2> QED  BY <1>1, <1>4, <2>1, <2>2, <2>3, <2>4, <2>5 DEF Progress
<1>7. CASE JumpBack
  <2>1. run' = JumpedBack(run) /\ MayRetry(run) /\ run.phase = "Running"
    BY <1>7 DEF JumpBack, CurEnded
  <2>2. run'.phase = "Running"
    BY <1>1, <2>1, JumpedBackType
  <2>3. /\ run'.cur \in Steps /\ run'.cur <= run.cur
        /\ \A s \in Steps : s < run'.cur => run'.steps[s] = run.steps[s]
    BY <1>1, <2>1, JumpedBackShape
  <2>4. \A s \in Steps : s < run'.cur => s < run.cur
    BY <1>1, <2>3 DEF Steps
  <2> QED  BY <1>2, <2>2, <2>3, <2>4 DEF Progress, Passed, AttemptOf, RepoWait
<1>8. CASE Choose
  <2>1. RepoWait(run) /\ run' = RepoChosen(run)
    BY <1>8 DEF Choose
  <2>2. Passed(run, run.cur, completed)
    BY <2>1 DEF OrderInv, Progress
  <2>3. /\ run'.steps = run.steps
        /\ \/ run.cur = N /\ run'.phase = "Succeeded"
           \/ run.cur < N /\ run'.phase = "Running" /\ run'.cur = run.cur + 1
    BY <1>1, <2>1, RepoChosenShape
  <2> QED  BY <1>1, <1>2, <1>3, <2>2, <2>3, NextProgress DEF RepoWait
<1> QED  BY <1>5, <1>6, <1>7, <1>8

LEMMA OrderStep ==
  ASSUME IInv, OrderInv, [Next]_vars, BackwardRetries
  PROVE  OrderInv'
<1>1. Effect
  BY NextEffect
<1>2. CASE Untouched
  BY <1>2 DEF Untouched, OrderInv, StepJobsKept, SuccessReal, StepsInOrder
<1>3. CASE Written
  <2>1. Progress(run, completed) /\ Progress(cache, completed) /\ SuccessReal /\ StepsInOrder
    BY DEF OrderInv
  <2>2. Progress(run', completed)
    <3>1. CASE Begin
      BY <3>1 DEF Begin, Progress, Steps, RepoWait
    <3> QED  BY <1>3, <2>1, <3>1, HoldProgress, EndProgress, PassProgress DEF Written
  <2>3. SuccessReal' /\ StepsInOrder'
    BY <1>3, <2>1 DEF Written, StepJobsKept, SuccessReal, StepsInOrder
  <2> QED  BY <1>3, <2>1, <2>2, <2>3 DEF Written, OrderInv
<1>4. CASE Launched
  <2> DEFINE j == CurJob(cache)
  <2>1. cache.phase = "Running" /\ jobs' = [jobs EXCEPT ![j] = "active"]
    BY <1>4 DEF Launched
  <2>2. j \in StepJobs /\ j[1] = cache.cur /\ jobs \in [Jobs -> JobStates]
    BY <2>1, Parts, CurJobType DEF RunOK, CurOK, CurJob, RestOK
  <2>3. \A s \in Steps : s < cache.cur => \E a \in Attempts : <<s, a>> \in completed
    BY <2>1, Parts, AttemptType DEF OrderInv, Progress, Passed, UnderWay
  <2>4. cache.cur \in Steps /\ \A s \in 1 .. (cache.cur - 1) : s \in Steps /\ s < cache.cur
    BY <2>2, StepsAssumption DEF StepJobs, Steps
  <2> HIDE DEF j
  <2>5. \A k \in StepJobs : jobs'[k] # "none" => k = j \/ jobs[k] # "none"
    BY <2>1, <2>2 DEF Jobs
  <2>6. \A k \in StepJobs : jobs'[k] = "succeeded" => jobs[k] = "succeeded"
    BY <2>1, <2>2 DEF Jobs
  <2>7. StepsInOrder'
    BY <1>4, <2>2, <2>3, <2>4, <2>5 DEF Launched, OrderInv, StepsInOrder
  <2> QED  BY <1>4, <2>6, <2>7 DEF Launched, OrderInv, SuccessReal
<1>5. CASE Killed
  <2>1. \A k \in StepJobs : jobs'[k] = "none" \/ jobs'[k] = jobs[k]
    BY <1>5 DEF Killed
  <2> QED  BY <1>5, <2>1 DEF Killed, OrderInv, SuccessReal, StepsInOrder
<1>6. CASE Synced \/ Restarted
  BY <1>6 DEF Synced, Restarted, OrderInv, SuccessReal, StepsInOrder
<1>7. ASSUME NEW j \in Jobs, JobFinishes(j)
      PROVE  OrderInv'
  <2>1. PICK o \in {"succeeded", "failed"} :
          /\ jobs' = [jobs EXCEPT ![j] = o]
          /\ completed' = IF o = "succeeded" THEN completed \cup {j} ELSE completed
    BY <1>7 DEF JobFinishes
  <2>2. jobs[j] = "active" /\ UNCHANGED <<run, cache, jobCache>> /\ jobs \in [Jobs -> JobStates]
    BY <1>7, Parts DEF JobFinishes, RestOK
  <2>3. completed \subseteq completed' /\ (o = "succeeded" => j \in completed')
    BY <2>1
  <2>4. \A k \in StepJobs : \/ k = j /\ jobs'[k] = o
                            \/ jobs'[k] = jobs[k]
    BY <2>1, <2>2 DEF Jobs
  <2>5. SuccessReal'
    BY <2>2, <2>3, <2>4 DEF OrderInv, SuccessReal
  <2>6. \A k \in StepJobs : jobs'[k] # "none" => jobs[k] # "none"
    BY <2>2, <2>4
  <2>7. StepsInOrder'
    BY <2>3, <2>6 DEF OrderInv, StepsInOrder
  <2>8. Progress(run, completed') /\ Progress(cache, completed')
    BY <2>3, ProgressGrows DEF OrderInv
  <2> QED  BY <2>2, <2>5, <2>7, <2>8 DEF OrderInv
<1>8. ASSUME NEW j \in Jobs, SyncJob(j)
      PROVE  OrderInv'
  <2>1. /\ UNCHANGED <<run, cache, jobs, completed>>
        /\ jobCache' = [jobCache EXCEPT ![j] = jobs[j]]
    BY <1>8 DEF SyncJob, aux
  <2>2. \A k \in StepJobs : jobCache'[k] = jobCache[k] \/ jobCache'[k] = jobs[k]
    BY <2>1, Parts DEF RestOK, Jobs
  <2>3. SuccessReal'
    BY <2>1, <2>2 DEF OrderInv, SuccessReal
  <2> QED  BY <2>1, <2>3 DEF OrderInv, StepsInOrder
<1> QED  BY <1>1, <1>2, <1>3, <1>4, <1>5, <1>6, <1>7, <1>8 DEF Effect

LEMMA OrderInit == Init => OrderInv
<1>1. \A skip : NewRun(skip).phase = "Pending"
  BY DEF NewRun
<1>2. Init => run.phase = "Pending"
  BY <1>1 DEF Init
<1> QED
  BY <1>2 DEF Init, OrderInv, Progress, SuccessReal, StepsInOrder, UnderWay, RepoWait, Jobs

\* Whatever the users do, however the caches lag and however often the operator
\* restarts, no step has a Job before each earlier step had one that succeeded,
\* if a failure only ever jumps backwards (CurrentStep in reconcileRunning).
THEOREM EveryStepHasItsTurn == ASSUME BackwardRetries PROVE Spec => []StepsInOrder
<1>1. OrderInv => StepsInOrder
  BY DEF OrderInv
<1>2. IInv /\ OrderInv /\ [Next]_vars => IInv' /\ OrderInv'
  BY NextInv, OrderStep
<1>3. Init => IInv /\ OrderInv
  BY InitInv, OrderInit
<1> QED  BY <1>1, <1>2, <1>3, PTL DEF Spec

\* A run that ended Succeeded has passed all its steps, each with a Job of its
\* last attempt that did succeed (reconcileRunning, reconcileWaitingForInput).
THEOREM SuccessHasPassedAll == ASSUME BackwardRetries PROVE Spec => []SuccessIsComplete
<1>1. OrderInv => SuccessIsComplete
  BY DEF OrderInv, SuccessIsComplete, Progress, Passed
<1>2. IInv /\ OrderInv /\ [Next]_vars => IInv' /\ OrderInv'
  BY NextInv, OrderStep
<1>3. Init => IInv /\ OrderInv
  BY InitInv, OrderInit
<1> QED  BY <1>1, <1>2, <1>3, PTL DEF Spec

-----------------------------------------------------------------------------
(* New attempts.                                                           *)

\* Two steps retry from different steps, and neither from the other.
SeparateRetries ==
  \A s, u \in Steps : OnFailure[s] # 0 /\ OnFailure[u] # 0 /\ s # u =>
    OnFailure[s] \notin {u, OnFailure[u]}

NoneAhead(r, js) == \A j \in StepJobs : js[j] # "none" => j[2] <= AttemptOf(r, j[1])

Behind(r, n) == \A s \in Steps : AttemptOf(r, s) <= AttemptOf(n, s)

\* A retrying step and the step it retries from are at one attempt, and no step
\* has a Job of a later attempt than its own.
AttemptsFit ==
  /\ run.phase = "Pending" => run.steps = [s \in Steps |-> NoStatus]
  /\ Behind(cache, run)
  /\ NoneAhead(run, jobs)
  /\ \A s \in Steps : OnFailure[s] # 0 => AttemptOf(run, OnFailure[s]) = AttemptOf(run, s)

FreshStep ==
  \A s \in Steps :
    run.steps[s].phase \notin {"", "Pending"} /\ run'.steps[s].phase = "Pending"
      => jobs[<<s, run'.steps[s].attempt>>] = "none"

LEMMA KeptFits ==
  ASSUME AttemptsFit, \A s \in Steps : AttemptOf(run', s) = AttemptOf(run, s),
         run'.phase # "Pending", UNCHANGED cache, StepJobsKept
  PROVE  AttemptsFit'
<1>1. Behind(cache, run)' /\ NoneAhead(run, jobs)'
  BY DEF AttemptsFit, Behind, NoneAhead, StepJobsKept, StepJobs
<1>2. \A s \in Steps : OnFailure[s] # 0 => AttemptOf(run', OnFailure[s]) = AttemptOf(run', s)
  BY RetryAssumption, StepsAssumption DEF AttemptsFit, Steps
<1> QED  BY <1>1, <1>2 DEF AttemptsFit

\* The target of a jump had been at the failed attempt, and no other step moves.
LEMMA JumpedAttempts ==
  ASSUME NEW r \in Run, r.cur \in Steps, MayRetry(r)
  PROVE  LET t == OnFailure[r.cur]
             a == AttemptOf(r, r.cur)
             n == JumpedBack(r)
         IN  /\ t \in Steps /\ a + 1 \in Attempts /\ a \in Nat
             /\ AttemptOf(n, t) = a + 1 /\ AttemptOf(n, r.cur) = a + 1
             /\ n.steps[t].attempt = a + 1
             /\ \A s \in Steps \ {t, r.cur} : n.steps[s] = r.steps[s]
             /\ r.cur # t => n.steps[r.cur].phase = "Failed"
<1> DEFINE t == OnFailure[r.cur]
           a == AttemptOf(r, r.cur)
           st == [phase |-> "Pending", attempt |-> a + 1, job |-> 0]
<1>1. t \in Steps
  BY RetryAssumption, StepsAssumption DEF MayRetry, Steps
<1>2. a \in Attempts /\ a < Retries(r.cur) /\ Retries(r.cur) \in Nat /\ Retries(r.cur) <= MaxAttempt
  BY AttemptType, RetryAssumption DEF MayRetry, Retries
<1>3. a \in Nat /\ a + 1 \in Attempts /\ a + 1 # 0
  BY <1>2, AttemptAssumption DEF Attempts
<1>4. r.steps \in [Steps -> StepStatus]
  BY DEF Run
<1>5. JumpedBack(r).steps =
        [r.steps EXCEPT ![r.cur].phase = "Failed", ![r.cur].attempt = a + 1, ![t] = st]
  BY DEF JumpedBack, Run
<1>6. st.phase = "Pending" /\ st.attempt = a + 1
  OBVIOUS
<1> HIDE DEF t, a, st
<1> DEFINE p == [r.steps EXCEPT ![r.cur].phase = "Failed", ![r.cur].attempt = a + 1]
<1>7. /\ p[r.cur].phase = "Failed" /\ p[r.cur].attempt = a + 1
      /\ \A s \in Steps \ {r.cur} : p[s] = r.steps[s]
      /\ DOMAIN p = Steps
  BY <1>4 DEF StepStatus
<1>8. JumpedBack(r).steps = [p EXCEPT ![t] = st]
  BY <1>5
<1> HIDE DEF p
<1>9. /\ JumpedBack(r).steps[t] = st
      /\ \A s \in Steps \ {t} : JumpedBack(r).steps[s] = p[s]
  BY <1>1, <1>7, <1>8
<1>10. JumpedBack(r).steps[t].attempt = a + 1 /\ JumpedBack(r).steps[r.cur].attempt = a + 1
  BY <1>6, <1>7, <1>9
<1>11. AttemptOf(JumpedBack(r), t) = a + 1 /\ AttemptOf(JumpedBack(r), r.cur) = a + 1
  BY <1>3, <1>10 DEF AttemptOf
<1>12. /\ \A s \in Steps \ {t, r.cur} : JumpedBack(r).steps[s] = r.steps[s]
       /\ r.cur # t => JumpedBack(r).steps[r.cur].phase = "Failed"
  BY <1>7, <1>9
<1> QED  BY <1>1, <1>3, <1>10, <1>11, <1>12 DEF t, a

LEMMA LaterAttempt == \A n \in Nat : ~ (n + 1 <= n)
OBVIOUS

LEMMA JumpFits ==
  ASSUME IInv, AttemptsFit, SeparateRetries, JumpBack, UNCHANGED cache, StepJobsKept
  PROVE  AttemptsFit' /\ FreshStep
<1> DEFINE t == OnFailure[run.cur]
           a == AttemptOf(run, run.cur)
<1>1. /\ run \in Run /\ run.cur \in Steps /\ run.phase = "Running"
      /\ MayRetry(run) /\ run' = JumpedBack(run) /\ OnFailure[run.cur] # 0
  BY Parts DEF JumpBack, CurEnded, RunOK, CurOK, MayRetry
<1>2. /\ t \in Steps /\ a + 1 \in Attempts /\ a \in Nat
      /\ AttemptOf(run', t) = a + 1 /\ AttemptOf(run', run.cur) = a + 1
      /\ run'.steps[t].attempt = a + 1
      /\ \A s \in Steps \ {t, run.cur} : run'.steps[s] = run.steps[s]
      /\ run.cur # t => run'.steps[run.cur].phase = "Failed"
  BY <1>1, JumpedAttempts
<1>3. AttemptOf(run, t) = a
  BY <1>1 DEF AttemptsFit
<1>4. \A s \in Steps \ {t, run.cur} : AttemptOf(run', s) = AttemptOf(run, s)
  BY <1>2 DEF AttemptOf
<1>5. \A s \in Steps : AttemptOf(run, s) \in Nat /\ AttemptOf(cache, s) \in Nat
  BY Parts, AttemptType DEF Attempts
<1>6. a = AttemptOf(run, run.cur) /\ t = OnFailure[run.cur]
  OBVIOUS
<1>7. run'.phase # "Pending"
  BY <1>1, JumpedBackType
<1> HIDE DEF t, a
<1>8. \A s \in Steps : AttemptOf(run, s) <= AttemptOf(run', s) /\ AttemptOf(run', s) \in Nat
  <2> SUFFICES ASSUME NEW s \in Steps
               PROVE  AttemptOf(run, s) <= AttemptOf(run', s) /\ AttemptOf(run', s) \in Nat
    OBVIOUS
  <2>1. CASE s \in {t, run.cur}
    BY <2>1, <1>2, <1>3, <1>6
  <2>2. CASE s \notin {t, run.cur}
    BY <2>2, <1>4, <1>5
  <2> QED  BY <2>1, <2>2
<1>9. Behind(cache, run)'
  BY <1>5, <1>8 DEF AttemptsFit, Behind
<1>10. NoneAhead(run, jobs)'
  <2> SUFFICES ASSUME NEW j \in StepJobs, jobs'[j] # "none" PROVE j[2] <= AttemptOf(run', j[1])
    BY DEF NoneAhead
  <2>1. j[1] \in Steps /\ j[2] \in Nat /\ j[2] <= AttemptOf(run, j[1])
    BY DEF AttemptsFit, NoneAhead, StepJobsKept, StepJobs, Attempts
  <2> QED  BY <2>1, <1>5, <1>8
<1>11. ASSUME NEW s \in Steps, OnFailure[s] # 0
       PROVE  AttemptOf(run', OnFailure[s]) = AttemptOf(run', s)
  <2>1. CASE s = run.cur
    BY <2>1, <1>2, <1>6
  <2>2. CASE s # run.cur
    <3>1. OnFailure[s] \in Steps /\ OnFailure[s] # run.cur /\ OnFailure[s] # t /\ s # t
      BY <1>1, <1>6, <1>11, <2>2, RetryAssumption, StepsAssumption DEF SeparateRetries, Steps
    <3> QED  BY <3>1, <2>2, <1>4, <1>11 DEF AttemptsFit
  <2> QED  BY <2>1, <2>2
<1>12. FreshStep
  <2> SUFFICES ASSUME NEW s \in Steps, run.steps[s].phase \notin {"", "Pending"},
                      run'.steps[s].phase = "Pending"
               PROVE  jobs[<<s, run'.steps[s].attempt>>] = "none"
    BY DEF FreshStep
  <2>1. s = t
    BY <1>1, <1>2
  <2>2. <<t, a + 1>> \in StepJobs
    BY <1>2 DEF StepJobs
  <2>3. ~ (a + 1 <= AttemptOf(run, t))
    <3>1. a \in Nat /\ AttemptOf(run, t) = a
      BY <1>2, <1>3
    <3>2. ~ (a + 1 <= a)
      BY <3>1, LaterAttempt, Zenon
    <3> QED  BY <3>1, <3>2, Zenon
  <2>4. jobs[<<t, a + 1>>] = "none"
    BY <2>2, <2>3 DEF AttemptsFit, NoneAhead
  <2> QED  BY <1>2, <2>1, <2>4
<1> QED  BY <1>7, <1>9, <1>10, <1>11, <1>12 DEF AttemptsFit

LEMMA NoAttempts ==
  ASSUME NEW r, NEW st, st.attempt = 0, r.steps = [s \in Steps |-> st]
  PROVE  \A s \in Steps : r.steps[s] = st /\ AttemptOf(r, s) = 1
<1> SUFFICES ASSUME NEW s \in Steps PROVE r.steps[s] = st /\ AttemptOf(r, s) = 1
  OBVIOUS
<1>1. r.steps[s] = st
  BY Zenon
<1>2. r.steps[s].attempt = 0
  BY <1>1, Zenon
<1> QED  BY <1>1, <1>2, Zenon DEF AttemptOf

LEMMA NoStatusFields == NoStatus.phase = "" /\ NoStatus.attempt = 0
BY DEF NoStatus

LEMMA WrittenFits ==
  ASSUME IInv, AttemptsFit, SeparateRetries, Written
  PROVE  AttemptsFit' /\ FreshStep
<1>1. UNCHANGED cache /\ StepJobsKept /\ run \in Run /\ CurOK(run)
  BY Parts DEF Written, RunOK
<1>2. CASE Hold \/ End
  <2>1. SameAttempts(run, run') /\ run'.phase # "Pending"
    BY <1>2 DEF Hold, End, UnderWay
  <2>2. FreshStep
    BY <2>1 DEF SameAttempts, FreshStep
  <2> QED  BY <1>1, <2>1, <2>2, KeptFits DEF SameAttempts
<1>3. CASE Begin
  <2>1. run.steps = [s \in Steps |-> NoStatus] /\ run'.phase # "Pending"
    BY <1>3 DEF Begin, AttemptsFit
  <2> DEFINE st == [phase |-> "Pending", attempt |-> 0, job |-> 0]
  <2>2. run'.steps = [s \in Steps |-> st] /\ st.phase = "Pending" /\ st.attempt = 0
    BY <1>1, <1>3 DEF Begin, Initialized, Run
  <2> HIDE DEF st
  <2>3. \A s \in Steps : run.steps[s] = NoStatus /\ AttemptOf(run, s) = 1
    BY <2>1, NoAttempts, NoStatusFields, Zenon
  <2>4. \A s \in Steps : AttemptOf(run', s) = 1
    BY <2>2, NoAttempts, Zenon
  <2>5. FreshStep
    BY <2>3, NoStatusFields DEF FreshStep
  <2> QED  BY <1>1, <2>1, <2>3, <2>4, <2>5, KeptFits
<1>4. CASE Pass \/ AskRepo \/ Choose
  <2>1. run.cur \in Steps /\ run.phase \in UnderWay
    BY <1>1, <1>4, Parts DEF Pass, AskRepo, Choose, CurEnded, RepoWait, UnderWay, RunOK, CurOK
  <2>2. /\ StepDone(run) \in Run /\ SameAttempts(run, StepDone(run))
        /\ StepDone(run).cur \in Steps /\ StepDone(run).phase = run.phase
    BY <1>1, <2>1, StepDoneType, StepDoneShape DEF SameSteps
  <2>3. CASE Pass
    <3>1. run'.steps = StepDone(run).steps /\ run'.phase # "Pending"
      BY <2>1, <2>2, <2>3, AdvancedShape DEF Pass, UnderWay
    <3>2. \A s \in Steps : AttemptOf(run', s) = AttemptOf(run, s)
      BY <2>2, <3>1 DEF SameAttempts, AttemptOf
    <3>3. FreshStep
      BY <2>2, <3>1 DEF SameAttempts, FreshStep
    <3> QED  BY <1>1, <3>1, <3>2, <3>3, KeptFits
  <2>4. CASE AskRepo
    <3>1. run'.steps = StepDone(run).steps /\ run'.phase # "Pending"
      BY <2>2, <2>4 DEF AskRepo, Run
    <3>2. \A s \in Steps : AttemptOf(run', s) = AttemptOf(run, s)
      BY <2>2, <3>1 DEF SameAttempts, AttemptOf
    <3>3. FreshStep
      BY <2>2, <3>1 DEF SameAttempts, FreshStep
    <3> QED  BY <1>1, <3>1, <3>2, <3>3, KeptFits
  <2>5. CASE Choose
    <3>1. run'.steps = run.steps /\ run'.phase # "Pending"
      BY <1>1, <2>1, <2>5, RepoChosenShape DEF Choose
    <3> QED  BY <1>1, <3>1, KeptFits DEF FreshStep, AttemptOf
  <2> QED  BY <1>4, <2>3, <2>4, <2>5
<1>5. CASE JumpBack
  BY <1>1, <1>5, JumpFits
<1> QED  BY <1>2, <1>3, <1>4, <1>5 DEF Written

LEMMA AttemptsStep ==
  ASSUME IInv, AttemptsFit, SeparateRetries, [Next]_vars
  PROVE  AttemptsFit' /\ FreshStep
<1>1. Effect
  BY NextEffect
<1>2. run' = run => FreshStep
  BY DEF FreshStep
<1>3. CASE Untouched
  <2>1. UNCHANGED <<run, cache>> /\ NoneAhead(run, jobs)'
    BY <1>3 DEF Untouched, StepJobsKept, AttemptsFit, NoneAhead
  <2> QED  BY <1>2, <2>1 DEF AttemptsFit, Behind
<1>4. CASE Written
  BY <1>4, WrittenFits
<1>5. CASE Launched
  <2> DEFINE j == CurJob(cache)
  <2>1. /\ UNCHANGED <<run, cache>> /\ jobs' = [jobs EXCEPT ![j] = "active"]
        /\ cache \in Run /\ cache.cur \in Steps
    BY <1>5, Parts DEF Launched, RunOK, CurOK
  <2>2. j \in StepJobs /\ j[1] = cache.cur /\ j[2] = AttemptOf(cache, cache.cur)
    BY <2>1, AttemptType DEF CurJob, StepJobs
  <2>3. j[2] <= AttemptOf(run, j[1])
    BY <2>1, <2>2 DEF AttemptsFit, Behind
  <2> HIDE DEF j
  <2>4. \A k \in StepJobs : jobs'[k] # "none" => k = j \/ jobs[k] # "none"
    BY <2>1, <2>2, Parts DEF RestOK, Jobs
  <2>5. NoneAhead(run, jobs)'
    BY <2>1, <2>3, <2>4 DEF AttemptsFit, NoneAhead
  <2> QED  BY <1>2, <2>1, <2>5 DEF AttemptsFit, Behind
<1>6. CASE Killed
  <2>1. UNCHANGED <<run, cache>> /\ \A k \in StepJobs : jobs'[k] # "none" => jobs[k] # "none"
    BY <1>6 DEF Killed
  <2>2. NoneAhead(run, jobs)'
    BY <2>1 DEF AttemptsFit, NoneAhead
  <2> QED  BY <1>2, <2>1, <2>2 DEF AttemptsFit, Behind
<1>7. CASE Synced \/ Restarted
  <2>1. cache' = run /\ run' = run /\ jobs' = jobs
    BY <1>7 DEF Synced, Restarted
  <2>2. \A s \in Steps : AttemptOf(run, s) <= AttemptOf(run, s)
    BY Parts, AttemptType DEF Attempts
  <2>3. Behind(cache, run)'
    BY <2>1, <2>2 DEF Behind
  <2> QED  BY <1>2, <2>1, <2>3 DEF AttemptsFit, NoneAhead
<1>8. ASSUME NEW j \in Jobs, JobFinishes(j) \/ SyncJob(j)
      PROVE  AttemptsFit' /\ FreshStep
  <2>1. UNCHANGED <<run, cache>> /\ \A k \in StepJobs : jobs'[k] # "none" => jobs[k] # "none"
    BY <1>8, Parts DEF JobFinishes, SyncJob, RestOK, Jobs
  <2>2. NoneAhead(run, jobs)'
    BY <2>1 DEF AttemptsFit, NoneAhead
  <2> QED  BY <1>2, <2>1, <2>2 DEF AttemptsFit, Behind
<1> QED  BY <1>1, <1>3, <1>4, <1>5, <1>6, <1>7, <1>8 DEF Effect

LEMMA AttemptsInit == Init => AttemptsFit
<1> SUFFICES ASSUME Init PROVE AttemptsFit
  OBVIOUS
<1>1. run.steps = [s \in Steps |-> NoStatus]
  <2>1. \A skip : NewRun(skip).steps = [s \in Steps |-> NoStatus]
    BY DEF NewRun
  <2> QED  BY <2>1 DEF Init
<1>2. \A s \in Steps : AttemptOf(run, s) = 1
  BY <1>1, NoAttempts, NoStatusFields, Zenon
<1>3. cache = run /\ \A j \in StepJobs : jobs[j] = "none"
  BY DEF Init, Jobs
<1>4. Behind(cache, run) /\ NoneAhead(run, jobs)
  BY <1>2, <1>3 DEF Behind, NoneAhead
<1>5. \A s \in Steps : OnFailure[s] # 0 => OnFailure[s] \in Steps
  BY RetryAssumption, StepsAssumption DEF Steps
<1> QED  BY <1>1, <1>2, <1>4, <1>5 DEF AttemptsFit

\* A step that a failure sends back runs again: whatever passes, stops and restarts
\* come between, no Job is left of the attempt it is given, if no two steps retry
\* from one step or one from the other (the jump in reconcileRunning).
THEOREM RetriesAreFresh == ASSUME SeparateRetries PROVE Spec => RetryIsFresh
<1>1. IInv /\ AttemptsFit /\ [Next]_vars => IInv' /\ AttemptsFit' /\ FreshStep
  BY NextInv, AttemptsStep
<1>2. Init => IInv /\ AttemptsFit
  BY InitInv, AttemptsInit
<1>3. FreshStep =>
        [\A s \in Steps :
           run.steps[s].phase \notin {"", "Pending"} /\ run'.steps[s].phase = "Pending"
             => jobs[<<s, run'.steps[s].attempt>>] = "none"]_vars
  BY DEF FreshStep
<1> QED  BY <1>1, <1>2, <1>3, PTL DEF Spec, RetryIsFresh

-----------------------------------------------------------------------------
(* Runs that nobody stops.                                                 *)

NoStop == \A q \in Requests : req[q].pc \notin {"kill", "stop", "stopped"}

\* A pass that may still write started from the object as it is.
PassFits ==
  "rec" \in fresh => /\ "cache" \in fresh
                     /\ rec \in {"await", "awaitDiff"} => Unapproved(run)

Leaving == {"Deleting", "Gone"}

\* What the cached phase and the real one say of each other.
PhasesFit ==
  /\ run.phase \in Live => cache.phase \in Live
  /\ run.phase = "Pending" => cache.phase = "Pending" /\ run.cur = 0
  /\ cache.phase \in Leaving => run.phase \in Leaving
  /\ run.phase = "Gone" \/ rec = "delete" => cache.phase \in Leaving

LEMMA NoStopRequest ==
  ASSUME IInv, NoStop, "stop" \notin Ops, NEW q \in Requests, Dashboard(q)
  PROVE  NoStop'
<1>1. req \in [Requests -> [pc : RequestPcs, kill : SUBSET Jobs]]
  BY Parts DEF RestOK
<1>2. ASSUME NEW next \in {"delete", "approve", "select", "done"},
             req' = [req EXCEPT ![q].pc = next]
      PROVE  NoStop'
  BY <1>1, <1>2 DEF NoStop
<1>3. ~ (StopGet(q) \/ StopKill(q) \/ StopPut(q) \/ StopRecord(q))
  BY DEF StopGet, Get, StopKill, StopPut, StopRecord, NoStop
<1>4. CASE DeleteGet(q) \/ ApproveGet(q) \/ SelectGet(q)
  BY <1>2, <1>4 DEF DeleteGet, ApproveGet, SelectGet
<1>5. CASE DeletePut(q) \/ ApprovePut(q) \/ SelectPut(q)
  BY <1>2, <1>5 DEF DeletePut, ApprovePut, SelectPut, Put
<1> QED  BY <1>3, <1>4, <1>5 DEF Dashboard

LEMMA NoStopStep ==
  ASSUME IInv, NoStop, [Next]_vars, "stop" \notin Ops
  PROVE  NoStop'
<1>1. ASSUME Reconcile \/ Cluster \/ Restart \/ UNCHANGED vars
      PROVE  req' = req
  BY <1>1
     DEF Reconcile, RecSkip, RecSkipRecord, RecPending, RecGate, RecAwait, RecCreateJob,
         RecRecordJob, RecBuildFails, RecInitialized, RecStepSucceeded, RecTriageFails,
         RecTriageUnsure, RecRetry, RecStepFails, RecApproved, RecResume, RecRepoSelected,
         RecDeleting, RecDeleteCR, RecComplete, UpdateFromCache, GoOn, FinishUpdate,
         Cluster, SyncRun, SyncJob, JobFinishes, CollectGarbage, Restart, vars
<1>2. CASE UNCHANGED req
  BY <1>2 DEF NoStop
<1> QED  BY <1>1, <1>2, NoStopRequest DEF Next

\* How a step leaves the version the pass of the reconciler holds.
LEMMA PassFitsReconcile == ASSUME IInv, PassFits, Reconcile PROVE PassFits'
<1>1. ASSUME fresh' = {} PROVE PassFits'
  BY <1>1 DEF PassFits
<1>2. ASSUME NEW new, FinishUpdate(new) PROVE PassFits'
  BY <1>1, <1>2 DEF PassFits, FinishUpdate
<1>3. ASSUME NEW new, UpdateFromCache(new) PROVE PassFits'
  BY <1>1, <1>3 DEF UpdateFromCache
<1>4. ASSUME NEW pc, GoOn(pc), pc \in {"await", "awaitDiff"} => Unapproved(cache)
      PROVE  PassFits'
  <2>1. /\ "rec" \in fresh' => "cache" \in fresh' /\ "cache" \in fresh
        /\ rec' = pc /\ run' = run
    BY <1>4 DEF GoOn
  <2>2. "cache" \in fresh => cache = run
    BY Parts DEF Snapshots
  <2> QED  BY <1>4, <2>1, <2>2 DEF PassFits
<1>5. CASE RecGate
  BY <1>4, <1>5 DEF RecGate, NeedsApproval, Unapproved
<1>6. CASE RecCreateJob \/ RecApproved \/ RecDeleting
  BY <1>4, <1>6 DEF RecCreateJob, RecApproved, RecDeleting
<1>7. CASE RecAwait \/ RecRecordJob \/ RecResume
  BY <1>2, <1>7 DEF RecAwait, RecRecordJob, RecResume
<1>8. CASE RecPending
  <2>1. fresh' = {} \/ UNCHANGED <<run, fresh, rec>>
    BY <1>8 DEF RecPending
  <2> QED  BY <1>1, <2>1 DEF PassFits
<1>9. CASE RecSkipRecord \/ RecComplete
  BY <1>9 DEF RecSkipRecord, RecComplete, PassFits
<1>10. CASE RecDeleteCR
  BY <1>1, <1>10 DEF RecDeleteCR
<1> QED
  BY <1>3, <1>5, <1>6, <1>7, <1>8, <1>9, <1>10
     DEF Reconcile, RecSkip, RecBuildFails, RecInitialized, RecStepSucceeded, RecTriageFails,
         RecTriageUnsure, RecRetry, RecStepFails, RecRepoSelected

LEMMA PassFitsStep ==
  ASSUME IInv, PassFits, [Next]_vars
  PROVE  PassFits'
<1>1. CASE UNCHANGED vars
  BY <1>1 DEF vars, PassFits
<1>2. CASE SyncRun \/ Restart
  BY <1>2 DEF SyncRun, Restart, PassFits
<1>3. CASE CollectGarbage \/ \E j \in Jobs : SyncJob(j) \/ JobFinishes(j)
  BY <1>3 DEF CollectGarbage, SyncJob, JobFinishes, PassFits
<1>4. ASSUME NEW q \in Requests, Dashboard(q)
      PROVE  PassFits'
  <2>1. q # "rec" /\ q # "cache"
    BY RequestAssumption
  <2>2. CASE StopGet(q) \/ DeleteGet(q) \/ ApproveGet(q) \/ SelectGet(q)
    BY <2>1, <2>2 DEF StopGet, DeleteGet, ApproveGet, SelectGet, Get, PassFits
  <2>3. CASE StopKill(q) \/ StopRecord(q)
    BY <2>3 DEF StopKill, StopRecord, PassFits
  <2>4. CASE StopPut(q) \/ DeletePut(q) \/ ApprovePut(q) \/ SelectPut(q)
    <3>1. rec' = rec /\ (fresh' = {} \/ UNCHANGED <<run, fresh>>)
      BY <2>4 DEF StopPut, DeletePut, ApprovePut, SelectPut, Put
    <3> QED  BY <3>1 DEF PassFits
  <2> QED  BY <1>4, <2>2, <2>3, <2>4 DEF Dashboard
<1> QED  BY <1>1, <1>2, <1>3, <1>4, PassFitsReconcile DEF Next, Cluster

LEMMA DeletePass ==
  ASSUME [Next]_vars, rec' = "delete"
  PROVE  rec = "delete" \/ (cache.phase = "Deleting" /\ cache' = cache)
<1>1. ASSUME NEW q \in Requests, Dashboard(q) PROVE rec' = rec
  BY <1>1
     DEF Dashboard, StopGet, StopKill, StopPut, StopRecord, DeleteGet, DeletePut, ApproveGet,
         ApprovePut, SelectGet, SelectPut, Get, Put
<1>2. CASE Cluster \/ Restart \/ UNCHANGED vars
  BY <1>2 DEF Cluster, SyncRun, SyncJob, JobFinishes, CollectGarbage, Restart, vars
<1>3. CASE Reconcile
  BY <1>3
     DEF Reconcile, RecSkip, RecSkipRecord, RecPending, RecGate, RecAwait, RecCreateJob,
         RecRecordJob, RecBuildFails, RecInitialized, RecStepSucceeded, RecTriageFails,
         RecTriageUnsure, RecRetry, RecStepFails, RecApproved, RecResume, RecRepoSelected,
         RecDeleting, RecDeleteCR, RecComplete, UpdateFromCache, GoOn, FinishUpdate, Starts
<1> QED  BY <1>1, <1>2, <1>3 DEF Next

\* No write brings a run back from the phase it has left.
LEMMA PhasesMoveOn ==
  ASSUME IInv, NoStop, Effect
  PROVE  /\ run'.phase \in Live => run.phase \in Live
         /\ run'.phase = "Pending" => run'.cur = run.cur /\ run.phase = "Pending"
         /\ run.phase \in Leaving => run'.phase \in Leaving
         /\ run'.phase = "Gone" => run.phase = "Gone" \/ rec = "delete"
<1>1. CASE UNCHANGED run
  BY <1>1
<1>2. CASE Written
  <2>1. CASE Hold \/ Begin
    BY <2>1 DEF Hold, Begin, UnderWay, Live, Leaving
  <2>2. CASE Pass \/ AskRepo \/ JumpBack \/ Choose
    <3>1. run \in Run /\ run.phase \in UnderWay /\ run.cur \in Steps
      BY <2>2, Parts DEF Pass, AskRepo, JumpBack, Choose, CurEnded, RepoWait, RunOK, CurOK,
                         UnderWay
    <3>2. StepDone(run) \in Run /\ StepDone(run).phase = run.phase /\ StepDone(run).cur = run.cur
      BY <3>1, StepDoneType
    <3>3. CASE Pass
      BY <3>1, <3>2, <3>3, AdvancedShape DEF Pass, CurEnded, UnderWay, Live, Leaving
    <3>4. CASE AskRepo
      <4>1. run'.phase = "WaitingForInput"
        BY <3>2, <3>4 DEF AskRepo, Run
      <4> QED  BY <3>1, <4>1 DEF UnderWay, Live, Leaving
    <3>5. CASE JumpBack
      BY <3>1, <3>5, JumpedBackType DEF JumpBack, UnderWay, Live, Leaving
    <3>6. CASE Choose
      BY <3>1, <3>6, RepoChosenShape DEF Choose, UnderWay, Live, Leaving
    <3> QED  BY <2>2, <3>3, <3>4, <3>5, <3>6
  <2>3. CASE End
    BY <2>3 DEF End, NoStop, Live, UnderWay, Leaving
  <2> QED  BY <1>2, <2>1, <2>2, <2>3 DEF Written
<1> QED
  BY <1>1, <1>2
     DEF Effect, Untouched, Launched, Killed, Synced, Restarted, JobFinishes, SyncJob

LEMMA PhasesStep ==
  ASSUME IInv, NoStop, PhasesFit, [Next]_vars
  PROVE  PhasesFit'
<1>1. Effect
  BY NextEffect
<1>2. /\ run'.phase \in Live => run.phase \in Live
      /\ run'.phase = "Pending" => run'.cur = run.cur /\ run.phase = "Pending"
      /\ run.phase \in Leaving => run'.phase \in Leaving
      /\ run'.phase = "Gone" => run.phase = "Gone" \/ rec = "delete"
  BY <1>1, PhasesMoveOn
<1>3. rec' = "delete" => rec = "delete" \/ (cache.phase = "Deleting" /\ cache' = cache)
  BY DeletePass
<1>4. cache' = cache \/ (cache' = run /\ run' = run)
  BY <1>1
     DEF Effect, Untouched, Written, Launched, Killed, Synced, Restarted, JobFinishes, SyncJob
<1>5. \A p : p \in Leaving => p \notin Live
  BY DEF Leaving, Live, UnderWay
<1>6. CASE cache' = cache
  BY <1>2, <1>3, <1>6 DEF PhasesFit, Leaving
<1>7. CASE cache' = run /\ run' = run
  BY <1>2, <1>3, <1>5, <1>7 DEF PhasesFit, Leaving
<1> QED  BY <1>4, <1>6, <1>7

-----------------------------------------------------------------------------
(* One Job at a time.                                                      *)

\* Of a run that may go on only the current Job may be active.
OnlyCur(r, js) == r.phase \in Live => \A j \in StepJobs : js[j] = "active" => j = CurJob(r)

\* The Job a pass may be about to create has ended or is still the one due.
CreationFits ==
  cache.phase = "Running" =>
    \/ jobs[CurJob(cache)] \in Ended
    \/ /\ CurJob(cache) = CurJob(run)
       /\ run.phase \in UnderWay \cup {"Failed", "Deleting"}
       /\ run.phase = "WaitingForInput" => Unapproved(cache)
       /\ run.phase \in UnderWay /\ Unapproved(run) => Unapproved(cache)

\* A Job the informer saw end has ended.
EndsAreReal ==
  run.phase \in Live => \A j \in StepJobs : jobCache[j] \in Ended => jobs[j] \in Ended

RepoWaitIdle == RepoWait(run) => jobs[CurJob(run)] \in Ended

UnapprovedIdle == run.phase \in UnderWay /\ Unapproved(run) => jobs[CurJob(run)] # "active"

JobsFit ==
  /\ OnlyCur(run, jobs) /\ OnlyCur(cache, jobs)
  /\ CreationFits /\ EndsAreReal /\ RepoWaitIdle /\ UnapprovedIdle
  /\ OneJobAtATime

SingleInv == NoStop /\ PassFits /\ PhasesFit /\ JobsFit

NoneActive == \A j \in StepJobs : jobs[j] # "active"

LEMMA IdleWrite ==
  ASSUME IInv, SingleInv, Begin \/ Pass \/ AskRepo \/ JumpBack \/ Choose
  PROVE  NoneActive /\ run.phase \in Live
<1>1. CASE Begin
  <2>1. run.phase = "Pending" /\ run.cur = 0
    BY <1>1 DEF Begin, SingleInv, PhasesFit
  <2>2. CurJob(run) \notin StepJobs
    BY <2>1 DEF CurJob, StepJobs, Steps
  <2> QED  BY <2>1, <2>2 DEF SingleInv, JobsFit, OnlyCur, Live, NoneActive
<1>2. CASE Pass \/ AskRepo \/ JumpBack \/ Choose
  <2>1. run \in Run /\ run.phase \in UnderWay /\ run.cur \in Steps
    BY <1>2, Parts DEF Pass, AskRepo, JumpBack, Choose, CurEnded, RepoWait, RunOK, CurOK, UnderWay
  <2>2. CurJob(run) \in StepJobs
    BY <2>1, AttemptType DEF CurJob, StepJobs
  <2>3. jobs[CurJob(run)] \in Ended
    BY <1>2, <2>1, <2>2
       DEF Pass, AskRepo, JumpBack, Choose, CurEnded, SingleInv, JobsFit, EndsAreReal, RepoWaitIdle,
           Ended, Live
  <2> QED  BY <2>1, <2>2, <2>3 DEF SingleInv, JobsFit, OnlyCur, Live, NoneActive, Ended
<1> QED  BY <1>1, <1>2

LEMMA SameCurJob ==
  ASSUME NEW r \in Run, NEW n, SameAttempts(r, n), r.cur \in Steps
  PROVE  CurJob(n) = CurJob(r)
BY DEF SameAttempts, CurJob

\* A write that finds the Job over leaves none that could be confused with the next.
LEMMA IdleWriteFits ==
  ASSUME IInv, IInv', SingleInv, Written, Begin \/ Pass \/ AskRepo \/ JumpBack \/ Choose
  PROVE  JobsFit'
<1>1. NoneActive /\ run.phase \in Live
  BY IdleWrite
<1>2. UNCHANGED <<cache, jobCache>> /\ \A j \in StepJobs : jobs'[j] = jobs[j]
  BY DEF Written, StepJobsKept
<1>3. run \in Run /\ cache \in Run /\ CurOK(run) /\ CurOK(cache)
  BY Parts DEF RunOK
<1>4. run' \in Run /\ CurOK(run')
  BY DEF IInv, TypeOK, RunOK
<1>5. cache = run
  BY DEF Begin, Pass, AskRepo, JumpBack, Choose, CurEnded
<1>6. CreationFits'
  <2>1. CASE cache.phase = "Running"
    <3>1. jobCache[CurJob(cache)] \in Ended
      BY <1>5, <2>1 DEF Begin, Pass, AskRepo, JumpBack, Choose, CurEnded, RepoWait, Ended
    <3>2. CurJob(cache) \in StepJobs
      BY <1>3, <2>1, CurJobType
    <3>3. jobs'[CurJob(cache)] \in Ended
      BY <1>1, <1>2, <3>1, <3>2 DEF SingleInv, JobsFit, EndsAreReal
    <3> QED  BY <1>2, <3>3 DEF CreationFits
  <2> QED  BY <1>2, <2>1 DEF CreationFits
<1>7. EndsAreReal'
  BY <1>1, <1>2 DEF SingleInv, JobsFit, EndsAreReal
<1>8. RepoWaitIdle'
  <2>1. ASSUME RepoWait(run') PROVE AskRepo
    <3>1. run'.phase = "WaitingForInput"
      BY <2>1 DEF RepoWait
    <3>2. run.cur \in Steps \/ Begin
      BY <1>3 DEF Pass, AskRepo, JumpBack, Choose, CurEnded, CurOK, RepoWait
    <3>3. ASSUME Pass PROVE FALSE
      <4>1. run.cur \in Steps /\ run.phase = "Running"
        BY <1>3, <3>3 DEF Pass, CurEnded, CurOK
      <4>2. StepDone(run) \in Run /\ StepDone(run).phase = "Running" /\ StepDone(run).cur \in Steps
        BY <1>3, <4>1, StepDoneType
      <4> QED  BY <3>1, <3>3, <4>2, AdvancedType DEF Pass
    <3> QED
      BY <1>3, <3>1, <3>2, <3>3, JumpedBackType, RepoChosenType
         DEF Begin, JumpBack, Choose, CurEnded
  <2>2. ASSUME AskRepo PROVE CurJob(run') = CurJob(run) /\ CurJob(run) \in StepJobs
                             /\ jobCache[CurJob(run)] \in Ended
    <3>1. run.cur \in Steps /\ run.phase = "Running" /\ jobCache[CurJob(run)] = "succeeded"
      BY <1>3, <2>2 DEF AskRepo, CurEnded, CurOK
    <3>2. StepDone(run) \in Run /\ SameAttempts(run, StepDone(run))
      BY <1>3, <3>1, StepDoneType, StepDoneShape DEF SameSteps
    <3>3. run'.cur = StepDone(run).cur /\ run'.steps = StepDone(run).steps
      BY <2>2, <3>2 DEF AskRepo, Run
    <3>4. CurJob(run') = CurJob(run)
      BY <3>1, <3>2, <3>3 DEF CurJob, SameAttempts, AttemptOf
    <3> QED  BY <1>3, <3>1, <3>4, CurJobType DEF Ended
  <2>3. ASSUME RepoWait(run') PROVE jobs'[CurJob(run')] \in Ended
    BY <1>1, <1>2, <2>1, <2>2, <2>3 DEF SingleInv, JobsFit, EndsAreReal
  <2> QED  BY <2>3 DEF RepoWaitIdle, RepoWait, CurJob, AttemptOf
<1>9. UnapprovedIdle'
  <2>1. run'.phase \in UnderWay => CurJob(run') \in StepJobs
    BY <1>4, CurJobType DEF UnderWay
  <2> QED  BY <1>1, <1>2, <2>1 DEF NoneActive, UnapprovedIdle, CurJob, AttemptOf
<1> QED
  BY <1>1, <1>2, <1>6, <1>7, <1>8, <1>9 DEF NoneActive, JobsFit, OnlyCur, OneJobAtATime

\* A write that leaves the run at its Job.
LEMMA HoldFits ==
  ASSUME IInv, SingleInv, Written, Hold
  PROVE  JobsFit'
<1>1. UNCHANGED <<cache, jobCache>> /\ \A j \in StepJobs : jobs'[j] = jobs[j]
  BY DEF Written, StepJobsKept
<1>2. run \in Run /\ cache \in Run /\ CurOK(run) /\ CurOK(cache)
  BY Parts DEF RunOK
<1>3. run.phase \in UnderWay /\ run'.phase \in UnderWay /\ run.cur \in Steps
  BY <1>2 DEF Hold, CurOK, UnderWay
<1>4. CurJob(run') = CurJob(run) /\ CurJob(run) \in StepJobs /\ run'.cur = run.cur
  BY <1>2, <1>3, SameCurJob, CurJobType DEF Hold, UnderWay, SameAttempts
<1>5. Unapproved(run') => Unapproved(run)
  BY <1>4 DEF Hold, Unapproved
<1>6. CreationFits'
  <2>1. CASE cache.phase = "Running" /\ ~ (jobs[CurJob(cache)] \in Ended)
    <3>1. CurJob(cache) = CurJob(run) /\ (run.phase = "WaitingForInput" => Unapproved(cache))
          /\ (run.phase \in UnderWay /\ Unapproved(run) => Unapproved(cache))
      BY <2>1 DEF SingleInv, JobsFit, CreationFits
    <3>2. run'.phase = "WaitingForInput" => Unapproved(cache)
      <4>1. CASE run.phase = "WaitingForInput"
        BY <3>1, <4>1
      <4>2. CASE run.phase = "Running" /\ run'.phase = "WaitingForInput"
        BY <3>1, <4>2 DEF Hold, SingleInv, PassFits, UnderWay
      <4> QED  BY <1>3, <4>1, <4>2 DEF UnderWay
    <3>3. CurJob(cache) = CurJob(run')
      BY <1>4, <3>1
    <3>4. run'.phase \in UnderWay /\ Unapproved(run') => Unapproved(cache)
      BY <1>3, <1>5, <3>1
    <3> QED
      BY <1>1, <1>3, <3>2, <3>3, <3>4 DEF CreationFits, CurJob, AttemptOf, Unapproved, UnderWay
  <2>2. CASE cache.phase = "Running" /\ jobs[CurJob(cache)] \in Ended
    <3>1. jobs'[CurJob(cache)] \in Ended
      BY <1>1, <1>2, <2>2, CurJobType
    <3> QED  BY <1>1, <3>1 DEF CreationFits
  <2>3. CASE cache.phase # "Running"
    BY <1>1, <2>3 DEF CreationFits
  <2> QED  BY <2>1, <2>2, <2>3
<1>7. EndsAreReal'
  BY <1>1, <1>3 DEF SingleInv, JobsFit, EndsAreReal, Live
<1>8. RepoWait(run') => jobs'[CurJob(run')] \in Ended
  BY <1>1, <1>4 DEF Hold, SingleInv, JobsFit, RepoWaitIdle
<1>9. Unapproved(run') => jobs'[CurJob(run')] # "active"
  BY <1>1, <1>3, <1>4, <1>5 DEF SingleInv, JobsFit, UnapprovedIdle
<1>10. \A j \in StepJobs : jobs'[j] = "active" => j = CurJob(run')
  BY <1>1, <1>3, <1>4 DEF SingleInv, JobsFit, OnlyCur, Live
<1>11. OnlyCur(cache, jobs)' /\ OneJobAtATime'
  BY <1>1 DEF SingleInv, JobsFit, OnlyCur, OneJobAtATime, CurJob, AttemptOf
<1>12. RepoWaitIdle' /\ UnapprovedIdle' /\ OnlyCur(run, jobs)'
  BY <1>8, <1>9, <1>10
     DEF RepoWaitIdle, UnapprovedIdle, OnlyCur, RepoWait, Unapproved, CurJob, AttemptOf
<1> QED  BY <1>6, <1>7, <1>11, <1>12 DEF JobsFit

LEMMA EndFits ==
  ASSUME IInv, SingleInv, Written, End
  PROVE  JobsFit'
<1>1. UNCHANGED <<cache, jobCache>> /\ \A j \in StepJobs : jobs'[j] = jobs[j]
  BY DEF Written, StepJobsKept
<1>2. run \in Run /\ cache \in Run /\ CurOK(cache)
  BY Parts DEF RunOK
<1>3. run'.phase \notin Live /\ run'.phase \notin UnderWay /\ run'.phase # "WaitingForInput"
  BY DEF End, Live, UnderWay
<1>4. ASSUME cache.phase = "Running"
      PROVE  run'.phase \in {"Failed", "Deleting"}
  BY <1>4 DEF End, SingleInv, NoStop, PhasesFit, Leaving
<1>5. CreationFits'
  <2>1. CASE cache.phase = "Running" /\ ~ (jobs[CurJob(cache)] \in Ended)
    <3>1. CurJob(cache) = CurJob(run) /\ cache.cur \in Steps
      BY <1>2, <2>1 DEF SingleInv, JobsFit, CreationFits, CurOK
    <3>2. run.cur \in Steps
      BY <3>1 DEF CurJob
    <3>3. CurJob(cache) = CurJob(run')
      BY <1>2, <3>1, <3>2, SameCurJob DEF End
    <3> QED
      BY <1>1, <1>3, <1>4, <2>1, <3>3 DEF CreationFits, CurJob, AttemptOf
  <2>2. CASE cache.phase = "Running" /\ jobs[CurJob(cache)] \in Ended
    <3>1. jobs'[CurJob(cache)] \in Ended
      BY <1>1, <1>2, <2>2, CurJobType
    <3> QED  BY <1>1, <3>1 DEF CreationFits
  <2>3. CASE cache.phase # "Running"
    BY <1>1, <2>3 DEF CreationFits
  <2> QED  BY <2>1, <2>2, <2>3
<1>6. OnlyCur(cache, jobs)' /\ OneJobAtATime'
  BY <1>1 DEF SingleInv, JobsFit, OnlyCur, OneJobAtATime, CurJob, AttemptOf
<1> QED
  BY <1>3, <1>5, <1>6 DEF JobsFit, OnlyCur, EndsAreReal, RepoWaitIdle, RepoWait, UnapprovedIdle

\* The reconciler creates the Job its pass decided on.
LEMMA LaunchFits ==
  ASSUME IInv, SingleInv, Launched
  PROVE  JobsFit'
<1> DEFINE j == CurJob(cache)
<1>1. /\ UNCHANGED <<run, cache, jobCache>> /\ jobs[j] = "none"
      /\ jobs' = [jobs EXCEPT ![j] = "active"]
      /\ cache.phase = "Running" /\ ~ Unapproved(cache)
  BY DEF Launched
<1>2. j \in StepJobs /\ jobs \in [Jobs -> JobStates]
  BY <1>1, Parts, CurJobType DEF RunOK, RestOK
<1>3. jobs'[j] = "active" /\ \A k \in StepJobs : k # j => jobs'[k] = jobs[k] /\ jobs[k] # "active"
  BY <1>1, <1>2 DEF SingleInv, JobsFit, OnlyCur, Live, UnderWay, Jobs
<1>4. /\ CurJob(run) = j /\ run.phase \in UnderWay \cup {"Failed", "Deleting"}
      /\ run.phase # "WaitingForInput"
      /\ ~ (run.phase \in UnderWay /\ Unapproved(run))
  BY <1>1 DEF SingleInv, JobsFit, CreationFits, Ended
<1> HIDE DEF j
<1>5. \A k \in StepJobs : jobs'[k] = "active" => k = j
  BY <1>3
<1>6. OneJobAtATime'
  BY <1>5 DEF OneJobAtATime
<1>7. OnlyCur(run, jobs') /\ OnlyCur(cache, jobs')
  BY <1>4, <1>5 DEF OnlyCur, j
<1>8. EndsAreReal'
  BY <1>1, <1>2, <1>3 DEF SingleInv, JobsFit, EndsAreReal, Ended
<1>9. CreationFits'
  BY <1>1, <1>4 DEF CreationFits, j
<1> QED
  BY <1>1, <1>4, <1>6, <1>7, <1>8, <1>9 DEF JobsFit, RepoWaitIdle, RepoWait, UnapprovedIdle

\* Jobs only go away once the run is leaving.
LEMMA KillFits ==
  ASSUME IInv, SingleInv, Killed
  PROVE  JobsFit'
<1>1. /\ UNCHANGED <<run, cache, jobCache>>
      /\ \A j \in StepJobs : jobs'[j] \in {"none", jobs[j]}
  BY DEF Killed
<1>2. cache.phase \in Leaving /\ run.phase \in Leaving
  BY DEF Killed, SingleInv, NoStop, PhasesFit, Leaving
<1>3. OnlyCur(cache, jobs') /\ OneJobAtATime'
  BY <1>1 DEF SingleInv, JobsFit, OnlyCur, OneJobAtATime
<1> QED
  BY <1>1, <1>2, <1>3
     DEF JobsFit, OnlyCur, CreationFits, EndsAreReal, RepoWaitIdle, RepoWait, UnapprovedIdle,
         Leaving, Live, UnderWay

LEMMA SyncFits ==
  ASSUME IInv, SingleInv, Synced \/ Restarted
  PROVE  JobsFit'
<1>1. cache' = run /\ UNCHANGED <<run, jobs>> /\ (jobCache' = jobCache \/ jobCache' = jobs)
  BY DEF Synced, Restarted
<1> QED
  BY <1>1
     DEF SingleInv, JobsFit, OnlyCur, CreationFits, EndsAreReal, RepoWaitIdle, UnapprovedIdle,
         OneJobAtATime, UnderWay

LEMMA FinishFits ==
  ASSUME IInv, SingleInv, NEW j \in Jobs, JobFinishes(j)
  PROVE  JobsFit'
<1>1. PICK o \in Ended : jobs' = [jobs EXCEPT ![j] = o]
  BY DEF JobFinishes, Ended
<1>2. UNCHANGED <<run, cache, jobCache>> /\ jobs \in [Jobs -> JobStates]
  BY Parts DEF JobFinishes, RestOK
<1>3. \A k \in Jobs : jobs'[k] = jobs[k] \/ jobs'[k] \in Ended
  BY <1>1, <1>2
<1>4. \A k \in Jobs : (jobs[k] \in Ended => jobs'[k] \in Ended)
                      /\ (jobs'[k] = "active" => jobs[k] = "active")
  BY <1>3 DEF Ended
<1>5. /\ cache.phase = "Running" => CurJob(cache) \in Jobs
      /\ run.phase \in UnderWay => CurJob(run) \in Jobs
  BY Parts, CurJobType DEF RunOK, UnderWay, Jobs
<1>6. StepJobs \subseteq Jobs
  BY DEF Jobs
<1>7. OnlyCur(run, jobs') /\ OnlyCur(cache, jobs') /\ OneJobAtATime' /\ EndsAreReal'
  BY <1>2, <1>4, <1>6 DEF SingleInv, JobsFit, OnlyCur, OneJobAtATime, EndsAreReal
<1>8. CreationFits' /\ RepoWaitIdle' /\ UnapprovedIdle'
  BY <1>2, <1>4, <1>5
     DEF SingleInv, JobsFit, CreationFits, RepoWaitIdle, RepoWait, UnapprovedIdle, UnderWay
<1> QED  BY <1>2, <1>7, <1>8 DEF JobsFit

LEMMA SyncJobFits ==
  ASSUME IInv, SingleInv, NEW j \in Jobs, SyncJob(j)
  PROVE  JobsFit'
<1>1. UNCHANGED <<run, cache, jobs>> /\ jobCache' = [jobCache EXCEPT ![j] = jobs[j]]
  BY DEF SyncJob
<1>2. \A k \in StepJobs : jobCache'[k] = jobCache[k] \/ jobCache'[k] = jobs[k]
  BY <1>1, Parts DEF RestOK, Jobs
<1>3. EndsAreReal'
  BY <1>1, <1>2 DEF SingleInv, JobsFit, EndsAreReal
<1> QED
  BY <1>1, <1>3
     DEF SingleInv, JobsFit, OnlyCur, CreationFits, RepoWaitIdle, UnapprovedIdle, OneJobAtATime

LEMMA SingleStep ==
  ASSUME IInv, SingleInv, [Next]_vars, "stop" \notin Ops
  PROVE  SingleInv'
<1>1. Effect /\ IInv'
  BY NextEffect, NextInv
<1>2. NoStop' /\ PassFits' /\ PhasesFit'
  BY NoStopStep, PassFitsStep, PhasesStep DEF SingleInv
<1>3. ASSUME Untouched PROVE JobsFit'
  <2>1. UNCHANGED <<run, cache, jobCache>> /\ \A j \in StepJobs : jobs'[j] = jobs[j]
    BY <1>3 DEF Untouched, StepJobsKept
  <2>2. /\ cache.phase = "Running" => CurJob(cache) \in StepJobs
        /\ run.phase \in UnderWay => CurJob(run) \in StepJobs
    BY Parts, CurJobType DEF RunOK, UnderWay
  <2>3. OnlyCur(run, jobs') /\ OnlyCur(cache, jobs') /\ OneJobAtATime' /\ EndsAreReal'
    BY <2>1 DEF SingleInv, JobsFit, OnlyCur, OneJobAtATime, EndsAreReal
  <2>4. CreationFits' /\ RepoWaitIdle' /\ UnapprovedIdle'
    BY <2>1, <2>2
       DEF SingleInv, JobsFit, CreationFits, RepoWaitIdle, RepoWait, UnapprovedIdle, UnderWay
  <2> QED  BY <2>1, <2>3, <2>4 DEF JobsFit
<1>4. ASSUME Written PROVE JobsFit'
  <2>1. CASE Hold
    BY <1>4, <2>1, HoldFits
  <2>2. CASE End
    BY <1>4, <2>2, EndFits
  <2>3. CASE Begin \/ Pass \/ AskRepo \/ JumpBack \/ Choose
    BY <1>1, <1>4, <2>3, IdleWriteFits
  <2> QED  BY <1>4, <2>1, <2>2, <2>3 DEF Written
<1> QED
  BY <1>1, <1>2, <1>3, <1>4, LaunchFits, KillFits, SyncFits, FinishFits, SyncJobFits
     DEF Effect, SingleInv

LEMMA SingleInit == Init => SingleInv
<1>1. \A skip : NewRun(skip).phase = "Pending" /\ NewRun(skip).cur = 0
  BY DEF NewRun
<1>2. Init => run.phase = "Pending" /\ run.cur = 0 /\ cache = run
  BY <1>1 DEF Init
<1>3. Init => NoStop /\ PassFits
  <2>1. Init => req = [q \in Requests |-> [pc |-> "new", kill |-> {}]] /\ fresh = {"cache"}
    BY DEF Init
  <2> QED  BY <2>1 DEF NoStop, PassFits
<1>4. Init => PhasesFit
  BY <1>2 DEF Init, PhasesFit, Live, UnderWay, Leaving
<1>5. Init => JobsFit
  BY <1>2
     DEF Init, JobsFit, OnlyCur, CreationFits, EndsAreReal, RepoWaitIdle, RepoWait, UnapprovedIdle,
         OneJobAtATime, Jobs, Ended, UnderWay
<1> QED  BY <1>3, <1>4, <1>5 DEF SingleInv

\* While nobody stops the run, no two Jobs of its steps ever work in the shared
\* volume at once (reconcileRunning creates only the current step's Job).
THEOREM OneJobAtOnce == ASSUME "stop" \notin Ops PROVE Spec => []OneJobAtATime
<1>1. SingleInv => OneJobAtATime
  BY DEF SingleInv, JobsFit
<1>2. IInv /\ SingleInv /\ [Next]_vars => IInv' /\ SingleInv'
  BY NextInv, SingleStep
<1>3. Init => IInv /\ SingleInv
  BY InitInv, SingleInit
<1> QED  BY <1>1, <1>2, <1>3, PTL DEF Spec

-----------------------------------------------------------------------------
(* The lifecycle.                                                          *)

Working == IF ActiveSteps = {} THEN 0 ELSE CHOOSE s \in ActiveSteps : TRUE

PassedSteps == {s \in Steps : \E a \in Attempts : <<s, a>> \in completed}

LEMMA WorkingIdle == ASSUME NoneActive PROVE ActiveSteps = {} /\ Working = 0
BY DEF NoneActive, ActiveSteps, Working, StepJobs

LEMMA WorkingOne ==
  ASSUME OneJobAtATime, NEW j \in StepJobs, jobs[j] = "active"
  PROVE  ActiveSteps = {j[1]} /\ Working = j[1]
<1>1. j = <<j[1], j[2]>> /\ j[1] \in Steps /\ j[2] \in Attempts
  BY DEF StepJobs
<1>2. j[1] \in ActiveSteps
  BY <1>1 DEF ActiveSteps
<1>3. ASSUME NEW s \in ActiveSteps PROVE s = j[1]
  <2>1. PICK a \in Attempts : jobs[<<s, a>>] = "active"
    BY DEF ActiveSteps
  <2>2. <<s, a>> = j
    BY <2>1 DEF OneJobAtATime, StepJobs, ActiveSteps
  <2> QED  BY <1>1, <2>2
<1>4. ActiveSteps = {j[1]}
  BY <1>2, <1>3
<1> QED  BY <1>4 DEF Working

\* The lifecycle sees nothing of a step that leaves the Jobs of steps alone.
LEMMA WorkingKept ==
  ASSUME \A j \in StepJobs : jobs'[j] = jobs[j] PROVE Working' = Working
<1>1. ActiveSteps' = ActiveSteps
  BY DEF ActiveSteps, StepJobs
<1> QED  BY <1>1 DEF Working

LEMMA HoldRefines ==
  ASSUME IInv, SingleInv, Written, Hold
  PROVE  [Lifecycle!Next]_(Lifecycle!vars)
<1>1. Working' = Working /\ PassedSteps' = PassedSteps
  BY WorkingKept DEF Written, StepJobsKept, PassedSteps
<1>2. run'.cur = run.cur /\ run.phase \in UnderWay /\ run'.phase \in UnderWay
  BY DEF Hold, SameAttempts
<1>3. CASE run'.phase = run.phase
  BY <1>1, <1>2, <1>3 DEF Lifecycle!vars, Working, PassedSteps
<1>4. CASE run.phase = "Running" /\ run'.phase = "WaitingForInput"
  <2>1. Unapproved(run)
    BY <1>4 DEF Hold, SingleInv, PassFits
  <2>2. NoneActive
    BY <1>2, <2>1 DEF SingleInv, JobsFit, OnlyCur, UnapprovedIdle, Live, NoneActive
  <2>3. Working = 0
    BY <2>2, WorkingIdle
  <2>4. Lifecycle!Wait
    BY <1>1, <1>2, <1>4, <2>3 DEF Lifecycle!Wait, Lifecycle!MoveTo, Working, PassedSteps
  <2> QED  BY <2>4 DEF Lifecycle!Next
<1>5. CASE run.phase = "WaitingForInput" /\ run'.phase = "Running"
  <2>1. Lifecycle!Resume
    BY <1>1, <1>2, <1>5 DEF Lifecycle!Resume, Lifecycle!MoveTo, Working, PassedSteps
  <2> QED  BY <2>1 DEF Lifecycle!Next
<1> QED  BY <1>2, <1>3, <1>4, <1>5 DEF UnderWay

LEMMA IdleWriteRefines ==
  ASSUME IInv, OrderInv, SingleInv, Written, Begin \/ Pass \/ AskRepo \/ JumpBack \/ Choose,
         BackwardRetries
  PROVE  Lifecycle!Next
<1>1. Working' = Working /\ PassedSteps' = PassedSteps /\ Working = 0
  BY WorkingKept, IdleWrite, WorkingIdle DEF Written, StepJobsKept, PassedSteps
<1>2. CASE Begin
  <2>1. Lifecycle!Start
    BY <1>1, <1>2 DEF Begin, Lifecycle!Start, Lifecycle!MoveTo, Working, PassedSteps
  <2> QED  BY <2>1 DEF Lifecycle!Next
<1>3. CASE Pass \/ AskRepo \/ JumpBack \/ Choose
  <2>1. run \in Run /\ run.phase \in UnderWay /\ run.cur \in Steps
    BY <1>3, Parts DEF Pass, AskRepo, JumpBack, Choose, CurEnded, RepoWait, RunOK, CurOK, UnderWay
  <2>2. StepDone(run) \in Run /\ StepDone(run).phase = run.phase /\ StepDone(run).cur = run.cur
    BY <2>1, StepDoneType
  <2>3. ASSUME run.cur \in PassedSteps,
               \/ run.cur = N /\ run'.phase = "Succeeded" /\ run'.cur \in {0, N}
               \/ run.cur < N /\ run'.phase = "Running" /\ run'.cur = run.cur + 1
        PROVE  Lifecycle!Pass
    BY <1>1, <2>1, <2>3
       DEF Lifecycle!Pass, Lifecycle!MoveTo, Working, PassedSteps, UnderWay
  <2>4. CASE Pass
    <3>1. CurJob(run) \in StepJobs /\ jobCache[CurJob(run)] = "succeeded"
      BY <2>1, <2>4, AttemptType DEF Pass, CurEnded, CurJob, StepJobs
    <3>2. CurJob(run) \in completed
      BY <3>1 DEF OrderInv, SuccessReal
    <3>3. run.cur \in PassedSteps
      BY <2>1, <3>2, AttemptType DEF CurJob, PassedSteps
    <3>4. run.phase = "Running"
      BY <2>4 DEF Pass, CurEnded
    <3>5. \/ run.cur = N /\ run'.phase = "Succeeded" /\ run'.cur = 0
          \/ run.cur < N /\ run'.phase = "Running" /\ run'.cur = run.cur + 1
      BY <2>1, <2>2, <2>4, <3>4, AdvancedShape DEF Pass
    <3>6. Lifecycle!Pass
      BY <2>3, <3>3, <3>5
    <3> QED  BY <3>6 DEF Lifecycle!Next
  <2>5. CASE AskRepo
    <3>1. run.phase = "Running" /\ run'.phase = "WaitingForInput" /\ run'.cur = run.cur
      BY <2>2, <2>5 DEF AskRepo, CurEnded, Run
    <3>2. Lifecycle!Wait
      BY <1>1, <3>1 DEF Lifecycle!Wait, Lifecycle!MoveTo, Working, PassedSteps
    <3> QED  BY <3>2 DEF Lifecycle!Next
  <2>6. CASE JumpBack
    <3>1. /\ run.phase = "Running" /\ run'.phase = "Running"
          /\ run'.cur \in Steps /\ run'.cur <= run.cur
      BY <2>1, <2>6, JumpedBackType, JumpedBackShape DEF JumpBack, CurEnded
    <3>2. run'.cur \in 1 .. run.cur
      BY <2>1, <3>1 DEF Steps
    <3>3. Lifecycle!JumpBack
      BY <1>1, <3>1, <3>2 DEF Lifecycle!JumpBack, Lifecycle!MoveTo, Working, PassedSteps
    <3> QED  BY <3>3 DEF Lifecycle!Next
  <2>7. CASE Choose
    <3>1. RepoWait(run) /\ <<run.cur, AttemptOf(run, run.cur)>> \in completed
      BY <2>7 DEF Choose, OrderInv, Progress, Passed
    <3>2. run.cur \in PassedSteps
      BY <2>1, <3>1, AttemptType DEF PassedSteps
    <3>3. \/ run.cur = N /\ run'.phase = "Succeeded" /\ run'.cur = run.cur
          \/ run.cur < N /\ run'.phase = "Running" /\ run'.cur = run.cur + 1
      BY <2>1, <2>7, RepoChosenShape DEF Choose
    <3>4. Lifecycle!Pass
      BY <2>3, <3>2, <3>3
    <3> QED  BY <3>4 DEF Lifecycle!Next
  <2> QED  BY <1>3, <2>4, <2>5, <2>6, <2>7
<1> QED  BY <1>2, <1>3

LEMMA EndRefines ==
  ASSUME IInv, SingleInv, Written, End
  PROVE  [Lifecycle!Next]_(Lifecycle!vars)
<1>1. Working' = Working /\ PassedSteps' = PassedSteps /\ run'.cur = run.cur
  BY WorkingKept DEF Written, StepJobsKept, PassedSteps, End, SameAttempts
<1>2. CASE run.phase = "Pending" /\ run'.phase = "Stopped"
  <2>1. Lifecycle!Skip
    BY <1>1, <1>2 DEF Lifecycle!Skip, Lifecycle!MoveTo, Working, PassedSteps
  <2> QED  BY <2>1 DEF Lifecycle!Next
<1>3. CASE run.phase = "Running" /\ run'.phase = "Failed"
  <2>1. Lifecycle!Fail
    BY <1>1, <1>3 DEF Lifecycle!Fail, Lifecycle!MoveTo, Working, PassedSteps
  <2> QED  BY <2>1 DEF Lifecycle!Next
<1>4. CASE run.phase # "Gone" /\ run'.phase = "Deleting"
  <2>1. Lifecycle!Delete
    BY <1>1, <1>4 DEF Lifecycle!Delete, Lifecycle!MoveTo, Working, PassedSteps
  <2> QED  BY <2>1 DEF Lifecycle!Next
<1>5. CASE run.phase = "Deleting" /\ run'.phase = "Gone"
  <2>1. Lifecycle!Remove
    BY <1>1, <1>5 DEF Lifecycle!Remove, Lifecycle!MoveTo, Working, PassedSteps
  <2> QED  BY <2>1 DEF Lifecycle!Next
<1>6. CASE run.phase = run'.phase
  BY <1>1, <1>6 DEF Lifecycle!vars, Working, PassedSteps
<1>7. rec = "delete" => run.phase \in {"Deleting", "Gone"}
  BY DEF SingleInv, PhasesFit, Leaving
<1>8. \A q \in Requests : req[q].pc # "stop"
  BY DEF SingleInv, NoStop
<1> QED  BY <1>2, <1>3, <1>4, <1>5, <1>6, <1>7, <1>8 DEF End

LEMMA LaunchRefines ==
  ASSUME IInv, SingleInv, Launched
  PROVE  Lifecycle!Next
<1> DEFINE j == CurJob(cache)
<1>1. /\ UNCHANGED <<run, completed>> /\ jobs[j] = "none"
      /\ jobs' = [jobs EXCEPT ![j] = "active"]
      /\ cache.phase = "Running" /\ ~ Unapproved(cache)
  BY DEF Launched
<1>2. j \in StepJobs /\ jobs \in [Jobs -> JobStates] /\ j[1] = cache.cur
  BY <1>1, Parts, CurJobType DEF RunOK, RestOK
<1>3. \A k \in StepJobs : k # j => jobs'[k] = jobs[k] /\ jobs[k] # "active"
  BY <1>1, <1>2 DEF SingleInv, JobsFit, OnlyCur, Live, UnderWay, Jobs
<1>4. NoneActive
  BY <1>1, <1>3 DEF NoneActive
<1>5. /\ CurJob(run) = j /\ run.phase \in {"Running", "Failed", "Deleting"}
  BY <1>1 DEF SingleInv, JobsFit, CreationFits, Ended, UnderWay
<1>6. run.cur = j[1]
  BY <1>5 DEF CurJob
<1> HIDE DEF j
<1>7. Working = 0
  BY <1>4, WorkingIdle
<1>8. j[1] \in Steps /\ Working' = j[1]
  <2>1. jobs'[j] = "active" /\ OneJobAtATime'
    BY <1>1, <1>2, <1>3 DEF OneJobAtATime, Jobs
  <2>2. j = <<j[1], j[2]>> /\ j[1] \in Steps /\ j[2] \in Attempts
    BY <1>2 DEF StepJobs
  <2>3. j[1] \in ActiveSteps'
    BY <2>1, <2>2 DEF ActiveSteps
  <2>4. ASSUME NEW s \in ActiveSteps' PROVE s = j[1]
    <3>1. s \in Steps /\ \E a \in Attempts : jobs'[<<s, a>>] = "active"
      BY DEF ActiveSteps
    <3>2. PICK a \in Attempts : jobs'[<<s, a>>] = "active"
      BY <3>1
    <3>3. <<s, a>> \in StepJobs
      BY <3>1 DEF StepJobs
    <3>4. <<s, a>> = j
      BY <1>3, <3>2, <3>3
    <3> QED  BY <2>2, <3>4
  <2>5. ActiveSteps' = {j[1]}
    BY <2>3, <2>4
  <2> QED  BY <2>2, <2>5 DEF Working
<1>9. Lifecycle!Launch
  BY <1>1, <1>5, <1>6, <1>7, <1>8
     DEF Lifecycle!Launch, Lifecycle!Steps, Steps, Working, PassedSteps
<1> QED  BY <1>9 DEF Lifecycle!Next

LEMMA KillRefines ==
  ASSUME IInv, SingleInv, Killed
  PROVE  [Lifecycle!Next]_(Lifecycle!vars)
<1>1. /\ UNCHANGED <<run, completed>>
      /\ \A j \in StepJobs : jobs'[j] \in {"none", jobs[j]}
  BY DEF Killed
<1>2. run.phase \in {"Deleting", "Gone"}
  BY DEF Killed, SingleInv, NoStop, PhasesFit, Leaving
<1>3. CASE \A j \in StepJobs : jobs'[j] # "active"
  <2>1. ActiveSteps' = {}
    BY <1>3 DEF ActiveSteps, StepJobs
  <2>2. Working' = 0
    BY <2>1 DEF Working
  <2>3. Lifecycle!Clean
    BY <1>1, <1>2, <2>2 DEF Lifecycle!Clean, Working, PassedSteps
  <2> QED  BY <2>3 DEF Lifecycle!Next
<1>4. ASSUME NEW j \in StepJobs, jobs'[j] = "active"
      PROVE  UNCHANGED Lifecycle!vars
  <2>1. jobs[j] = "active"
    BY <1>1, <1>4
  <2>2. \A k \in StepJobs : jobs[k] = "active" => k = j
    BY <2>1 DEF SingleInv, JobsFit, OneJobAtATime
  <2>3. \A k \in StepJobs : jobs'[k] = "active" <=> jobs[k] = "active"
    BY <1>1, <1>4, <2>1, <2>2
  <2>4. ActiveSteps' = ActiveSteps
    BY <2>3 DEF ActiveSteps, StepJobs
  <2> QED  BY <1>1, <2>4 DEF Lifecycle!vars
<1> QED  BY <1>3, <1>4

LEMMA FinishRefines ==
  ASSUME IInv, SingleInv, NEW j \in Jobs, JobFinishes(j)
  PROVE  [Lifecycle!Next]_(Lifecycle!vars)
<1>1. PICK o \in Ended : /\ jobs' = [jobs EXCEPT ![j] = o]
                         /\ completed' = IF o = "succeeded" THEN completed \cup {j} ELSE completed
  BY DEF JobFinishes, Ended
<1>2. run' = run /\ jobs[j] = "active" /\ jobs \in [Jobs -> JobStates]
  BY Parts DEF JobFinishes, RestOK
<1>3. CASE j = DiffJob
  <2>1. \A k \in StepJobs : jobs'[k] = jobs[k]
    BY <1>1, <1>2, <1>3, DiffIsNoStepJob DEF Jobs
  <2>2. Working' = Working
    BY <2>1, WorkingKept
  <2>3. \A s \in Steps, a \in Attempts : <<s, a>> \in completed' <=> <<s, a>> \in completed
    BY <1>1, <1>3, DiffIsNoStepJob DEF StepJobs
  <2>4. PassedSteps' = PassedSteps
    BY <2>3 DEF PassedSteps
  <2> QED  BY <1>2, <2>2, <2>4 DEF Lifecycle!vars, Working, PassedSteps
<1>4. CASE j \in StepJobs
  <2>1. Working = j[1] /\ j = <<j[1], j[2]>> /\ j[1] \in Steps /\ j[2] \in Attempts
    BY <1>2, <1>4, WorkingOne DEF SingleInv, JobsFit, StepJobs
  <2>2. \A k \in StepJobs : jobs'[k] # "active"
    BY <1>1, <1>2, <1>4 DEF SingleInv, JobsFit, OneJobAtATime, Ended, Jobs
  <2>3. ActiveSteps' = {}
    BY <2>2 DEF ActiveSteps, StepJobs
  <2>4. Working' = 0 /\ Working # 0
    <3>1. \A s \in Steps : s # 0
      BY DEF Steps
    <3>2. Working # 0
      BY <2>1, <3>1
    <3> QED  BY <2>3, <3>2 DEF Working
  <2>5. PassedSteps' = PassedSteps \/ PassedSteps' = PassedSteps \cup {Working}
    <3>1. CASE completed' = completed
      BY <3>1 DEF PassedSteps
    <3>2. CASE completed' = completed \cup {j}
      <4>1. \A s \in Steps, a \in Attempts :
              <<s, a>> \in completed' <=> <<s, a>> \in completed \/ (s = j[1] /\ a = j[2])
        BY <2>1, <3>2
      <4>2. PassedSteps' = PassedSteps \cup {j[1]}
        BY <2>1, <4>1 DEF PassedSteps
      <4> QED  BY <2>1, <4>2
    <3> QED  BY <1>1, <3>1, <3>2
  <2>6. Lifecycle!Finish
    BY <1>2, <2>4, <2>5 DEF Lifecycle!Finish, Working, PassedSteps
  <2> QED  BY <2>6 DEF Lifecycle!Next
<1> QED  BY <1>3, <1>4 DEF Jobs

LEMMA LifecycleStep ==
  ASSUME IInv, OrderInv, SingleInv, [Next]_vars, BackwardRetries
  PROVE  [Lifecycle!Next]_(Lifecycle!vars)
<1>1. Effect
  BY NextEffect
<1>2. CASE Untouched
  <2>1. Working' = Working /\ PassedSteps' = PassedSteps
    BY <1>2, WorkingKept DEF Untouched, StepJobsKept, PassedSteps
  <2> QED  BY <1>2, <2>1 DEF Untouched, Lifecycle!vars, Working, PassedSteps
<1>3. CASE Synced \/ Restarted \/ \E j \in Jobs : SyncJob(j)
  <2>1. UNCHANGED <<run, jobs, completed>>
    BY <1>3 DEF Synced, Restarted, SyncJob, aux
  <2>2. Working' = Working /\ PassedSteps' = PassedSteps
    BY <2>1, WorkingKept DEF PassedSteps
  <2> QED  BY <2>1, <2>2 DEF Lifecycle!vars, Working, PassedSteps
<1>4. CASE Written
  BY <1>4, HoldRefines, EndRefines, IdleWriteRefines DEF Written
<1>5. CASE Launched \/ Killed
  BY <1>5, LaunchRefines, KillRefines
<1>6. CASE \E j \in Jobs : JobFinishes(j)
  BY <1>6, FinishRefines
<1> QED  BY <1>1, <1>2, <1>3, <1>4, <1>5, <1>6 DEF Effect

LEMMA LifecycleInit == Init => Lifecycle!Init
<1>1. \A skip : NewRun(skip).phase = "Pending" /\ NewRun(skip).cur = 0
  BY DEF NewRun
<1>2. Init => run.phase = "Pending" /\ run.cur = 0
  BY <1>1 DEF Init
<1>3. Init => completed = {} /\ jobs = [j \in Jobs |-> "none"]
  BY DEF Init
<1>4. Init => Working = 0 /\ PassedSteps = {}
  <2>1. Init => NoneActive
    BY <1>3 DEF NoneActive, Jobs
  <2>2. Init => PassedSteps = {}
    BY <1>3 DEF PassedSteps
  <2> QED  BY <2>1, <2>2, WorkingIdle
<1> QED  BY <1>2, <1>4 DEF Lifecycle!Init, Working, PassedSteps

\* A run that nobody stops is a RunLifecycle: through caches, versions, Jobs by
\* attempt and requests in flight it moves only as that module allows.
THEOREM RunIsLifecycle ==
  ASSUME "stop" \notin Ops, BackwardRetries PROVE Spec => ImplementsLifecycle
<1>1. IInv /\ OrderInv /\ SingleInv /\ [Next]_vars =>
        /\ IInv' /\ OrderInv' /\ SingleInv'
        /\ [Lifecycle!Next]_(Lifecycle!vars)
  BY NextInv, OrderStep, SingleStep, LifecycleStep
<1>2. Init => IInv /\ OrderInv /\ SingleInv /\ Lifecycle!Init
  BY InitInv, OrderInit, SingleInit, LifecycleInit
<1> QED  BY <1>1, <1>2, PTL DEF Spec, ImplementsLifecycle, Lifecycle!Spec

-----------------------------------------------------------------------------
(* What a RunLifecycle promises, for a run of its own with any number of steps. *)

VARIABLES phase, at, working, passed

Abstract == INSTANCE RunLifecycle

\* The steps before the current one have succeeded.
CurrentInOrder == 1 .. (at - 1) \subseteq passed

AbstractInv ==
  /\ Abstract!TypeOK /\ CurrentInOrder
  /\ Abstract!WorksInOrder /\ Abstract!SucceededMeansPassed

LEMMA Prefix ==
  ASSUME NEW a \in Int, NEW b \in Int, a <= b
  PROVE  1 .. (a - 1) \subseteq 1 .. (b - 1) /\ 1 .. (a - 1) \subseteq 1 .. b
OBVIOUS

LEMMA AbstractInit == Abstract!Init => AbstractInv
BY StepsAssumption
   DEF AbstractInv, CurrentInOrder, Abstract!Init, Abstract!TypeOK, Abstract!WorksInOrder,
       Abstract!SucceededMeansPassed, Abstract!Steps

\* Every step of the lifecycle preserves the invariant.
LEMMA AbstractNext ==
  ASSUME AbstractInv, [Abstract!Next]_(Abstract!vars)
  PROVE  AbstractInv'
<1> USE DEF AbstractInv, CurrentInOrder, Abstract!TypeOK, Abstract!WorksInOrder,
            Abstract!SucceededMeansPassed, Abstract!Steps, Abstract!Terminal, Abstract!MoveTo
<1>0. /\ Abstract!TypeOK
      /\ 1 .. (at - 1) \subseteq passed
      /\ working # 0 => 1 .. (working - 1) \subseteq passed
      /\ phase = "Succeeded" => passed = Abstract!Steps
      /\ N \in Nat \ {0}
  BY StepsAssumption
<1>t. at \in 0 .. N /\ passed \subseteq Abstract!Steps /\ working \in 0 .. N
  BY <1>0
<1>n. at \in Int /\ at <= N /\ N \in Int
  BY <1>0, <1>t
<1>2. CASE Abstract!Pass /\ at < N
  <2>1. at \in 1 .. N /\ at \in passed /\ at' = at + 1 /\ phase' = "Running"
        /\ passed' = passed /\ working' = working
    BY <1>2, <1>t, <1>n DEF Abstract!Pass
  <2>2. at' \in 0 .. N
    BY <2>1, <1>2, <1>n
  <2>3. \A s \in 1 .. at : s = at \/ s \in 1 .. (at - 1)
    BY <1>n
  <2>4. 1 .. at \subseteq passed /\ at' - 1 = at
    BY <1>0, <2>1, <2>3, <1>n
  <2> QED
    BY <1>0, <2>1, <2>2, <2>4
<1>3. CASE Abstract!Pass /\ ~(at < N)
  <2>1. at = N /\ N \in passed /\ at' \in {0, N} /\ phase' = "Succeeded"
        /\ passed' = passed /\ working' = working
    BY <1>3, <1>t, <1>n DEF Abstract!Pass
  <2>2. \A s \in 1 .. N : s = N \/ s \in 1 .. (N - 1)
    BY <1>n
  <2>3. passed = 1 .. N
    BY <1>0, <1>t, <2>1, <2>2
  <2>a. at' \in 0 .. N
    BY <2>1, <1>0
  <2>4. at' \in Int /\ at' <= N
    BY <2>a, <1>n
  <2>5. 1 .. (at' - 1) \subseteq 1 .. N
    BY <2>4, <1>n, Prefix
  <2> QED
    BY <1>0, <2>1, <2>3, <2>a, <2>5
<1>4. CASE Abstract!JumpBack
  <2>1. at' \in 1 .. at /\ phase' = "Running" /\ passed' = passed /\ working' = working
    BY <1>4 DEF Abstract!JumpBack
  <2>a. at' \in Int /\ at' <= at /\ at' \in 0 .. N
    BY <2>1, <1>n
  <2>3. 1 .. (at' - 1) \subseteq 1 .. (at - 1)
    BY <2>a, <1>n, Prefix
  <2> QED
    BY <1>0, <2>1, <2>a, <2>3
<1>5. CASE Abstract!Skip
  BY <1>0, <1>t, <1>5 DEF Abstract!Skip
<1>6. CASE Abstract!Start
  <2>1. phase' = "Running" /\ at' = 1 /\ passed' = passed /\ working' = working
    BY <1>6 DEF Abstract!Start
  <2>2. at' \in 0 .. N /\ 1 .. (at' - 1) \subseteq passed
    BY <2>1, <1>0
  <2> QED
    BY <1>0, <2>1, <2>2
<1>7. CASE Abstract!Launch
  BY <1>0, <1>t, <1>7 DEF Abstract!Launch
<1>8. CASE Abstract!Finish
  <2>1. /\ working \in Abstract!Steps /\ working' = 0 /\ at' = at /\ phase' = phase
        /\ passed' = passed \/ passed' = passed \cup {working}
    BY <1>8, <1>t DEF Abstract!Finish
  <2>2. passed \subseteq passed' /\ passed' \subseteq Abstract!Steps
    BY <2>1, <1>t
  <2>3. 1 .. (at - 1) \subseteq passed'
    BY <2>2, <1>0
  <2>4. phase = "Succeeded" => passed' = Abstract!Steps
    BY <2>2, <1>0
  <2> QED
    BY <1>0, <2>1, <2>2, <2>3, <2>4
<1>9. CASE Abstract!Wait
  BY <1>0, <1>t, <1>9 DEF Abstract!Wait
<1>10. CASE Abstract!Resume
  BY <1>0, <1>t, <1>10 DEF Abstract!Resume
<1>11. CASE Abstract!Fail
  BY <1>0, <1>t, <1>11 DEF Abstract!Fail
<1>12. CASE Abstract!Delete
  BY <1>0, <1>t, <1>12 DEF Abstract!Delete
<1>13. CASE Abstract!Clean
  BY <1>0, <1>t, <1>13 DEF Abstract!Clean
<1>14. CASE Abstract!Remove
  BY <1>0, <1>t, <1>14 DEF Abstract!Remove
<1>15. CASE UNCHANGED Abstract!vars
  BY <1>0, <1>15 DEF Abstract!vars
<1> QED
  BY <1>2, <1>3, <1>4, <1>5, <1>6, <1>7, <1>8, <1>9, <1>10, <1>11, <1>12, <1>13,
     <1>14, <1>15 DEF Abstract!Next

\* A step works only after each earlier one has succeeded, in a run of any
\* number of steps (the order that reconcileRunning keeps by CurrentStep).
THEOREM LifecycleWorksInOrder ==
  Abstract!Spec => []Abstract!WorksInOrder
<1>1. AbstractInv => Abstract!WorksInOrder
  BY DEF AbstractInv
<1> QED
  BY AbstractInit, AbstractNext, <1>1, PTL DEF Abstract!Spec

\* A run that ended Succeeded has passed all its steps.
THEOREM LifecycleSucceededMeansPassed ==
  Abstract!Spec => []Abstract!SucceededMeansPassed
<1>1. AbstractInv => Abstract!SucceededMeansPassed
  BY DEF AbstractInv
<1> QED
  BY AbstractInit, AbstractNext, <1>1, PTL DEF Abstract!Spec

=============================================================================
