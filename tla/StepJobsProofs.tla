---------------------------- MODULE StepJobsProofs ----------------------------
(***************************************************************************)
(* Proofs about StepJobs for every pipeline and any number of faults: its  *)
(* types; that a checkout recovers from whatever a dead pod has left, and  *)
(* leaves nothing of it; that success leaves nothing uncommitted; that the *)
(* fork only grows; and that tests which guard the pushes let nothing      *)
(* untested through.                                                       *)
(***************************************************************************)
EXTENDS StepJobs, SequenceTheorems, TLAPS

CheckoutTypes == {"git-checkout", "git-checkout-pr"}
CheckoutStatements == {"empty", "clone", "branch", "fetch"}
PushStatements == {"guard", "add", "commit", "push"}

\* The statements that a step's Job can be at.
ScriptOf ==
  [type \in StepTypes |->
     CASE type \in CheckoutTypes -> CheckoutStatements
       [] type = "triage"        -> {"claude", "cat"}
       [] type = "ai"            -> {"claude"}
       [] type = "shell"         -> {"commands"}
       [] type = "git-push"      -> PushStatements
       [] type = "watch-report"  -> {"cat"}]

\* Only the current Job of a run under way is active, and it is at a statement
\* of its own script.
Active ==
  /\ \A j \in StepJobs : jobs[j] \in Statements => j = CurJob /\ run.phase = "Running"
  /\ jobs[CurJob] \in Statements => jobs[CurJob] \in ScriptOf[Step.type]

\* A clone finds an empty volume, so only a fault fails a checkout.
Recovery ==
  /\ jobs[CurJob] = "clone" => vol.repo = "none"
  /\ \A j \in StepJobs :
       pipeline[j[1]].type \in CheckoutTypes /\ jobs[j] = "failed" => j \in faulted

IInv == TypeOK /\ Active /\ Recovery

-----------------------------------------------------------------------------
(* Types *)

LEMMA CurrentStep ==
  ASSUME TypeOK
  PROVE  /\ pipeline \in Seq(StepSpec) /\ DOMAIN pipeline = 1 .. Len(pipeline)
         /\ Len(pipeline) \in Nat
         /\ run.cur \in 1 .. Len(pipeline)
         /\ Step \in StepSpec
         /\ Attempt \in 1 .. MaxAttempt
         /\ CurJob \in StepJobs
         /\ Step.onFailure \in 0 .. Len(pipeline)
         /\ Retries(Step) \in Nat
         /\ Step.onFailure # 0 => Retries(Step) <= MaxAttempt
<1>1. pipeline \in Seq(StepSpec) /\ pipeline # <<>>
      /\ \A i \in DOMAIN pipeline :
            /\ pipeline[i].onFailure \in 0 .. Len(pipeline)
            /\ pipeline[i].onFailure # 0 => Retries(pipeline[i]) <= MaxAttempt
  BY PipelinesAssumption DEF TypeOK
<1>2. DOMAIN pipeline = 1 .. Len(pipeline) /\ Len(pipeline) \in Nat
  BY <1>1, LenProperties
<1>3. run.cur \in DOMAIN pipeline /\ run.attempt \in [DOMAIN pipeline -> 1 .. MaxAttempt]
  BY DEF TypeOK
<1>4. Step \in StepSpec
  BY <1>1, <1>2, <1>3, ElementOfSeq DEF Step
<1>5. Attempt \in 1 .. MaxAttempt
  BY <1>3 DEF Attempt
<1>6. CurJob \in StepJobs
  BY <1>3, <1>5 DEF CurJob, StepJobs
<1>7. Retries(Step) \in Nat
  BY <1>4 DEF StepSpec, Retries
<1>8. /\ Step.onFailure \in 0 .. Len(pipeline)
      /\ Step.onFailure # 0 => Retries(Step) <= MaxAttempt
  BY <1>1, <1>3 DEF Step
<1> QED
  BY <1>1, <1>2, <1>3, <1>4, <1>5, <1>6, <1>7, <1>8

\* The parts of TypeOK that no statement changes, and those of a Job.
LEMMA GotoTypes ==
  ASSUME TypeOK, NEW from, NEW to \in JobStates, Goto(from, to)
  PROVE  /\ pipeline' = pipeline /\ run' = run /\ StepJobs' = StepJobs
         /\ jobs' = [jobs EXCEPT ![CurJob] = to]
         /\ jobs' \in [StepJobs -> JobStates]
         /\ jobs'[CurJob] = to
         /\ jobs[CurJob] = from /\ run.phase = "Running"
         /\ CurJob' = CurJob /\ Step' = Step
<1>1. pipeline' = pipeline /\ run' = run /\ jobs' = [jobs EXCEPT ![CurJob] = to]
      /\ jobs[CurJob] = from /\ run.phase = "Running"
  BY DEF Goto, Running
<1>2. StepJobs' = StepJobs /\ CurJob' = CurJob /\ Step' = Step
  BY <1>1 DEF StepJobs, CurJob, Step, Attempt
<1>3. jobs \in [StepJobs -> JobStates] /\ CurJob \in StepJobs
  BY CurrentStep DEF TypeOK
<1> QED
  BY <1>1, <1>2, <1>3

LEMMA StatementTypes ==
  ASSUME TypeOK, NEW from, NEW to \in JobStates, Goto(from, to),
         vol' \in Volume, fork' \in Seq(Commits), faulted' \subseteq StepJobs
  PROVE  TypeOK'
BY GotoTypes DEF TypeOK

\* The end of a step, or its retry, is typed when the new place of the run is.
LEMMA RunTypes ==
  ASSUME TypeOK, pipeline' = pipeline, jobs' = jobs, vol' = vol, fork' = fork,
         faulted' = faulted,
         run' \in [phase : {"Running", "Succeeded", "Failed"}, cur : DOMAIN pipeline,
                   attempt : [DOMAIN pipeline -> 1 .. MaxAttempt]]
  PROVE  TypeOK' /\ StepJobs' = StepJobs
BY DEF TypeOK, StepJobs

LEMMA CommittedType ==
  ASSUME NEW v \in Volume, NEW h \in Heads
  PROVE  Committed(v, h) \in Versions
<1>1. v.log[h] \in Seq(Commits)
  BY DEF Volume
<1>2. CASE v.log[h] # <<>>
  <2>1. Last(v.log[h]) \in Commits
    BY <1>1, <1>2, LenProperties, ElementOfSeq, EmptySeq DEF Last
  <2> QED
    BY <1>2, <2>1 DEF Committed, Commits
<1>3. CASE v.log[h] = <<>>
  BY <1>3, BoundsAssumption DEF Committed, Versions
<1> QED
  BY <1>2, <1>3

LEMMA WithCommitType ==
  ASSUME NEW v \in Volume
  PROVE  WithCommit(v) \in Volume /\ WithCommit(v).repo = v.repo
<1>1. v.head \in Heads /\ v.log \in [Heads -> Seq(Commits)]
      /\ [tree |-> v.tree, clone |-> v.clone] \in Commits
  BY DEF Volume, Commits
<1>2. Append(v.log[v.head], [tree |-> v.tree, clone |-> v.clone]) \in Seq(Commits)
  BY <1>1, AppendProperties
<1> DEFINE log == [v.log EXCEPT ![v.head] =
                     Append(@, [tree |-> v.tree, clone |-> v.clone])]
<1>3. log \in [Heads -> Seq(Commits)]
  BY <1>1, <1>2
<1>4. WithCommit(v) = [v EXCEPT !.log = log]
  BY DEF WithCommit, Volume
<1> HIDE DEF log
<1> QED
  BY <1>3, <1>4 DEF Volume

LEMMA VolumeUpdates ==
  ASSUME NEW v \in Volume
  PROVE  /\ \A r \in {"none", "partial", "whole"} : [v EXCEPT !.repo = r] \in Volume
         /\ \A h \in Heads : [v EXCEPT !.head = h] \in Volume
         /\ \A c \in 0 .. MaxAttempt : [v EXCEPT !.clone = c] \in Volume
         /\ \A t \in Versions : [v EXCEPT !.tree = t] \in Volume
         /\ \A f \in SUBSET Files : [v EXCEPT !.files = f] \in Volume
BY DEF Volume

LEMMA EmptyVolumeType == EmptyVolume \in Volume /\ EmptyVolume.repo = "none"
<1>1. [h \in Heads |-> <<>>] \in [Heads -> Seq(Commits)]
  BY EmptySeq
<1> QED
  BY <1>1, BoundsAssumption DEF EmptyVolume, Volume, Heads, Versions

-----------------------------------------------------------------------------
(* What a step of each kind has to show *)

\* The statement of an active Job tells the type of its step.
LEMMA ScriptTells ==
  ASSUME IInv, jobs[CurJob] \in Statements
  PROVE  /\ Step.type \in StepTypes
         /\ jobs[CurJob] \in CheckoutStatements <=> Step.type \in CheckoutTypes
         /\ jobs[CurJob] \in PushStatements <=> Step.type = "git-push"
         /\ jobs[CurJob] = "claude" => Step.type \in {"ai", "triage"}
         /\ Step.type = "ai" => jobs[CurJob] = "claude"
<1>1. Step.type \in StepTypes
  BY CurrentStep DEF IInv, StepSpec
<1>2. jobs[CurJob] \in ScriptOf[Step.type]
  BY DEF IInv, Active
<1> QED
  BY <1>1, <1>2 DEF ScriptOf, StepTypes, CheckoutTypes, CheckoutStatements, PushStatements

LEMMA ScriptGoesOn ==
  ASSUME IInv
  PROVE  /\ jobs[CurJob] \in CheckoutStatements => CheckoutStatements \subseteq ScriptOf[Step.type]
         /\ jobs[CurJob] \in PushStatements => PushStatements \subseteq ScriptOf[Step.type]
         /\ Step.type = "ai" => "claude" \in ScriptOf[Step.type]
         /\ Step.type = "triage" => {"claude", "cat"} \subseteq ScriptOf[Step.type]
<1>1. jobs[CurJob] \in Statements => jobs[CurJob] \in ScriptOf[Step.type]
  BY DEF IInv, Active
<1>2. Step.type \in StepTypes
  BY CurrentStep DEF IInv, StepSpec
<1> QED
  BY <1>1, <1>2 DEF ScriptOf, StepTypes, CheckoutTypes, CheckoutStatements,
     PushStatements, Statements

\* A statement keeps the invariant when it leaves to a place of the same script
\* and does not spoil the volume for a clone; a failed checkout needs a fault.
LEMMA StatementInv ==
  ASSUME IInv, NEW from \in Statements, NEW to \in JobStates, Goto(from, to),
         vol' \in Volume, fork' \in Seq(Commits),
         faulted \subseteq faulted', faulted' \subseteq StepJobs,
         to \in Statements => to \in ScriptOf[Step.type],
         to = "clone" => vol'.repo = "none",
         to = "failed" /\ from \in CheckoutStatements => CurJob \in faulted'
  PROVE  IInv'
<1>1. TypeOK'
  BY StatementTypes DEF IInv
<1>2. /\ pipeline' = pipeline /\ run' = run /\ StepJobs' = StepJobs
      /\ jobs' = [jobs EXCEPT ![CurJob] = to] /\ jobs'[CurJob] = to
      /\ jobs[CurJob] = from /\ run.phase = "Running"
      /\ CurJob' = CurJob /\ Step' = Step
  BY GotoTypes DEF IInv
<1>3. jobs \in [StepJobs -> JobStates] /\ CurJob \in StepJobs /\ CurJob[1] = run.cur
  BY CurrentStep DEF IInv, TypeOK, CurJob
<1>4. \A j \in StepJobs : j # CurJob => jobs'[j] = jobs[j]
  BY <1>2, <1>3
<1>5. Active'
  BY <1>2, <1>4 DEF IInv, Active
<1>6. Step.type \in CheckoutTypes <=> from \in CheckoutStatements
  BY <1>2, ScriptTells
<1>7. Recovery'
  <2>1. ASSUME NEW j \in StepJobs', pipeline'[j[1]].type \in CheckoutTypes,
               jobs'[j] = "failed"
        PROVE  j \in faulted'
    <3>1. CASE j = CurJob
      <4>1. pipeline[j[1]] = Step
        BY <1>3, <3>1 DEF Step
      <4> QED
        BY <1>2, <1>6, <2>1, <3>1, <4>1
    <3>2. CASE j # CurJob
      BY <1>2, <1>4, <2>1, <3>2 DEF IInv, Recovery
    <3> QED
      BY <3>1, <3>2
  <2>2. jobs'[CurJob'] = "clone" => vol'.repo = "none"
    BY <1>2
  <2> QED
    BY <2>1, <2>2 DEF Recovery
<1> QED
  BY <1>1, <1>5, <1>7 DEF IInv

\* When the reconciler moves a run whose current Job has ended, no Job is active.
LEMMA MoveInv ==
  ASSUME IInv, jobs[CurJob] \notin Statements,
         pipeline' = pipeline, jobs' = jobs, vol' = vol, fork' = fork,
         faulted' = faulted,
         run' \in [phase : {"Running", "Succeeded", "Failed"}, cur : DOMAIN pipeline,
                   attempt : [DOMAIN pipeline -> 1 .. MaxAttempt]]
  PROVE  IInv'
<1>1. TypeOK' /\ StepJobs' = StepJobs
  BY RunTypes DEF IInv
<1>2. \A j \in StepJobs : jobs[j] \notin Statements
  BY DEF IInv, Active
<1>3. CurJob' \in StepJobs
  <2>1. run'.cur \in DOMAIN pipeline /\ run'.attempt[run'.cur] \in 1 .. MaxAttempt
    OBVIOUS
  <2> QED
    BY <2>1 DEF CurJob, Attempt, StepJobs
<1>4. Active'
  BY <1>1, <1>2, <1>3 DEF Active
<1>5. jobs'[CurJob'] # "clone"
  BY <1>2, <1>3 DEF Statements
<1>6. Recovery'
  BY <1>1, <1>5 DEF IInv, Recovery
<1> QED
  BY <1>1, <1>4, <1>6 DEF IInv

-----------------------------------------------------------------------------
(* The reconciler *)

LEMMA CreateJobInv == ASSUME IInv, CreateJob PROVE IInv'
<1>1. /\ jobs[CurJob] = "none" /\ run.phase = "Running"
      /\ jobs' = [jobs EXCEPT ![CurJob] = FirstStatement[Step.type]]
      /\ pipeline' = pipeline /\ run' = run /\ vol' = vol /\ fork' = fork
      /\ faulted' = faulted
  BY DEF CreateJob, Running
<1>2. /\ jobs \in [StepJobs -> JobStates] /\ CurJob \in StepJobs
      /\ Step.type \in StepTypes /\ CurJob[1] = run.cur
  BY CurrentStep DEF IInv, TypeOK, StepSpec, CurJob
<1>3. /\ FirstStatement[Step.type] \in Statements \ {"clone"}
      /\ FirstStatement[Step.type] \in ScriptOf[Step.type]
  BY <1>2 DEF FirstStatement, StepTypes, Statements, ScriptOf, CheckoutStatements,
     CheckoutTypes, PushStatements
<1>4. StepJobs' = StepJobs /\ CurJob' = CurJob /\ Step' = Step
  BY <1>1 DEF StepJobs, CurJob, Step, Attempt
<1>5. jobs' \in [StepJobs -> JobStates] /\ jobs'[CurJob] = FirstStatement[Step.type]
      /\ \A j \in StepJobs : j # CurJob => jobs'[j] = jobs[j]
  BY <1>1, <1>2, <1>3 DEF JobStates
<1>6. TypeOK'
  BY <1>1, <1>4, <1>5 DEF IInv, TypeOK
<1>7. Active'
  BY <1>1, <1>3, <1>4, <1>5 DEF IInv, Active
<1>8. Recovery'
  BY <1>1, <1>3, <1>4, <1>5 DEF IInv, Recovery, Statements
<1> QED
  BY <1>6, <1>7, <1>8 DEF IInv

LEMMA StepSucceedsInv == ASSUME IInv, StepSucceeds PROVE IInv'
<1>1. /\ jobs[CurJob] = "succeeded"
      /\ pipeline' = pipeline /\ jobs' = jobs /\ vol' = vol /\ fork' = fork
      /\ faulted' = faulted
      /\ run' = IF run.cur = Len(pipeline) THEN [run EXCEPT !.phase = "Succeeded"]
                                           ELSE [run EXCEPT !.cur = run.cur + 1]
  BY DEF StepSucceeds, Running
<1>2. /\ run.cur \in 1 .. Len(pipeline) /\ Len(pipeline) \in Nat
      /\ DOMAIN pipeline = 1 .. Len(pipeline)
  BY CurrentStep DEF IInv
<1>3. run.cur # Len(pipeline) => run.cur + 1 \in DOMAIN pipeline
  BY <1>2
<1>4. run' \in [phase : {"Running", "Succeeded", "Failed"}, cur : DOMAIN pipeline,
                attempt : [DOMAIN pipeline -> 1 .. MaxAttempt]]
  BY <1>1, <1>3 DEF IInv, TypeOK
<1>5. jobs[CurJob] \notin Statements
  BY <1>1 DEF Statements
<1> QED
  BY <1>1, <1>4, <1>5, MoveInv

LEMMA StepRetriesInv == ASSUME IInv, StepRetries PROVE IInv'
<1>1. /\ jobs[CurJob] = "failed" /\ MayRetry /\ run' = JumpedBack
      /\ pipeline' = pipeline /\ jobs' = jobs /\ vol' = vol /\ fork' = fork
      /\ faulted' = faulted
  BY DEF StepRetries, Running
<1>2. Step.onFailure \in DOMAIN pipeline /\ Attempt + 1 \in 1 .. MaxAttempt
  <2>1. /\ DOMAIN pipeline = 1 .. Len(pipeline) /\ Len(pipeline) \in Nat
        /\ Attempt \in 1 .. MaxAttempt
        /\ Step.onFailure \in 0 .. Len(pipeline) /\ Retries(Step) \in Nat
        /\ Step.onFailure # 0 => Retries(Step) <= MaxAttempt
    BY CurrentStep DEF IInv
  <2>2. Step.onFailure # 0 /\ Attempt < Retries(Step)
    BY <1>1 DEF MayRetry
  <2> QED
    BY <2>1, <2>2, BoundsAssumption
<1> DEFINE attempt == [[run.attempt EXCEPT ![run.cur] = Attempt + 1]
                        EXCEPT ![Step.onFailure] = Attempt + 1]
<1>3. attempt \in [DOMAIN pipeline -> 1 .. MaxAttempt]
  BY <1>2 DEF IInv, TypeOK
<1>4. JumpedBack = [[run EXCEPT !.cur = Step.onFailure] EXCEPT !.attempt = attempt]
  BY DEF JumpedBack, IInv, TypeOK
<1> HIDE DEF attempt
<1>5. run' \in [phase : {"Running", "Succeeded", "Failed"}, cur : DOMAIN pipeline,
                attempt : [DOMAIN pipeline -> 1 .. MaxAttempt]]
  BY <1>1, <1>2, <1>3, <1>4 DEF IInv, TypeOK
<1>6. jobs[CurJob] \notin Statements
  BY <1>1 DEF Statements
<1> QED
  BY <1>1, <1>5, <1>6, MoveInv

LEMMA StepFailsInv == ASSUME IInv, StepFails PROVE IInv'
<1>1. /\ jobs[CurJob] \in {"failed", "none", "succeeded"} /\ run' = [run EXCEPT !.phase = "Failed"]
      /\ pipeline' = pipeline /\ jobs' = jobs /\ vol' = vol /\ fork' = fork
      /\ faulted' = faulted
  BY DEF StepFails, Running
<1>2. run' \in [phase : {"Running", "Succeeded", "Failed"}, cur : DOMAIN pipeline,
                attempt : [DOMAIN pipeline -> 1 .. MaxAttempt]]
  BY <1>1 DEF IInv, TypeOK
<1>3. jobs[CurJob] \notin Statements
  BY <1>1 DEF Statements
<1> QED
  BY <1>1, <1>2, <1>3, MoveInv

-----------------------------------------------------------------------------
(* The statements *)

\* What TypeOK says of the variables a statement may leave alone.
LEMMA OtherTypes ==
  ASSUME IInv
  PROVE  /\ vol \in Volume /\ fork \in Seq(Commits) /\ faulted \subseteq StepJobs
         /\ CurJob \in StepJobs /\ Attempt \in 0 .. MaxAttempt
BY CurrentStep, BoundsAssumption DEF IInv, TypeOK

LEMMA FaultTypes ==
  ASSUME IInv, Fault
  PROVE  /\ faulted \subseteq faulted' /\ faulted' \subseteq StepJobs
         /\ CurJob \in faulted'
BY OtherTypes DEF Fault

LEMMA EmptyInv == ASSUME IInv, Empty PROVE IInv'
<1>1. Goto("empty", "clone") /\ vol' = EmptyVolume /\ fork' = fork /\ faulted' = faulted
  BY DEF Empty, Emptied
<1>2. "clone" \in ScriptOf[Step.type]
  BY <1>1, ScriptGoesOn DEF Goto, Running, CheckoutStatements
<1> QED
  BY <1>1, <1>2, OtherTypes, EmptyVolumeType, StatementInv
     DEF Statements, JobStates, CheckoutStatements

\* The invariant gives git clone an empty volume, so it does not fail here.
LEMMA CloneInv == ASSUME IInv, Clone PROVE IInv'
<1>1. vol.repo = "none"
  BY DEF Clone, Goto, Running, IInv, Recovery
<1>2. /\ Goto("clone", AfterClone) /\ fork' = fork /\ faulted' = faulted
      /\ vol' = [vol EXCEPT !.repo = "whole", !.clone = Attempt]
  BY <1>1 DEF Clone
<1> DEFINE whole == [vol EXCEPT !.repo = "whole"]
<1>3. whole \in Volume
  BY OtherTypes, VolumeUpdates
<1>4. vol' = [whole EXCEPT !.clone = Attempt]
  BY <1>2
<1> HIDE DEF whole
<1>5. vol' \in Volume
  BY <1>3, <1>4, OtherTypes, VolumeUpdates
<1>6. AfterClone \in {"branch", "fetch"}
  BY DEF AfterClone
<1>7. AfterClone \in ScriptOf[Step.type]
  BY <1>2, <1>6, ScriptGoesOn DEF Goto, Running, CheckoutStatements
<1> QED
  BY <1>2, <1>5, <1>6, <1>7, OtherTypes, StatementInv
     DEF Statements, JobStates, CheckoutStatements

LEMMA BranchInv == ASSUME IInv, Branch PROVE IInv'
<1>1. /\ Goto("branch", "succeeded") /\ vol' = [vol EXCEPT !.head = "run"]
      /\ fork' = fork /\ faulted' = faulted
  BY DEF Branch
<1>2. vol' \in Volume
  BY <1>1, OtherTypes, VolumeUpdates DEF Heads
<1> QED
  BY <1>1, <1>2, OtherTypes, StatementInv DEF Statements, JobStates

LEMMA FetchInv == ASSUME IInv, Fetch PROVE IInv'
<1>1. /\ vol' = [vol EXCEPT !.head = "pull", !.tree = 1] /\ fork' = fork
      /\ \/ Goto("fetch", "succeeded") /\ faulted' = faulted
         \/ Goto("fetch", "failed") /\ faulted' = faulted \cup {CurJob}
  BY DEF Fetch
<1> DEFINE pulled == [vol EXCEPT !.head = "pull"]
<1>2. pulled \in Volume
  BY OtherTypes, VolumeUpdates DEF Heads
<1>3. vol' = [pulled EXCEPT !.tree = 1]
  BY <1>1
<1> HIDE DEF pulled
<1>4. 1 \in Versions
  BY BoundsAssumption DEF Versions
<1>5. vol' \in Volume
  BY <1>2, <1>3, <1>4, VolumeUpdates
<1>6. CASE Goto("fetch", "succeeded") /\ faulted' = faulted
  BY <1>1, <1>5, <1>6, OtherTypes, StatementInv DEF Statements, JobStates
<1>7. CASE Goto("fetch", "failed") /\ faulted' = faulted \cup {CurJob}
  <2>1. faulted \subseteq faulted' /\ faulted' \subseteq StepJobs /\ CurJob \in faulted'
    BY <1>7, OtherTypes
  <2> QED
    BY <1>1, <1>5, <1>7, <2>1, OtherTypes, StatementInv DEF Statements, JobStates
<1> QED
  BY <1>1, <1>6, <1>7

LEMMA AgentWorksInv == ASSUME IInv, AgentWorks PROVE IInv'
<1>1. Goto("claude", "claude") /\ fork' = fork /\ faulted' = faulted
  BY DEF AgentWorks
<1>2. vol' \in Volume
  <2>1. CASE \E v \in Versions, f \in SUBSET Files :
               vol' = [vol EXCEPT !.tree = v, !.files = f]
    <3>1. PICK v \in Versions, f \in SUBSET Files :
                 vol' = [vol EXCEPT !.tree = v, !.files = f]
      BY <2>1
    <3> DEFINE edited == [vol EXCEPT !.tree = v]
    <3>2. edited \in Volume
      BY OtherTypes, VolumeUpdates
    <3>3. vol' = [edited EXCEPT !.files = f]
      BY <3>1
    <3> HIDE DEF edited
    <3> QED
      BY <3>2, <3>3, VolumeUpdates
  <2>2. CASE vol' = WithCommit(vol)
    BY <2>2, OtherTypes, WithCommitType
  <2>3. CASE \E h \in {"default", "run"} :
               vol' = [vol EXCEPT !.head = h,
                                  !.tree = IF vol.tree = Committed(vol, vol.head)
                                           THEN Committed(vol, h) ELSE @]
    <3>1. PICK h \in {"default", "run"} :
                 vol' = [vol EXCEPT !.head = h,
                                    !.tree = IF vol.tree = Committed(vol, vol.head)
                                             THEN Committed(vol, h) ELSE @]
      BY <2>3
    <3> DEFINE tree == IF vol.tree = Committed(vol, vol.head)
                       THEN Committed(vol, h) ELSE vol.tree
               switched == [vol EXCEPT !.head = h]
    <3>2. h \in Heads
      BY DEF Heads
    <3>3. tree \in Versions
      BY <3>2, OtherTypes, CommittedType DEF Volume
    <3>4. switched \in Volume
      BY <3>2, OtherTypes, VolumeUpdates
    <3>5. vol' = [switched EXCEPT !.tree = tree]
      BY <3>1
    <3> HIDE DEF tree, switched
    <3> QED
      BY <3>3, <3>4, <3>5, VolumeUpdates
  <2> QED
    BY <2>1, <2>2, <2>3 DEF AgentWorks
<1>3. "claude" \in ScriptOf[Step.type]
  BY <1>1 DEF Goto, Running, IInv, Active, Statements
<1> QED
  BY <1>1, <1>2, <1>3, OtherTypes, StatementInv DEF Statements, JobStates

LEMMA AgentExitsInv == ASSUME IInv, AgentExits PROVE IInv'
<1> PICK exit \in BOOLEAN : \E files \in Tested(exit) :
      Goto("claude", EndOfAI(exit, files)) /\ vol' = [vol EXCEPT !.files = files]
  BY DEF AgentExits
<1>1. PICK files \in Tested(exit) :
         Goto("claude", EndOfAI(exit, files)) /\ vol' = [vol EXCEPT !.files = files]
  OBVIOUS
<1>2. fork' = fork /\ faulted' = faulted
  BY DEF AgentExits
<1>3. files \in SUBSET Files
  BY OtherTypes DEF Tested, Volume, Files
<1>4. vol' \in Volume
  BY <1>1, <1>3, OtherTypes, VolumeUpdates
<1>5. /\ EndOfAI(exit, files) \in {"failed", "cat", "succeeded"}
      /\ EndOfAI(exit, files) = "cat" => Step.type = "triage"
  BY DEF EndOfAI
<1>6. EndOfAI(exit, files) = "cat" => "cat" \in ScriptOf[Step.type]
  BY <1>5, ScriptGoesOn
<1> QED
  BY <1>1, <1>2, <1>4, <1>5, <1>6, OtherTypes, StatementInv
     DEF Statements, JobStates, CheckoutStatements

\* The statements that read the volume and end or go on.
LEMMA ReadInv ==
  ASSUME IInv, Commands \/ Cat \/ Guard \/ Add
  PROVE  IInv'
<1>1. vol' = vol /\ fork' = fork /\ faulted' = faulted
  BY DEF Commands, Cat, Guard, Add
<1>2. PICK from \in {"commands", "cat", "guard", "add"},
           to \in {"succeeded", "failed", "add", "commit"} :
             /\ Goto(from, to)
             /\ to \in {"add", "commit"} => from \in {"guard", "add"}
  <2>1. CASE Commands
    BY <2>1 DEF Commands
  <2>2. CASE Cat
    BY <2>2 DEF Cat
  <2>3. CASE Guard
    BY <2>3 DEF Guard
  <2>4. CASE Add
    BY <2>4 DEF Add
  <2> QED
    BY <2>1, <2>2, <2>3, <2>4
<1>3. to \in {"add", "commit"} => to \in ScriptOf[Step.type]
  BY <1>2, ScriptGoesOn DEF Goto, Running, PushStatements
<1> QED
  BY <1>1, <1>2, <1>3, OtherTypes, StatementInv DEF Statements, JobStates, CheckoutStatements

LEMMA CommitInv == ASSUME IInv, Commit PROVE IInv'
<1>1. Goto("commit", "push") /\ vol' = WithCommit(vol) /\ fork' = fork /\ faulted' = faulted
  BY DEF Commit
<1>2. "push" \in ScriptOf[Step.type]
  BY <1>1, ScriptGoesOn DEF Goto, Running, PushStatements
<1> QED
  BY <1>1, <1>2, OtherTypes, WithCommitType, StatementInv
     DEF Statements, JobStates, CheckoutStatements

LEMMA PushInv == ASSUME IInv, Push PROVE IInv'
<1>1. vol' = vol /\ fork' \in {vol.log["run"], fork}
  BY DEF Push
<1>2. fork' \in Seq(Commits)
  BY <1>1, OtherTypes DEF Volume, Heads
<1>3. PICK to \in {"succeeded", "failed"} : Goto("push", to)
  BY DEF Push
<1>4. faulted \subseteq faulted' /\ faulted' \subseteq StepJobs
  BY OtherTypes, FaultTypes DEF Push
<1> QED
  BY <1>1, <1>2, <1>3, <1>4, OtherTypes, StatementInv
     DEF Statements, JobStates, CheckoutStatements

LEMMA PodDiesInv == ASSUME IInv, PodDies PROVE IInv'
<1>1. PICK from \in Statements : Goto(from, "failed")
  BY DEF PodDies
<1>2. vol' \in Volume /\ fork' = fork /\ Fault
  BY OtherTypes, VolumeUpdates DEF PodDies
<1> QED
  BY <1>1, <1>2, OtherTypes, FaultTypes, StatementInv DEF JobStates, Statements

LEMMA CallFailsInv == ASSUME IInv, CallFails PROVE IInv'
<1>1. PICK from \in {"clone", "fetch", "push"} : Goto(from, "failed")
  BY DEF CallFails, AfterError
<1>2. vol' = vol /\ fork' = fork /\ Fault
  BY DEF CallFails
<1> QED
  BY <1>1, <1>2, OtherTypes, FaultTypes, StatementInv DEF JobStates, Statements

-----------------------------------------------------------------------------
(* The theorems *)

LEMMA InitInv == Init => IInv
<1> SUFFICES ASSUME Init PROVE IInv
  OBVIOUS
<1>1. pipeline \in Seq(StepSpec) /\ pipeline # <<>>
  BY PipelinesAssumption DEF Init
<1>2. DOMAIN pipeline = 1 .. Len(pipeline) /\ Len(pipeline) \in Nat \ {0}
  BY <1>1, LenProperties, EmptySeq
<1>3. /\ run \in [phase : {"Running", "Succeeded", "Failed"}, cur : DOMAIN pipeline,
                   attempt : [DOMAIN pipeline -> 1 .. MaxAttempt]]
      /\ run.cur = 1 /\ CurJob = <<1, 1>> /\ CurJob \in StepJobs
  BY <1>2, BoundsAssumption DEF Init, CurJob, Attempt, StepJobs
<1>4. jobs \in [StepJobs -> JobStates] /\ \A j \in StepJobs : jobs[j] = "none"
  BY DEF Init, JobStates
<1>5. fork \in Seq(Commits)
  <2>1. Earlier \in Commits
    BY BoundsAssumption DEF Earlier, Commits, Versions
  <2>2. <<Earlier>> \in Seq(Commits) /\ <<>> \in Seq(Commits)
    BY <2>1
  <2>3. fork = <<>> \/ fork = <<Earlier>>
    BY DEF Init
  <2> QED
    BY <2>2, <2>3
<1>6. TypeOK
  BY <1>3, <1>4, <1>5, EmptyVolumeType DEF Init, TypeOK
<1>7. Active /\ Recovery
  BY <1>3, <1>4 DEF Active, Recovery, Statements
<1> QED
  BY <1>6, <1>7 DEF IInv

LEMMA NextInv == IInv /\ [Next]_vars => IInv'
<1> SUFFICES ASSUME IInv, [Next]_vars PROVE IInv'
  OBVIOUS
<1>1. CASE Reconcile
  BY <1>1, CreateJobInv, StepSucceedsInv, StepRetriesInv, StepFailsInv DEF Reconcile
<1>2. CASE Script
  BY <1>2, EmptyInv, CloneInv, BranchInv, FetchInv, AgentExitsInv, ReadInv, CommitInv,
     PushInv DEF Script
<1>3. CASE AgentWorks
  BY <1>3, AgentWorksInv
<1>4. CASE PodDies \/ CallFails
  BY <1>4, PodDiesInv, CallFailsInv
<1>5. CASE UNCHANGED vars
  BY <1>5 DEF vars, IInv, TypeOK, Active, Recovery, StepJobs, CurJob, Attempt, Step
<1> QED
  BY <1>1, <1>2, <1>3, <1>4, <1>5 DEF Next

LEMMA InvariantHolds == Spec => []IInv
BY InitInv, NextInv, PTL DEF Spec

\* The types of StepJobs for every pipeline: in particular no attempt number
\* exceeds what the retries of its step allow (reconcileRunning).
THEOREM TypeCorrect == Spec => []TypeOK
<1>1. IInv => TypeOK
  BY DEF IInv
<1> QED
  BY <1>1, InvariantHolds, PTL

\* Whatever a dead pod, an earlier attempt or an agent left on the volume, a
\* checkout fails only if its own pod or its own call of GitHub does
\* (the rm -rf of configureCheckoutJob and configureCheckoutPRJob).
THEOREM CheckoutAlwaysRecovers == Spec => []CheckoutRecovers
<1>1. IInv => CheckoutRecovers
  <2> SUFFICES ASSUME IInv, CheckingOut, jobs[CurJob] = "failed" PROVE CurJob \in faulted
    BY DEF CheckoutRecovers
  <2>1. CurJob \in StepJobs /\ pipeline[CurJob[1]] = Step
    BY CurrentStep DEF IInv, CurJob, Step
  <2> QED
    BY <2>1 DEF CheckingOut, IInv, Recovery, CheckoutTypes
<1> QED
  BY <1>1, InvariantHolds, PTL

-----------------------------------------------------------------------------
(* Pushes: what a push step has seen and left behind *)

Clean == vol.head = "run" /\ vol.tree = Committed(vol, "run")

\* The push statements go on only on the run's branch, and a push has a commit
\* of the volume's source to show.
Pushing ==
  /\ jobs[CurJob] \in {"add", "commit", "push"} => vol.head = "run"
  /\ jobs[CurJob] = "push" =>
       vol.log["run"] # <<>> /\ Last(vol.log["run"]).tree = vol.tree

\* The Job of a push that ends the pipeline succeeds once, and nothing comes after.
PushedLast ==
  EndsWithPush =>
    \A a \in 1 .. MaxAttempt :
      jobs[<<Len(pipeline), a>>] = "succeeded" => CurJob = <<Len(pipeline), a>> /\ Clean

\* A run ends Succeeded with the Job of its last step.
EndedByJob ==
  run.phase = "Succeeded" => run.cur = Len(pipeline) /\ jobs[CurJob] = "succeeded"

PInv == Pushing /\ PushedLast /\ EndedByJob

\* The Jobs of a step before and after a statement.
LEMMA GotoJobs ==
  ASSUME IInv, NEW from, NEW to \in JobStates, Goto(from, to)
  PROVE  /\ jobs[CurJob] = from /\ run.phase = "Running" /\ CurJob \in StepJobs
         /\ pipeline' = pipeline /\ run' = run /\ CurJob' = CurJob /\ Step' = Step
         /\ jobs'[CurJob] = to
         /\ \A j \in StepJobs : j # CurJob => jobs'[j] = jobs[j]
<1>1. jobs \in [StepJobs -> JobStates] /\ CurJob \in StepJobs
  BY CurrentStep DEF IInv, TypeOK
<1> QED
  BY <1>1, GotoTypes DEF IInv

LEMMA StatementPInv ==
  ASSUME IInv, PInv, NEW from \in Statements, NEW to \in JobStates, Goto(from, to),
         to \in {"add", "commit", "push"} => vol'.head = "run",
         to = "push" => vol'.log["run"] # <<>> /\ Last(vol'.log["run"]).tree = vol'.tree,
         to = "succeeded" /\ Step.type = "git-push" => Clean'
  PROVE  PInv'
<1>1. /\ jobs[CurJob] = from /\ run.phase = "Running" /\ CurJob \in StepJobs
      /\ pipeline' = pipeline /\ run' = run /\ CurJob' = CurJob /\ Step' = Step
      /\ jobs'[CurJob] = to
      /\ \A j \in StepJobs : j # CurJob => jobs'[j] = jobs[j]
  BY GotoJobs
<1>2. Pushing'
  BY <1>1 DEF Pushing
<1>3. PushedLast'
  <2> SUFFICES ASSUME EndsWithPush, NEW a \in 1 .. MaxAttempt,
                      jobs'[<<Len(pipeline), a>>] = "succeeded"
               PROVE  CurJob = <<Len(pipeline), a>> /\ Clean'
    BY <1>1 DEF PushedLast, EndsWithPush
  <2>1. <<Len(pipeline), a>> \in StepJobs
    BY CurrentStep DEF IInv, StepJobs
  <2>2. from # "succeeded"
    BY DEF Statements
  <2>3. CurJob = <<Len(pipeline), a>>
    BY <1>1, <2>1, <2>2 DEF PInv, PushedLast
  <2>4. Step.type = "git-push" /\ to = "succeeded"
    BY <1>1, <2>3 DEF CurJob, Step, EndsWithPush, Last
  <2> QED
    BY <2>3, <2>4
<1>4. EndedByJob'
  BY <1>1 DEF EndedByJob
<1> QED
  BY <1>2, <1>3, <1>4 DEF PInv

\* A move of the reconciler leaves no statement at work; it may not leave a last
\* step whose Job has succeeded, but by ending the run.
LEMMA MovePInv ==
  ASSUME IInv, PInv, IInv', jobs[CurJob] \notin Statements,
         pipeline' = pipeline, jobs' = jobs, vol' = vol,
         CurJob' = CurJob \/ jobs[CurJob] # "succeeded" \/ run.cur # Len(pipeline),
         run'.phase = "Succeeded" => run'.cur = Len(pipeline) /\ jobs[CurJob'] = "succeeded"
  PROVE  PInv'
<1>1. CurJob' \in StepJobs
  <2>1. TypeOK'
    BY DEF IInv
  <2>2. run'.cur \in DOMAIN pipeline /\ run'.attempt[run'.cur] \in 1 .. MaxAttempt
    BY <2>1 DEF TypeOK
  <2> QED
    BY <2>2 DEF CurJob, Attempt, StepJobs
<1>2. jobs[CurJob'] \notin Statements
  BY <1>1 DEF IInv, Active
<1>3. Pushing'
  BY <1>2 DEF Pushing, Statements
<1>4. PushedLast'
  <2> SUFFICES ASSUME EndsWithPush, NEW a \in 1 .. MaxAttempt,
                      jobs[<<Len(pipeline), a>>] = "succeeded"
               PROVE  CurJob' = <<Len(pipeline), a>> /\ Clean'
    BY DEF PushedLast, EndsWithPush
  <2>1. CurJob = <<Len(pipeline), a>> /\ Clean
    BY DEF PInv, PushedLast
  <2>2. run.cur = Len(pipeline)
    BY <2>1 DEF CurJob
  <2> QED
    BY <2>1, <2>2 DEF Clean, Committed
<1>5. EndedByJob'
  BY DEF EndedByJob
<1> QED
  BY <1>3, <1>4, <1>5 DEF PInv

LEMMA CommitClean ==
  ASSUME NEW w \in Volume, w.head = "run"
  PROVE  /\ WithCommit(w).head = "run" /\ WithCommit(w).tree = w.tree
         /\ WithCommit(w).log["run"] # <<>>
         /\ Last(WithCommit(w).log["run"]).tree = w.tree
<1> DEFINE c == [tree |-> w.tree, clone |-> w.clone]
<1>1. w.log \in [Heads -> Seq(Commits)] /\ w.log["run"] \in Seq(Commits) /\ c \in Commits
  BY DEF Volume, Heads, Commits
<1>2. WithCommit(w).log["run"] = Append(w.log["run"], c)
  BY <1>1 DEF WithCommit, Heads, Volume
<1>3. Append(w.log["run"], c) # <<>> /\ Last(Append(w.log["run"], c)) = c
  BY <1>1, AppendProperties, LenProperties DEF Last
<1>4. WithCommit(w).head = "run" /\ WithCommit(w).tree = w.tree
  BY DEF WithCommit, Volume
<1> QED
  BY <1>2, <1>3, <1>4

LEMMA ReconcilePInv == ASSUME IInv, IInv', PInv, Reconcile PROVE PInv'
<1>1. CASE CreateJob
  <2>1. /\ jobs[CurJob] = "none" /\ run.phase = "Running"
        /\ jobs' = [jobs EXCEPT ![CurJob] = FirstStatement[Step.type]]
        /\ pipeline' = pipeline /\ run' = run /\ vol' = vol
    BY <1>1 DEF CreateJob, Running
  <2>2. /\ jobs \in [StepJobs -> JobStates] /\ CurJob \in StepJobs /\ Step.type \in StepTypes
    BY CurrentStep DEF IInv, TypeOK, StepSpec
  <2>3. /\ CurJob' = CurJob /\ jobs'[CurJob] = FirstStatement[Step.type]
        /\ \A j \in StepJobs : j # CurJob => jobs'[j] = jobs[j]
    BY <2>1, <2>2 DEF CurJob, Attempt
  <2>4. FirstStatement[Step.type] \notin {"add", "commit", "push", "succeeded"}
    BY <2>2 DEF FirstStatement, StepTypes
  <2>5. Pushing' /\ EndedByJob'
    BY <2>1, <2>3, <2>4 DEF Pushing, EndedByJob
  <2>6. \A a \in 1 .. MaxAttempt : <<Len(pipeline), a>> \in StepJobs
    BY CurrentStep DEF IInv, StepJobs
  <2>7. PushedLast'
    BY <2>1, <2>3, <2>4, <2>6 DEF PInv, PushedLast, EndsWithPush
  <2> QED
    BY <2>5, <2>7 DEF PInv
<1>2. CASE StepSucceeds
  <2>1. /\ jobs[CurJob] = "succeeded" /\ run.phase = "Running"
        /\ pipeline' = pipeline /\ jobs' = jobs /\ vol' = vol
        /\ run' = IF run.cur = Len(pipeline) THEN [run EXCEPT !.phase = "Succeeded"]
                                             ELSE [run EXCEPT !.cur = run.cur + 1]
    BY <1>2 DEF StepSucceeds, Running
  <2>2. CASE run.cur = Len(pipeline)
    <3>1. run' = [run EXCEPT !.phase = "Succeeded"]
      BY <2>1, <2>2
    <3>2. CurJob' = CurJob /\ run'.cur = run.cur
      BY <3>1 DEF IInv, TypeOK, CurJob, Attempt
    <3> QED
      BY <2>1, <2>2, <3>2, MovePInv DEF Statements
  <2>3. CASE run.cur # Len(pipeline)
    <3>1. run'.phase = "Running"
      BY <2>1, <2>3 DEF IInv, TypeOK
    <3> QED
      BY <2>1, <2>3, <3>1, MovePInv DEF Statements
  <2> QED
    BY <2>2, <2>3
<1>3. CASE StepRetries
  <2>1. /\ jobs[CurJob] = "failed" /\ run.phase = "Running" /\ run' = JumpedBack
        /\ pipeline' = pipeline /\ jobs' = jobs /\ vol' = vol
    BY <1>3 DEF StepRetries, Running
  <2>2. run'.phase = "Running"
    BY <2>1 DEF IInv, TypeOK, JumpedBack
  <2> QED
    BY <2>1, <2>2, MovePInv DEF Statements
<1>4. CASE StepFails
  <2>1. /\ jobs[CurJob] \in {"failed", "none", "succeeded"}
        /\ pipeline' = pipeline /\ jobs' = jobs /\ vol' = vol
        /\ run' = [run EXCEPT !.phase = "Failed"]
    BY <1>4 DEF StepFails, Running
  <2>2. run'.phase = "Failed" /\ CurJob' = CurJob
    BY <2>1 DEF IInv, TypeOK, CurJob, Attempt
  <2> QED
    BY <2>1, <2>2, MovePInv DEF Statements
<1> QED
  BY <1>1, <1>2, <1>3, <1>4 DEF Reconcile

\* The statements of other scripts and the ends by a fault say nothing of a push.
LEMMA OtherPInv ==
  ASSUME IInv, PInv, NEW from \in Statements, NEW to \in JobStates, Goto(from, to),
         to \notin {"add", "commit", "push"},
         to = "succeeded" => from \notin PushStatements
  PROVE  PInv'
<1>1. jobs[CurJob] = from
  BY GotoJobs
<1>2. to = "succeeded" => Step.type # "git-push"
  BY <1>1, ScriptTells
<1> QED
  BY <1>2, StatementPInv

LEMMA ScriptPInv == ASSUME IInv, PInv, Script PROVE PInv'
<1> USE DEF JobStates, Statements, PushStatements
<1>1. CASE Empty
  BY <1>1, OtherPInv DEF Empty
<1>2. CASE Clone
  BY <1>2, OtherPInv DEF Clone, AfterClone
<1>3. CASE Branch \/ Fetch
  BY <1>3, OtherPInv DEF Branch, Fetch
<1>4. CASE AgentExits
  <2>1. PICK to \in {"failed", "cat", "succeeded"} : Goto("claude", to)
    BY <1>4 DEF AgentExits, EndOfAI
  <2> QED
    BY <2>1, OtherPInv
<1>5. CASE Commands \/ Cat
  BY <1>5, OtherPInv DEF Commands, Cat
<1>6. CASE Guard
  BY <1>6, StatementPInv DEF Guard, OnRunBranch
<1>7. CASE Add
  <2>1. /\ Goto("add", IF vol.tree = Committed(vol, vol.head) THEN "succeeded" ELSE "commit")
        /\ vol' = vol
    BY <1>7 DEF Add
  <2>2. jobs[CurJob] = "add"
    BY <2>1 DEF Goto, Running
  <2>3. vol.head = "run"
    BY <2>2 DEF PInv, Pushing
  <2>4. CASE vol.tree = Committed(vol, vol.head)
    <3>1. Clean'
      BY <2>1, <2>3, <2>4 DEF Clean, Committed
    <3> QED
      BY <2>1, <2>4, <3>1, StatementPInv
  <2>5. CASE vol.tree # Committed(vol, vol.head)
    BY <2>1, <2>3, <2>5, StatementPInv
  <2> QED
    BY <2>4, <2>5
<1>8. CASE Commit
  <2>1. Goto("commit", "push") /\ vol' = WithCommit(vol)
    BY <1>8 DEF Commit
  <2>2. vol.head = "run"
    BY <2>1 DEF Goto, Running, PInv, Pushing
  <2>3. /\ vol'.head = "run" /\ vol'.log["run"] # <<>>
        /\ Last(vol'.log["run"]).tree = vol'.tree
    BY <2>1, <2>2, OtherTypes, CommitClean
  <2> QED
    BY <2>1, <2>3, StatementPInv
<1>9. CASE Push
  <2>1. PICK to \in {"succeeded", "failed"} : Goto("push", to) /\ vol' = vol
    BY <1>9 DEF Push
  <2>2. /\ vol.head = "run" /\ vol.log["run"] # <<>>
        /\ Last(vol.log["run"]).tree = vol.tree
    BY <2>1 DEF Goto, Running, PInv, Pushing
  <2>3. Clean'
    BY <2>1, <2>2 DEF Clean, Committed
  <2> QED
    BY <2>1, <2>3, StatementPInv
<1> QED
  BY <1>1, <1>2, <1>3, <1>4, <1>5, <1>6, <1>7, <1>8, <1>9 DEF Script

LEMMA NextPInv == IInv /\ PInv /\ [Next]_vars /\ IInv' => PInv'
<1> SUFFICES ASSUME IInv, PInv, [Next]_vars, IInv' PROVE PInv'
  OBVIOUS
<1>1. CASE Reconcile
  BY <1>1, ReconcilePInv
<1>2. CASE Script
  BY <1>2, ScriptPInv
<1>3. CASE AgentWorks
  BY <1>3, OtherPInv DEF AgentWorks, JobStates, Statements
<1>4. CASE PodDies
  <2>1. PICK from \in Statements : Goto(from, "failed")
    BY <1>4 DEF PodDies
  <2> QED
    BY <2>1, OtherPInv DEF JobStates
<1>5. CASE CallFails
  BY <1>5, OtherPInv DEF CallFails, AfterError, JobStates, Statements
<1>6. CASE UNCHANGED vars
  BY <1>6 DEF vars, PInv, Pushing, PushedLast, EndedByJob, EndsWithPush, Clean,
     Committed, CurJob, Attempt
<1> QED
  BY <1>1, <1>2, <1>3, <1>4, <1>5, <1>6 DEF Next

LEMMA InitPInv == Init => PInv
<1> SUFFICES ASSUME Init PROVE PInv
  OBVIOUS
<1>1. IInv
  BY InitInv
<1>2. \A j \in StepJobs : jobs[j] = "none"
  BY DEF Init
<1>3. CurJob \in StepJobs /\ \A a \in 1 .. MaxAttempt : <<Len(pipeline), a>> \in StepJobs
  BY <1>1, CurrentStep DEF IInv, StepJobs
<1>4. run.phase = "Running"
  BY DEF Init
<1> QED
  BY <1>2, <1>3, <1>4 DEF PInv, Pushing, PushedLast, EndedByJob

LEMMA PushInvariant == Spec => [](IInv /\ PInv)
BY InitInv, InitPInv, NextInv, NextPInv, PTL DEF Spec

\* What an agent worked out never stays behind, uncommitted or on another branch,
\* when the run of a pipeline that ends with a push has Succeeded, for every such
\* pipeline (the guard and the commit of configurePushJob).
THEOREM SucceededWorkIsCommitted == Spec => []WorkIsCommitted
<1>1. IInv /\ PInv => WorkIsCommitted
  <2> SUFFICES ASSUME IInv, PInv, run.phase = "Succeeded", EndsWithPush
               PROVE  vol.head = "run" /\ vol.tree = Committed(vol, "run")
    BY DEF WorkIsCommitted
  <2>1. run.cur = Len(pipeline) /\ jobs[CurJob] = "succeeded"
    BY DEF PInv, EndedByJob
  <2>2. Attempt \in 1 .. MaxAttempt
    BY CurrentStep DEF IInv
  <2> QED
    BY <2>1, <2>2 DEF PInv, PushedLast, CurJob, Clean
<1> QED
  BY <1>1, PushInvariant, PTL

-----------------------------------------------------------------------------
(* Tests: what lies between a change of the source and a push *)

\* Behind step t the source passes the tests; its Job succeeds for such a source
\* only, and the run then goes on, never to come back.
Tests(t) ==
  /\ run.cur > t => vol.tree \in Good
  /\ \A a \in 1 .. MaxAttempt : jobs[<<t, a>>] = "succeeded" =>
       run.cur > t \/ (CurJob = <<t, a>> /\ vol.tree \in Good)
  /\ fork # <<>> /\ Last(fork) # Earlier => Last(fork).tree \in Good

TestsInv == \A t \in DOMAIN pipeline : Guards(pipeline, t) => Tests(t)

\* What Guards says of the current step.
LEMMA GuardedStep ==
  ASSUME IInv, NEW t \in DOMAIN pipeline, Guards(pipeline, t)
  PROVE  /\ t \in Nat /\ run.cur \in Nat
         /\ run.cur = t => Step.type = "ai" /\ Step.failureFile
         /\ run.cur <= t => Step.onFailure <= t /\ Step.type # "git-push"
         /\ run.cur > t => Step.onFailure \notin 1 .. t /\ LeavesSource(Step)
<1>1. DOMAIN pipeline = 1 .. Len(pipeline) /\ Len(pipeline) \in Nat
      /\ run.cur \in DOMAIN pipeline
  BY CurrentStep DEF IInv
<1> QED
  BY <1>1 DEF Guards, Step

LEMMA StatementTests ==
  ASSUME IInv, NEW t \in DOMAIN pipeline, Guards(pipeline, t), Tests(t),
         NEW from \in Statements, NEW to \in JobStates, Goto(from, to),
         run.cur > t => vol'.tree \in Good,
         run.cur = t /\ to = "succeeded" => vol'.tree \in Good,
         fork' = fork \/ Last(fork').tree \in Good
  PROVE  Tests(t)'
<1>1. /\ jobs[CurJob] = from /\ CurJob \in StepJobs
      /\ pipeline' = pipeline /\ run' = run /\ CurJob' = CurJob
      /\ jobs'[CurJob] = to
      /\ \A j \in StepJobs : j # CurJob => jobs'[j] = jobs[j]
  BY GotoJobs
<1>2. ASSUME NEW a \in 1 .. MaxAttempt, jobs'[<<t, a>>] = "succeeded"
      PROVE  run.cur > t \/ (CurJob = <<t, a>> /\ vol'.tree \in Good)
  <2>1. <<t, a>> \in StepJobs
    BY DEF StepJobs
  <2>2. CASE CurJob = <<t, a>>
    BY <1>1, <1>2, <2>2 DEF CurJob
  <2>3. CASE CurJob # <<t, a>>
    BY <1>1, <1>2, <2>1, <2>3 DEF Tests
  <2> QED
    BY <2>2, <2>3
<1> QED
  BY <1>1, <1>2 DEF Tests

\* A statement that leaves the source and the fork alone, and does not end the
\* tests well.
LEMMA QuietTests ==
  ASSUME IInv, NEW t \in DOMAIN pipeline, Guards(pipeline, t), Tests(t),
         NEW from \in Statements, NEW to \in JobStates, Goto(from, to),
         to = "succeeded" => from # "claude",
         vol'.tree = vol.tree, fork' = fork
  PROVE  Tests(t)'
<1>1. run.cur > t => vol'.tree \in Good
  BY DEF Tests
<1>2. jobs[CurJob] = from
  BY GotoJobs
<1>3. run.cur = t => to # "succeeded"
  BY <1>2, GuardedStep, ScriptTells
<1> QED
  BY <1>1, <1>3, StatementTests

\* No checkout runs at the tests or behind them.
LEMMA CheckoutTests ==
  ASSUME IInv, NEW t \in DOMAIN pipeline, Guards(pipeline, t), Tests(t),
         NEW from \in CheckoutStatements, NEW to \in JobStates, Goto(from, to),
         fork' = fork
  PROVE  Tests(t)'
<1>1. from \in Statements
  BY DEF CheckoutStatements, Statements
<1>2. jobs[CurJob] = from
  BY <1>1, GotoJobs
<1>3. Step.type \in CheckoutTypes
  BY <1>1, <1>2, ScriptTells
<1>4. ~(run.cur > t) /\ run.cur # t
  BY <1>3, GuardedStep DEF CheckoutTypes, LeavesSource
<1> QED
  BY <1>1, <1>4, StatementTests

LEMMA AgentWorksTests ==
  ASSUME IInv, NEW t \in DOMAIN pipeline, Guards(pipeline, t), Tests(t), AgentWorks
  PROVE  Tests(t)'
<1>1. Goto("claude", "claude") /\ ~Step.failureFile /\ fork' = fork
  BY DEF AgentWorks
<1>2. jobs[CurJob] = "claude"
  BY <1>1 DEF Goto, Running
<1>3. Step.type \in {"ai", "triage"}
  BY <1>2, ScriptTells DEF Statements
<1>4. ~(run.cur > t)
  BY <1>1, <1>3, GuardedStep DEF LeavesSource
<1> QED
  BY <1>1, <1>4, StatementTests DEF Statements, JobStates

\* A step with a failureFile succeeds only if the tests passed.
LEMMA AgentExitsTests ==
  ASSUME IInv, NEW t \in DOMAIN pipeline, Guards(pipeline, t), Tests(t), AgentExits
  PROVE  Tests(t)'
<1>1. PICK exit \in BOOLEAN : \E files \in Tested(exit) :
         Goto("claude", EndOfAI(exit, files)) /\ vol' = [vol EXCEPT !.files = files]
  BY DEF AgentExits
<1>2. PICK files \in Tested(exit) :
         Goto("claude", EndOfAI(exit, files)) /\ vol' = [vol EXCEPT !.files = files]
  BY <1>1
<1>3. vol'.tree = vol.tree /\ fork' = fork
  BY <1>2, OtherTypes DEF AgentExits, Volume
<1>4. EndOfAI(exit, files) \in {"failed", "cat", "succeeded"}
  BY DEF EndOfAI
<1>5. ASSUME run.cur = t, EndOfAI(exit, files) = "succeeded"
      PROVE  vol.tree \in Good
  <2>1. Step.failureFile
    BY <1>5, GuardedStep
  <2>2. exit /\ "failures" \notin files
    BY <1>5, <2>1 DEF EndOfAI
  <2> QED
    BY <2>1, <2>2 DEF Tested
<1>6. run.cur > t => vol'.tree \in Good
  BY <1>3 DEF Tests
<1> QED
  BY <1>2, <1>3, <1>4, <1>5, <1>6, StatementTests DEF Statements, JobStates

\* Only a step behind the tests pushes, and it pushes the source of the volume.
LEMMA PushTests ==
  ASSUME IInv, PInv, NEW t \in DOMAIN pipeline, Guards(pipeline, t), Tests(t), Push
  PROVE  Tests(t)'
<1>1. PICK to \in {"succeeded", "failed"} : Goto("push", to)
  BY DEF Push
<1>2. vol' = vol /\ fork' \in {fork, vol.log["run"]}
  BY DEF Push
<1>3. jobs[CurJob] = "push"
  BY <1>1 DEF Goto, Running
<1>4. Step.type = "git-push"
  BY <1>3, ScriptTells DEF Statements, PushStatements
<1>5. run.cur > t
  BY <1>4, GuardedStep
<1>6. vol.tree \in Good /\ Last(vol.log["run"]).tree = vol.tree
  BY <1>3, <1>5 DEF Tests, PInv, Pushing
<1>7. fork' = fork \/ Last(fork').tree \in Good
  BY <1>2, <1>6
<1>8. "push" \in Statements /\ to \in JobStates
  BY DEF Statements, JobStates
<1> QED
  BY <1>1, <1>2, <1>5, <1>6, <1>7, <1>8, GuardedStep, StatementTests

LEMMA ScriptTests ==
  ASSUME IInv, PInv, NEW t \in DOMAIN pipeline, Guards(pipeline, t), Tests(t), Script
  PROVE  Tests(t)'
<1> USE DEF JobStates, Statements, CheckoutStatements
<1>1. CASE Empty
  BY <1>1, CheckoutTests DEF Empty
<1>2. CASE Clone
  <2>1. AfterClone \in JobStates
    BY DEF AfterClone
  <2> QED
    BY <1>2, <2>1, CheckoutTests DEF Clone
<1>3. CASE Branch \/ Fetch
  BY <1>3, CheckoutTests DEF Branch, Fetch
<1>4. CASE AgentExits
  BY <1>4, AgentExitsTests
<1>5. CASE Commands \/ Cat \/ Guard \/ Add
  <2>1. vol' = vol /\ fork' = fork
    BY <1>5 DEF Commands, Cat, Guard, Add
  <2>2. PICK from \in {"commands", "cat", "guard", "add"},
             to \in {"succeeded", "failed", "add", "commit"} : Goto(from, to)
    BY <1>5 DEF Commands, Cat, Guard, Add
  <2> QED
    BY <2>1, <2>2, QuietTests
<1>6. CASE Commit
  <2>1. Goto("commit", "push") /\ vol' = WithCommit(vol) /\ fork' = fork
    BY <1>6 DEF Commit
  <2>2. vol'.tree = vol.tree
    BY <2>1, OtherTypes DEF WithCommit, Volume
  <2> QED
    BY <2>1, <2>2, QuietTests
<1>7. CASE Push
  BY <1>7, PushTests
<1> QED
  BY <1>1, <1>2, <1>3, <1>4, <1>5, <1>6, <1>7 DEF Script

\* The reconciler goes behind the tests by their success only, and not back.
LEMMA MoveTests ==
  ASSUME IInv, NEW t \in DOMAIN pipeline, Guards(pipeline, t), Tests(t),
         jobs' = jobs, vol' = vol, fork' = fork,
         run.cur > t => run'.cur > t,
         run'.cur > t => run.cur > t \/ (run.cur = t /\ jobs[CurJob] = "succeeded"),
         run.cur = t /\ jobs[CurJob] = "succeeded" => CurJob' = CurJob \/ run'.cur > t
  PROVE  Tests(t)'
<1>1. t \in Nat /\ run.cur \in Nat /\ Attempt \in 1 .. MaxAttempt
  BY GuardedStep, CurrentStep DEF IInv
<1>2. run.cur = t /\ jobs[CurJob] = "succeeded" => vol.tree \in Good
  BY <1>1 DEF Tests, CurJob
<1>3. run'.cur > t => vol.tree \in Good
  BY <1>2 DEF Tests
<1>4. ASSUME NEW a \in 1 .. MaxAttempt, jobs[<<t, a>>] = "succeeded"
      PROVE  run'.cur > t \/ (CurJob' = <<t, a>> /\ vol.tree \in Good)
  <2>1. run.cur > t \/ (CurJob = <<t, a>> /\ vol.tree \in Good)
    BY <1>4 DEF Tests
  <2>2. CurJob = <<t, a>> => run.cur = t
    BY DEF CurJob
  <2> QED
    BY <1>4, <2>1, <2>2
<1> QED
  BY <1>3, <1>4 DEF Tests

LEMMA ReconcileTests ==
  ASSUME IInv, NEW t \in DOMAIN pipeline, Guards(pipeline, t), Tests(t), Reconcile
  PROVE  Tests(t)'
<1>1. /\ t \in Nat /\ run.cur \in Nat /\ CurJob \in StepJobs
      /\ jobs \in [StepJobs -> JobStates] /\ Step.type \in StepTypes
      /\ Step.onFailure \in Nat
  BY GuardedStep, CurrentStep DEF IInv, TypeOK, StepSpec
<1>2. CASE CreateJob
  <2>1. /\ jobs[CurJob] = "none"
        /\ jobs' = [jobs EXCEPT ![CurJob] = FirstStatement[Step.type]]
        /\ run' = run /\ vol' = vol /\ fork' = fork
    BY <1>2 DEF CreateJob, Running
  <2>2. FirstStatement[Step.type] # "succeeded"
    BY <1>1 DEF FirstStatement, StepTypes
  <2>3. CurJob' = CurJob
    BY <2>1 DEF CurJob, Attempt
  <2>4. \A a \in 1 .. MaxAttempt : <<t, a>> \in StepJobs
    BY DEF StepJobs
  <2>5. \A j \in StepJobs : jobs'[j] = "succeeded" => jobs[j] = "succeeded"
    BY <1>1, <2>1, <2>2
  <2> QED
    BY <2>1, <2>3, <2>4, <2>5 DEF Tests
<1>3. CASE StepSucceeds
  <2>1. /\ jobs[CurJob] = "succeeded"
        /\ jobs' = jobs /\ vol' = vol /\ fork' = fork
        /\ run' = IF run.cur = Len(pipeline) THEN [run EXCEPT !.phase = "Succeeded"]
                                             ELSE [run EXCEPT !.cur = run.cur + 1]
    BY <1>3 DEF StepSucceeds, Running
  <2>2. CASE run.cur = Len(pipeline)
    <3>1. run'.cur = run.cur /\ CurJob' = CurJob
      BY <2>1, <2>2 DEF IInv, TypeOK, CurJob, Attempt
    <3> QED
      BY <2>1, <3>1, MoveTests
  <2>3. CASE run.cur # Len(pipeline)
    <3>1. run'.cur = run.cur + 1
      BY <2>1, <2>3 DEF IInv, TypeOK
    <3>2. /\ run.cur > t => run'.cur > t
          /\ run'.cur > t => run.cur > t \/ run.cur = t
          /\ run.cur = t => run'.cur > t
      BY <1>1, <3>1
    <3> QED
      BY <2>1, <3>2, MoveTests
  <2> QED
    BY <2>2, <2>3
<1>4. CASE StepRetries
  <2>1. /\ jobs[CurJob] = "failed" /\ run' = JumpedBack /\ Step.onFailure # 0
        /\ jobs' = jobs /\ vol' = vol /\ fork' = fork
    BY <1>4 DEF StepRetries, Running, MayRetry
  <2>2. run'.cur = Step.onFailure
    BY <2>1 DEF JumpedBack, IInv, TypeOK
  <2>3. run.cur > t <=> run'.cur > t
    BY <1>1, <2>1, <2>2, GuardedStep
  <2> QED
    BY <2>1, <2>3, MoveTests
<1>5. CASE StepFails
  <2>1. /\ run' = [run EXCEPT !.phase = "Failed"]
        /\ jobs' = jobs /\ vol' = vol /\ fork' = fork
    BY <1>5 DEF StepFails
  <2>2. run'.cur = run.cur /\ CurJob' = CurJob
    BY <2>1 DEF IInv, TypeOK, CurJob, Attempt
  <2> QED
    BY <2>1, <2>2, MoveTests
<1> QED
  BY <1>2, <1>3, <1>4, <1>5 DEF Reconcile

LEMMA NextTests == IInv /\ PInv /\ TestsInv /\ [Next]_vars => TestsInv'
<1> SUFFICES ASSUME IInv, PInv, TestsInv, [Next]_vars,
                    NEW t \in DOMAIN pipeline', Guards(pipeline', t)
             PROVE  Tests(t)'
  BY DEF TestsInv
<1>1. pipeline' = pipeline
  BY DEF Next, Reconcile, CreateJob, StepSucceeds, StepRetries, StepFails, Script, Empty,
     Clone, Branch, Fetch, AgentWorks, AgentExits, Commands, Cat, Guard, Add, Commit, Push,
     PodDies, CallFails, Goto, vars
<1>2. t \in DOMAIN pipeline /\ Guards(pipeline, t) /\ Tests(t)
  BY <1>1 DEF TestsInv
<1>3. CASE Reconcile
  BY <1>2, <1>3, ReconcileTests
<1>4. CASE Script
  BY <1>2, <1>4, ScriptTests
<1>5. CASE AgentWorks
  BY <1>2, <1>5, AgentWorksTests
<1>6. CASE PodDies \/ CallFails
  <2>1. PICK from \in Statements : Goto(from, "failed")
    BY <1>6 DEF PodDies, CallFails, AfterError, Statements
  <2>2. vol'.tree = vol.tree /\ fork' = fork
    BY <1>6, OtherTypes DEF PodDies, CallFails, Volume
  <2> QED
    BY <1>2, <2>1, <2>2, QuietTests DEF JobStates
<1>7. CASE UNCHANGED vars
  BY <1>2, <1>7 DEF vars, Tests, CurJob, Attempt
<1> QED
  BY <1>3, <1>4, <1>5, <1>6, <1>7 DEF Next

LEMMA InitTests == Init => TestsInv
<1> SUFFICES ASSUME Init, NEW t \in DOMAIN pipeline PROVE Tests(t)
  BY DEF TestsInv
<1>1. IInv
  BY InitInv
<1>2. DOMAIN pipeline = 1 .. Len(pipeline) /\ Len(pipeline) \in Nat
  BY <1>1, CurrentStep DEF IInv
<1>3. run.cur = 1 /\ ~(run.cur > t)
  BY <1>2 DEF Init
<1>4. \A a \in 1 .. MaxAttempt : jobs[<<t, a>>] # "succeeded"
  BY DEF Init, StepJobs
<1>5. fork = <<>> \/ Last(fork) = Earlier
  <2>1. Len(<<Earlier>>) = 1 /\ <<Earlier>>[1] = Earlier
    OBVIOUS
  <2> QED
    BY <2>1 DEF Init, Last
<1> QED
  BY <1>3, <1>4, <1>5 DEF Tests

\* What a run puts on its branch passes the tests, whatever an agent did with the
\* source, its commits and its branches and whichever pods died, for all
\* pipelines whose test step lies between the last change of the source and the
\* first push, no failure jumping across it (failureFile in configureAIJob, the
\* jump of reconcileRunning, the guards of configurePushJob).
THEOREM OnlyTestedIsPushed ==
  ASSUME \A p \in Pipelines : TestsGuardPushes(p)
  PROVE  Spec => []PushedPassesTests
<1>1. IInv /\ TestsInv => PushedPassesTests
  <2> SUFFICES ASSUME IInv, TestsInv, HasTests, fork # <<>>, Last(fork) # Earlier
               PROVE  Last(fork).tree \in Good
    BY DEF PushedPassesTests
  <2>1. pipeline \in Pipelines
    BY DEF IInv, TypeOK
  <2>2. PICK t \in DOMAIN pipeline : Guards(pipeline, t)
    BY <2>1 DEF HasTests, TestsGuardPushes
  <2> QED
    BY <2>2 DEF TestsInv, Tests
<1>2. Spec => []TestsInv
  BY InitTests, NextTests, PushInvariant, PTL DEF Spec
<1> QED
  BY <1>1, <1>2, InvariantHolds, PTL

-----------------------------------------------------------------------------
(* Checkouts: what lies between the removal of the files and the branch *)

\* What git clone leaves on an emptied volume.
Cloned ==
  /\ vol.repo = "whole" /\ vol.files = {} /\ vol.clone = Attempt
  /\ \A h \in Heads : vol.log[h] = <<>>

\* How far the script of a checkout has brought the volume.
CheckedOut ==
  /\ jobs[CurJob] = "clone" => vol = EmptyVolume
  /\ jobs[CurJob] = "branch" => Cloned /\ vol.tree = 0 /\ Step.type = "git-checkout"
  /\ jobs[CurJob] = "fetch" => Cloned /\ Step.type = "git-checkout-pr"
  /\ jobs[CurJob] = "succeeded" =>
       /\ Cloned /\ vol.tree = Committed(vol, vol.head)
       /\ vol.head = IF Step.type = "git-checkout" THEN "run" ELSE "pull"

\* Step c has no Job before the run reaches it, and none of an attempt to come:
\* its Job is a new one whenever the run comes to it.
Checkout(c) ==
  /\ \A a \in 1 .. MaxAttempt : jobs[<<c, a>>] # "none" =>
       c < run.cur \/ (c = run.cur /\ a <= Attempt)
  /\ c = run.cur => CheckedOut

IsCheckout(c) == c \in DOMAIN pipeline /\ pipeline[c].type \in CheckoutTypes

CheckoutsInv == \A c \in DOMAIN pipeline : IsCheckout(c) => Checkout(c)

LEMMA StatementCheckout ==
  ASSUME IInv, NEW c, IsCheckout(c), Checkout(c),
         NEW from \in Statements, NEW to \in JobStates, Goto(from, to),
         c = run.cur => CheckedOut'
  PROVE  Checkout(c)'
<1>1. /\ jobs[CurJob] = from /\ CurJob \in StepJobs
      /\ run' = run /\ CurJob' = CurJob /\ Attempt' = Attempt
      /\ \A j \in StepJobs : j # CurJob => jobs'[j] = jobs[j]
  BY GotoJobs DEF Goto, Attempt
<1>2. \A a \in 1 .. MaxAttempt : <<c, a>> \in StepJobs
  BY DEF IsCheckout, StepJobs
<1>3. from # "none"
  BY DEF Statements
<1>4. ASSUME NEW a \in 1 .. MaxAttempt, jobs'[<<c, a>>] # "none"
      PROVE  jobs[<<c, a>>] # "none"
  BY <1>1, <1>2, <1>3, <1>4
<1>5. \A a \in 1 .. MaxAttempt : jobs'[<<c, a>>] # "none" =>
        c < run.cur \/ (c = run.cur /\ a <= Attempt)
  BY <1>4 DEF Checkout
<1> QED
  BY <1>1, <1>5 DEF Checkout

\* The statements of other scripts do not run at a checkout.
LEMMA OtherCheckout ==
  ASSUME IInv, NEW c, IsCheckout(c), Checkout(c),
         NEW from \in Statements \ CheckoutStatements, NEW to \in JobStates, Goto(from, to)
  PROVE  Checkout(c)'
<1>1. jobs[CurJob] = from
  BY GotoJobs
<1>2. Step.type \notin CheckoutTypes
  BY <1>1, ScriptTells
<1>3. c # run.cur
  BY <1>2 DEF IsCheckout, Step
<1> QED
  BY <1>3, StatementCheckout

\* The ends by a fault say nothing of a volume.
LEMMA FailedCheckout ==
  ASSUME IInv, NEW c, IsCheckout(c), Checkout(c),
         NEW from \in Statements, Goto(from, "failed")
  PROVE  Checkout(c)'
<1>1. "failed" \in JobStates
  BY DEF JobStates
<1>2. jobs'[CurJob'] = "failed"
  BY <1>1, GotoJobs
<1>3. CheckedOut'
  BY <1>2 DEF CheckedOut
<1> QED
  BY <1>1, <1>3, StatementCheckout

LEMMA EmptyCheckout ==
  ASSUME IInv, NEW c, IsCheckout(c), Checkout(c), Empty
  PROVE  Checkout(c)'
<1>1. Goto("empty", "clone") /\ vol' = EmptyVolume
  BY DEF Empty, Emptied
<1>2. "empty" \in Statements /\ "clone" \in JobStates
  BY DEF Statements, JobStates
<1>3. jobs'[CurJob'] = "clone"
  BY <1>1, <1>2, GotoJobs
<1>4. CheckedOut'
  BY <1>1, <1>3 DEF CheckedOut
<1> QED
  BY <1>1, <1>2, <1>4, StatementCheckout

LEMMA CloneCheckout ==
  ASSUME IInv, NEW c, IsCheckout(c), Checkout(c), Clone
  PROVE  Checkout(c)'
<1>1. vol.repo = "none"
  BY DEF Clone, Goto, Running, IInv, Recovery
<1>2. /\ Goto("clone", AfterClone)
      /\ vol' = [vol EXCEPT !.repo = "whole", !.clone = Attempt]
  BY <1>1 DEF Clone
<1>3. /\ "clone" \in Statements /\ AfterClone \in JobStates
      /\ AfterClone = IF Step.type = "git-checkout" THEN "branch" ELSE "fetch"
  BY DEF Statements, JobStates, AfterClone
<1>4. /\ jobs[CurJob] = "clone" /\ CurJob' = CurJob /\ Step' = Step /\ run' = run
      /\ jobs'[CurJob] = AfterClone
  BY <1>2, <1>3, GotoJobs
<1>5. ASSUME c = run.cur PROVE CheckedOut'
  <2>1. vol = EmptyVolume
    BY <1>4, <1>5 DEF Checkout, CheckedOut
  <2>2. Step.type \in CheckoutTypes
    BY <1>5 DEF IsCheckout, Step
  <2>3. /\ vol'.repo = "whole" /\ vol'.files = {} /\ vol'.clone = Attempt
        /\ vol'.tree = 0 /\ \A h \in Heads : vol'.log[h] = <<>>
    BY <1>2, <2>1 DEF EmptyVolume
  <2>4. Cloned'
    BY <1>4, <2>3 DEF Cloned, Attempt
  <2> QED
    BY <1>3, <1>4, <2>2, <2>3, <2>4 DEF CheckedOut, CheckoutTypes
<1> QED
  BY <1>2, <1>3, <1>5, StatementCheckout

\* The last statement of a checkout: the clone with its branch as the head.
LEMMA BranchCheckout ==
  ASSUME IInv, NEW c, IsCheckout(c), Checkout(c), Branch \/ Fetch,
         NEW from \in {"branch", "fetch"}, Goto(from, "succeeded")
  PROVE  Checkout(c)'
<1>1. Goto(from, "succeeded")
  OBVIOUS
<1>2. from \in Statements /\ "succeeded" \in JobStates
  BY DEF Statements, JobStates
<1>3. /\ jobs[CurJob] = from /\ CurJob' = CurJob /\ Step' = Step /\ run' = run
      /\ jobs'[CurJob] = "succeeded"
  BY <1>1, <1>2, GotoJobs
<1>4. ASSUME c = run.cur PROVE CheckedOut'
  <2>1. /\ Cloned /\ vol \in Volume
        /\ from = "branch" => vol.tree = 0 /\ Step.type = "git-checkout"
        /\ from = "fetch" => Step.type = "git-checkout-pr"
    BY <1>3, <1>4, OtherTypes DEF Checkout, CheckedOut
  <2>2. CASE Branch
    <3>1. vol' = [vol EXCEPT !.head = "run"] /\ from = "branch"
      BY <1>3, <2>2 DEF Branch, Goto, Running
    <3>2. /\ vol'.repo = vol.repo /\ vol'.files = vol.files /\ vol'.clone = vol.clone
          /\ vol'.tree = vol.tree /\ vol'.head = "run" /\ vol'.log = vol.log
      BY <2>1, <3>1 DEF Volume
    <3>3. Cloned'
      BY <1>3, <2>1, <3>2 DEF Cloned, Attempt
    <3>4. vol'.tree = Committed(vol', vol'.head)
      BY <2>1, <3>1, <3>2 DEF Committed, Cloned, Heads
    <3> QED
      BY <1>3, <2>1, <3>1, <3>2, <3>3, <3>4 DEF CheckedOut, Committed
  <2>3. CASE Fetch
    <3>1. vol' = [vol EXCEPT !.head = "pull", !.tree = 1] /\ from = "fetch"
      BY <1>3, <2>3 DEF Fetch, Goto, Running
    <3>2. /\ vol'.repo = vol.repo /\ vol'.files = vol.files /\ vol'.clone = vol.clone
          /\ vol'.tree = 1 /\ vol'.head = "pull" /\ vol'.log = vol.log
      BY <2>1, <3>1 DEF Volume
    <3>3. Cloned'
      BY <1>3, <2>1, <3>2 DEF Cloned, Attempt
    <3>4. vol'.tree = Committed(vol', vol'.head)
      BY <2>1, <3>1, <3>2 DEF Committed, Cloned, Heads
    <3> QED
      BY <1>3, <2>1, <3>1, <3>2, <3>3, <3>4 DEF CheckedOut, Committed
  <2> QED
    BY <2>2, <2>3
<1> QED
  BY <1>1, <1>2, <1>4, StatementCheckout

LEMMA ScriptCheckout ==
  ASSUME IInv, NEW c, IsCheckout(c), Checkout(c), Script
  PROVE  Checkout(c)'
<1> USE DEF JobStates, Statements, CheckoutStatements
<1>1. CASE Empty
  BY <1>1, EmptyCheckout
<1>2. CASE Clone
  BY <1>2, CloneCheckout
<1>3. CASE Branch \/ Fetch
  <2>1. CASE \E from \in {"branch", "fetch"} : Goto(from, "succeeded")
    BY <1>3, <2>1, BranchCheckout
  <2>2. CASE Goto("fetch", "failed")
    BY <2>2, FailedCheckout
  <2> QED
    BY <1>3, <2>1, <2>2 DEF Branch, Fetch
<1>4. CASE AgentExits
  <2>1. PICK to \in {"failed", "cat", "succeeded"} : Goto("claude", to)
    BY <1>4 DEF AgentExits, EndOfAI
  <2> QED
    BY <2>1, OtherCheckout
<1>5. CASE Commands \/ Cat \/ Guard \/ Add
  <2>1. PICK from \in {"commands", "cat", "guard", "add"},
             to \in {"succeeded", "failed", "add", "commit"} : Goto(from, to)
    BY <1>5 DEF Commands, Cat, Guard, Add
  <2> QED
    BY <2>1, OtherCheckout
<1>6. CASE Commit
  BY <1>6, OtherCheckout DEF Commit
<1>7. CASE Push
  <2>1. PICK to \in {"succeeded", "failed"} : Goto("push", to)
    BY <1>7 DEF Push
  <2> QED
    BY <2>1, OtherCheckout
<1> QED
  BY <1>1, <1>2, <1>3, <1>4, <1>5, <1>6, <1>7 DEF Script

\* A move of the reconciler comes to a checkout for the first time or for its
\* next attempt, and never back to it.
LEMMA MoveCheckout ==
  ASSUME IInv, IInv', NEW c, IsCheckout(c), Checkout(c),
         pipeline' = pipeline, jobs' = jobs,
         c <= run.cur => c <= run'.cur,
         c = run'.cur => c > run.cur \/ (c = run.cur /\ Attempt' = Attempt + 1)
  PROVE  Checkout(c)'
<1>1. /\ c \in Nat /\ run.cur \in Nat /\ Attempt \in Nat
      /\ run'.cur \in DOMAIN pipeline /\ run'.cur \in Nat /\ Attempt' \in 1 .. MaxAttempt
  <2>1. /\ DOMAIN pipeline = 1 .. Len(pipeline) /\ Len(pipeline) \in Nat
        /\ run.cur \in DOMAIN pipeline /\ Attempt \in 1 .. MaxAttempt
    BY CurrentStep DEF IInv
  <2>2. /\ run'.cur \in DOMAIN pipeline
        /\ run'.attempt \in [DOMAIN pipeline -> 1 .. MaxAttempt]
    BY DEF IInv, TypeOK
  <2> QED
    BY <2>1, <2>2 DEF IsCheckout, Attempt
<1>2. \A a \in 1 .. MaxAttempt : jobs[<<c, a>>] # "none" =>
        c < run'.cur \/ (c = run'.cur /\ a <= Attempt')
  <2> SUFFICES ASSUME NEW a \in 1 .. MaxAttempt, jobs[<<c, a>>] # "none"
               PROVE  c < run'.cur \/ (c = run'.cur /\ a <= Attempt')
    OBVIOUS
  <2>1. c < run.cur \/ (c = run.cur /\ a <= Attempt)
    BY DEF Checkout
  <2> QED
    BY <1>1, <2>1
<1>3. ASSUME c = run'.cur PROVE jobs[CurJob'] = "none"
  <2>1. CurJob' = <<c, Attempt'>>
    BY <1>3 DEF CurJob
  <2>2. jobs[<<c, Attempt'>>] # "none" => c < run.cur \/ (c = run.cur /\ Attempt' <= Attempt)
    BY <1>1 DEF Checkout
  <2> QED
    BY <1>1, <1>3, <2>1, <2>2
<1>4. c = run'.cur => CheckedOut'
  BY <1>3 DEF CheckedOut
<1> QED
  BY <1>2, <1>4 DEF Checkout

\* The run stays where it is, with the same Job.
LEMMA StayCheckout ==
  ASSUME NEW c, Checkout(c), pipeline' = pipeline, jobs' = jobs, vol' = vol,
         run'.cur = run.cur, run'.attempt = run.attempt
  PROVE  Checkout(c)'
<1>1. CurJob' = CurJob /\ Attempt' = Attempt /\ Step' = Step
  BY DEF CurJob, Attempt, Step
<1> QED
  BY <1>1 DEF Checkout, CheckedOut, Cloned, Committed

LEMMA ReconcileCheckout ==
  ASSUME IInv, IInv', FreshCheckouts(pipeline), NEW c, IsCheckout(c), Checkout(c), Reconcile
  PROVE  Checkout(c)'
<1>1. /\ c \in Nat /\ run.cur \in Nat /\ CurJob \in StepJobs
      /\ run.cur \in DOMAIN pipeline /\ Attempt \in 1 .. MaxAttempt
      /\ jobs \in [StepJobs -> JobStates] /\ Step.type \in StepTypes
      /\ Step.onFailure \in 0 .. Len(pipeline) /\ Len(pipeline) \in Nat
  BY CurrentStep DEF IInv, TypeOK, StepSpec, IsCheckout
<1>2. CASE CreateJob
  <2>1. /\ jobs[CurJob] = "none"
        /\ jobs' = [jobs EXCEPT ![CurJob] = FirstStatement[Step.type]] /\ run' = run
    BY <1>2 DEF CreateJob, Running
  <2>2. FirstStatement[Step.type] \notin {"clone", "branch", "fetch", "succeeded"}
    BY <1>1 DEF FirstStatement, StepTypes
  <2>3. CurJob' = CurJob /\ Attempt' = Attempt
    BY <2>1 DEF CurJob, Attempt
  <2>4. /\ jobs'[CurJob] = FirstStatement[Step.type]
        /\ \A j \in StepJobs : j # CurJob => jobs'[j] = jobs[j]
    BY <1>1, <2>1
  <2>5. \A a \in 1 .. MaxAttempt : jobs'[<<c, a>>] # "none" =>
          c < run.cur \/ (c = run.cur /\ a <= Attempt)
    <3> SUFFICES ASSUME NEW a \in 1 .. MaxAttempt, jobs'[<<c, a>>] # "none"
                 PROVE  c < run.cur \/ (c = run.cur /\ a <= Attempt)
      OBVIOUS
    <3>1. <<c, a>> \in StepJobs
      BY DEF IsCheckout, StepJobs
    <3>2. CASE <<c, a>> = CurJob
      BY <1>1, <3>2 DEF CurJob
    <3>3. CASE <<c, a>> # CurJob
      BY <2>4, <3>1, <3>3 DEF Checkout
    <3> QED
      BY <3>2, <3>3
  <2>6. CheckedOut'
    BY <2>2, <2>3, <2>4 DEF CheckedOut
  <2> QED
    BY <2>1, <2>3, <2>5, <2>6 DEF Checkout
<1>3. CASE StepSucceeds
  <2>1. /\ pipeline' = pipeline /\ jobs' = jobs /\ vol' = vol
        /\ run' = IF run.cur = Len(pipeline) THEN [run EXCEPT !.phase = "Succeeded"]
                                             ELSE [run EXCEPT !.cur = run.cur + 1]
    BY <1>3 DEF StepSucceeds
  <2>2. CASE run.cur = Len(pipeline)
    <3>1. run'.cur = run.cur /\ run'.attempt = run.attempt
      BY <2>1, <2>2 DEF IInv, TypeOK
    <3> QED
      BY <2>1, <3>1, StayCheckout
  <2>3. CASE run.cur # Len(pipeline)
    <3>1. run'.cur = run.cur + 1
      BY <2>1, <2>3 DEF IInv, TypeOK
    <3>2. /\ c <= run.cur => c <= run'.cur
          /\ c = run'.cur => c > run.cur
      BY <1>1, <3>1
    <3> QED
      BY <2>1, <3>2, MoveCheckout
  <2> QED
    BY <2>2, <2>3
<1>4. CASE StepRetries
  <2>1. /\ run' = JumpedBack /\ Step.onFailure # 0
        /\ pipeline' = pipeline /\ jobs' = jobs
    BY <1>4 DEF StepRetries, MayRetry
  <2>2. run'.cur = Step.onFailure
    BY <2>1 DEF JumpedBack, IInv, TypeOK
  <2>3. c = run.cur /\ c = run'.cur => Attempt' = Attempt + 1
    <3> SUFFICES ASSUME c = run.cur, c = run'.cur PROVE Attempt' = Attempt + 1
      OBVIOUS
    <3>1. run'.attempt[run.cur] = Attempt + 1
      BY <1>1, <2>1, <2>2 DEF JumpedBack, IInv, TypeOK
    <3> QED
      BY <3>1 DEF Attempt
  <2>4. c <= run.cur /\ Step.onFailure \in 1 .. c => c = run.cur /\ Step.onFailure = c
    BY <1>1 DEF FreshCheckouts, IsCheckout, CheckoutTypes, Step
  <2>5. c <= run.cur => c <= run'.cur
    BY <1>1, <2>1, <2>2, <2>4
  <2>6. c = run'.cur => c > run.cur \/ c = run.cur
    BY <1>1, <2>1, <2>2, <2>4
  <2> QED
    BY <2>1, <2>3, <2>5, <2>6, MoveCheckout
<1>5. CASE StepFails
  <2>1. /\ run' = [run EXCEPT !.phase = "Failed"]
        /\ pipeline' = pipeline /\ jobs' = jobs /\ vol' = vol
    BY <1>5 DEF StepFails
  <2>2. run'.cur = run.cur /\ run'.attempt = run.attempt
    BY <2>1 DEF IInv, TypeOK
  <2> QED
    BY <2>1, <2>2, StayCheckout
<1> QED
  BY <1>2, <1>3, <1>4, <1>5 DEF Reconcile

LEMMA NextCheckouts ==
  ASSUME \A p \in Pipelines : FreshCheckouts(p)
  PROVE  IInv /\ IInv' /\ CheckoutsInv /\ [Next]_vars => CheckoutsInv'
<1> SUFFICES ASSUME IInv, IInv', CheckoutsInv, [Next]_vars,
                    NEW c \in DOMAIN pipeline', IsCheckout(c)'
             PROVE  Checkout(c)'
  BY DEF CheckoutsInv
<1>1. pipeline' = pipeline
  BY DEF Next, Reconcile, CreateJob, StepSucceeds, StepRetries, StepFails, Script, Empty,
     Clone, Branch, Fetch, AgentWorks, AgentExits, Commands, Cat, Guard, Add, Commit, Push,
     PodDies, CallFails, Goto, vars
<1>2. c \in DOMAIN pipeline /\ IsCheckout(c)
  BY <1>1 DEF IsCheckout
<1>3. Checkout(c) /\ FreshCheckouts(pipeline)
  BY <1>2 DEF CheckoutsInv, IInv, TypeOK
<1>4. CASE Reconcile
  BY <1>2, <1>3, <1>4, ReconcileCheckout
<1>5. CASE Script
  BY <1>2, <1>3, <1>5, ScriptCheckout
<1>6. CASE AgentWorks
  BY <1>2, <1>3, <1>6, OtherCheckout DEF AgentWorks, Statements, CheckoutStatements, JobStates
<1>7. CASE PodDies \/ CallFails
  <2>1. PICK from \in Statements : Goto(from, "failed")
    BY <1>7 DEF PodDies, CallFails, AfterError, Statements
  <2> QED
    BY <1>2, <1>3, <2>1, FailedCheckout
<1>8. CASE UNCHANGED vars
  BY <1>3, <1>8, StayCheckout DEF vars
<1> QED
  BY <1>4, <1>5, <1>6, <1>7, <1>8 DEF Next

LEMMA InitCheckouts == Init => CheckoutsInv
<1> SUFFICES ASSUME Init, NEW c \in DOMAIN pipeline PROVE Checkout(c)
  BY DEF CheckoutsInv
<1>1. IInv
  BY InitInv
<1>2. CurJob \in StepJobs /\ \A a \in 1 .. MaxAttempt : <<c, a>> \in StepJobs
  BY <1>1, CurrentStep DEF IInv, StepJobs
<1>3. \A j \in StepJobs : jobs[j] = "none"
  BY DEF Init
<1> QED
  BY <1>2, <1>3 DEF Checkout, CheckedOut

\* Behind a checkout that succeeded lies a clone of its own attempt, whole, on its
\* branch and with nothing in it, whatever dead pods and earlier attempts left on
\* the volume, for all pipelines in which no failure goes back to a checkout that
\* has succeeded (configureCheckoutJob, configureCheckoutPRJob, and the jump of
\* reconcileRunning, which would take the Job of an earlier attempt for a new one).
THEOREM CheckoutsAreFresh ==
  ASSUME \A p \in Pipelines : FreshCheckouts(p)
  PROVE  Spec => []CheckoutIsFresh
<1>1. IInv /\ CheckoutsInv => CheckoutIsFresh
  <2> SUFFICES ASSUME IInv, CheckoutsInv, CheckingOut, jobs[CurJob] = "succeeded"
               PROVE  /\ Cloned /\ vol.tree = Committed(vol, vol.head)
                      /\ vol.head = IF Step.type = "git-checkout" THEN "run" ELSE "pull"
    BY DEF CheckoutIsFresh, Cloned
  <2>1. run.cur \in DOMAIN pipeline /\ IsCheckout(run.cur)
    BY DEF IInv, TypeOK, CheckingOut, IsCheckout, CheckoutTypes, Step
  <2> QED
    BY <2>1 DEF CheckoutsInv, Checkout, CheckedOut
<1>2. Spec => []CheckoutsInv
  BY InitInv, InitCheckouts, NextInv, NextCheckouts, PTL DEF Spec
<1> QED
  BY <1>1, <1>2, InvariantHolds, PTL

=============================================================================
