--------------------------- MODULE PipelineEditProofs ---------------------------
(***************************************************************************)
(* What edits of a Pipeline cannot do to a run under way, for any lists of *)
(* steps and any number of edits: the types of PipelineEdit, and that      *)
(* edits which leave the steps where they are do no harm.                  *)
(***************************************************************************)
EXTENDS PipelineEdit, TLAPS

-----------------------------------------------------------------------------
(* The invariant.                                                          *)

RunType == [phase : Phases, cur : Names \cup {None}, steps : Seq(StepStatus),
            approved : Names \cup {None}]

Types == TypeOK /\ run \in RunType

\* A run that has not begun has met no list and has no Job.
Unbegun ==
  run.phase = "Pending" => run.steps = <<>> /\ used = {} /\ \A j \in Jobs : jobs[j] = "none"

NamesStay ==
  \A i, k \in DOMAIN run.steps : run.steps[i].name = run.steps[k].name => i = k

UnderWay == {"Running", "WaitingForInput"}

IsCurrent(i) == run.steps[i].name = run.cur

\* The run has passed what comes before its current step.
CurrentInOrder ==
  run.phase \in UnderWay =>
    \A i \in DOMAIN run.steps : IsCurrent(i) => \A k \in 1 .. (i - 1) : Done(run.steps[k].name)

\* The Job at work is that of the current step and attempt.
OnlyCurrent ==
  run.phase \in UnderWay =>
    \A j \in Jobs : jobs[j] = "active" =>
      \A i \in DOMAIN run.steps : IsCurrent(i) => j = <<run.cur, AttemptAt(i)>>

OneAtATime == \A j, k \in Jobs : jobs[j] = "active" /\ jobs[k] = "active" => j = k

JobsInOrder ==
  \A i \in DOMAIN run.steps :
    (\E a \in Attempts : jobs[<<run.steps[i].name, a>>] # "none")
      => \A k \in 1 .. (i - 1) : Done(run.steps[k].name)

SuccessIsWhole == run.phase = "Succeeded" => \E l \in used : \A i \in DOMAIN l : Done(l[i].name)

Harmless == Anchored /\ RetriesGoBack

Safe ==
  /\ StatusIsOfItsStep /\ CurrentInOrder /\ OnlyCurrent
  /\ OneAtATime /\ JobsInOrder /\ SuccessIsWhole

IInv == Types /\ Unbegun /\ NamesStay /\ (Harmless => Safe)

-----------------------------------------------------------------------------
(* What a pass writes into the list of statuses.                           *)

LEMMA NoneIsNoName == None \notin Names /\ NoJob \notin Jobs
BY PipelineEditAssumption DEF NoJob, Jobs

LEMMA SpecSteps ==
  ASSUME NEW l \in Specs
  PROVE  /\ l \in Seq(StepSpec) /\ l # <<>> /\ Len(l) \in Nat /\ DOMAIN l = 1 .. Len(l)
         /\ 1 \in DOMAIN l
         /\ \A i \in DOMAIN l : l[i] \in StepSpec /\ l[i].name \in Names
<1>1. l \in Seq(StepSpec) /\ l # <<>>
  BY PipelineEditAssumption
<1>2. Len(l) \in Nat /\ DOMAIN l = 1 .. Len(l) /\ Len(l) # 0
  BY <1>1
<1>3. \A i \in DOMAIN l : l[i] \in StepSpec
  BY <1>1
<1> QED
  BY <1>1, <1>2, <1>3 DEF StepSpec

LEMMA WriteAt ==
  ASSUME NEW q \in Seq(StepStatus), NEW i \in DOMAIN q, NEW v \in StepStatus
  PROVE  /\ [q EXCEPT ![i] = v] \in Seq(StepStatus)
         /\ DOMAIN [q EXCEPT ![i] = v] = DOMAIN q
         /\ \A k \in DOMAIN q : [q EXCEPT ![i] = v][k] = IF k = i THEN v ELSE q[k]
OBVIOUS

LEMMA StatusFields ==
  ASSUME NEW v \in StepStatus
  PROVE  /\ v.name \in Names /\ v.attempt \in 0 .. MaxAttempt
         /\ \A p \in Phases : [v EXCEPT !.phase = p] \in StepStatus
         /\ \A p \in Phases, a \in Attempts, j \in Jobs :
              [v EXCEPT !.phase = p, !.job = j, !.attempt = a] \in StepStatus
         /\ \A p \in Phases, a \in Attempts : [v EXCEPT !.phase = p, !.attempt = a] \in StepStatus
         /\ \A p \in Phases, a \in Attempts :
              [v EXCEPT !.phase = p, !.attempt = a, !.job = NoJob] \in StepStatus
<1>1. Attempts \subseteq 0 .. MaxAttempt
  BY PipelineEditAssumption DEF Attempts
<1>2. \A p \in Phases : [v EXCEPT !.phase = p] \in StepStatus
  BY DEF StepStatus
<1>3. \A p \in Phases, a \in Attempts, j \in Jobs :
        [v EXCEPT !.phase = p, !.job = j, !.attempt = a] \in StepStatus
  BY <1>1 DEF StepStatus
<1>4. \A p \in Phases, a \in Attempts : [v EXCEPT !.phase = p, !.attempt = a] \in StepStatus
  BY <1>1 DEF StepStatus
<1>5. \A p \in Phases, a \in Attempts :
        [v EXCEPT !.phase = p, !.attempt = a, !.job = NoJob] \in StepStatus
  BY <1>1 DEF StepStatus
<1> QED
  BY <1>2, <1>3, <1>4, <1>5 DEF StepStatus

LEMMA RunFields ==
  ASSUME NEW r \in RunType
  PROVE  /\ r.phase \in Phases /\ r.cur \in Names \cup {None} /\ r.steps \in Seq(StepStatus)
         /\ r.approved \in Names \cup {None}
         /\ \A i \in DOMAIN r.steps : r.steps[i] \in StepStatus
BY DEF RunType

\* The statuses keep their places and names, and the run has met no fewer lists.
Kept ==
  /\ DOMAIN run'.steps = DOMAIN run.steps
  /\ \A i \in DOMAIN run.steps : run'.steps[i].name = run.steps[i].name
  /\ used \subseteq used'

LEMMA WriteNowhere ==
  ASSUME NEW q \in Seq(StepStatus), NEW i, i \notin DOMAIN q, NEW v
  PROVE  [q EXCEPT ![i] = v] = q
OBVIOUS

\* The statuses keep their attempts and Jobs.
SameWork ==
  \A i \in DOMAIN run.steps :
    run'.steps[i].attempt = run.steps[i].attempt /\ run'.steps[i].job = run.steps[i].job

LEMMA FailEffect ==
  ASSUME Types, FailRun
  PROVE  /\ run' \in RunType /\ run'.phase = "Failed" /\ jobs' = jobs
         /\ Kept /\ SameWork
<1> DEFINE i == findStep(run.steps, run.cur)
           v == [run.steps[i] EXCEPT !.phase = "Failed"]
           q == [run.steps EXCEPT ![i] = v]
<1>1. run \in RunType /\ run.steps \in Seq(StepStatus)
  BY RunFields DEF Types
<1>2. /\ run' = [run EXCEPT !.phase = "Failed", !.steps = IF i = 0 THEN run.steps ELSE q]
      /\ jobs' = jobs /\ used' = used \cup {seen}
  BY DEF FailRun, Pass
<1> HIDE DEF i
<1>3. CASE i \in DOMAIN run.steps
  <2>1. i # 0
    BY <1>1, <1>3
  <2>2. run'.phase = "Failed" /\ run'.cur = run.cur /\ run'.approved = run.approved /\ run'.steps = q
    BY <1>1, <1>2, <2>1 DEF RunType
  <2>3. /\ v \in StepStatus /\ v.name = run.steps[i].name
        /\ v.attempt = run.steps[i].attempt /\ v.job = run.steps[i].job
    BY <1>1, <1>3, RunFields DEF StepStatus, Phases
  <2> HIDE DEF v
  <2>4. /\ q \in Seq(StepStatus) /\ DOMAIN q = DOMAIN run.steps
        /\ \A k \in DOMAIN run.steps : q[k] = IF k = i THEN v ELSE run.steps[k]
    BY <1>1, <1>3, <2>3, WriteAt
  <2> HIDE DEF q
  <2>5. run' \in RunType
    BY <1>1, <1>2, <2>1, <2>4 DEF RunType, Phases
  <2> QED
    BY <1>2, <2>2, <2>3, <2>4, <2>5 DEF Kept, SameWork
<1>4. CASE i \notin DOMAIN run.steps
  <2>1. q = run.steps
    BY <1>1, <1>4, WriteNowhere
  <2> HIDE DEF q
  <2>2. run' = [run EXCEPT !.phase = "Failed", !.steps = run.steps]
    BY <1>2, <2>1
  <2>3. run' \in RunType /\ run'.phase = "Failed" /\ run'.steps = run.steps
    BY <1>1, <2>2 DEF RunType, Phases
  <2> QED
    BY <1>2, <2>3 DEF Kept, SameWork
<1> QED
  BY <1>3, <1>4

\* A pass that has found its step has its status, and names a Job that may exist.
LEMMA Found ==
  ASSUME Types, NEW i \in DOMAIN seen, NEW states, At(i, states)
  PROVE  /\ run.phase = "Running" /\ i \in DOMAIN run.steps /\ run.steps[i] \in StepStatus
         /\ seen[i] \in StepSpec /\ seen[i].name \in Names
         /\ AttemptAt(i) \in Attempts /\ JobAt(i) \in Jobs /\ jobs[JobAt(i)] \in states
<1>1. run \in RunType /\ seen \in Specs
  BY DEF Types, TypeOK
<1>2. i \in DOMAIN run.steps /\ run.steps[i] \in StepStatus
  BY <1>1, RunFields DEF At
<1>3. AttemptAt(i) \in Attempts
  <2>1. run.steps[i].attempt \in 0 .. MaxAttempt
    BY <1>2, StatusFields
  <2> QED
    BY <2>1, PipelineEditAssumption DEF AttemptAt, Attempts
<1> QED
  BY <1>1, <1>2, <1>3, SpecSteps DEF At, JobAt, Jobs

LEMMA AwaitEffect ==
  ASSUME Types, NEW i \in DOMAIN seen, AwaitApproval(i)
  PROVE  /\ run' \in RunType /\ run'.phase = "WaitingForInput" /\ run'.cur = run.cur
         /\ jobs' = jobs /\ Kept /\ SameWork
<1> DEFINE v == [run.steps[i] EXCEPT !.phase = "WaitingForInput"]
           q == [run.steps EXCEPT ![i] = v]
<1>1. run \in RunType /\ run.steps \in Seq(StepStatus) /\ i \in DOMAIN run.steps
  BY RunFields, Found DEF Types, AwaitApproval
<1>2. /\ v \in StepStatus /\ v.name = run.steps[i].name
      /\ v.attempt = run.steps[i].attempt /\ v.job = run.steps[i].job
  BY <1>1, RunFields DEF StepStatus, Phases
<1>3. /\ run' = [run EXCEPT !.phase = "WaitingForInput", !.steps = q]
      /\ jobs' = jobs /\ used' = used \cup {seen}
  BY <1>1 DEF AwaitApproval, Pass
<1> HIDE DEF v
<1>4. /\ q \in Seq(StepStatus) /\ DOMAIN q = DOMAIN run.steps
      /\ \A k \in DOMAIN run.steps : q[k] = IF k = i THEN v ELSE run.steps[k]
  BY <1>1, <1>2, WriteAt
<1> HIDE DEF q
<1>5. /\ run' \in RunType /\ run'.phase = "WaitingForInput" /\ run'.cur = run.cur
      /\ run'.steps = q
  BY <1>1, <1>3, <1>4 DEF RunType, Phases
<1> QED
  BY <1>2, <1>3, <1>4, <1>5 DEF Kept, SameWork

\* The next attempt of a step is the one before, or the first.
LEMMA CreateEffect ==
  ASSUME Types, NEW i \in DOMAIN seen, CreateJob(i)
  PROVE  /\ run' \in RunType /\ run'.phase = "Running" /\ run'.cur = run.cur
         /\ jobs' = [jobs EXCEPT ![JobAt(i)] = "active"]
         /\ Kept
         /\ \A k \in DOMAIN run.steps : /\ AttemptAt(k)' = AttemptAt(k)
                                        /\ \/ run'.steps[k].job = run.steps[k].job
                                           \/ k = i /\ run'.steps[k].job = JobAt(i)
<1> DEFINE v == [run.steps[i] EXCEPT !.phase = "Running", !.job = JobAt(i),
                                     !.attempt = AttemptAt(i)]
           q == [run.steps EXCEPT ![i] = v]
<1>1. /\ run \in RunType /\ run.steps \in Seq(StepStatus) /\ i \in DOMAIN run.steps
      /\ run.phase = "Running" /\ AttemptAt(i) \in Attempts /\ JobAt(i) \in Jobs
  BY RunFields, Found DEF Types, CreateJob
<1>2. /\ jobs' = [jobs EXCEPT ![JobAt(i)] = "active"] /\ used' = used \cup {seen}
      /\ run' = run \/ run' = [run EXCEPT !.steps = q]
  BY <1>1 DEF CreateJob, Pass
<1>3. CASE run' = run
  BY <1>1, <1>2, <1>3 DEF Kept, AttemptAt
<1>4. CASE run' = [run EXCEPT !.steps = q]
  <2>1. v \in StepStatus
    BY <1>1, RunFields, StatusFields DEF Phases
  <2>2. v.name = run.steps[i].name /\ v.attempt = AttemptAt(i) /\ v.job = JobAt(i)
    BY <1>1, RunFields DEF StepStatus
  <2> HIDE DEF v
  <2>3. /\ q \in Seq(StepStatus) /\ DOMAIN q = DOMAIN run.steps
        /\ \A k \in DOMAIN run.steps : q[k] = IF k = i THEN v ELSE run.steps[k]
    BY <1>1, <2>1, WriteAt
  <2> HIDE DEF q
  <2>4. /\ run' \in RunType /\ run'.phase = "Running" /\ run'.cur = run.cur /\ run'.steps = q
    BY <1>1, <1>4, <2>3 DEF RunType
  <2>5. AttemptAt(i) # 0
    BY <1>1 DEF Attempts
  <2>6. \A k \in DOMAIN run.steps : AttemptAt(k)' = AttemptAt(k)
    <3> TAKE k \in DOMAIN run.steps
    <3>1. CASE k = i
      <4>1. AttemptAt(k)' = (IF run'.steps[i].attempt = 0 THEN 1 ELSE run'.steps[i].attempt)
        BY <3>1 DEF AttemptAt
      <4> QED
        BY <3>1, <4>1, <1>1, <2>2, <2>3, <2>4, <2>5
    <3>2. CASE k # i
      BY <3>2, <2>3, <2>4 DEF AttemptAt
    <3> QED
      BY <3>1, <3>2
  <2> QED
    BY <1>2, <2>2, <2>3, <2>4, <2>6 DEF Kept
<1> QED
  BY <1>2, <1>3, <1>4

LEMMA SucceedsEffect ==
  ASSUME Types, NEW i \in DOMAIN seen, StepSucceeds(i)
  PROVE  /\ run' \in RunType /\ jobs' = jobs /\ Kept /\ SameWork
         /\ \/ i = Len(seen) /\ run'.phase = "Succeeded"
            \/ i + 1 \in DOMAIN seen /\ run'.phase = "Running" /\ run'.cur = seen[i + 1].name
<1> DEFINE v == [run.steps[i] EXCEPT !.phase = "Succeeded"]
           q == [run.steps EXCEPT ![i] = v]
<1>1. /\ run \in RunType /\ run.steps \in Seq(StepStatus) /\ i \in DOMAIN run.steps
      /\ run.phase = "Running" /\ seen \in Specs
  BY RunFields, Found DEF Types, TypeOK, StepSucceeds
<1>2. /\ v \in StepStatus /\ v.name = run.steps[i].name
      /\ v.attempt = run.steps[i].attempt /\ v.job = run.steps[i].job
  BY <1>1, RunFields DEF StepStatus, Phases
<1>3. run' = Advanced([run EXCEPT !.steps = q], i) /\ jobs' = jobs /\ used' = used \cup {seen}
  BY <1>1 DEF StepSucceeds, Pass
<1> HIDE DEF v
<1>4. /\ q \in Seq(StepStatus) /\ DOMAIN q = DOMAIN run.steps
      /\ \A k \in DOMAIN run.steps : q[k] = IF k = i THEN v ELSE run.steps[k]
  BY <1>1, <1>2, WriteAt
<1> HIDE DEF q
<1>5. CASE i >= Len(seen)
  <2>1. i = Len(seen)
    BY <1>1, <1>5, SpecSteps
  <2>2. run' \in RunType /\ run'.phase = "Succeeded" /\ run'.steps = q
    BY <1>1, <1>3, <1>4, <1>5 DEF Advanced, RunType, Phases
  <2> QED
    BY <1>2, <1>3, <1>4, <2>1, <2>2 DEF Kept, SameWork
<1>6. CASE ~(i >= Len(seen))
  <2>1. i + 1 \in DOMAIN seen /\ seen[i + 1].name \in Names
    BY <1>1, <1>6, SpecSteps
  <2>2. /\ run' \in RunType /\ run'.phase = "Running" /\ run'.cur = seen[i + 1].name
        /\ run'.steps = q
    BY <1>1, <1>3, <1>4, <1>6, <2>1 DEF Advanced, RunType
  <2> QED
    BY <1>2, <1>3, <1>4, <2>1, <2>2 DEF Kept, SameWork
<1> QED
  BY <1>5, <1>6

LEMMA RetriesEffect ==
  ASSUME Types, NEW i \in DOMAIN seen, StepRetries(i)
  PROVE  /\ run' \in RunType /\ run'.phase = "Running" /\ run'.cur = seen[i].onFailure
         /\ jobs' = jobs /\ Kept
         /\ findStep(seen, seen[i].onFailure) \in DOMAIN run.steps
         /\ \A k \in DOMAIN run.steps : run'.steps[k].job \in {run.steps[k].job, NoJob}
<1>1. PICK t \in DOMAIN run.steps :
        t = findStep(seen, seen[i].onFailure) /\ Pass(JumpedBack(i, t))
  BY DEF StepRetries
<1> DEFINE a == AttemptAt(i) + 1
           v == [run.steps[i] EXCEPT !.phase = "Failed", !.attempt = a]
           q == [run.steps EXCEPT ![i] = v]
           w == [q[t] EXCEPT !.phase = "Pending", !.attempt = a, !.job = NoJob]
           z == [q EXCEPT ![t] = w]
<1>2. /\ run \in RunType /\ run.steps \in Seq(StepStatus) /\ i \in DOMAIN run.steps
      /\ run.phase = "Running" /\ seen \in Specs /\ AttemptAt(i) \in Attempts
      /\ seen[i] \in StepSpec
  BY RunFields, Found DEF Types, TypeOK, StepRetries
<1>3. /\ run' = [run EXCEPT !.cur = seen[i].onFailure, !.steps = z]
      /\ jobs' = jobs /\ used' = used \cup {seen}
  <2>1. run' = JumpedBack(i, t) /\ jobs' = jobs /\ used' = used \cup {seen}
    BY <1>1 DEF StepRetries, Pass
  <2>2. JumpedBack(i, t) = [run EXCEPT !.cur = seen[i].onFailure, !.steps = z]
    BY <1>1, <1>2 DEF JumpedBack, RunType
  <2> QED
    BY <2>1, <2>2
<1>4. a \in Attempts
  <2>1. AttemptAt(i) < Retries(seen[i]) /\ Retries(seen[i]) <= MaxAttempt
    BY <1>2, PipelineEditAssumption DEF StepRetries, MayRetry
  <2>2. Retries(seen[i]) \in Nat
    BY <1>2 DEF Retries, StepSpec
  <2> QED
    BY <1>2, <2>1, <2>2, PipelineEditAssumption DEF Attempts
<1> HIDE DEF a
<1>5. v \in StepStatus /\ v.name = run.steps[i].name /\ v.job = run.steps[i].job
  <2>1. run.steps[i] \in StepStatus
    BY <1>2, RunFields
  <2>2. v \in StepStatus
    BY <1>4, <2>1, StatusFields DEF Phases
  <2> QED
    BY <2>1, <2>2 DEF StepStatus
<1> HIDE DEF v
<1>6. /\ q \in Seq(StepStatus) /\ DOMAIN q = DOMAIN run.steps
      /\ \A k \in DOMAIN run.steps : q[k] = IF k = i THEN v ELSE run.steps[k]
  BY <1>2, <1>5, WriteAt
<1>7. \A k \in DOMAIN run.steps : q[k].name = run.steps[k].name /\ q[k].job = run.steps[k].job
  BY <1>5, <1>6
<1>8. q[t] \in StepStatus
  BY <1>1, <1>6
<1> HIDE DEF q
<1>9. w \in StepStatus /\ w.name = q[t].name /\ w.job = NoJob
  <2>1. w \in StepStatus
    BY <1>4, <1>8, StatusFields DEF Phases
  <2> QED
    BY <1>8, <2>1 DEF StepStatus
<1> HIDE DEF w
<1>10. /\ z \in Seq(StepStatus) /\ DOMAIN z = DOMAIN run.steps
       /\ \A k \in DOMAIN run.steps : z[k] = IF k = t THEN w ELSE q[k]
  BY <1>1, <1>6, <1>9, WriteAt
<1> HIDE DEF z
<1>11. seen[i].onFailure \in Names \cup {None}
  BY <1>2 DEF StepSpec
<1>12. /\ run' \in RunType /\ run'.phase = "Running" /\ run'.cur = seen[i].onFailure
       /\ run'.steps = z
  BY <1>2, <1>3, <1>10, <1>11 DEF RunType
<1>13. \A k \in DOMAIN run.steps :
         z[k].name = run.steps[k].name /\ z[k].job \in {run.steps[k].job, NoJob}
  BY <1>7, <1>9, <1>10
<1> QED
  BY <1>1, <1>3, <1>10, <1>12, <1>13 DEF Kept

-----------------------------------------------------------------------------
(* What holds whatever the edits are.                                      *)

LEMMA InitTypes == Init => Types /\ Unbegun /\ NamesStay
<1> SUFFICES ASSUME Init PROVE Types /\ Unbegun /\ NamesStay
  OBVIOUS
<1>1. <<>> \in Seq(StepStatus) /\ DOMAIN <<>> = {}
  OBVIOUS
<1>2. run \in RunType
  BY <1>1 DEF Init, RunType, Phases
<1>3. edits \in 0 .. MaxEdits
  BY PipelineEditAssumption DEF Init
<1>4. TypeOK
  BY <1>2, <1>3, RunFields DEF Init, TypeOK
<1> QED
  BY <1>1, <1>2, <1>4 DEF Init, Types, Unbegun, NamesStay

LEMMA InitializeEffect ==
  ASSUME Types, Initialize
  PROVE  /\ run' \in RunType /\ run'.phase = "Running" /\ jobs' = jobs
         /\ run'.cur = seen[1].name /\ DOMAIN run'.steps = DOMAIN seen
         /\ \A i \in DOMAIN seen : run'.steps[i].name = seen[i].name /\ run'.steps[i].job = NoJob
<1> DEFINE q == [i \in DOMAIN seen |->
                   [name |-> seen[i].name, phase |-> "Pending", attempt |-> 0, job |-> NoJob]]
<1>1. run \in RunType /\ seen \in Specs
  BY DEF Types, TypeOK
<1>2. /\ run' = [run EXCEPT !.phase = "Running", !.cur = seen[1].name, !.steps = q]
      /\ jobs' = jobs
  BY DEF Initialize, Pass
<1>3. 0 \in 0 .. MaxAttempt
  BY PipelineEditAssumption
<1>4. \A i \in DOMAIN seen : q[i] \in StepStatus
  BY <1>1, <1>3, SpecSteps DEF StepStatus, Phases
<1>5. q \in Seq(StepStatus) /\ DOMAIN q = DOMAIN seen
  <2>1. DOMAIN q = 1 .. Len(seen) /\ Len(seen) \in Nat
    BY <1>1, SpecSteps
  <2> QED
    BY <1>1, <1>4, <2>1, SpecSteps
<1>6. \A i \in DOMAIN seen : q[i].name = seen[i].name /\ q[i].job = NoJob
  OBVIOUS
<1> HIDE DEF q
<1>7. seen[1].name \in Names
  BY <1>1, SpecSteps
<1> QED
  BY <1>1, <1>2, <1>5, <1>6, <1>7 DEF RunType, Phases

LEMMA JobStates ==
  ASSUME NEW js \in [Jobs -> {"none", "active", "succeeded", "failed"}], NEW j \in Jobs,
         NEW x \in {"active", "succeeded", "failed"}
  PROVE  /\ [js EXCEPT ![j] = x] \in [Jobs -> {"none", "active", "succeeded", "failed"}]
         /\ [js EXCEPT ![j] = x][j] = x
         /\ \A k \in Jobs : k # j => [js EXCEPT ![j] = x][k] = js[k]
OBVIOUS

LEMMA NextTypes ==
  ASSUME Types, [Next]_vars
  PROVE  Types'
<1>1. /\ pipeline \in Specs /\ seen \in Specs /\ used \subseteq Specs /\ run \in RunType
      /\ jobs \in [Jobs -> {"none", "active", "succeeded", "failed"}]
      /\ edits \in 0 .. MaxEdits
  BY DEF Types, TypeOK
<1>2. ASSUME /\ pipeline' \in Specs /\ seen' \in Specs /\ used' \subseteq Specs
             /\ run' \in RunType /\ edits' \in 0 .. MaxEdits
             /\ jobs' \in [Jobs -> {"none", "active", "succeeded", "failed"}]
      PROVE  Types'
  BY <1>2 DEF Types, TypeOK, RunType
<1>3. CASE Reconcile
  <2>1. UNCHANGED <<pipeline, seen, edits>> /\ used' = used \cup {seen}
    BY <1>3 DEF Reconcile, Initialize, StepNotFound, Resume, FailRun, AwaitApproval, CreateJob,
       StepSucceeds, StepRetries, StepFails, Pass
  <2>2. CASE Initialize
    BY <1>1, <1>2, <2>1, <2>2, InitializeEffect
  <2>3. CASE FailRun
    BY <1>1, <1>2, <2>1, <2>3, FailEffect
  <2>4. CASE Resume
    <3>1. run' = [run EXCEPT !.phase = "Running"] /\ jobs' = jobs
      BY <2>4 DEF Resume, Pass
    <3>2. run' \in RunType
      BY <1>1, <3>1 DEF RunType, Phases
    <3> QED
      BY <1>1, <1>2, <2>1, <3>1, <3>2
  <2>5. ASSUME NEW i \in DOMAIN seen,
               AwaitApproval(i) \/ StepSucceeds(i) \/ StepRetries(i)
        PROVE  Types'
    BY <1>1, <1>2, <2>1, <2>5, AwaitEffect, SucceedsEffect, RetriesEffect
  <2>6. ASSUME NEW i \in DOMAIN seen, CreateJob(i) PROVE Types'
    <3>1. JobAt(i) \in Jobs
      BY <2>6, Found DEF CreateJob
    <3> QED
      BY <1>1, <1>2, <2>1, <2>6, <3>1, CreateEffect, JobStates
  <2> QED
    BY <1>3, <2>2, <2>3, <2>4, <2>5, <2>6 DEF Reconcile, StepNotFound, StepFails
<1>4. CASE Edit
  <2>1. edits + 1 \in 0 .. MaxEdits
    BY <1>1, <1>4, PipelineEditAssumption DEF Edit
  <2> QED
    BY <1>1, <1>2, <1>4, <2>1 DEF Edit
<1>5. CASE SyncPipeline
  BY <1>1, <1>2, <1>5 DEF SyncPipeline
<1>6. CASE Approve
  <2>1. run' \in RunType
    BY <1>1, <1>6 DEF Approve, RunType
  <2> QED
    BY <1>1, <1>2, <1>6, <2>1 DEF Approve
<1>7. ASSUME NEW j \in Jobs, JobEnds(j) PROVE Types'
  <2>1. jobs' \in [Jobs -> {"none", "active", "succeeded", "failed"}]
    BY <1>1, <1>7, JobStates DEF JobEnds
  <2> QED
    BY <1>1, <1>2, <1>7, <2>1 DEF JobEnds
<1>8. CASE UNCHANGED vars
  BY <1>1, <1>2, <1>8 DEF vars
<1> QED
  BY <1>3, <1>4, <1>5, <1>6, <1>7, <1>8 DEF Next

-----------------------------------------------------------------------------
(* Where the current step is.                                              *)

\* With one step of a name, findStep finds it.
LEMMA FindStep ==
  ASSUME DistinctNames, NEW l \in Specs, NEW n, findStep(l, n) \in DOMAIN l
  PROVE  l[findStep(l, n)].name = n
<1>1. Len(l) \in Nat /\ DOMAIN l = 1 .. Len(l)
  BY SpecSteps
<1>2. PICK i \in DOMAIN l : l[i].name = n
  BY <1>1 DEF findStep
<1>3. \A k \in 1 .. (i - 1) : k \in DOMAIN l /\ k # i
  BY <1>1
<1>4. \A k \in 1 .. (i - 1) : l[k].name # n
  BY <1>2, <1>3 DEF DistinctNames
<1> QED
  BY <1>2, <1>4 DEF findStep

\* The lists a run has met say of its past what the present ones do.
LEMMA Monotone ==
  ASSUME Kept, Harmless'
  PROVE  Harmless
BY DEF Kept, Harmless, Anchored, RetriesGoBack

\* A pass over a list that moves no step finds the status of the current step.
LEMMA AtCurrent ==
  ASSUME DistinctNames, Types, NEW i \in DOMAIN seen, NEW states, At(i, states),
         Kept, seen \in used', Harmless'
  PROVE  /\ i \in DOMAIN run.steps /\ IsCurrent(i) /\ seen[i].name = run.cur
         /\ JobAt(i) = <<run.cur, AttemptAt(i)>>
         /\ \A k \in DOMAIN seen \cap DOMAIN run.steps : seen[k].name = run.steps[k].name
<1>1. seen[i].name = run.cur
  BY FindStep DEF At, Types, TypeOK
<1>2. \A k \in DOMAIN seen \cap DOMAIN run.steps : seen[k].name = run.steps[k].name
  BY DEF Kept, Harmless, Anchored
<1> QED
  BY <1>1, <1>2, Found DEF IsCurrent, JobAt

LEMMA Prefixes ==
  ASSUME Types, NEW i \in DOMAIN run.steps
  PROVE  i \in Nat /\ \A k \in 1 .. (i - 1) : k \in DOMAIN run.steps
<1>1. run.steps \in Seq(StepStatus)
  BY RunFields DEF Types
<1>2. Len(run.steps) \in Nat /\ DOMAIN run.steps = 1 .. Len(run.steps)
  BY <1>1
<1> QED
  BY <1>2

\* If the current step's Job is not at work, none is.
LEMMA NoneActive ==
  ASSUME Types, OnlyCurrent, run.phase = "Running", NEW i \in DOMAIN run.steps, IsCurrent(i),
         jobs[<<run.cur, AttemptAt(i)>>] # "active"
  PROVE  \A j \in Jobs : jobs[j] # "active"
BY DEF OnlyCurrent, UnderWay

\* What a pass that leaves the Jobs alone cannot disturb.
LEMMA SameJobs ==
  ASSUME Types, Safe, Kept, jobs' = jobs,
         \A k \in DOMAIN run.steps : run'.steps[k].job \in {run.steps[k].job, NoJob}
  PROVE  StatusIsOfItsStep' /\ OneAtATime' /\ JobsInOrder'
<1>1. StatusIsOfItsStep'
  BY DEF Safe, StatusIsOfItsStep, Kept, NoJob
<1>2. OneAtATime'
  BY DEF Safe, OneAtATime
<1>3. JobsInOrder'
  <2> SUFFICES ASSUME NEW i \in DOMAIN run'.steps,
                      \E a \in Attempts : jobs'[<<run'.steps[i].name, a>>] # "none",
                      NEW k \in 1 .. (i - 1)
               PROVE  Done(run.steps[k].name)'
    BY DEF JobsInOrder
  <2>1. i \in DOMAIN run.steps /\ k \in DOMAIN run.steps /\ Done(run.steps[k].name)
    BY Prefixes DEF Kept, Safe, JobsInOrder
  <2> QED
    BY <2>1 DEF Kept, Done
<1> QED
  BY <1>1, <1>2, <1>3

LEMMA FailSafe ==
  ASSUME Types, Safe, FailRun
  PROVE  Safe'
<1>1. /\ Kept /\ jobs' = jobs /\ run'.phase = "Failed"
      /\ \A k \in DOMAIN run.steps : run'.steps[k].job \in {run.steps[k].job, NoJob}
  BY FailEffect DEF SameWork
<1>2. StatusIsOfItsStep' /\ OneAtATime' /\ JobsInOrder'
  BY <1>1, SameJobs
<1> QED
  BY <1>1, <1>2 DEF Safe, CurrentInOrder, OnlyCurrent, SuccessIsWhole, UnderWay

\* A run that stays under way at its step, with the same attempts.
LEMMA StaySafe ==
  ASSUME Types, Safe, Kept, SameWork, jobs' = jobs, run.phase \in UnderWay,
         run'.phase \in UnderWay, run'.cur = run.cur
  PROVE  Safe'
<1>1. \A k \in DOMAIN run.steps : run'.steps[k].job \in {run.steps[k].job, NoJob}
  BY DEF SameWork
<1>2. StatusIsOfItsStep' /\ OneAtATime' /\ JobsInOrder'
  BY <1>1, SameJobs
<1>3. CurrentInOrder'
  <2> SUFFICES ASSUME NEW i \in DOMAIN run'.steps, IsCurrent(i)', NEW k \in 1 .. (i - 1)
               PROVE  Done(run.steps[k].name)'
    BY DEF CurrentInOrder
  <2>1. i \in DOMAIN run.steps /\ IsCurrent(i) /\ k \in DOMAIN run.steps
    BY Prefixes DEF Kept, IsCurrent
  <2>2. Done(run.steps[k].name)
    BY <2>1 DEF Safe, CurrentInOrder
  <2> QED
    BY <2>1, <2>2 DEF Kept, Done
<1>4. OnlyCurrent'
  <2> SUFFICES ASSUME NEW j \in Jobs, jobs'[j] = "active",
                      NEW i \in DOMAIN run'.steps, IsCurrent(i)'
               PROVE  j = <<run'.cur, AttemptAt(i)'>>
    BY DEF OnlyCurrent
  <2>1. i \in DOMAIN run.steps /\ IsCurrent(i) /\ AttemptAt(i)' = AttemptAt(i)
    BY DEF Kept, IsCurrent, SameWork, AttemptAt
  <2>2. j = <<run.cur, AttemptAt(i)>>
    BY <2>1 DEF Safe, OnlyCurrent
  <2> QED
    BY <2>1, <2>2
<1>5. SuccessIsWhole'
  BY DEF SuccessIsWhole, UnderWay
<1> QED
  BY <1>2, <1>3, <1>4, <1>5 DEF Safe

LEMMA CreateSafe ==
  ASSUME DistinctNames, Types, NamesStay, Safe, NEW i \in DOMAIN seen, CreateJob(i),
         seen \in used', Harmless'
  PROVE  Safe'
<1>1. /\ run' \in RunType /\ run.phase = "Running" /\ run'.phase = "Running" /\ run'.cur = run.cur
      /\ jobs' = [jobs EXCEPT ![JobAt(i)] = "active"] /\ Kept
      /\ JobAt(i) \in Jobs /\ jobs[JobAt(i)] = "none"
      /\ jobs \in [Jobs -> {"none", "active", "succeeded", "failed"}]
  <2>1. run.phase = "Running" /\ JobAt(i) \in Jobs /\ jobs[JobAt(i)] = "none"
    BY Found DEF CreateJob
  <2> QED
    BY <2>1, CreateEffect DEF Types, TypeOK
<1>2. \A k \in DOMAIN run.steps : /\ AttemptAt(k)' = AttemptAt(k)
                                  /\ \/ run'.steps[k].job = run.steps[k].job
                                     \/ k = i /\ run'.steps[k].job = JobAt(i)
  BY CreateEffect
<1>3. /\ i \in DOMAIN run.steps /\ IsCurrent(i) /\ JobAt(i) = <<run.cur, AttemptAt(i)>>
  BY <1>1, AtCurrent DEF CreateJob
<1>4. /\ \A j \in Jobs : jobs[j] # "active"
      /\ \A j \in Jobs : jobs'[j] = "active" => j = JobAt(i)
      /\ \A j \in Jobs : jobs[j] = "succeeded" => jobs'[j] = "succeeded"
      /\ \A j \in Jobs : jobs'[j] # "none" => jobs[j] # "none" \/ j = JobAt(i)
  <2>1. \A j \in Jobs : jobs[j] # "active"
    BY <1>1, <1>3, NoneActive DEF Safe
  <2> QED
    BY <1>1, <2>1
<1>5. \A k \in DOMAIN run.steps : Done(run.steps[k].name) => Done(run.steps[k].name)'
  <2> SUFFICES ASSUME NEW k \in DOMAIN run.steps, NEW a \in Attempts,
                      jobs[<<run.steps[k].name, a>>] = "succeeded"
               PROVE  jobs'[<<run'.steps[k].name, a>>] = "succeeded"
    BY DEF Done
  <2>1. run.steps[k].name \in Names
    BY RunFields, StatusFields DEF Types
  <2> QED
    BY <1>1, <1>4, <2>1 DEF Kept, Jobs
<1>6. StatusIsOfItsStep'
  BY <1>1, <1>2, <1>3 DEF Safe, StatusIsOfItsStep, Kept, IsCurrent
<1>7. OneAtATime' /\ SuccessIsWhole'
  BY <1>1, <1>4 DEF OneAtATime, SuccessIsWhole
<1>8. CurrentInOrder'
  <2> SUFFICES ASSUME NEW m \in DOMAIN run'.steps, IsCurrent(m)', NEW k \in 1 .. (m - 1)
               PROVE  Done(run.steps[k].name)'
    BY DEF CurrentInOrder
  <2>1. m \in DOMAIN run.steps /\ IsCurrent(m) /\ k \in DOMAIN run.steps
    BY <1>1, Prefixes DEF Kept, IsCurrent
  <2>2. Done(run.steps[k].name)
    BY <1>1, <2>1 DEF Safe, CurrentInOrder, UnderWay
  <2> QED
    BY <1>5, <2>1, <2>2
<1>9. OnlyCurrent'
  <2> SUFFICES ASSUME NEW j \in Jobs, jobs'[j] = "active",
                      NEW m \in DOMAIN run'.steps, IsCurrent(m)'
               PROVE  j = <<run'.cur, AttemptAt(m)'>>
    BY DEF OnlyCurrent
  <2>1. m \in DOMAIN run.steps /\ IsCurrent(m)
    BY <1>1 DEF Kept, IsCurrent
  <2>2. m = i
    BY <1>3, <2>1 DEF NamesStay, IsCurrent
  <2> QED
    BY <1>1, <1>2, <1>3, <1>4, <2>1, <2>2
<1>10. JobsInOrder'
  <2> SUFFICES ASSUME NEW m \in DOMAIN run'.steps, NEW a \in Attempts,
                      jobs'[<<run'.steps[m].name, a>>] # "none", NEW k \in 1 .. (m - 1)
               PROVE  Done(run.steps[k].name)'
    BY DEF JobsInOrder
  <2>1. m \in DOMAIN run.steps /\ k \in DOMAIN run.steps /\ run'.steps[m].name = run.steps[m].name
    BY <1>1, Prefixes DEF Kept
  <2>2. <<run.steps[m].name, a>> \in Jobs
    BY <2>1, RunFields, StatusFields DEF Types, Jobs
  <2>3. CASE jobs[<<run.steps[m].name, a>>] # "none"
    BY <1>5, <2>1, <2>3 DEF Safe, JobsInOrder
  <2>4. CASE <<run.steps[m].name, a>> = JobAt(i)
    <3>1. IsCurrent(m)
      BY <1>3, <2>4 DEF IsCurrent
    <3>2. Done(run.steps[k].name)
      BY <1>1, <2>1, <3>1 DEF Safe, CurrentInOrder, UnderWay
    <3> QED
      BY <1>5, <2>1, <3>2
  <2> QED
    BY <1>4, <2>1, <2>2, <2>3, <2>4
<1> QED
  BY <1>6, <1>7, <1>8, <1>9, <1>10 DEF Safe

LEMMA SucceedsSafe ==
  ASSUME DistinctNames, Types, NamesStay, Safe, NEW i \in DOMAIN seen, StepSucceeds(i),
         seen \in used', Harmless'
  PROVE  Safe'
<1>1. /\ run' \in RunType /\ jobs' = jobs /\ Kept /\ SameWork /\ run.phase = "Running"
      /\ \/ i = Len(seen) /\ run'.phase = "Succeeded"
         \/ i + 1 \in DOMAIN seen /\ run'.phase = "Running" /\ run'.cur = seen[i + 1].name
      /\ jobs[JobAt(i)] = "succeeded" /\ AttemptAt(i) \in Attempts
  BY SucceedsEffect, Found DEF StepSucceeds
<1>2. /\ i \in DOMAIN run.steps /\ IsCurrent(i) /\ seen[i].name = run.cur
      /\ JobAt(i) = <<run.cur, AttemptAt(i)>>
      /\ \A k \in DOMAIN seen \cap DOMAIN run.steps : seen[k].name = run.steps[k].name
  BY <1>1, AtCurrent DEF StepSucceeds
<1>3. \A j \in Jobs : jobs[j] # "active"
  BY <1>1, <1>2, NoneActive DEF Safe
<1>4. StatusIsOfItsStep' /\ OneAtATime' /\ JobsInOrder'
  BY <1>1, SameJobs DEF SameWork
<1>5. OnlyCurrent'
  BY <1>1, <1>3 DEF OnlyCurrent
<1>6. /\ DOMAIN run.steps = 1 .. Len(run.steps) /\ Len(run.steps) \in Nat
      /\ DOMAIN seen = 1 .. Len(seen) /\ Len(seen) \in Nat /\ seen \in Specs
  BY RunFields, SpecSteps DEF Types, TypeOK
<1>7. \A k \in 1 .. i : k \in DOMAIN run.steps /\ k \in DOMAIN seen /\ Done(run.steps[k].name)
  <2> TAKE k \in 1 .. i
  <2>1. k \in DOMAIN run.steps /\ k \in DOMAIN seen
    BY <1>2, <1>6
  <2>2. CASE k = i
    BY <1>1, <1>2, <2>1, <2>2 DEF Done, IsCurrent
  <2>3. CASE k # i
    <3>1. k \in 1 .. (i - 1)
      BY <2>3, <1>6
    <3> QED
      BY <1>1, <1>2, <2>1, <3>1 DEF Safe, CurrentInOrder, UnderWay
  <2> QED
    BY <2>1, <2>2, <2>3
<1>8. CurrentInOrder'
  <2> SUFFICES ASSUME run'.phase \in UnderWay, NEW m \in DOMAIN run'.steps, IsCurrent(m)',
                      NEW k \in 1 .. (m - 1)
               PROVE  Done(run.steps[k].name)'
    BY DEF CurrentInOrder
  <2>1. i + 1 \in DOMAIN seen /\ run'.cur = seen[i + 1].name
    BY <1>1 DEF UnderWay
  <2>2. m \in DOMAIN run.steps /\ run.steps[m].name = seen[i + 1].name
    BY <1>1, <2>1 DEF Kept, IsCurrent
  <2>3. m <= i + 1
    <3>1. CASE i + 1 \in DOMAIN run.steps
      <4>1. run.steps[i + 1].name = run.steps[m].name
        BY <1>2, <2>1, <2>2, <3>1
      <4>2. m = i + 1
        BY <2>2, <3>1, <4>1 DEF NamesStay
      <4> QED
        BY <4>2, <1>6, <2>2
    <3>2. CASE i + 1 \notin DOMAIN run.steps
      BY <1>6, <2>2, <3>2
    <3> QED
      BY <3>1, <3>2
  <2>4. k \in 1 .. i
    BY <1>6, <2>2, <2>3
  <2>5. k \in DOMAIN run.steps /\ Done(run.steps[k].name)
    BY <1>7, <2>4
  <2> QED
    BY <1>1, <2>5 DEF Kept, Done
<1>9. SuccessIsWhole'
  <2> SUFFICES ASSUME run'.phase = "Succeeded"
               PROVE  \A k \in DOMAIN seen : Done(seen[k].name)
    BY <1>1 DEF SuccessIsWhole, Done
  <2>1. i = Len(seen)
    BY <1>1
  <2>2. \A k \in DOMAIN seen : k \in 1 .. i /\ k \in DOMAIN run.steps
    BY <1>6, <1>7, <2>1
  <2> QED
    BY <1>2, <1>7, <2>2
<1> QED
  BY <1>4, <1>5, <1>8, <1>9 DEF Safe

LEMMA RetriesSafe ==
  ASSUME DistinctNames, Types, NamesStay, Safe, NEW i \in DOMAIN seen, StepRetries(i),
         seen \in used', Harmless'
  PROVE  Safe'
<1> DEFINE t == findStep(seen, seen[i].onFailure)
<1>1. /\ run' \in RunType /\ run'.phase = "Running" /\ run'.cur = seen[i].onFailure
      /\ jobs' = jobs /\ Kept /\ t \in DOMAIN run.steps
      /\ \A k \in DOMAIN run.steps : run'.steps[k].job \in {run.steps[k].job, NoJob}
      /\ run.phase = "Running" /\ jobs[JobAt(i)] = "failed"
  BY RetriesEffect, Found DEF StepRetries
<1>2. /\ i \in DOMAIN run.steps /\ IsCurrent(i) /\ JobAt(i) = <<run.cur, AttemptAt(i)>>
      /\ \A k \in DOMAIN seen \cap DOMAIN run.steps : seen[k].name = run.steps[k].name
  BY <1>1, AtCurrent DEF StepRetries
<1>3. \A j \in Jobs : jobs[j] # "active"
  BY <1>1, <1>2, NoneActive DEF Safe
<1>4. StatusIsOfItsStep' /\ OneAtATime' /\ JobsInOrder'
  BY <1>1, SameJobs
<1>5. OnlyCurrent' /\ SuccessIsWhole'
  BY <1>1, <1>3 DEF OnlyCurrent, SuccessIsWhole
<1>6. /\ DOMAIN run.steps = 1 .. Len(run.steps) /\ Len(run.steps) \in Nat
      /\ DOMAIN seen = 1 .. Len(seen) /\ Len(seen) \in Nat /\ seen \in Specs
  BY RunFields, SpecSteps DEF Types, TypeOK
<1>7. t <= i
  BY DEF Harmless, RetriesGoBack
<1>8. t \in DOMAIN seen
  BY <1>1, <1>6, <1>7
<1>9. run.steps[t].name = seen[i].onFailure
  <2>1. seen[t].name = seen[i].onFailure
    BY <1>6, <1>8, FindStep
  <2> QED
    BY <1>1, <1>2, <1>8, <2>1
<1> HIDE DEF t
<1>10. CurrentInOrder'
  <2> SUFFICES ASSUME NEW m \in DOMAIN run'.steps, IsCurrent(m)', NEW k \in 1 .. (m - 1)
               PROVE  Done(run.steps[k].name)'
    BY DEF CurrentInOrder
  <2>1. m \in DOMAIN run.steps /\ run.steps[m].name = seen[i].onFailure
    BY <1>1 DEF Kept, IsCurrent
  <2>2. m = t
    BY <1>1, <1>9, <2>1 DEF NamesStay
  <2>3. k \in 1 .. (i - 1) /\ k \in DOMAIN run.steps
    BY <1>1, <1>2, <1>6, <1>7, <2>2
  <2>4. Done(run.steps[k].name)
    BY <1>1, <1>2, <2>3 DEF Safe, CurrentInOrder, UnderWay
  <2> QED
    BY <1>1, <2>3, <2>4 DEF Kept, Done
<1> QED
  BY <1>4, <1>5, <1>10 DEF Safe

LEMMA InitializeSafe ==
  ASSUME DistinctNames, Types, Unbegun, Initialize
  PROVE  NamesStay' /\ Safe'
<1>1. /\ run'.phase = "Running" /\ jobs' = jobs /\ run'.cur = seen[1].name
      /\ DOMAIN run'.steps = DOMAIN seen /\ seen \in Specs
      /\ \A i \in DOMAIN seen : run'.steps[i].name = seen[i].name /\ run'.steps[i].job = NoJob
  BY InitializeEffect DEF Types, TypeOK
<1>2. \A j \in Jobs : jobs[j] = "none"
  BY DEF Initialize, Unbegun
<1>3. NamesStay'
  BY <1>1 DEF NamesStay, DistinctNames
<1>4. StatusIsOfItsStep'
  BY <1>1 DEF StatusIsOfItsStep, NoJob
<1>5. OnlyCurrent' /\ OneAtATime' /\ SuccessIsWhole'
  BY <1>1, <1>2 DEF OnlyCurrent, OneAtATime, SuccessIsWhole
<1>6. CurrentInOrder'
  <2> SUFFICES ASSUME NEW i \in DOMAIN run'.steps, IsCurrent(i)' PROVE i = 1
    BY DEF CurrentInOrder
  <2>1. i \in DOMAIN seen /\ 1 \in DOMAIN seen /\ seen[i].name = seen[1].name
    BY <1>1, SpecSteps DEF IsCurrent
  <2> QED
    BY <1>1, <2>1 DEF DistinctNames
<1>7. JobsInOrder'
  <2>1. \A i \in DOMAIN seen, a \in Attempts : <<seen[i].name, a>> \in Jobs
    BY <1>1, SpecSteps DEF Jobs
  <2> QED
    BY <1>1, <1>2, <2>1 DEF JobsInOrder
<1> QED
  BY <1>3, <1>4, <1>5, <1>6, <1>7 DEF Safe

LEMMA JobEndsSafe ==
  ASSUME Types, Safe, NEW j \in Jobs, JobEnds(j)
  PROVE  Safe'
<1>1. PICK x \in {"succeeded", "failed"} : jobs' = [jobs EXCEPT ![j] = x]
  BY DEF JobEnds
<1>2. /\ jobs \in [Jobs -> {"none", "active", "succeeded", "failed"}] /\ jobs[j] = "active"
      /\ run' = run /\ used' = used
  BY DEF JobEnds, Types, TypeOK
<1>3. /\ \A k \in Jobs : jobs'[k] = "active" => jobs[k] = "active"
      /\ \A k \in Jobs : jobs[k] = "succeeded" => jobs'[k] = "succeeded"
      /\ \A k \in Jobs : jobs'[k] # "none" => jobs[k] # "none"
  BY <1>1, <1>2
<1>4. \A n \in Names : Done(n) => Done(n)'
  BY <1>3 DEF Done, Jobs
<1>5. \A i \in DOMAIN run.steps : Done(run.steps[i].name) => Done(run.steps[i].name)'
  <2> TAKE i \in DOMAIN run.steps
  <2>1. run.steps[i].name \in Names
    BY RunFields, StatusFields DEF Types
  <2> QED
    BY <1>2, <1>3, <2>1 DEF Done, Jobs
<1>6. StatusIsOfItsStep' /\ OneAtATime'
  BY <1>2, <1>3 DEF Safe, StatusIsOfItsStep, OneAtATime
<1>7. OnlyCurrent'
  BY <1>2, <1>3 DEF Safe, OnlyCurrent, IsCurrent, AttemptAt
<1>8. CurrentInOrder'
  BY <1>2, <1>5, Prefixes DEF Safe, CurrentInOrder, IsCurrent
<1>9. JobsInOrder'
  <2> SUFFICES ASSUME NEW i \in DOMAIN run.steps, NEW a \in Attempts,
                      jobs'[<<run.steps[i].name, a>>] # "none", NEW k \in 1 .. (i - 1)
               PROVE  Done(run.steps[k].name)'
    BY <1>2 DEF JobsInOrder
  <2>1. <<run.steps[i].name, a>> \in Jobs
    BY RunFields, StatusFields DEF Types, Jobs
  <2>2. k \in DOMAIN run.steps /\ Done(run.steps[k].name)
    BY <1>3, <2>1, Prefixes DEF Safe, JobsInOrder
  <2> QED
    BY <1>5, <2>2
<1>10. SuccessIsWhole'
  <2> SUFFICES ASSUME run.phase = "Succeeded"
               PROVE  \E l \in used : \A i \in DOMAIN l : Done(l[i].name)'
    BY <1>2 DEF SuccessIsWhole
  <2>1. PICK l \in used : \A i \in DOMAIN l : Done(l[i].name)
    BY DEF Safe, SuccessIsWhole
  <2>2. \A i \in DOMAIN l : l[i].name \in Names
    BY <2>1, SpecSteps DEF Types, TypeOK
  <2> QED
    BY <1>4, <2>1, <2>2
<1> QED
  BY <1>6, <1>7, <1>8, <1>9, <1>10 DEF Safe

LEMMA InitInv == Init => IInv
<1> SUFFICES ASSUME Init PROVE IInv
  OBVIOUS
<1>1. run.steps = <<>> /\ run.phase = "Pending" /\ \A j \in Jobs : jobs[j] # "active"
  BY DEF Init
<1>2. Safe
  BY <1>1 DEF Safe, StatusIsOfItsStep, CurrentInOrder, OnlyCurrent, OneAtATime, JobsInOrder,
     SuccessIsWhole, UnderWay
<1> QED
  BY <1>2, InitTypes DEF IInv

\* What a pass that moves no status owes to the invariant.
LEMMA PassInv ==
  ASSUME IInv, Types', Kept, run.phase # "Pending", run'.phase # "Pending",
         Harmless /\ Harmless' => Safe'
  PROVE  IInv'
<1>1. NamesStay'
  BY DEF IInv, NamesStay, Kept
<1>2. Unbegun'
  BY DEF Unbegun
<1> QED
  BY <1>1, <1>2, Monotone DEF IInv

LEMMA ReconcileInv ==
  ASSUME DistinctNames, IInv, Types', Reconcile
  PROVE  IInv'
<1>1. Types /\ Unbegun /\ NamesStay /\ (Harmless => Safe)
  BY DEF IInv
<1>2. seen \in used'
  BY DEF Reconcile, Initialize, StepNotFound, Resume, FailRun, AwaitApproval, CreateJob,
     StepSucceeds, StepRetries, StepFails, Pass
<1>3. CASE Initialize
  BY <1>1, <1>3, InitializeSafe, InitializeEffect DEF IInv, Unbegun
<1>4. CASE FailRun /\ run.phase = "Running"
  BY <1>1, <1>4, FailEffect, FailSafe, PassInv
<1>5. CASE Resume
  <2>1. /\ run.phase = "WaitingForInput" /\ run' = [run EXCEPT !.phase = "Running"]
        /\ jobs' = jobs /\ used' = used \cup {seen}
    BY <1>5 DEF Resume, Pass
  <2>2. run'.phase = "Running" /\ run'.cur = run.cur /\ run'.steps = run.steps
    BY <1>1, <2>1 DEF Types, RunType
  <2>3. Kept /\ SameWork
    BY <2>1, <2>2 DEF Kept, SameWork
  <2> QED
    BY <1>1, <2>1, <2>2, <2>3, StaySafe, PassInv DEF UnderWay
<1>6. ASSUME NEW i \in DOMAIN seen, AwaitApproval(i) PROVE IInv'
  BY <1>1, <1>6, AwaitEffect, StaySafe, PassInv, Found DEF AwaitApproval, UnderWay
<1>7. ASSUME NEW i \in DOMAIN seen, CreateJob(i) PROVE IInv'
  BY <1>1, <1>2, <1>7, CreateEffect, CreateSafe, PassInv, Found DEF CreateJob
<1>8. ASSUME NEW i \in DOMAIN seen, StepSucceeds(i) PROVE IInv'
  BY <1>1, <1>2, <1>8, SucceedsEffect, SucceedsSafe, PassInv, Found DEF StepSucceeds
<1>9. ASSUME NEW i \in DOMAIN seen, StepRetries(i) PROVE IInv'
  BY <1>1, <1>2, <1>9, RetriesEffect, RetriesSafe, PassInv, Found DEF StepRetries
<1>10. ASSUME NEW i \in DOMAIN seen, StepFails(i) PROVE IInv'
  BY <1>4, <1>10 DEF StepFails, At
<1>11. CASE StepNotFound
  BY <1>4, <1>11 DEF StepNotFound
<1> QED
  BY <1>3, <1>5, <1>6, <1>7, <1>8, <1>9, <1>10, <1>11 DEF Reconcile

LEMMA NextInv ==
  ASSUME DistinctNames, IInv, [Next]_vars
  PROVE  IInv'
<1>1. Types' /\ Types /\ Unbegun /\ NamesStay /\ (Harmless => Safe)
  BY NextTypes DEF IInv
<1>2. CASE Reconcile
  BY <1>1, <1>2, ReconcileInv
<1>3. CASE Edit \/ SyncPipeline \/ UNCHANGED vars
  <2>1. UNCHANGED <<run, jobs, used>>
    BY <1>3 DEF Edit, SyncPipeline, vars
  <2> QED
    BY <1>1, <2>1 DEF IInv, Unbegun, NamesStay, Harmless, Anchored, RetriesGoBack, Safe,
       StatusIsOfItsStep, CurrentInOrder, OnlyCurrent, OneAtATime, JobsInOrder, SuccessIsWhole,
       IsCurrent, AttemptAt, Done
<1>4. CASE Approve
  <2>1. /\ run.phase = "WaitingForInput" /\ run' = [run EXCEPT !.approved = run.cur]
        /\ jobs' = jobs /\ used' = used
    BY <1>4 DEF Approve
  <2>2. run'.phase = run.phase /\ run'.cur = run.cur /\ run'.steps = run.steps
    BY <1>1, <2>1 DEF Types, RunType
  <2>3. Kept /\ SameWork
    BY <2>1, <2>2 DEF Kept, SameWork
  <2> QED
    BY <1>1, <2>1, <2>2, <2>3, StaySafe, PassInv DEF UnderWay
<1>5. ASSUME NEW j \in Jobs, JobEnds(j) PROVE IInv'
  <2>1. run' = run /\ used' = used /\ jobs[j] = "active"
    BY <1>5 DEF JobEnds
  <2>2. Kept /\ run.phase # "Pending"
    BY <1>1, <2>1 DEF Kept, Unbegun
  <2> QED
    BY <1>1, <1>5, <2>1, <2>2, JobEndsSafe, PassInv
<1> QED
  BY <1>2, <1>3, <1>4, <1>5 DEF Next

-----------------------------------------------------------------------------
\* Whatever is edited, every variable keeps its type: no attempt of a step exceeds
\* what some list allows its retries (reconcileRunning), even when a status is
\* taken by an index that the list has since given to another step.
THEOREM TypeCorrect == Spec => []TypeOK
<1>1. Types => TypeOK
  BY DEF Types
<1>2. Init => Types
  BY InitTypes
<1>3. Types /\ [Next]_vars => Types'
  BY NextTypes
<1> QED
  BY <1>1, <1>2, <1>3, PTL DEF Spec

\* Edits that neither move nor rename a step the run began with, in pipelines whose
\* failures jump back, do no harm, however many they are and whatever they add,
\* take away or change; if the steps of a Pipeline have names of their own.
THEOREM EditsInPlaceAreSafe ==
  ASSUME DistinctNames
  PROVE  Spec => []AnchoredEditsAreSafe
<1>1. IInv => AnchoredEditsAreSafe
  BY DEF IInv, Harmless, AnchoredEditsAreSafe, Safe, OneAtATime, JobsInOrder, SuccessIsWhole
<1>2. IInv /\ [Next]_vars => IInv'
  BY NextInv
<1> QED
  BY InitInv, <1>1, <1>2, PTL DEF Spec

=============================================================================
