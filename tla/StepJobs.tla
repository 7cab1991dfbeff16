------------------------------- MODULE StepJobs -------------------------------
(***************************************************************************)
(* What the Jobs of a run do: the scripts that buildJob and its configure  *)
(* functions (internal/controller/pipelinerun_controller.go) put into the  *)
(* pods, statement by statement, on the workspace volume that outlives     *)
(* them and on the run's branch in the fork.  A pod may die at every       *)
(* statement, and the run then retries, jumps back or fails by the rules   *)
(* of reconcileRunning.                                                    *)
(*                                                                         *)
(* PipelineRun has the reconciler's caches and races, Workspace the pods   *)
(* that share the volume while a run waits; here one Job runs at a time.   *)
(***************************************************************************)
EXTENDS Integers, FiniteSets, SequencesExt

CONSTANTS
  Pipelines,    \* step lists explored
  MaxAttempt,   \* bound of every attempt number
  MaxVersion,   \* bound of the versions of the source tree
  MaxCommits,   \* bound of the commits made outside the push step
  MaxFaults,    \* bound of the pods and calls that fail in one behaviour
  Good,         \* the versions whose tests pass
  AIMay         \* what an agent may do besides editing: "commit", "switch"

StepTypes == {"triage", "git-checkout", "git-checkout-pr", "ai", "shell",
              "git-push", "watch-report"}

\* 0 is the version of the repository's default branch, 1 the pull request's.
Versions == 0 .. MaxVersion

\* Files of /workspace/artifacts that a script looks for: the failureFile of a
\* step, its reportFile, and triage.json.
Files == {"failures", "report", "triage"}

\* A step; failureFile says whether it has one, onFailure is an index or 0.
StepSpec == [type : StepTypes, failureFile : BOOLEAN, onFailure : Nat, maxRetries : Nat]

Retries(s) == IF s.maxRetries = 0 THEN 3 ELSE s.maxRetries

ASSUME PipelinesAssumption ==
  \A p \in Pipelines :
    /\ p \in Seq(StepSpec) /\ p # <<>>
    /\ \A i \in DOMAIN p : /\ p[i].onFailure \in 0 .. Len(p)
                           /\ p[i].onFailure # 0 => Retries(p[i]) <= MaxAttempt
ASSUME BoundsAssumption ==
  /\ MaxAttempt \in Nat \ {0}
  /\ MaxVersion \in Nat \ {0}
  /\ MaxCommits \in Nat
  /\ MaxFaults \in Nat
  /\ Good \subseteq Versions
  /\ AIMay \subseteq {"commit", "switch"}

VARIABLES
  pipeline,  \* the steps of the run's Pipeline
  run,       \* phase, current step and attempt numbers of the run
  jobs,      \* the Jobs by <<step, attempt>>: the statement an active one is at
  vol,       \* the workspace volume
  fork,      \* the run's branch in the fork, the commits of an earlier run first
  faulted    \* Jobs whose pod or call failed, or whose pull request has no base

vars == <<pipeline, run, jobs, vol, fork, faulted>>

-----------------------------------------------------------------------------
(* Data *)

Statements == {"empty", "clone", "branch", "fetch", "claude", "commands", "cat",
               "guard", "add", "commit", "push"}
JobStates == Statements \cup {"none", "succeeded", "failed"}

Heads == {"default", "run", "pull"}

\* A commit is told apart from others by the clone it was made in: two clones
\* never produce the same one.
Commits == [tree : Versions, clone : 0 .. MaxAttempt]

\* repo is "none" on an empty volume, "partial" when a removal or a clone was
\* cut short; log[h] has the commits the clone made on branch h.
Volume == [repo : {"none", "partial", "whole"}, clone : 0 .. MaxAttempt,
           head : Heads, tree : Versions, log : [Heads -> Seq(Commits)],
           files : SUBSET Files]

EmptyVolume == [repo |-> "none", clone |-> 0, head |-> "default", tree |-> 0,
                log |-> [h \in Heads |-> <<>>], files |-> {}]

\* The commit that a run of the same branch name pushed before.
Earlier == [tree |-> 0, clone |-> 0]

Step == pipeline[run.cur]
Attempt == run.attempt[run.cur]
CurJob == <<run.cur, Attempt>>
StepJobs == (DOMAIN pipeline) \X (1 .. MaxAttempt)

\* The tree of the last commit on branch h.
Committed(v, h) ==
  IF v.log[h] # <<>> THEN Last(v.log[h]).tree ELSE IF h = "pull" THEN 1 ELSE 0

WithCommit(v) ==
  [v EXCEPT !.log[v.head] = Append(@, [tree |-> v.tree, clone |-> v.clone])]

-----------------------------------------------------------------------------

Init ==
  /\ pipeline \in Pipelines
  /\ run = [phase |-> "Running", cur |-> 1, attempt |-> [i \in DOMAIN pipeline |-> 1]]
  /\ jobs = [j \in StepJobs |-> "none"]
  /\ vol = EmptyVolume
  /\ fork \in {<<>>, <<Earlier>>}
  /\ faulted = {}

-----------------------------------------------------------------------------
(* The reconciler: the Job of the current step and attempt, and its end *)

FirstStatement ==
  [type \in StepTypes |->
     CASE type \in {"git-checkout", "git-checkout-pr"} -> "empty"
       [] type \in {"ai", "triage"} -> "claude"
       [] type = "shell"            -> "commands"
       [] type = "git-push"         -> "guard"
       [] type = "watch-report"     -> "cat"]

Running(state) == run.phase = "Running" /\ jobs[CurJob] = state

CreateJob ==
  /\ Running("none")
  /\ jobs' = [jobs EXCEPT ![CurJob] = FirstStatement[Step.type]]
  /\ UNCHANGED <<pipeline, run, vol, fork, faulted>>

StepSucceeds ==
  /\ Running("succeeded")
  /\ run' = IF run.cur = Len(pipeline) THEN [run EXCEPT !.phase = "Succeeded"]
                                       ELSE [run EXCEPT !.cur = @ + 1]
  /\ UNCHANGED <<pipeline, jobs, vol, fork, faulted>>

MayRetry == Step.onFailure # 0 /\ Attempt < Retries(Step)

\* Broken variant of JumpedBack: the Job that failed is looked at again.
JumpedBackSame == [run EXCEPT !.cur = Step.onFailure]

\* The steps between the target and the failed one keep their attempt number,
\* and with it the Job that has already ended.
JumpedBack ==
  [run EXCEPT !.cur = Step.onFailure,
              !.attempt[run.cur] = Attempt + 1,
              !.attempt[Step.onFailure] = Attempt + 1]

StepRetries ==
  /\ Running("failed")
  /\ MayRetry
  /\ run' = JumpedBack
  /\ UNCHANGED <<pipeline, jobs, vol, fork, faulted>>

\* The retries are used up, the Job cannot be built, or the answer of a triage
\* cannot be used.
StepFails ==
  /\ \/ Running("failed") /\ ~MayRetry
     \/ Running("none")
     \/ Running("succeeded") /\ Step.type = "triage"
  /\ run' = [run EXCEPT !.phase = "Failed"]
  /\ UNCHANGED <<pipeline, jobs, vol, fork, faulted>>

-----------------------------------------------------------------------------
(* The statements of the scripts *)

\* The script goes from one statement to the next, or ends.
Goto(from, to) ==
  /\ Running(from)
  /\ jobs' = [jobs EXCEPT ![CurJob] = to]
  /\ UNCHANGED <<pipeline, run>>

Fault == /\ Cardinality(faulted) < MaxFaults
         /\ faulted' = faulted \cup {CurJob}

\* Broken variant of Emptied: the glob without the dot files leaves .git there.
EmptiedVisible == [EmptyVolume EXCEPT !.repo = IF vol.repo = "none" THEN "none" ELSE "partial"]

\* Broken variant of Emptied: the artifacts of an earlier attempt are spared.
EmptiedButArtifacts == [EmptyVolume EXCEPT !.files = vol.files]

Emptied == EmptyVolume

\* rm -rf of every file and dot file of the volume.
Empty ==
  /\ Goto("empty", "clone")
  /\ vol' = Emptied
  /\ UNCHANGED <<fork, faulted>>

AfterClone == IF Step.type = "git-checkout" THEN "branch" ELSE "fetch"

\* git clone takes an empty directory only.
Clone ==
  /\ Goto("clone", IF vol.repo = "none" THEN AfterClone ELSE "failed")
  /\ vol' = IF vol.repo = "none" THEN [vol EXCEPT !.repo = "whole", !.clone = Attempt]
                                 ELSE vol
  /\ UNCHANGED <<fork, faulted>>

\* git checkout -b, then the remotes and the ownership.
Branch ==
  /\ Goto("branch", "succeeded")
  /\ vol' = [vol EXCEPT !.head = "run"]
  /\ UNCHANGED <<fork, faulted>>

\* The head of the pull request; the diff against the base goes to artifacts, and
\* fails, at every attempt alike, if origin has no branch of that name.
Fetch ==
  /\ \/ Goto("fetch", "succeeded") /\ UNCHANGED faulted
     \/ Goto("fetch", "failed") /\ faulted' = faulted \cup {CurJob}
  /\ vol' = [vol EXCEPT !.head = "pull", !.tree = 1]
  /\ UNCHANGED fork

\* An agent edits, writes and removes files, and may use git; a step with a
\* failureFile runs the tests and leaves the source alone.
AgentWorks ==
  /\ Goto("claude", "claude")
  /\ ~Step.failureFile
  /\ \/ \E v \in Versions, f \in SUBSET Files :
          vol' = [vol EXCEPT !.tree = v, !.files = f]
     \/ /\ "commit" \in AIMay
        /\ vol.repo = "whole"
        /\ vol.tree # Committed(vol, vol.head)
        /\ Len(vol.log["default"]) + Len(vol.log["run"]) + Len(vol.log["pull"]) < MaxCommits
        /\ vol' = WithCommit(vol)
     \/ /\ "switch" \in AIMay
        /\ vol.repo = "whole"
        /\ \E h \in {"default", "run"} :
             vol' = [vol EXCEPT !.head = h,
                                !.tree = IF vol.tree = Committed(vol, vol.head)
                                         THEN Committed(vol, h) ELSE @]
  /\ UNCHANGED <<fork, faulted>>

\* Broken variant of EndOfAI: the exit code of the agent alone decides.
EndOfAgent(exit, files) ==
  IF ~exit THEN "failed" ELSE IF Step.type = "triage" THEN "cat" ELSE "succeeded"

\* A triage pod goes on to its reader container.
EndOfAI(exit, files) ==
  IF ~exit \/ (Step.failureFile /\ "failures" \in files) THEN "failed"
  ELSE IF Step.type = "triage" THEN "cat" ELSE "succeeded"

\* An agent that runs the tests to the end leaves a failure report if and only
\* if they failed; one that crashes may leave one or not.
Tested(exit) ==
  IF ~Step.failureFile THEN {vol.files}
  ELSE IF ~exit THEN {vol.files, vol.files \cup {"failures"}}
  ELSE IF vol.tree \in Good THEN {vol.files \ {"failures"}}
  ELSE {vol.files \cup {"failures"}}

AgentExits ==
  /\ \E exit \in BOOLEAN : \E files \in Tested(exit) :
       /\ Goto("claude", EndOfAI(exit, files))
       /\ vol' = [vol EXCEPT !.files = files]
  /\ UNCHANGED <<fork, faulted>>

\* Commands joined by &&: checks such as a linter, which change no source.
Commands ==
  /\ \E end \in {"succeeded", "failed"} : Goto("commands", end)
  /\ UNCHANGED <<vol, fork, faulted>>

\* The reader of a triage pod and the only container of a watch-report.
Cat ==
  /\ Goto("cat", IF (IF Step.type = "triage" THEN "triage" ELSE "report") \in vol.files
                 THEN "succeeded" ELSE "failed")
  /\ UNCHANGED <<vol, fork, faulted>>

\* Broken variant of OnRunBranch: no guard before the commit.
OnAnyBranch == TRUE

OnRunBranch == vol.head = "run"

\* HEAD must be on the run's branch.
Guard ==
  /\ Goto("guard", IF OnRunBranch THEN "add" ELSE "failed")
  /\ UNCHANGED <<vol, fork, faulted>>

\* git add, and the end of the script when nothing is staged.
Add ==
  /\ Goto("add", IF vol.tree = Committed(vol, vol.head) THEN "succeeded" ELSE "commit")
  /\ UNCHANGED <<vol, fork, faulted>>

Commit ==
  /\ Goto("commit", "push")
  /\ vol' = WithCommit(vol)
  /\ UNCHANGED <<fork, faulted>>

\* The remote takes what adds to its branch.
Accepted == IsPrefix(fork, vol.log["run"])

\* The pod may die after the remote has taken the push.
Push ==
  /\ \/ Accepted /\ Goto("push", "succeeded") /\ UNCHANGED faulted
     \/ Accepted /\ Goto("push", "failed") /\ Fault
     \/ ~Accepted /\ Goto("push", "failed") /\ UNCHANGED faulted
  /\ fork' = IF Accepted THEN vol.log["run"] ELSE fork
  /\ UNCHANGED vol

\* The pod dies; a removal or a clone may stop half-way.
PodDies ==
  /\ \E from \in Statements : Goto(from, "failed")
  /\ Fault
  /\ \/ UNCHANGED vol
     \/ /\ \/ jobs[CurJob] = "empty" /\ vol.repo # "none"
           \/ jobs[CurJob] = "clone"
        /\ vol' = [vol EXCEPT !.repo = "partial"]
  /\ UNCHANGED fork

\* set -e: the first statement that fails ends the script.
AfterError(from) == "failed"

\* GitHub does not answer; git clone removes what it has written.
CallFails ==
  /\ \E from \in {"clone", "fetch", "push"} : Goto(from, AfterError(from))
  /\ Fault
  /\ UNCHANGED <<vol, fork>>

Reconcile == CreateJob \/ StepSucceeds \/ StepRetries \/ StepFails

Script ==
  \/ Empty \/ Clone \/ Branch \/ Fetch \/ AgentExits \/ Commands \/ Cat
  \/ Guard \/ Add \/ Commit \/ Push

Next == Reconcile \/ Script \/ AgentWorks \/ PodDies \/ CallFails

Spec == Init /\ [][Next]_vars

-----------------------------------------------------------------------------
(* Properties *)

TypeOK ==
  /\ pipeline \in Pipelines
  /\ run \in [phase : {"Running", "Succeeded", "Failed"}, cur : DOMAIN pipeline,
              attempt : [DOMAIN pipeline -> 1 .. MaxAttempt]]
  /\ jobs \in [StepJobs -> JobStates]
  /\ vol \in Volume
  /\ fork \in Seq(Commits)
  /\ faulted \subseteq StepJobs

HasTests == \E i \in DOMAIN pipeline : pipeline[i].failureFile

\* README.md:12-13: the branch is pushed after the tests passed; what a run has
\* put on top of its branch in the fork passes them, whatever the agent did
\* with branches and commits and whichever pods died (failureFile in
\* configureAIJob, the guards of configurePushJob).
PushedPassesTests ==
  HasTests /\ fork # <<>> /\ Last(fork) # Earlier => Last(fork).tree \in Good

\* A step that leaves the source as it is.
LeavesSource(s) ==
  \/ s.type \in {"shell", "git-push", "watch-report"}
  \/ s.type \in {"ai", "triage"} /\ s.failureFile

\* Step t of p runs the tests between every change of the source and every push:
\* nothing after it changes the source, and no failure jumps across it.
Guards(p, t) ==
  /\ p[t].type = "ai" /\ p[t].failureFile
  /\ \A i \in DOMAIN p :
       /\ i <= t => p[i].onFailure <= t /\ p[i].type # "git-push"
       /\ i > t => p[i].onFailure \notin 1 .. t /\ LeavesSource(p[i])

\* The pipelines of which PushedPassesTests is proved (StepJobsProofs).
TestsGuardPushes(p) ==
  (\E i \in DOMAIN p : p[i].failureFile) => \E t \in DOMAIN p : Guards(p, t)

CheckingOut == run.phase = "Running" /\ Step.type \in {"git-checkout", "git-checkout-pr"}

\* A checkout that succeeded left nothing of an earlier attempt, finished or
\* not, on the volume: a whole clone, on its branch, with nothing committed.
CheckoutIsFresh ==
  CheckingOut /\ jobs[CurJob] = "succeeded" =>
    /\ vol.repo = "whole" /\ vol.files = {} /\ vol.clone = Attempt
    /\ vol.head = IF Step.type = "git-checkout" THEN "run" ELSE "pull"
    /\ vol.tree = Committed(vol, vol.head)
    /\ \A h \in Heads : vol.log[h] = <<>>

\* The pipelines of which CheckoutIsFresh is proved (StepJobsProofs): no failure
\* goes back to a checkout or across it, except that a checkout may retry itself.
FreshCheckouts(p) ==
  \A c \in DOMAIN p, i \in DOMAIN p :
    p[c].type \in {"git-checkout", "git-checkout-pr"} /\ c <= i /\ p[i].onFailure \in 1 .. c
      => i = c /\ p[i].onFailure = c

\* A checkout recovers from whatever state a dead pod left the volume in: it
\* fails only if its own pod, its own call or its own pull request is at fault.
CheckoutRecovers ==
  CheckingOut /\ jobs[CurJob] = "failed" => CurJob \in faulted

EndsWithPush == Last(pipeline).type = "git-push"

\* What a run that Succeeded has worked out is on the run's branch: none of it
\* is left uncommitted or was committed elsewhere.
WorkIsCommitted ==
  run.phase = "Succeeded" /\ EndsWithPush =>
    vol.head = "run" /\ vol.tree = Committed(vol, "run")

\* README.md:13: the push step "pushes the branch to a fork"; a run that
\* Succeeded and has changed something has pushed it.
SuccessIsPushed ==
  run.phase = "Succeeded" /\ EndsWithPush /\ vol.log["run"] # <<>> => fork = vol.log["run"]

\* The scripts end and the reconciler acts on it; how long an agent works is
\* taken to be finite.
Fairness == WF_vars(Reconcile) /\ WF_vars(Script)

FairSpec == Spec /\ Fairness

\* Every run ends, however its pods fail: retries run out.
RunEnds == <>(run.phase # "Running")

=============================================================================
