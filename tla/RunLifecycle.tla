----------------------------- MODULE RunLifecycle -----------------------------
(***************************************************************************)
(* What a run promises, without caches, versions, Jobs by attempt or       *)
(* requests in flight: its steps run one at a time and in order, a step is *)
(* passed only after it succeeded, a run that has ended never runs again.  *)
(* PipelineRun implements this when nobody stops the run (MCRunRetry).     *)
(***************************************************************************)
EXTENDS Integers

CONSTANT N  \* number of steps

Steps == 1 .. N
Terminal == {"Succeeded", "Failed", "Stopped"}

VARIABLES
  phase,    \* phase of the run
  at,       \* its current step, 0 for none
  working,  \* step whose Job is active, 0 for none
  passed    \* steps that have succeeded at least once

vars == <<phase, at, working, passed>>

TypeOK ==
  /\ phase \in {"Pending", "Running", "WaitingForInput", "Deleting", "Gone"} \cup Terminal
  /\ at \in 0 .. N
  /\ working \in 0 .. N
  /\ passed \subseteq Steps

Init == phase = "Pending" /\ at = 0 /\ working = 0 /\ passed = {}

MoveTo(p) == phase' = p /\ UNCHANGED <<working, passed>>

\* The user skipped the issue before the run began.
Skip == phase = "Pending" /\ MoveTo("Stopped") /\ UNCHANGED at

Start == phase = "Pending" /\ MoveTo("Running") /\ at' = 1

\* A pass that began before the run failed or was deleted may still create
\* the Job it had decided on.
Launch ==
  /\ phase \in {"Running", "Failed", "Deleting"}
  /\ at \in Steps
  /\ working = 0
  /\ working' = at
  /\ UNCHANGED <<phase, at, passed>>

Finish ==
  /\ working # 0
  /\ working' = 0
  /\ passed' \in {passed, passed \cup {working}}
  /\ UNCHANGED <<phase, at>>

\* The current step is over; the last one ends the run.
Pass ==
  /\ phase \in {"Running", "WaitingForInput"}
  /\ at \in passed
  /\ \/ at < N /\ at' = at + 1 /\ MoveTo("Running")
     \/ at = N /\ at' \in {0, N} /\ MoveTo("Succeeded")

JumpBack ==
  /\ phase = "Running"
  /\ working = 0
  /\ at' \in 1 .. at
  /\ MoveTo("Running")

\* For an approval of the current step, or for the choice of a repository.
Wait == phase = "Running" /\ working = 0 /\ MoveTo("WaitingForInput") /\ UNCHANGED at

Resume == phase = "WaitingForInput" /\ MoveTo("Running") /\ UNCHANGED at

Fail == phase = "Running" /\ MoveTo("Failed") /\ UNCHANGED at

Delete == phase # "Gone" /\ MoveTo("Deleting") /\ UNCHANGED at

\* Removal of the Job of a run that is being deleted.
Clean ==
  /\ phase \in {"Deleting", "Gone"}
  /\ working' = 0
  /\ UNCHANGED <<phase, at, passed>>

Remove == phase = "Deleting" /\ MoveTo("Gone") /\ UNCHANGED at

Next ==
  \/ Skip \/ Start \/ Launch \/ Finish \/ Pass \/ JumpBack \/ Wait \/ Resume
  \/ Fail \/ Delete \/ Clean \/ Remove

Spec == Init /\ [][Next]_vars

-----------------------------------------------------------------------------
\* A step works only after each earlier one has succeeded, however often the
\* run jumped back (CurrentStep in reconcileRunning).
WorksInOrder == working # 0 => 1 .. (working - 1) \subseteq passed

\* A run that ended Succeeded has passed all its steps: reconcileRunning and
\* reconcileWaiting end it after the last step only.
SucceededMeansPassed == phase = "Succeeded" => passed = Steps

=============================================================================
