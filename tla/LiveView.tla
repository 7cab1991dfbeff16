-------------------------------- MODULE LiveView --------------------------------
(***************************************************************************)
(* The views of the dashboard that load one text or list: the operator's   *)
(* log (dashboard/src/pages/OperatorLogs.tsx), the log of a step (StepCard *)
(* of RunDetail.tsx), the artifacts of a run and one of their files        *)
(* (components/ArtifactsPanel.tsx, ArtifactViewerDialog.tsx) and the YAML  *)
(* of a pipeline (openYaml of PipelineList.tsx).  They differ in what they *)
(* load, when they load it again and what they do with an error.           *)
(*                                                                         *)
(* What is loaded is a version of the source, of what is selected: a       *)
(* number of lines, a file, a pipeline.  Several loads may be under way,   *)
(* which are served and answered in any order.                             *)
(***************************************************************************)
EXTENDS Integers

CONSTANTS
  Options,  \* what can be selected
  MaxVer,   \* bound of the versions of the source
  Slots     \* bound: one for each load that may be under way

VARIABLES
  kind,    \* which of the views is open
  ver,     \* the version of the source
  active,  \* the step or run it belongs to has not ended
  v,       \* the state of the view
  loads    \* the loads under way: what they ask for and, when served, the version

vars == <<kind, ver, active, v, loads>>

KindsOfView == {"operator", "step", "artifacts", "file", "yaml"}
Nothing == -2
Failed == -1   \* the text of an error in the place of the content
Versions == {Nothing, Failed} \cup 0 .. MaxVer

\* due: an effect or a click has called a load that is not sent yet.
View == [open : BOOLEAN, choice : Options, auto : BOOLEAN, due : BOOLEAN,
         of : Options, val : Versions, loading : BOOLEAN, err : BOOLEAN]

\* The dialogs and the step's log are opened by a click, the pages load at once.
OpensByClick == {"step", "file", "yaml"}
Opened(k, c) ==
  [open |-> k \notin OpensByClick, choice |-> c, auto |-> TRUE, due |-> k \notin OpensByClick,
   of |-> c, val |-> Nothing, loading |-> k \notin OpensByClick, err |-> FALSE]

First == CHOOSE c \in Options : TRUE
\* served: the server, or the browser that has none, has an answer or an error.
Load == [st : {"none", "sent", "served"}, of : Options, val : 0 .. MaxVer]
NoLoad == [st |-> "none", of |-> First, val |-> 0]

-----------------------------------------------------------------------------
\* The interval: every 3 seconds, 5 for the artifacts, never for the dialogs.
Polling ==
  CASE kind = "operator"  -> v.auto
    [] kind = "step"      -> v.open /\ active
    [] kind = "artifacts" -> active
    [] OTHER              -> FALSE

Source ==
  /\ active
  /\ \/ ver < MaxVer /\ ver' = ver + 1 /\ UNCHANGED active
     \/ active' = FALSE /\ UNCHANGED ver
  /\ UNCHANGED <<kind, v, loads>>

\* The effect of the artifacts depends on the phase: it loads once more.
PhaseShown ==
  /\ kind = "artifacts" /\ ~active /\ v.auto
  /\ v' = [v EXCEPT !.auto = FALSE, !.due = TRUE]
  /\ UNCHANGED <<kind, ver, active, loads>>

-----------------------------------------------------------------------------
(* Loads.                                                                  *)

Stored(c, x) == [v EXCEPT !.of = c, !.val = x, !.loading = FALSE,
                          !.err = @ /\ kind \in {"step", "yaml"}]

\* The operator's log goes on an answer that is an error and stays when there is
\* none; a step and the YAML show the error instead; the artifacts stay as they
\* are while the server says that the pod or the workspace is not there.
Missed ==
  CASE kind = "operator" ->
         {[v EXCEPT !.err = TRUE, !.val = Nothing, !.loading = FALSE],
          [v EXCEPT !.err = TRUE, !.loading = FALSE]}
    [] kind = "artifacts" ->
         {[v EXCEPT !.loading = FALSE], [v EXCEPT !.err = TRUE, !.loading = FALSE]}
    [] kind = "file" -> {[v EXCEPT !.err = TRUE, !.loading = FALSE]}
    [] kind \in {"step", "yaml"} -> {[v EXCEPT !.val = Failed, !.loading = FALSE]}

\* Broken variant of Send: the interval keeps the load of the first rendering.
SendStale(s) ==
  /\ (v.due \/ Polling) /\ loads[s].st = "none"
  /\ loads' = [loads EXCEPT ![s] = [NoLoad EXCEPT !.st = "sent"]]
  /\ v' = [v EXCEPT !.due = FALSE]
  /\ UNCHANGED <<kind, ver, active>>

\* An effect, a click or the interval; no load waits for an earlier one.
Send(s) ==
  /\ (v.due \/ Polling) /\ loads[s].st = "none"
  /\ loads' = [loads EXCEPT ![s] = [NoLoad EXCEPT !.st = "sent", !.of = v.choice]]
  /\ v' = [v EXCEPT !.due = FALSE]
  /\ UNCHANGED <<kind, ver, active>>

Serve(s) ==
  /\ loads[s].st = "sent"
  /\ loads' = [loads EXCEPT ![s].st = "served", ![s].val = ver]
  /\ UNCHANGED <<kind, ver, active, v>>

\* Nothing drops an answer that comes late while the component is there.
Arrives(s) ==
  /\ loads[s].st = "served"
  /\ v' = Stored(loads[s].of, loads[s].val)
  /\ loads' = [loads EXCEPT ![s] = NoLoad]
  /\ UNCHANGED <<kind, ver, active>>

Fails(s) ==
  /\ loads[s].st = "served"
  /\ v' \in Missed
  /\ loads' = [loads EXCEPT ![s] = NoLoad]
  /\ UNCHANGED <<kind, ver, active>>

-----------------------------------------------------------------------------
(* The visitor.                                                            *)

Visit(w) == v' = w /\ UNCHANGED <<kind, ver, active, loads>>

SetLines(c) ==
  /\ kind = "operator" /\ c # v.choice
  /\ Visit([v EXCEPT !.choice = c, !.due = TRUE])

SetAuto == kind = "operator" /\ Visit([v EXCEPT !.auto = ~@])

Refresh == kind = "operator" /\ Visit([v EXCEPT !.due = TRUE])

\* Disabled while the first load of an opening is under way.
ToggleLogs ==
  /\ kind = "step" /\ ~v.loading
  /\ Visit(IF v.open THEN [v EXCEPT !.open = FALSE, !.val = Nothing]
           ELSE [v EXCEPT !.open = TRUE, !.loading = TRUE, !.due = TRUE])

\* The dialog does not keep the keyboard from the list behind it: another file may be
\* opened in it, which keeps the text of the first until an answer arrives.
ViewFile(c) ==
  /\ kind = "file" /\ (v.open => c # v.choice)
  /\ Visit(IF v.open THEN [v EXCEPT !.choice = c, !.due = TRUE]
           ELSE [Opened(kind, c) EXCEPT !.open = TRUE, !.loading = TRUE, !.due = TRUE])

\* The dialog is taken down, and what it has asked for has nobody to go to.
CloseFile ==
  /\ kind = "file" /\ v.open
  /\ v' = Opened(kind, v.choice) /\ loads' = [s \in Slots |-> NoLoad]
  /\ UNCHANGED <<kind, ver, active>>

\* The content of the modal is state of the list: it outlives the modal, which does
\* not keep the keyboard from the list either.
OpenYaml(c) ==
  /\ kind = "yaml"
  /\ Visit([v EXCEPT !.open = TRUE, !.choice = c, !.loading = TRUE, !.due = TRUE])

CloseYaml == kind = "yaml" /\ v.open /\ Visit([v EXCEPT !.open = FALSE])

-----------------------------------------------------------------------------
Init ==
  /\ kind \in KindsOfView
  /\ ver = 0 /\ active \in BOOLEAN
  /\ v = Opened(kind, First) /\ loads = [s \in Slots |-> NoLoad]

Loading == \E s \in Slots : Send(s) \/ Serve(s) \/ Arrives(s) \/ Fails(s)

Visitor ==
  \/ SetAuto \/ Refresh \/ ToggleLogs \/ CloseFile \/ CloseYaml
  \/ \E c \in Options : SetLines(c) \/ ViewFile(c) \/ OpenYaml(c)

Next == Source \/ PhaseShown \/ Loading \/ Visitor

Spec == Init /\ [][Next]_vars

-----------------------------------------------------------------------------
(* Properties.                                                             *)

TypeOK ==
  /\ kind \in KindsOfView /\ ver \in 0 .. MaxVer /\ active \in BOOLEAN
  /\ v \in View /\ loads \in [Slots -> Load]

\* A view that polls shows the newest version of what is selected, if it shows any.
NotOld == Polling /\ v.val \notin {Nothing, Failed} => v.of = v.choice /\ v.val = ver
=============================================================================
