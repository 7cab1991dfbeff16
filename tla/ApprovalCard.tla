----------------------------- MODULE ApprovalCard -----------------------------
(***************************************************************************)
(* The card that asks for the approval of a push (StepApproval of          *)
(* dashboard/src/pages/RunDetail.tsx) and the chat it opens                *)
(* (dashboard/src/components/ChatDialog.tsx), against the two pods that    *)
(* use the run's workspace: the preview whose log is the diff, and the     *)
(* chat pod whose agent edits.  A diff is the version of the workspace it  *)
(* was taken of.                                                           *)
(*                                                                         *)
(* A dialog that is unmounted goes on with what it has begun: its calls    *)
(* are served, and a close that is under way ends with its callback, which *)
(* the card acts upon whatever dialog is open by then.  Calls are served   *)
(* and answered in any order, and an answer may be lost after its effect.  *)
(* Workspace has the handlers and the reconciler call by call; here each   *)
(* is one step.                                                            *)
(***************************************************************************)
EXTENDS Integers, FiniteSets

CONSTANTS
  Visits,    \* visits explored: buttons used, dialogs opened, loads under way at first
  MaxEdits,  \* bound of the versions of the workspace
  MaxPolls,  \* how often the dialog asks whether its pod runs (30 in the code)
  MaxCalls   \* bound of the calls under way

Page == 0       \* the caller of a card's own requests; a dialog is its number
Buttons == {"refresh", "approve"}

ASSUME ApprovalCardAssumption ==
  /\ MaxEdits \in Nat /\ MaxPolls \in Nat /\ MaxCalls \in Nat
  /\ Visits \subseteq [uses : SUBSET Buttons, chats : Nat, loads : Nat]

VARIABLES
  visit,    \* the visit that is explored
  ws,       \* version of the workspace
  run,      \* the run: is it waiting, approved, resumed; the pods it names
  pod,      \* the chat pod
  orphan,   \* an agent works whose stream was broken off
  preview,  \* the preview's Job and the version its log holds
  calls,    \* POSTs and DELETEs of the page, until their answers have arrived
  card,     \* the state of StepApproval
  chat,     \* the state of the ChatDialog that is mounted
  opened,   \* number of dialogs that have been mounted
  loads,    \* number of loads of the run under way
  bare,     \* a load that was served since has found no preview
  lost      \* a close has not done, or will not do, what it should

vars == <<visit, ws, run, pod, orphan, preview, bare, calls, card, chat, opened, loads, lost>>
page == <<visit, card, chat, opened, loads, lost>>
server == <<ws, run, pod, orphan, preview, bare>>

Versions == 0 .. MaxEdits
NoDiff == -1     \* also what is read of a log that is not complete

Run == [phase : {"waiting", "approved", "resumed"}, chatPod : BOOLEAN, diffJob : BOOLEAN]
PodStates == {"none", "starting", "running", "stopping"}
Preview == [job : {"none", "new", "written"}, of : Versions]
NoPreview == [job |-> "none", of |-> 0]

\* A message is "working" while its agent is; "refused" is a status that is an
\* error, where the page tells it from success, and "expired" is 410.
Call == [kind : {"start", "message", "delete", "refresh", "button", "approve"},
         by : Nat, st : {"sent", "working", "done", "refused", "expired"}]

\* fetch is the effect's request: none, in flight, or answered with got; open is
\* chatOpen, which outlives the dialog.
Card == [on : BOOLEAN, hasJob : BOOLEAN, open : BOOLEAN,
         diff : Versions \cup {NoDiff}, got : Versions \cup {NoDiff},
         fetch : {"none", "sent", "answered"}, failed : BOOLEAN]
NoCard == [on |-> FALSE, hasJob |-> FALSE, open |-> FALSE, diff |-> NoDiff, got |-> NoDiff,
           fetch |-> "none", failed |-> FALSE]
Chat == [id : Nat, st : {"closed", "creating", "waiting", "ready", "error"},
         polls : 0 .. MaxPolls]
Closed == [id |-> 0, st |-> "closed", polls |-> 0]

NewCall(k, d) == [kind |-> k, by |-> d, st |-> "sent"]
Send(k, d) == Cardinality(calls) < MaxCalls /\ calls' = calls \cup {NewCall(k, d)}
Serve(c, st) == calls' = (calls \ {c}) \cup {[c EXCEPT !.st = st]}
Settle(c) == calls' = calls \ {c}
Asks(c, k) == c.kind = k /\ c.st = "sent"

UnderWay(d, kinds) == \E c \in calls : c.by = d /\ c.kind \in kinds
Streaming == UnderWay(chat.id, {"message"})           \* isStreaming
Closing == UnderWay(chat.id, {"delete", "refresh"})   \* closingRef

\* A message is on its way to an agent, or an agent works on one.
AtWork(c) == Asks(c, "message") \/ c.st = "working"
Busy == orphan \/ \E c \in calls : AtWork(c)

-----------------------------------------------------------------------------
(* The pods and the reconciler.                                            *)

PodStarts ==
  /\ pod = "starting" /\ pod' = "running"
  /\ UNCHANGED <<page, calls, ws, run, orphan, preview, bare>>

\* The preview's container runs git diff.
PreviewRuns ==
  /\ preview.job = "new"
  /\ preview' = [job |-> "written", of |-> ws]
  /\ UNCHANGED <<page, calls, ws, run, pod, orphan, bare>>

Working(c) == c \in calls /\ c.st = "working"

AgentEdits ==
  /\ orphan \/ \E c \in calls : Working(c)
  /\ ws < MaxEdits
  /\ ws' = ws + 1
  /\ UNCHANGED <<page, calls, run, pod, orphan, preview, bare>>

AgentDone ==
  /\ \/ orphan /\ orphan' = FALSE /\ UNCHANGED calls
     \/ \E c \in calls : Working(c) /\ Serve(c, "done") /\ UNCHANGED orphan
  /\ UNCHANGED <<page, ws, run, pod, preview, bare>>

PodGone ==
  /\ pod = "stopping" /\ pod' = "none"
  /\ orphan' = FALSE
  /\ calls' = {IF c.st = "working" THEN [c EXCEPT !.st = "done"] ELSE c : c \in calls}
  /\ UNCHANGED <<page, ws, run, preview, bare>>

\* The approval has arrived: the reconciler frees the workspace and goes on.
Resumes ==
  /\ run.phase = "approved"
  /\ run' = [phase |-> "resumed", chatPod |-> FALSE, diffJob |-> FALSE]
  /\ preview' = IF run.diffJob THEN NoPreview ELSE preview
  /\ pod' = IF run.chatPod /\ pod # "none" THEN "stopping" ELSE pod
  /\ UNCHANGED <<page, calls, ws, orphan, bare>>

Pods == PodStarts \/ PreviewRuns \/ AgentEdits \/ AgentDone \/ PodGone \/ Resumes

-----------------------------------------------------------------------------
(* The card: its effect loads the diff, and loads it again after diffKey or  *)
(* the run's diffJobName has changed; what an earlier effect asked for is    *)
(* dropped when it arrives.                                                  *)

EffectOf(c) ==
  IF c.hasJob
  THEN [c EXCEPT !.diff = NoDiff, !.got = NoDiff, !.fetch = "sent", !.failed = FALSE]
  ELSE [c EXCEPT !.got = NoDiff, !.fetch = "none"]

\* handleGetDiff answers with the log of a container that runs, which may not be
\* complete; before that it answers 404, and the card asks again.
DiffServed ==
  /\ card.fetch = "sent" /\ run.diffJob /\ preview.job = "written"
  /\ \E v \in {preview.of, NoDiff} : card' = [card EXCEPT !.fetch = "answered", !.got = v]
  /\ UNCHANGED <<server, calls, visit, chat, opened, loads, lost>>

DiffArrives ==
  /\ card.fetch = "answered"
  /\ card' = [card EXCEPT !.fetch = "none", !.diff = card.got, !.got = NoDiff]
  /\ UNCHANGED <<server, calls, visit, chat, opened, loads, lost>>

\* The sixteenth 404, any other status, or no answer.
DiffFails ==
  /\ card.fetch # "none"
  /\ card' = [card EXCEPT !.fetch = "none", !.got = NoDiff, !.failed = TRUE]
  /\ UNCHANGED <<server, calls, visit, chat, opened, loads, lost>>

\* "Refresh diff", which an error shows.
ClickRefresh ==
  /\ "refresh" \in visit.uses
  /\ card.on /\ card.hasJob /\ card.failed /\ ~UnderWay(Page, {"button"})
  /\ Send("button", Page)
  /\ UNCHANGED <<server, page>>

ClickApprove ==
  /\ "approve" \in visit.uses
  /\ card.on /\ ~UnderWay(Page, {"approve"})
  /\ Send("approve", Page)
  /\ UNCHANGED <<server, page>>

\* A dialog that mounts asks for its pod.
Mounts ==
  /\ opened < visit.chats /\ opened' = opened + 1
  /\ chat' = [id |-> opened', st |-> "creating", polls |-> 0]
  /\ Send("start", opened')

\* What a load has read, at some moment since it was sent: a run that no longer
\* waits here, or an error, which takes the card away; or a run with a preview or
\* without.  Without it the dialog goes; chatOpen stays, and when the preview is
\* back a dialog mounts by itself.
PageLoads ==
  /\ loads > 0 /\ loads' = loads - 1 /\ card.on
  /\ \/ /\ card' = NoCard /\ chat' = Closed
        /\ lost' = (lost \/ chat # Closed)
        /\ UNCHANGED <<calls, opened>>
     \/ /\ card.hasJob /\ bare
        /\ card' = EffectOf([card EXCEPT !.hasJob = FALSE]) /\ chat' = Closed
        /\ lost' = (lost \/ chat # Closed)
        /\ UNCHANGED <<calls, opened>>
     \/ /\ ~card.hasJob
        /\ card' = EffectOf([card EXCEPT !.hasJob = TRUE])
        /\ IF card.open THEN Mounts ELSE UNCHANGED <<chat, opened, calls>>
        /\ UNCHANGED lost
  /\ UNCHANGED <<server, visit>>

CardSteps == DiffServed \/ DiffArrives \/ DiffFails \/ PageLoads

-----------------------------------------------------------------------------
(* The dialog.                                                             *)

OpenChat ==
  /\ card.on /\ card.hasJob /\ ~card.open
  /\ card' = [card EXCEPT !.open = TRUE]
  /\ Mounts
  /\ UNCHANGED <<server, visit, loads, lost>>

\* Broken variant of Tick: the attempts are not counted.
TickForEver ==
  /\ chat.st = "waiting"
  /\ chat' = [chat EXCEPT !.polls = 1]
  /\ UNCHANGED <<server, calls, visit, card, opened, loads, lost>>

\* Every 2 seconds, answered or not.
Tick ==
  /\ chat.st = "waiting"
  /\ chat' = IF chat.polls < MaxPolls THEN [chat EXCEPT !.polls = @ + 1]
             ELSE [chat EXCEPT !.st = "error"]
  /\ UNCHANGED <<server, calls, visit, card, opened, loads, lost>>

\* A poll finds a pod that accepts commands.
PollAnswered ==
  /\ chat.st = "waiting" /\ chat.polls > 0
  /\ run.chatPod /\ pod \in {"running", "stopping"}
  /\ chat' = [chat EXCEPT !.st = "ready"]
  /\ UNCHANGED <<server, calls, visit, card, opened, loads, lost>>

\* handleChatDiff, for a poll or for a dialog's diff: a look at the pod that fails,
\* or finds none, makes the run forget it.
PodForgotten ==
  /\ run.chatPod
  /\ run' = [run EXCEPT !.chatPod = FALSE]
  /\ UNCHANGED <<page, calls, ws, pod, orphan, preview, bare>>

\* The input stays enabled while the dialog closes.
SendMessage ==
  /\ chat.st = "ready" /\ ~Streaming
  /\ Send("message", chat.id)
  /\ lost' = (lost \/ Closing)
  /\ UNCHANGED <<server, visit, card, chat, opened, loads>>

\* handleClose; the X is disabled while the agent answers.
ClickX ==
  /\ chat # Closed /\ ~Streaming /\ ~Closing
  /\ Send("delete", chat.id)
  /\ UNCHANGED <<server, page>>

ChatSteps == Tick \/ PollAnswered \/ PodForgotten

-----------------------------------------------------------------------------
(* The server serves a call.                                               *)

\* handleStartChat: a pod of that name is taken over, which may fail to be recorded;
\* a new one takes the workspace from the preview.  A look at the pod that fails is
\* taken for one that finds none, and the pod for one that has just appeared.
ServeStart(c) ==
  /\ Asks(c, "start") /\ run.phase = "waiting" /\ Serve(c, "done")
  /\ \/ /\ pod # "none"
        /\ \/ UNCHANGED run
           \/ ~run.chatPod /\ run' = [run EXCEPT !.chatPod = TRUE, !.diffJob = FALSE]
        /\ UNCHANGED <<pod, preview>>
     \/ /\ pod # "none"
        /\ run' \in {run, [run EXCEPT !.chatPod = FALSE]}
        /\ preview' = NoPreview /\ UNCHANGED pod
     \/ /\ pod = "none" /\ pod' = "starting"
        /\ run' = [run EXCEPT !.chatPod = TRUE, !.diffJob = FALSE]
        /\ preview' = NoPreview
  /\ bare' = (bare \/ ~run'.diffJob)
  /\ UNCHANGED <<page, ws, orphan>>

\* handleChatMessage: without a pod, or after a look that failed, the session has
\* expired (410).
ServeMessage(c) ==
  /\ Asks(c, "message")
  /\ \/ /\ ~run.chatPod \/ pod = "starting"
        /\ Serve(c, "done") /\ UNCHANGED run
     \/ /\ run.chatPod
        /\ Serve(c, "expired") /\ run' \in {run, [run EXCEPT !.chatPod = FALSE]}
     \/ /\ run.chatPod /\ pod \in {"running", "stopping"}
        /\ Serve(c, "working") /\ UNCHANGED run
  /\ UNCHANGED <<page, ws, pod, orphan, preview, bare>>

\* handleStopChat stops the pod the run names, or forgets one it cannot stop.
ServeDelete(c) ==
  /\ Asks(c, "delete") /\ Serve(c, "done")
  /\ run' = [run EXCEPT !.chatPod = FALSE]
  /\ pod' \in (IF run.chatPod /\ pod # "none" THEN {"stopping", pod} ELSE {pod})
  /\ UNCHANGED <<page, ws, orphan, preview, bare>>

\* handleRefreshDiff replaces the preview, in whatever phase the run is.
ServeRefresh(c) ==
  /\ Asks(c, "refresh") \/ Asks(c, "button")
  /\ Serve(c, "done")
  /\ preview' = [job |-> "new", of |-> 0]
  /\ run' = [run EXCEPT !.diffJob = TRUE]
  /\ UNCHANGED <<page, ws, pod, orphan, bare>>

\* handleApproveStep.
ServeApprove(c) ==
  /\ Asks(c, "approve") /\ run.phase = "waiting" /\ Serve(c, "done")
  /\ run' = [run EXCEPT !.phase = "approved"]
  /\ UNCHANGED <<page, ws, pod, orphan, preview, bare>>

\* A guard of the handler or a failure, before or after what the handler does to the
\* pods; what it does to the run is not recorded.
Refuse(c) ==
  /\ c.st = "sent" /\ Serve(c, IF c.kind \in {"start", "approve"} THEN "refused" ELSE "done")
  /\ lost' = (lost \/ c.kind \in {"delete", "refresh", "button"})
  /\ \/ UNCHANGED <<pod, preview>>
     \/ /\ c.kind = "start" /\ run.phase = "waiting" /\ preview' = NoPreview
        /\ pod' \in (IF pod = "none" THEN {"none", "starting"} ELSE {pod})
     \/ /\ c.kind = "delete" /\ run.chatPod /\ pod # "none"
        /\ pod' = "stopping" /\ UNCHANGED preview
     \/ /\ c.kind \in {"refresh", "button"}
        /\ preview' \in {NoPreview, [job |-> "new", of |-> 0]} /\ UNCHANGED pod
  /\ UNCHANGED <<ws, run, orphan, bare, visit, card, chat, opened, loads>>

Serves(c) ==
  \/ ServeStart(c) \/ ServeMessage(c) \/ ServeDelete(c) \/ ServeRefresh(c)
  \/ ServeApprove(c) \/ Refuse(c)

-----------------------------------------------------------------------------
(* The answer arrives.  What it tells a dialog that has gone has no effect;  *)
(* what the dialog does next has.                                            *)

\* Nobody works on the workspace, and the preview is of what it is.
HandedOver ==
  ~Busy /\ (preview.job \in {"none", "new"} \/ preview.of = ws)

\* Broken variant of Closes: the card is not told to load its diff again.
ClosesOnly(d) ==
  /\ card' = [card EXCEPT !.open = FALSE]
  /\ chat' = Closed
  /\ lost' = (lost /\ ~HandedOver)

\* onClose: whatever dialog is open goes, and the card's diffKey changes.
Closes(d) ==
  /\ card' = IF card.on THEN EffectOf([card EXCEPT !.open = FALSE]) ELSE card
  /\ chat' = Closed
  /\ lost' = ((lost \/ chat.id \notin {d, Page}) /\ ~HandedOver)

\* A dialog that is told of its start or of its message.
Told(c, from, st) ==
  chat' = IF chat.id = c.by /\ chat.st \in from THEN [chat EXCEPT !.st = st] ELSE chat

\* The card loads its diff again, and with it what a lost close has left.
Reloads ==
  /\ card' = IF card.on THEN EffectOf(card) ELSE card
  /\ lost' = (lost /\ ~HandedOver)
  /\ UNCHANGED chat

\* Broken variant of AfterDelete: the dialog closes without a new preview.
NoRefresh(c) == Settle(c) /\ Closes(c.by)

\* Whatever the answer says, the dialog goes on to ask for a preview.
AfterDelete(c) ==
  /\ calls' = (calls \ {c}) \cup {NewCall("refresh", c.by)}
  /\ UNCHANGED <<card, chat, lost>>

Answered(c) ==
  /\ c.st \notin {"sent", "working"}
  /\ \/ /\ c.kind = "start" /\ Settle(c)
        /\ Told(c, {"creating"}, IF c.st = "done" THEN "waiting" ELSE "error")
        /\ UNCHANGED <<loads, card, lost>>
     \/ /\ c.kind = "message" /\ Settle(c)
        /\ Told(c, IF c.st = "expired" THEN {"ready"} ELSE {}, "error")
        /\ UNCHANGED <<loads, card, lost>>
     \/ c.kind = "delete" /\ AfterDelete(c) /\ UNCHANGED loads
     \/ c.kind = "refresh" /\ Settle(c) /\ Closes(c.by) /\ UNCHANGED loads
     \/ c.kind = "button" /\ Settle(c) /\ Reloads /\ UNCHANGED loads
     \/ /\ c.kind = "approve" /\ Settle(c)
        /\ loads' = IF c.st = "done" THEN loads + 1 ELSE loads
        /\ UNCHANGED <<card, chat, lost>>
  /\ UNCHANGED <<server, visit, opened>>

\* The connection breaks, before or after the call had its effect: fetch rejects.
\* An agent at work goes on.
Breaks(c) ==
  /\ Settle(c)
  /\ \/ /\ c.kind = "start" /\ Told(c, {"creating"}, "error")
        /\ UNCHANGED <<orphan, card, lost>>
     \/ /\ c.kind = "message"
        /\ orphan' = (orphan \/ c.st = "working")
        /\ lost' = (lost \/ c.st = "working")
        /\ UNCHANGED <<card, chat>>
     \/ /\ c.kind \in {"delete", "refresh"}
        /\ card' = IF card.on THEN EffectOf([card EXCEPT !.open = FALSE]) ELSE card
        /\ chat' = Closed
        /\ lost' = TRUE
        /\ UNCHANGED orphan
     \/ c.kind = "button" /\ Reloads /\ UNCHANGED orphan
     \/ c.kind = "approve" /\ UNCHANGED <<orphan, card, chat, lost>>
  /\ UNCHANGED <<ws, run, pod, preview, bare, visit, opened, loads>>

Serving == \E c \in calls : Serves(c) \/ Answered(c) \/ Breaks(c)

Visitor == ClickRefresh \/ ClickApprove \/ OpenChat \/ SendMessage \/ ClickX

\* The page has just loaded a run that waits for its push to be approved.
Init ==
  /\ ws = 0 /\ pod = "none" /\ orphan = FALSE /\ bare = FALSE
  /\ run = [phase |-> "waiting", chatPod |-> FALSE, diffJob |-> TRUE]
  /\ preview = [job |-> "new", of |-> 0]
  /\ calls = {} /\ chat = Closed /\ lost = FALSE
  /\ card = [NoCard EXCEPT !.on = TRUE, !.hasJob = TRUE, !.fetch = "sent"]
  /\ visit \in Visits /\ opened = 0 /\ loads = visit.loads

Next == Pods \/ CardSteps \/ ChatSteps \/ Serving \/ Visitor

Spec == Init /\ [][Next]_vars

\* Pods start and end, agents answer, timers run, and every call of a dialog is
\* served and answered.
Fairness ==
  /\ WF_vars(PodStarts) /\ WF_vars(PreviewRuns) /\ WF_vars(PodGone) /\ WF_vars(AgentDone)
  /\ WF_vars(Tick)
  /\ WF_vars(\E c \in calls : c.by # Page /\ (Serves(c) \/ Answered(c)))

FairSpec == Spec /\ Fairness

-----------------------------------------------------------------------------
(* Properties.                                                             *)

TypeOK ==
  /\ visit \in Visits /\ opened \in Nat /\ loads \in Nat
  /\ ws \in Versions /\ run \in Run /\ pod \in PodStates /\ orphan \in BOOLEAN
  /\ preview \in Preview /\ bare \in BOOLEAN /\ calls \subseteq Call
  /\ card \in Card /\ chat \in Chat /\ lost \in BOOLEAN

\* While the run waits, what the visitor sees beside Approve, with no dialog open,
\* is the diff of the workspace as it is, whatever was edited in chats before and
\* however late loads, diffs and answers come.  The exceptions are the closes that
\* are none: of a dialog that a load takes away or that the callback of an earlier
\* one closes, of one whose DELETE or refresh fails, of one in which a message is
\* sent after X, and of one whose stream was broken off (StepApproval, handleClose).
NoStaleReview ==
  run.phase = "waiting" /\ card.on /\ card.hasJob /\ ~card.open /\ card.diff \in Versions /\ ~lost
    => card.diff = ws

\* A dialog that has been opened does not wait for ever: it gets its pod or says
\* that it failed (30 polls), or has been closed.
StartDecides == (chat.st \in {"creating", "waiting"}) ~> (chat.st \notin {"creating", "waiting"})

\* A ready chat that is closed gives the workspace back: the chat pod goes and a
\* preview of what the chat left is made, unless a request is lost, a load of the
\* run takes the dialog away, a failed look or deletion made the run forget its
\* pod, the run goes on, or the visitor opens the next chat.
CloseHandsOver ==
  (chat.st = "ready" /\ Closing /\ NewCall("delete", chat.id) \in calls)
    ~> ((pod = "none" /\ preview.job # "none" /\ (preview.job = "new" \/ preview.of = ws))
        \/ lost \/ run.phase # "waiting"
        \/ (~run.chatPod /\ pod \in {"starting", "running"})
        \/ chat.st = "creating" \/ \E c \in calls : Asks(c, "start"))
=============================================================================
