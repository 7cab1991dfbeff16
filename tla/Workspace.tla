------------------------------- MODULE Workspace -------------------------------
(***************************************************************************)
(* The pods that share the workspace volume of one run while a step waits  *)
(* for approval: the diff preview, the chat pod, the artifacts pod and the *)
(* push step's own Job.  The reconciler makes the preview and clears the   *)
(* volume when the approval arrives; the dashboard's handlers start and    *)
(* stop the chat, replace the preview and make the artifacts pod.  Each    *)
(* handler is a sequence of calls, and a browser that goes away cancels    *)
(* the rest of it.                                                         *)
(*                                                                         *)
(* The run is reduced to what these parties read and write.  It starts     *)
(* before its gated git-push step; PipelineRun has what comes before, the  *)
(* other requests, crashes and the history.  `fresh' is the set of holders *)
(* of the current resourceVersion, as in PipelineRun.                      *)
(***************************************************************************)
EXTENDS FiniteSets, Integers

CONSTANTS
  Requests,   \* HTTP requests the dashboard serves in one behaviour
  Ops,        \* the kinds of request explored
  Previews    \* identities for the pods of diff preview Jobs

Operations == {"startChat", "message", "stopChat", "refresh", "artifacts",
               "approve", "delete"}

NoPod == "-"

ASSUME WorkspaceAssumption ==
  /\ {"cache", "rec"} \cap Requests = {}
  /\ Ops \subseteq Operations
  /\ {"chat", "artifacts", "push", NoPod} \cap Previews = {}

VARIABLES
  run,      \* the PipelineRun object in the API server
  cache,    \* the operator's informer copy of it
  fresh,    \* who holds a copy with the current resourceVersion
  rec,      \* where the reconciler is between two writes of one pass
  preview,  \* the diff preview Job and its pod
  pods,     \* the pods that mount the workspace
  req       \* progress of each request

vars == <<run, cache, fresh, rec, preview, pods, req>>

Pods == {"chat", "artifacts", "push"} \cup Previews

\* "Ended" stands for Succeeded and Failed, "Gone" for the removed object; a
\* pod is "ended" once its containers are, "terminating" once it is deleted.
Run == [phase : {"Running", "WaitingForInput", "Ended", "Deleting", "Gone"},
        approved : BOOLEAN, diffJob : BOOLEAN, chatPod : BOOLEAN]
PodStates == {"none", "pending", "running", "ended", "terminating"}
NoJob == [job |-> "none", pod |-> NoPod]

Live(p) == pods[p] \in {"pending", "running"}
Waiting(r) == r.phase = "WaitingForInput"

\* Pods and Jobs are deleted whatever their version.
PodsDeleted(ps) ==
  [p \in Pods |-> IF p \in ps /\ pods[p] # "none" THEN "terminating" ELSE pods[p]]

\* A run that has come to its gated step, or one whose user already chats.
Init ==
  /\ \/ /\ run = [phase |-> "Running", approved |-> FALSE, diffJob |-> FALSE,
                  chatPod |-> FALSE]
        /\ pods = [p \in Pods |-> "none"]
     \/ /\ run = [phase |-> "WaitingForInput", approved |-> FALSE,
                  diffJob |-> FALSE, chatPod |-> TRUE]
        /\ pods = [p \in Pods |-> IF p = "chat" THEN "running" ELSE "none"]
  /\ cache = run
  /\ fresh = {"cache"}
  /\ rec = "idle"
  /\ preview = NoJob
  /\ req = [q \in Requests |-> [pc |-> "new", named |-> FALSE]]

\* Broken variant of Update: a merge patch that carries no version.
PatchStatus(h, new) == h = h /\ run' = new /\ fresh' = {}

\* A status update by holder h: it takes effect or meets a conflict.
Update(h, new) ==
  \/ h \in fresh /\ run' = new /\ fresh' = {}
  \/ h \notin fresh /\ UNCHANGED <<run, fresh>>

\* Any pod identity that is free will do.
CreatePreview ==
  \E d \in Previews :
    /\ preview.job = "none"
    /\ pods[d] = "none"
    /\ d = CHOOSE e \in Previews : pods[e] = "none"
    /\ preview' = [job |-> "active", pod |-> d]
    /\ pods' = [pods EXCEPT ![d] = "running"]

-----------------------------------------------------------------------------
(* The reconciler, from its cached copy *)

GoOn(pc) ==
  /\ rec' = pc
  /\ fresh' = IF "cache" \in fresh THEN fresh \cup {"rec"} ELSE fresh \ {"rec"}
  /\ UNCHANGED <<run, cache, req>>

\* The git-push step needs approval.  The preview is there, is created, or its
\* creation fails, which is logged only.
RecGate ==
  /\ rec = "idle"
  /\ cache.phase = "Running"
  /\ ~cache.approved
  /\ \/ CreatePreview /\ GoOn("awaitDiff")
     \/ preview.job # "none" /\ GoOn("awaitDiff") /\ UNCHANGED <<preview, pods>>
     \/ GoOn("await") /\ UNCHANGED <<preview, pods>>

RecAwait ==
  /\ rec \in {"await", "awaitDiff"}
  /\ rec' = "idle"
  /\ Update("rec", [run EXCEPT !.phase = "WaitingForInput",
                               !.diffJob = (rec = "awaitDiff")])
  /\ UNCHANGED <<cache, preview, pods, req>>

\* The approval has arrived: what the status names leaves the workspace.  The
\* Job is deleted in the background, its pod is left to the garbage collector.
RecApproved ==
  /\ rec = "idle"
  /\ Waiting(cache)
  /\ cache.approved
  /\ preview' = IF cache.diffJob THEN NoJob ELSE preview
  /\ pods' = PodsDeleted(IF cache.chatPod THEN {"chat"} ELSE {})
  /\ GoOn("resume")

RecResume ==
  /\ rec = "resume"
  /\ rec' = "idle"
  /\ Update("rec", [run EXCEPT !.phase = "Running", !.diffJob = FALSE,
                               !.chatPod = FALSE])
  /\ UNCHANGED <<cache, preview, pods, req>>

RecPush ==
  /\ rec = "idle"
  /\ cache.phase = "Running"
  /\ cache.approved
  /\ pods["push"] = "none"
  /\ pods' = [pods EXCEPT !["push"] = "running"]
  /\ UNCHANGED <<run, cache, fresh, rec, preview, req>>

RecEnd ==
  /\ rec = "idle"
  /\ cache.phase = "Running"
  /\ cache.approved
  /\ pods["push"] = "ended"
  /\ "cache" \in fresh
  /\ run' = [cache EXCEPT !.phase = "Ended"]
  /\ fresh' = {}
  /\ UNCHANGED <<cache, rec, preview, pods, req>>

\* Removes what the cached status names, the artifacts pod, then the object.
\* The push Job is named unless the pass that created it lost its update.
RecDeleting ==
  /\ rec = "idle"
  /\ cache.phase = "Deleting"
  /\ preview' = IF cache.diffJob THEN NoJob ELSE preview
  /\ \E push \in SUBSET {"push"} :
       pods' = PodsDeleted({"artifacts"} \cup push
                             \cup (IF cache.chatPod THEN {"chat"} ELSE {}))
  /\ GoOn("delete")

RecDeleteCR ==
  /\ rec = "delete"
  /\ rec' = "idle"
  /\ run' = [run EXCEPT !.phase = "Gone"]
  /\ fresh' = {}
  /\ UNCHANGED <<cache, preview, pods, req>>

Reconcile ==
  \/ RecGate \/ RecAwait \/ RecApproved \/ RecResume \/ RecPush \/ RecEnd
  \/ RecDeleting \/ RecDeleteCR

-----------------------------------------------------------------------------
(* The handlers.  A request that is refused when it reads the run changes    *)
(* nothing and is not modelled.                                              *)

At(q, pc) == req[q].pc = pc
Goto(q, pc) == req' = [req EXCEPT ![q] = [pc |-> pc, named |-> FALSE]]
Resting(q) == req[q].pc \in {"new", "done", "abandoned"}

\* A request begins by reading the run.
Get(q, op, pc) ==
  /\ op \in Ops
  /\ At(q, "new")
  /\ run.phase # "Gone"
  /\ req' = [req EXCEPT ![q] = [pc |-> pc, named |-> run.chatPod]]
  /\ fresh' = fresh \cup {q}
  /\ UNCHANGED <<run, cache, rec, preview, pods>>

\* ... and reads it once more before it writes.
GetAgain(q, pc, put) ==
  /\ At(q, pc)
  /\ Goto(q, IF run.phase = "Gone" THEN "done" ELSE put)
  /\ fresh' = IF run.phase = "Gone" THEN fresh ELSE fresh \cup {q}
  /\ UNCHANGED <<run, cache, rec, preview, pods>>

Put(q, pc, new, next) ==
  /\ At(q, pc)
  /\ Update(q, new)
  /\ Goto(q, next)
  /\ UNCHANGED <<cache, rec, preview, pods>>

\* A call that touches neither the run nor the caches.
Call(q, pc, next) ==
  /\ At(q, pc)
  /\ Goto(q, next)
  /\ UNCHANGED <<run, cache, fresh, rec>>

(* Opening the chat *)

StartChatGet(q) == Waiting(run) /\ Get(q, "startChat", "look")

\* A pod of that name is taken over, whatever its state; a look that fails is
\* taken for one that finds none.
StartChatLook(q) ==
  /\ \/ pods["chat"] # "none" /\ Call(q, "look", IF req[q].named THEN "done" ELSE "sync")
     \/ Call(q, "look", IF req[q].named THEN "clear" ELSE "free")
  /\ UNCHANGED <<preview, pods>>

ChatNamed == [run EXCEPT !.chatPod = TRUE, !.diffJob = FALSE]
ChatUnnamed == [run EXCEPT !.chatPod = FALSE]

\* Broken variant of StartChatSync: the status is left as it is.
StartChatTrust(q) == Put(q, "sync", run, "done")

StartChatSync(q) == Put(q, "sync", ChatNamed, "done")
StartChatClear(q) == Put(q, "clear", ChatUnnamed, "free")

PreviewDropped ==
  preview' = IF preview.job = "none" THEN preview ELSE [preview EXCEPT !.job = "deleting"]

\* The preview's Job is deleted in the foreground.  The handler then waits for
\* its pods, and after ten seconds no longer.
StartChatFree(q) ==
  /\ Call(q, "free", "makeChat")
  /\ PreviewDropped
  /\ UNCHANGED pods

StartChatCreate(q) ==
  /\ Call(q, "makeChat", IF pods["chat"] = "none" THEN "chatMade" ELSE "done")
  /\ pods' = [pods EXCEPT !["chat"] = IF @ = "none" THEN "pending" ELSE @]
  /\ UNCHANGED preview

StartChatGetAgain(q) == GetAgain(q, "chatMade", "nameChat")
StartChatPut(q) == Put(q, "nameChat", ChatNamed, "done")

StartChat(q) ==
  \/ StartChatGet(q) \/ StartChatLook(q) \/ StartChatSync(q) \/ StartChatClear(q)
  \/ StartChatFree(q) \/ StartChatCreate(q) \/ StartChatGetAgain(q) \/ StartChatPut(q)

(* A message to the chat, and its diff: the two handlers do the same.  A pod *)
(* that exists is talked to, or is not ready, and nothing is written; a look *)
(* that fails is taken for one that finds none.                              *)

MessageGet(q) == run.chatPod /\ Get(q, "message", "check")

MessageCheck(q) ==
  /\ \/ pods["chat"] # "none" /\ Call(q, "check", "done")
     \/ Call(q, "check", "expire")
  /\ UNCHANGED <<preview, pods>>

MessageExpire(q) == Put(q, "expire", ChatUnnamed, "done")

Message(q) == MessageGet(q) \/ MessageCheck(q) \/ MessageExpire(q)

(* Closing the chat *)

StopChatGet(q) == run.chatPod /\ Get(q, "stopChat", "kill")

StopChatKill(q) ==
  /\ Call(q, "kill", "killed")
  /\ pods' = PodsDeleted({"chat"})
  /\ UNCHANGED preview

StopChatGetAgain(q) == GetAgain(q, "killed", "unname")
StopChatPut(q) == Put(q, "unname", ChatUnnamed, "done")

StopChat(q) ==
  StopChatGet(q) \/ StopChatKill(q) \/ StopChatGetAgain(q) \/ StopChatPut(q)

(* A new preview, in whatever phase the run is.  An old Job that is still    *)
(* being deleted makes the creation fail.                                    *)

RefreshGet(q) == Get(q, "refresh", "drop")

RefreshDrop(q) ==
  /\ Call(q, "drop", "makeDiff")
  /\ PreviewDropped
  /\ UNCHANGED pods

RefreshCreate(q) ==
  \/ CreatePreview /\ Call(q, "makeDiff", "diffMade")
  \/ preview.job # "none" /\ Call(q, "makeDiff", "done") /\ UNCHANGED <<preview, pods>>

RefreshGetAgain(q) == GetAgain(q, "diffMade", "nameDiff")
RefreshPut(q) == Put(q, "nameDiff", [run EXCEPT !.diffJob = TRUE], "done")

Refresh(q) ==
  \/ RefreshGet(q) \/ RefreshDrop(q) \/ RefreshCreate(q)
  \/ RefreshGetAgain(q) \/ RefreshPut(q)

(* List, download and view artifacts: the same pod first.  The phase of a    *)
(* terminating pod is still the one it was deleted in.                       *)

ArtifactsGet(q) == Get(q, "artifacts", "find")

ArtifactsFind(q) ==
  \/ /\ pods["artifacts"] \in {"running", "terminating"}
     /\ Call(q, "find", "done")
     /\ UNCHANGED <<preview, pods>>
  \/ /\ pods["artifacts"] = "none"
     /\ Call(q, "find", "makeArtifacts")
     /\ UNCHANGED <<preview, pods>>
  \/ /\ pods["artifacts"] \in {"pending", "ended", "terminating"}
     /\ Call(q, "find", "makeArtifacts")
     /\ pods' = PodsDeleted({"artifacts"})
     /\ UNCHANGED preview

\* After a wait of at most ten seconds for the old pod.  The wait for the new
\* one, and the command run in it, change nothing here.
ArtifactsCreate(q) ==
  /\ Call(q, "makeArtifacts", "done")
  /\ pods' = [pods EXCEPT !["artifacts"] = IF @ = "none" THEN "pending" ELSE @]
  /\ UNCHANGED preview

Artifacts(q) == ArtifactsGet(q) \/ ArtifactsFind(q) \/ ArtifactsCreate(q)

(* Approval and deletion, as in PipelineRun *)

ApproveGet(q) == Waiting(run) /\ Get(q, "approve", "approve")
ApprovePut(q) == Put(q, "approve", [run EXCEPT !.approved = TRUE], "done")
DeleteGet(q) == run.phase # "Deleting" /\ Get(q, "delete", "delete")
DeletePut(q) == Put(q, "delete", [run EXCEPT !.phase = "Deleting"], "done")

Handle(q) ==
  \/ StartChat(q) \/ Message(q) \/ StopChat(q) \/ Refresh(q) \/ Artifacts(q)
  \/ ApproveGet(q) \/ ApprovePut(q) \/ DeleteGet(q) \/ DeletePut(q)

\* The browser closes the connection; the calls still to come are cancelled.
Abandon(q) ==
  /\ ~Resting(q)
  /\ Goto(q, "abandoned")
  /\ UNCHANGED <<run, cache, fresh, rec, preview, pods>>

-----------------------------------------------------------------------------
(* Kubernetes *)

Sync ==
  /\ "cache" \notin fresh
  /\ cache' = run
  /\ fresh' = fresh \cup {"cache"}
  /\ UNCHANGED <<run, rec, preview, pods, req>>

PodMoves(p, from, to) ==
  /\ pods[p] \in from
  /\ pods' = [pods EXCEPT ![p] = to]
  /\ UNCHANGED <<run, cache, fresh, rec, preview, req>>

PodStarts(p) == PodMoves(p, {"pending"}, "running")
PodEnds(p) == PodMoves(p, {"running"}, "ended")
PodRemoved(p) == PodMoves(p, {"terminating"}, "none")

\* Broken variant of RunOwns: the chat pod gets no owner reference.
RunOwnsNoChat == {"artifacts", "push"}

\* The pods and Jobs whose owner is the run.
RunOwns == {"chat", "artifacts", "push"}

\* A preview pod belongs to its Job, which belongs to the run.
Orphans ==
  (IF run.phase = "Gone" THEN RunOwns ELSE {})
    \cup (Previews \ (IF preview.job = "active" /\ run.phase # "Gone"
                      THEN {preview.pod} ELSE {}))

CollectPod(p) == p \in Orphans /\ PodMoves(p, {"pending", "running", "ended"}, "terminating")

CollectJob ==
  /\ preview.job # "none"
  /\ \/ run.phase = "Gone"
     \/ preview.job = "deleting" /\ pods[preview.pod] = "none"
  /\ preview' = NoJob
  /\ UNCHANGED <<run, cache, fresh, rec, pods, req>>

\* What is never put off for good: Job pods end, others need not.
Kubelet ==
  \/ CollectJob
  \/ \E p \in Pods : PodStarts(p) \/ PodRemoved(p) \/ CollectPod(p)
  \/ \E p \in Previews \cup {"push"} : PodEnds(p)

Cluster == Sync \/ Kubelet \/ PodEnds("chat") \/ PodEnds("artifacts")

Next == Reconcile \/ Cluster \/ \E q \in Requests : Handle(q) \/ Abandon(q)

Spec == Init /\ [][Next]_vars

\* The reconciler and the informer go on; a handler that has read the run goes
\* on; the garbage collector and the kubelet do their work.  Users do as they
\* like, and pods other than those of Jobs need not end.
FairSpec ==
  /\ Spec
  /\ WF_vars(Reconcile)
  /\ WF_vars(Sync)
  /\ WF_vars(Kubelet)
  /\ \A q \in Requests : WF_vars(~At(q, "new") /\ Handle(q))

-----------------------------------------------------------------------------
(* Properties *)

Pcs == {"look", "sync", "clear", "free", "makeChat", "chatMade", "nameChat",
        "check", "expire", "kill", "killed", "unname", "drop", "makeDiff",
        "diffMade", "nameDiff", "find", "makeArtifacts", "approve", "delete",
        "new", "done", "abandoned"}

\* Every variable keeps its type, and the preview Job has a pod of its own
\* while it exists.
TypeOK ==
  /\ run \in Run
  /\ cache \in Run
  /\ fresh \subseteq {"cache", "rec"} \cup Requests
  /\ rec \in {"idle", "await", "awaitDiff", "resume", "delete"}
  /\ preview \in [job : {"none", "active", "deleting"}, pod : Previews \cup {NoPod}]
  /\ preview.job # "none" => preview.pod \in Previews
  /\ pods \in [Pods -> PodStates]
  /\ req \in [Requests -> [pc : Pcs, named : BOOLEAN]]

\* How far the run has come.
Progress(r) ==
  CASE r.phase = "Running" /\ ~r.approved -> 0
    [] Waiting(r) /\ ~r.approved -> 1
    [] Waiting(r) /\ r.approved -> 2
    [] r.phase = "Running" /\ r.approved -> 3
    [] r.phase = "Ended" -> 4
    [] r.phase = "Deleting" -> 5
    [] OTHER -> 6

\* However long a handler waited between reading the run and writing a pod's
\* name into its status, it never takes the run back: not before an approval,
\* not out of a deletion.
NeverBack == [][Progress(run') >= Progress(run)]_run

\* A run that is gone takes all its pods with it, those included that a handler
\* still under way creates after the deletion.
DeletionCleansUp ==
  (run.phase = "Gone") ~> [](\A p \in Pods : pods[p] = "none")

\* Whatever other requests left behind - a name without a pod, a pod without a
\* name, a live pod whose name was cleared - one request to open the chat of a
\* waiting run that nobody disturbs after it has read the run puts right, unless it
\* finds a pod that is on its way out or its look at the pod fails (handleStartChat).
LoneChatHeals ==
  \A q \in Requests :
    (/\ At(q, "look")
     /\ q \in fresh
     /\ \A o \in Requests \ {q} : Resting(o)
     /\ Waiting(run)
     /\ ~run.approved
     /\ pods["chat"] # "terminating")
      ~> \/ run.chatPod /\ pods["chat"] # "none"
         \/ At(q, "free") /\ pods["chat"] # "none"
         \/ At(q, "abandoned")
         \/ \E o \in Requests \ {q} : ~Resting(o)
=============================================================================
