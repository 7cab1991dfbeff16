---------------------------- MODULE WorkspaceProofs ----------------------------
(***************************************************************************)
(* Proofs about Workspace for any number of requests of every kind: its    *)
(* types, and that no late write takes the run back.                       *)
(***************************************************************************)
EXTENDS Workspace, TLAPS

\* What holds while a copy of the run is still current.
Snapshots ==
  /\ "cache" \in fresh => cache = run
  /\ "rec" \in fresh /\ rec \in {"await", "awaitDiff"} =>
       run.phase = "Running" /\ ~run.approved
  /\ "rec" \in fresh /\ rec = "resume" => Waiting(run) /\ run.approved
  /\ \A q \in Requests \cap fresh :
       /\ At(q, "approve") => Waiting(run)
       /\ At(q, "delete") => run.phase # "Gone"

IInv == TypeOK /\ Snapshots

\* Types of the variables that are not copies of the run: what mounts the
\* volume, and who is where.
VolumeOK ==
  /\ preview \in [job : {"none", "active", "deleting"}, pod : Previews \cup {NoPod}]
  /\ preview.job # "none" => preview.pod \in Previews
  /\ pods \in [Pods -> PodStates]

OthersOK ==
  /\ rec \in {"idle", "await", "awaitDiff", "resume", "delete"}
  /\ VolumeOK
  /\ req \in [Requests -> [pc : Pcs, named : BOOLEAN]]

\* The step does not take the run back.
Forward == run' = run \/ Progress(run') >= Progress(run)

\* No one comes to a place where the copy it holds matters.
Calm ==
  /\ rec' = rec \/ rec' = "idle"
  /\ \A q \in Requests :
       req'[q].pc \in {"approve", "delete"} => req'[q] = req[q]

-----------------------------------------------------------------------------
(* The run *)

LEMMA RunFields ==
  ASSUME NEW r \in Run
  PROVE  /\ r.phase \in {"Running", "WaitingForInput", "Ended", "Deleting", "Gone"}
         /\ r.approved \in BOOLEAN
BY DEF Run

LEMMA SetPhase ==
  ASSUME NEW r \in Run,
         NEW p \in {"Running", "WaitingForInput", "Ended", "Deleting", "Gone"}
  PROVE  /\ [r EXCEPT !.phase = p] \in Run
         /\ [r EXCEPT !.phase = p].phase = p
         /\ [r EXCEPT !.phase = p].approved = r.approved
BY DEF Run

LEMMA SetApproved ==
  ASSUME NEW r \in Run
  PROVE  /\ [r EXCEPT !.approved = TRUE] \in Run
         /\ [r EXCEPT !.approved = TRUE].phase = r.phase
         /\ [r EXCEPT !.approved = TRUE].approved = TRUE
BY DEF Run

LEMMA SetDiffJob ==
  ASSUME NEW r \in Run, NEW b \in BOOLEAN
  PROVE  /\ [r EXCEPT !.diffJob = b] \in Run
         /\ [r EXCEPT !.diffJob = b].phase = r.phase
         /\ [r EXCEPT !.diffJob = b].approved = r.approved
BY DEF Run

LEMMA SetChatPod ==
  ASSUME NEW r \in Run, NEW b \in BOOLEAN
  PROVE  /\ [r EXCEPT !.chatPod = b] \in Run
         /\ [r EXCEPT !.chatPod = b].phase = r.phase
         /\ [r EXCEPT !.chatPod = b].approved = r.approved
BY DEF Run

\* A write of the names alone.
LEMMA NamesOnly ==
  ASSUME TypeOK
  PROVE  \A new \in {ChatNamed, ChatUnnamed, [run EXCEPT !.diffJob = TRUE]} :
           new \in Run /\ new.phase = run.phase /\ new.approved = run.approved
<1>0. run \in Run
  BY DEF TypeOK
<1> DEFINE r == [run EXCEPT !.chatPod = TRUE]
<1>1. r \in Run /\ r.phase = run.phase /\ r.approved = run.approved
  BY <1>0, SetChatPod
<1>2. ChatNamed = [r EXCEPT !.diffJob = FALSE]
  BY DEF ChatNamed
<1> HIDE DEF r
<1>3. ChatNamed \in Run /\ ChatNamed.phase = run.phase
      /\ ChatNamed.approved = run.approved
  BY <1>1, <1>2, SetDiffJob
<1>4. ChatUnnamed \in Run /\ ChatUnnamed.phase = run.phase
      /\ ChatUnnamed.approved = run.approved
  BY <1>0, SetChatPod DEF ChatUnnamed
<1> QED
  BY <1>0, <1>3, <1>4, SetDiffJob

LEMMA ProgressValues ==
  ASSUME NEW r \in Run
  PROVE  /\ Progress(r) \in 0 .. 6
         /\ r.phase = "Running" /\ ~r.approved => Progress(r) = 0
         /\ r.phase = "WaitingForInput" /\ ~r.approved => Progress(r) = 1
         /\ r.phase = "WaitingForInput" /\ r.approved => Progress(r) = 2
         /\ r.phase = "Running" /\ r.approved => Progress(r) = 3
         /\ r.phase = "Ended" => Progress(r) = 4
         /\ r.phase = "Deleting" => Progress(r) = 5
         /\ r.phase = "Gone" => Progress(r) = 6
         /\ r.phase # "Gone" => Progress(r) <= 5
BY RunFields DEF Progress, Waiting

-----------------------------------------------------------------------------
(* What a step must show *)

\* A write takes the version from everyone.
LEMMA WriteInv ==
  ASSUME IInv, run' \in Run, fresh' = {}, cache' = cache, OthersOK'
  PROVE  IInv'
<1>1. TypeOK'
  BY DEF IInv, TypeOK, OthersOK, VolumeOK
<1>2. Snapshots'
  BY DEF Snapshots
<1> QED
  BY <1>1, <1>2 DEF IInv

\* A step that leaves the run alone justifies the versions it hands out.
LEMMA KeepInv ==
  ASSUME IInv, run' = run, cache' = cache, OthersOK', Calm,
         fresh' \ fresh \subseteq Requests,
         \A q \in fresh' \ fresh : req'[q].pc \notin {"approve", "delete"}
  PROVE  IInv' /\ Forward
<1>1. TypeOK'
  BY DEF IInv, TypeOK, OthersOK, VolumeOK
<1>2. "cache" \notin Requests /\ "rec" \notin Requests
  BY WorkspaceAssumption
<1>3. Snapshots'
  <2>1. ("cache" \in fresh => cache = run)'
    BY <1>2 DEF IInv, Snapshots
  <2>2. ("rec" \in fresh /\ rec \in {"await", "awaitDiff"} =>
           run.phase = "Running" /\ ~run.approved)'
    BY <1>2 DEF IInv, Snapshots, Calm
  <2>3. ("rec" \in fresh /\ rec = "resume" => Waiting(run) /\ run.approved)'
    BY <1>2 DEF IInv, Snapshots, Calm, Waiting
  <2>4. ASSUME NEW q \in Requests, q \in fresh'
        PROVE  /\ req'[q].pc = "approve" => run.phase = "WaitingForInput"
               /\ req'[q].pc = "delete" => run.phase # "Gone"
    <3>1. CASE q \in fresh
      BY <2>4, <3>1 DEF IInv, Snapshots, Calm, At, Waiting
    <3>2. CASE q \notin fresh
      BY <2>4, <3>2
    <3> QED
      BY <3>1, <3>2
  <2> QED
    BY <2>1, <2>2, <2>3, <2>4 DEF Snapshots, At, Waiting
<1> QED
  BY <1>1, <1>3 DEF IInv, Forward

\* An update, whether it takes effect or not.
LEMMA UpdateInv ==
  ASSUME IInv, NEW h, NEW new \in Run, Update(h, new), cache' = cache, OthersOK', Calm,
         h \in fresh => Progress(new) >= Progress(run)
  PROVE  IInv' /\ Forward
<1>1. CASE h \in fresh /\ run' = new /\ fresh' = {}
  BY <1>1, WriteInv DEF Forward
<1>2. CASE UNCHANGED <<run, fresh>>
  BY <1>2, KeepInv
<1> QED
  BY <1>1, <1>2 DEF Update

-----------------------------------------------------------------------------
(* What mounts the volume *)

LEMMA VolumeTypes ==
  ASSUME IInv
  PROVE  run \in Run /\ cache \in Run /\ OthersOK /\ VolumeOK
BY DEF IInv, TypeOK, OthersOK, VolumeOK

LEMMA PodSet ==
  ASSUME NEW ps \in [Pods -> PodStates], NEW p \in Pods, NEW s \in PodStates
  PROVE  [ps EXCEPT ![p] = s] \in [Pods -> PodStates]
OBVIOUS

LEMMA PodsDeletedType ==
  ASSUME VolumeOK, NEW ps
  PROVE  PodsDeleted(ps) \in [Pods -> PodStates]
BY DEF VolumeOK, PodsDeleted, PodStates

LEMMA CreatePreviewOK ==
  ASSUME VolumeOK, CreatePreview
  PROVE  VolumeOK'
<1>1. PICK d \in Previews : /\ preview' = [job |-> "active", pod |-> d]
                           /\ pods' = [pods EXCEPT ![d] = "running"]
  BY DEF CreatePreview
<1>2. d \in Pods /\ "running" \in PodStates
  BY DEF Pods, PodStates
<1>3. pods' \in [Pods -> PodStates]
  BY <1>1, <1>2, PodSet DEF VolumeOK
<1> QED
  BY <1>1, <1>3 DEF VolumeOK

LEMMA PreviewDroppedOK ==
  ASSUME VolumeOK, PreviewDropped, pods' = pods
  PROVE  VolumeOK'
BY DEF VolumeOK, PreviewDropped

LEMMA NoJobOK ==
  ASSUME VolumeOK, preview' \in {preview, NoJob}, pods' \in [Pods -> PodStates]
  PROVE  VolumeOK'
BY DEF VolumeOK, NoJob

-----------------------------------------------------------------------------
(* The reconciler *)

\* Between two writes of a pass, its copy is current if the cache was.
LEMMA GoOnInv ==
  ASSUME IInv, VolumeOK', NEW pc \in {"await", "awaitDiff", "resume", "delete"},
         GoOn(pc),
         pc \in {"await", "awaitDiff"} => cache.phase = "Running" /\ ~cache.approved,
         pc = "resume" => Waiting(cache) /\ cache.approved
  PROVE  IInv' /\ Forward
<1>1. run' = run /\ cache' = cache /\ req' = req /\ rec' = pc
  BY DEF GoOn
<1>2. "cache" \notin Requests /\ "rec" \notin Requests
  BY WorkspaceAssumption
<1>3. /\ fresh' \subseteq fresh \cup {"rec"}
      /\ "rec" \in fresh' => "cache" \in fresh
  BY DEF GoOn
<1>4. TypeOK'
  BY <1>1, <1>3 DEF IInv, TypeOK, VolumeOK
<1>5. "rec" \in fresh' => cache = run
  BY <1>3 DEF IInv, Snapshots
<1>6. ("cache" \in fresh => cache = run)'
  BY <1>1, <1>2, <1>3 DEF IInv, Snapshots
<1>7. ASSUME NEW q \in Requests \cap fresh'
      PROVE  /\ req[q].pc = "approve" => run.phase = "WaitingForInput"
             /\ req[q].pc = "delete" => run.phase # "Gone"
  BY <1>2, <1>3, <1>7 DEF IInv, Snapshots, At, Waiting
<1>8. Snapshots'
  BY <1>1, <1>5, <1>6, <1>7 DEF Snapshots, At, Waiting
<1> QED
  BY <1>1, <1>4, <1>8 DEF IInv, Forward

LEMMA GateInv ==
  ASSUME IInv, RecGate
  PROVE  IInv' /\ Forward
<1>1. VolumeOK'
  <2>1. CASE CreatePreview
    BY <2>1, VolumeTypes, CreatePreviewOK
  <2>2. CASE UNCHANGED <<preview, pods>>
    BY <2>2, VolumeTypes DEF VolumeOK
  <2> QED
    BY <2>1, <2>2 DEF RecGate
<1>2. \E pc \in {"await", "awaitDiff"} : GoOn(pc)
  BY DEF RecGate
<1>3. cache.phase = "Running" /\ ~cache.approved
  BY DEF RecGate
<1> QED
  BY <1>1, <1>2, <1>3, GoOnInv

LEMMA AwaitInv ==
  ASSUME IInv, RecAwait
  PROVE  IInv' /\ Forward
<1> DEFINE r == [run EXCEPT !.phase = "WaitingForInput"]
           new == [run EXCEPT !.phase = "WaitingForInput", !.diffJob = (rec = "awaitDiff")]
<1>1. r \in Run /\ r.phase = "WaitingForInput" /\ r.approved = run.approved
  BY VolumeTypes, SetPhase
<1>2. new = [r EXCEPT !.diffJob = (rec = "awaitDiff")]
  OBVIOUS
<1>3. new \in Run /\ new.phase = "WaitingForInput" /\ new.approved = run.approved
  <2> HIDE DEF r
  <2> QED BY <1>1, <1>2, SetDiffJob
<1>4. Update("rec", new) /\ cache' = cache
  BY DEF RecAwait
<1> HIDE DEF r, new
<1>5. "rec" \in fresh => Progress(new) >= Progress(run)
  <2>1. "rec" \in fresh => run.phase = "Running" /\ ~run.approved
    BY DEF IInv, Snapshots, RecAwait
  <2>2. "rec" \in fresh => Progress(run) = 0 /\ Progress(new) = 1
    BY <2>1, <1>3, VolumeTypes, ProgressValues
  <2> QED BY <2>2
<1>6. OthersOK' /\ Calm
  BY VolumeTypes DEF RecAwait, OthersOK, VolumeOK, Calm
<1> QED
  BY <1>3, <1>4, <1>5, <1>6, UpdateInv

LEMMA ApprovedInv ==
  ASSUME IInv, RecApproved
  PROVE  IInv' /\ Forward
<1>1. VolumeOK'
  BY VolumeTypes, PodsDeletedType, NoJobOK DEF RecApproved
<1> QED
  BY <1>1, GoOnInv DEF RecApproved

LEMMA ResumeInv ==
  ASSUME IInv, RecResume
  PROVE  IInv' /\ Forward
<1> DEFINE r1 == [run EXCEPT !.phase = "Running"]
           r2 == [r1 EXCEPT !.diffJob = FALSE]
           new == [run EXCEPT !.phase = "Running", !.diffJob = FALSE, !.chatPod = FALSE]
<1>1. r1 \in Run /\ r1.phase = "Running" /\ r1.approved = run.approved
  BY VolumeTypes, SetPhase
<1>2. new = [r2 EXCEPT !.chatPod = FALSE]
  OBVIOUS
<1>3. r2 \in Run /\ r2.phase = "Running" /\ r2.approved = run.approved
  <2> HIDE DEF r1
  <2> QED BY <1>1, SetDiffJob
<1>4. new \in Run /\ new.phase = "Running" /\ new.approved = run.approved
  <2> HIDE DEF r2
  <2> QED BY <1>2, <1>3, SetChatPod
<1>5. Update("rec", new) /\ cache' = cache
  BY DEF RecResume
<1> HIDE DEF r1, r2, new
<1>6. "rec" \in fresh => Progress(new) >= Progress(run)
  <2>1. "rec" \in fresh => run.phase = "WaitingForInput" /\ run.approved
    BY DEF IInv, Snapshots, RecResume, Waiting
  <2>2. "rec" \in fresh => Progress(run) = 2 /\ Progress(new) = 3
    BY <2>1, <1>4, VolumeTypes, ProgressValues
  <2> QED BY <2>2
<1>7. OthersOK' /\ Calm
  BY VolumeTypes DEF RecResume, OthersOK, VolumeOK, Calm
<1> QED
  BY <1>4, <1>5, <1>6, <1>7, UpdateInv

LEMMA PushInv ==
  ASSUME IInv, RecPush
  PROVE  IInv' /\ Forward
<1>1. pods' \in [Pods -> PodStates]
  BY VolumeTypes DEF RecPush, VolumeOK, Pods, PodStates
<1>2. OthersOK' /\ Calm
  BY <1>1, VolumeTypes DEF RecPush, OthersOK, VolumeOK, Calm
<1> QED
  BY <1>2, KeepInv DEF RecPush

LEMMA EndInv ==
  ASSUME IInv, RecEnd
  PROVE  IInv' /\ Forward
<1>1. cache = run
  BY DEF IInv, Snapshots, RecEnd
<1>2. /\ run' = [run EXCEPT !.phase = "Ended"]
      /\ run.phase = "Running" /\ run.approved
      /\ fresh' = {} /\ cache' = cache
  BY <1>1 DEF RecEnd
<1>3. run' \in Run /\ run'.phase = "Ended"
  BY <1>2, VolumeTypes, SetPhase
<1>4. OthersOK'
  BY VolumeTypes DEF RecEnd, OthersOK, VolumeOK
<1>5. Progress(run) = 3 /\ Progress(run') = 4
  BY <1>2, <1>3, VolumeTypes, ProgressValues
<1> QED
  BY <1>2, <1>3, <1>4, <1>5, WriteInv DEF Forward

LEMMA DeletingInv ==
  ASSUME IInv, RecDeleting
  PROVE  IInv' /\ Forward
<1>1. VolumeOK'
  BY VolumeTypes, PodsDeletedType, NoJobOK DEF RecDeleting
<1> QED
  BY <1>1, GoOnInv DEF RecDeleting

LEMMA DeleteCRInv ==
  ASSUME IInv, RecDeleteCR
  PROVE  IInv' /\ Forward
<1>1. run' \in Run /\ run'.phase = "Gone"
  BY VolumeTypes, SetPhase DEF RecDeleteCR
<1>2. OthersOK'
  BY VolumeTypes DEF RecDeleteCR, OthersOK, VolumeOK
<1>3. Progress(run') = 6 /\ Progress(run) \in 0 .. 6
  BY <1>1, VolumeTypes, ProgressValues
<1> QED
  BY <1>1, <1>2, <1>3, WriteInv DEF RecDeleteCR, Forward

LEMMA ReconcileInv ==
  ASSUME IInv, Reconcile
  PROVE  IInv' /\ Forward
BY GateInv, AwaitInv, ApprovedInv, ResumeInv, PushInv, EndInv, DeletingInv,
   DeleteCRInv DEF Reconcile

-----------------------------------------------------------------------------
(* The handlers *)

LEMMA GotoOK ==
  ASSUME OthersOK, NEW q \in Requests, NEW pc \in Pcs, NEW b \in BOOLEAN,
         req' = [req EXCEPT ![q] = [pc |-> pc, named |-> b]], rec' = rec
  PROVE  /\ req' \in [Requests -> [pc : Pcs, named : BOOLEAN]]
         /\ req'[q].pc = pc
         /\ pc \notin {"approve", "delete"} => Calm
BY DEF OthersOK, Calm

\* The read with which a request begins.
LEMMA GetInv ==
  ASSUME IInv, NEW q \in Requests, NEW op, NEW pc \in Pcs, Get(q, op, pc),
         pc = "approve" => Waiting(run)
  PROVE  IInv' /\ Forward
<1>1. /\ run' = run /\ cache' = cache /\ rec' = rec
      /\ preview' = preview /\ pods' = pods
      /\ fresh' = fresh \cup {q} /\ run.phase # "Gone"
      /\ req' = [req EXCEPT ![q] = [pc |-> pc, named |-> run.chatPod]]
  BY DEF Get
<1>2. "cache" # q /\ "rec" # q
  BY WorkspaceAssumption
<1>3. run.chatPod \in BOOLEAN
  BY VolumeTypes DEF Run
<1>4. req' \in [Requests -> [pc : Pcs, named : BOOLEAN]]
  BY <1>1, <1>3, VolumeTypes, GotoOK
<1>5. TypeOK'
  BY <1>1, <1>4 DEF IInv, TypeOK
<1>6. ASSUME NEW o \in Requests, o \in fresh'
      PROVE  /\ req'[o].pc = "approve" => run.phase = "WaitingForInput"
             /\ req'[o].pc = "delete" => run.phase # "Gone"
  <2>1. CASE o = q
    <3>1. req'[q].pc = pc
      BY <1>1, <1>3, VolumeTypes, GotoOK
    <3> QED
      BY <1>1, <2>1, <3>1 DEF Waiting
  <2>2. CASE o # q
    <3>1. req'[o] = req[o] /\ o \in fresh
      BY <1>1, <1>6, <2>2, VolumeTypes DEF OthersOK
    <3> QED
      BY <3>1 DEF IInv, Snapshots, At, Waiting
  <2> QED
    BY <2>1, <2>2
<1>7. Snapshots'
  <2>1. /\ "cache" \in fresh' => cache = run
        /\ "rec" \in fresh' /\ rec \in {"await", "awaitDiff"} =>
             run.phase = "Running" /\ ~run.approved
        /\ "rec" \in fresh' /\ rec = "resume" => Waiting(run) /\ run.approved
    BY <1>1, <1>2 DEF IInv, Snapshots
  <2> QED
    BY <1>1, <1>6, <2>1 DEF Snapshots, At, Waiting
<1> QED
  BY <1>1, <1>5, <1>7 DEF IInv, Forward

\* The second read: it leads to a write of names only.
LEMMA GetAgainInv ==
  ASSUME IInv, NEW q \in Requests, NEW pc, NEW put \in Pcs \ {"approve", "delete"},
         GetAgain(q, pc, put)
  PROVE  IInv' /\ Forward
<1> DEFINE next == IF run.phase = "Gone" THEN "done" ELSE put
<1>1. next \in Pcs \ {"approve", "delete"}
  BY DEF Pcs
<1>2. req' = [req EXCEPT ![q] = [pc |-> next, named |-> FALSE]]
  BY DEF GetAgain, Goto
<1> HIDE DEF next
<1>3. rec' = rec /\ run' = run /\ cache' = cache /\ preview' = preview /\ pods' = pods
      /\ fresh' \ fresh \subseteq {q}
  BY DEF GetAgain
<1>4. /\ req' \in [Requests -> [pc : Pcs, named : BOOLEAN]]
      /\ req'[q].pc = next
      /\ Calm
  BY <1>1, <1>2, <1>3, VolumeTypes, GotoOK
<1>5. OthersOK'
  BY <1>3, <1>4, VolumeTypes DEF OthersOK, VolumeOK
<1> QED
  BY <1>1, <1>3, <1>4, <1>5, KeepInv

\* A write, effective or not, that does not take the run back.
LEMMA PutInv ==
  ASSUME IInv, NEW q \in Requests, NEW pc, NEW new \in Run,
         NEW next \in Pcs \ {"approve", "delete"}, Put(q, pc, new, next),
         q \in fresh => Progress(new) >= Progress(run)
  PROVE  IInv' /\ Forward
<1>1. /\ req' = [req EXCEPT ![q] = [pc |-> next, named |-> FALSE]]
      /\ rec' = rec /\ cache' = cache /\ preview' = preview /\ pods' = pods
      /\ Update(q, new)
  BY DEF Put, Goto
<1>2. req' \in [Requests -> [pc : Pcs, named : BOOLEAN]] /\ Calm
  BY <1>1, VolumeTypes, GotoOK
<1>3. OthersOK'
  BY <1>1, <1>2, VolumeTypes DEF OthersOK, VolumeOK
<1> QED
  BY <1>1, <1>2, <1>3, UpdateInv

\* The write of a name leaves the run where it is.
LEMMA PutNameInv ==
  ASSUME IInv, NEW q \in Requests, NEW pc,
         NEW new \in {ChatNamed, ChatUnnamed, [run EXCEPT !.diffJob = TRUE]},
         NEW next \in Pcs \ {"approve", "delete"}, Put(q, pc, new, next)
  PROVE  IInv' /\ Forward
<1>1. new \in Run /\ new.phase = run.phase /\ new.approved = run.approved
  BY NamesOnly DEF IInv
<1>2. Progress(new) = Progress(run)
  BY <1>1 DEF Progress, Waiting
<1>3. Progress(new) \in 0 .. 6
  BY <1>1, ProgressValues
<1>4. Progress(new) >= Progress(run)
  BY <1>2, <1>3
<1> QED
  BY <1>1, <1>4, PutInv

\* A call that writes no run.
LEMMA CallInv ==
  ASSUME IInv, NEW q \in Requests, NEW pc,
         NEW next \in Pcs \ {"approve", "delete"}, Call(q, pc, next), VolumeOK'
  PROVE  IInv' /\ Forward
<1>1. /\ req' = [req EXCEPT ![q] = [pc |-> next, named |-> FALSE]]
      /\ rec' = rec /\ cache' = cache /\ run' = run /\ fresh' = fresh
  BY DEF Call, Goto
<1>2. req' \in [Requests -> [pc : Pcs, named : BOOLEAN]] /\ Calm
  BY <1>1, VolumeTypes, GotoOK
<1>3. OthersOK'
  BY <1>1, <1>2, VolumeTypes DEF OthersOK
<1> QED
  BY <1>1, <1>2, <1>3, KeepInv

LEMMA VolumeSame ==
  ASSUME IInv, UNCHANGED <<preview, pods>>
  PROVE  VolumeOK'
BY VolumeTypes DEF VolumeOK

LEMMA VolumePods ==
  ASSUME IInv, preview' = preview, pods' \in [Pods -> PodStates]
  PROVE  VolumeOK'
BY VolumeTypes DEF VolumeOK

LEMMA StartChatInv ==
  ASSUME IInv, NEW q \in Requests, StartChat(q)
  PROVE  IInv' /\ Forward
<1>1. CASE StartChatGet(q)
  BY <1>1, GetInv DEF StartChatGet, Pcs
<1>2. CASE StartChatLook(q)
  <2>1. PICK next \in {"done", "sync", "clear", "free"} : Call(q, "look", next)
    BY <1>2 DEF StartChatLook
  <2> QED
    BY <1>2, <2>1, VolumeSame, CallInv DEF StartChatLook, Pcs
<1>3. CASE StartChatSync(q)
  BY <1>3, PutNameInv DEF StartChatSync, Pcs
<1>4. CASE StartChatClear(q)
  BY <1>4, PutNameInv DEF StartChatClear, Pcs
<1>5. CASE StartChatFree(q)
  BY <1>5, VolumeTypes, PreviewDroppedOK, CallInv DEF StartChatFree, Pcs
<1>6. CASE StartChatCreate(q)
  <2>1. PICK next \in {"done", "chatMade"} : Call(q, "makeChat", next)
    BY <1>6 DEF StartChatCreate
  <2>2. pods' \in [Pods -> PodStates]
    BY <1>6, VolumeTypes DEF StartChatCreate, VolumeOK, PodStates
  <2> QED
    BY <1>6, <2>1, <2>2, VolumePods, CallInv DEF StartChatCreate, Pcs
<1>7. CASE StartChatGetAgain(q)
  BY <1>7, GetAgainInv DEF StartChatGetAgain, Pcs
<1>8. CASE StartChatPut(q)
  BY <1>8, PutNameInv DEF StartChatPut, Pcs
<1> QED
  BY <1>1, <1>2, <1>3, <1>4, <1>5, <1>6, <1>7, <1>8 DEF StartChat

LEMMA MessageInv ==
  ASSUME IInv, NEW q \in Requests, Message(q)
  PROVE  IInv' /\ Forward
<1>1. CASE MessageGet(q)
  BY <1>1, GetInv DEF MessageGet, Pcs
<1>2. CASE MessageCheck(q)
  <2>1. PICK next \in {"done", "expire"} : Call(q, "check", next)
    BY <1>2 DEF MessageCheck
  <2> QED
    BY <1>2, <2>1, VolumeSame, CallInv DEF MessageCheck, Pcs
<1>3. CASE MessageExpire(q)
  BY <1>3, PutNameInv DEF MessageExpire, Pcs
<1> QED
  BY <1>1, <1>2, <1>3 DEF Message

LEMMA StopChatInv ==
  ASSUME IInv, NEW q \in Requests, StopChat(q)
  PROVE  IInv' /\ Forward
<1>1. CASE StopChatGet(q)
  BY <1>1, GetInv DEF StopChatGet, Pcs
<1>2. CASE StopChatKill(q)
  BY <1>2, VolumeTypes, PodsDeletedType, VolumePods, CallInv DEF StopChatKill, Pcs
<1>3. CASE StopChatGetAgain(q)
  BY <1>3, GetAgainInv DEF StopChatGetAgain, Pcs
<1>4. CASE StopChatPut(q)
  BY <1>4, PutNameInv DEF StopChatPut, Pcs
<1> QED
  BY <1>1, <1>2, <1>3, <1>4 DEF StopChat

LEMMA RefreshInv ==
  ASSUME IInv, NEW q \in Requests, Refresh(q)
  PROVE  IInv' /\ Forward
<1>1. CASE RefreshGet(q)
  BY <1>1, GetInv DEF RefreshGet, Pcs
<1>2. CASE RefreshDrop(q)
  BY <1>2, VolumeTypes, PreviewDroppedOK, CallInv DEF RefreshDrop, Pcs
<1>3. CASE RefreshCreate(q)
  <2>1. CASE CreatePreview /\ Call(q, "makeDiff", "diffMade")
    BY <2>1, VolumeTypes, CreatePreviewOK, CallInv DEF Pcs
  <2>2. CASE Call(q, "makeDiff", "done") /\ UNCHANGED <<preview, pods>>
    BY <2>2, VolumeSame, CallInv DEF Pcs
  <2> QED
    BY <1>3, <2>1, <2>2 DEF RefreshCreate
<1>4. CASE RefreshGetAgain(q)
  BY <1>4, GetAgainInv DEF RefreshGetAgain, Pcs
<1>5. CASE RefreshPut(q)
  BY <1>5, PutNameInv DEF RefreshPut, Pcs
<1> QED
  BY <1>1, <1>2, <1>3, <1>4, <1>5 DEF Refresh

LEMMA ArtifactsInv ==
  ASSUME IInv, NEW q \in Requests, Artifacts(q)
  PROVE  IInv' /\ Forward
<1>1. CASE ArtifactsGet(q)
  BY <1>1, GetInv DEF ArtifactsGet, Pcs
<1>2. CASE ArtifactsFind(q)
  <2>1. PICK next \in {"done", "makeArtifacts"} : Call(q, "find", next)
    BY <1>2 DEF ArtifactsFind
  <2>2. VolumeOK'
    BY <1>2, VolumeTypes, VolumeSame, PodsDeletedType, VolumePods DEF ArtifactsFind
  <2> QED
    BY <2>1, <2>2, CallInv DEF Pcs
<1>3. CASE ArtifactsCreate(q)
  <2>1. pods' \in [Pods -> PodStates]
    BY <1>3, VolumeTypes DEF ArtifactsCreate, VolumeOK, PodStates
  <2> QED
    BY <1>3, <2>1, VolumePods, CallInv DEF ArtifactsCreate, Pcs
<1> QED
  BY <1>1, <1>2, <1>3 DEF Artifacts

LEMMA ApproveInv ==
  ASSUME IInv, NEW q \in Requests, ApproveGet(q) \/ ApprovePut(q)
  PROVE  IInv' /\ Forward
<1>1. CASE ApproveGet(q)
  BY <1>1, GetInv DEF ApproveGet, Pcs
<1>2. CASE ApprovePut(q)
  <2> DEFINE new == [run EXCEPT !.approved = TRUE]
  <2>1. new \in Run /\ new.phase = run.phase /\ new.approved = TRUE
    BY VolumeTypes, SetApproved
  <2>2. Put(q, "approve", new, "done")
    BY <1>2 DEF ApprovePut
  <2> HIDE DEF new
  <2>3. q \in fresh => run.phase = "WaitingForInput"
    BY <2>2 DEF IInv, Snapshots, Put, Waiting
  <2>4. q \in fresh => Progress(new) = 2 /\ Progress(run) \in {1, 2}
    BY <2>1, <2>3, VolumeTypes, RunFields, ProgressValues
  <2>5. "done" \in Pcs \ {"approve", "delete"}
    BY DEF Pcs
  <2> QED
    BY <2>1, <2>2, <2>4, <2>5, PutInv
<1> QED
  BY <1>1, <1>2

LEMMA DeleteInv ==
  ASSUME IInv, NEW q \in Requests, DeleteGet(q) \/ DeletePut(q)
  PROVE  IInv' /\ Forward
<1>1. CASE DeleteGet(q)
  BY <1>1, GetInv DEF DeleteGet, Pcs
<1>2. CASE DeletePut(q)
  <2> DEFINE new == [run EXCEPT !.phase = "Deleting"]
  <2>1. new \in Run /\ new.phase = "Deleting"
    BY VolumeTypes, SetPhase
  <2>2. Put(q, "delete", new, "done")
    BY <1>2 DEF DeletePut
  <2> HIDE DEF new
  <2>3. q \in fresh => run.phase # "Gone"
    BY <2>2 DEF IInv, Snapshots, Put
  <2>4. q \in fresh => Progress(new) = 5 /\ Progress(run) \in 0 .. 6 /\ Progress(run) <= 5
    BY <2>1, <2>3, VolumeTypes, ProgressValues
  <2>5. "done" \in Pcs \ {"approve", "delete"}
    BY DEF Pcs
  <2> QED
    BY <2>1, <2>2, <2>4, <2>5, PutInv
<1> QED
  BY <1>1, <1>2

LEMMA HandleInv ==
  ASSUME IInv, NEW q \in Requests, Handle(q)
  PROVE  IInv' /\ Forward
BY StartChatInv, MessageInv, StopChatInv, RefreshInv, ArtifactsInv, ApproveInv,
   DeleteInv DEF Handle

LEMMA AbandonInv ==
  ASSUME IInv, NEW q \in Requests, Abandon(q)
  PROVE  IInv' /\ Forward
<1>1. Call(q, req[q].pc, "abandoned") /\ UNCHANGED <<preview, pods>>
  BY DEF Abandon, Call, At
<1> QED
  BY <1>1, VolumeSame, CallInv DEF Pcs

-----------------------------------------------------------------------------
(* Kubernetes *)

LEMMA SyncInv ==
  ASSUME IInv, Sync
  PROVE  IInv' /\ Forward
<1>1. /\ run' = run /\ cache' = run /\ rec' = rec /\ req' = req
      /\ preview' = preview /\ pods' = pods /\ fresh' = fresh \cup {"cache"}
  BY DEF Sync
<1>2. "cache" \notin Requests
  BY WorkspaceAssumption
<1>3. TypeOK'
  BY <1>1 DEF IInv, TypeOK
<1>4. Requests \cap fresh' = Requests \cap fresh /\ ("rec" \in fresh' <=> "rec" \in fresh)
  BY <1>1, <1>2
<1>5. Snapshots'
  BY <1>1, <1>4 DEF IInv, Snapshots, At, Waiting
<1> QED
  BY <1>1, <1>3, <1>5 DEF IInv, Forward

LEMMA PodMovesInv ==
  ASSUME IInv, NEW p \in Pods, NEW from, NEW to \in PodStates, PodMoves(p, from, to)
  PROVE  IInv' /\ Forward
<1>1. pods' \in [Pods -> PodStates]
  BY VolumeTypes, PodSet DEF PodMoves, VolumeOK
<1>2. OthersOK' /\ Calm
  BY <1>1, VolumeTypes DEF PodMoves, OthersOK, VolumeOK, Calm
<1> QED
  BY <1>2, KeepInv DEF PodMoves

LEMMA CollectJobInv ==
  ASSUME IInv, CollectJob
  PROVE  IInv' /\ Forward
<1>1. VolumeOK'
  BY VolumeTypes, NoJobOK DEF CollectJob, VolumeOK
<1>2. OthersOK' /\ Calm
  BY <1>1, VolumeTypes DEF CollectJob, OthersOK, Calm
<1> QED
  BY <1>2, KeepInv DEF CollectJob

LEMMA ClusterInv ==
  ASSUME IInv, Cluster
  PROVE  IInv' /\ Forward
<1>1. CASE Sync
  BY <1>1, SyncInv
<1>2. CASE CollectJob
  BY <1>2, CollectJobInv
<1>3. ASSUME NEW p \in Pods,
             PodStarts(p) \/ PodRemoved(p) \/ CollectPod(p) \/ PodEnds(p)
      PROVE  IInv' /\ Forward
  BY <1>3, PodMovesInv DEF PodStarts, PodRemoved, CollectPod, PodEnds, PodStates
<1>4. Previews \cup {"push"} \subseteq Pods /\ "chat" \in Pods /\ "artifacts" \in Pods
  BY DEF Pods
<1> QED
  BY <1>1, <1>2, <1>3, <1>4 DEF Cluster, Kubelet

-----------------------------------------------------------------------------
(* Theorems *)

LEMMA InitInv ==
  ASSUME Init
  PROVE  IInv
<1>1. PICK w \in BOOLEAN :
        /\ run = [phase |-> IF w THEN "WaitingForInput" ELSE "Running",
                  approved |-> FALSE, diffJob |-> FALSE, chatPod |-> w]
        /\ pods \in [Pods -> PodStates]
  BY DEF Init, PodStates
<1>2. run \in Run
  BY <1>1 DEF Run
<1>3. OthersOK
  BY <1>1 DEF Init, OthersOK, VolumeOK, NoJob, Pcs
<1>4. TypeOK
  BY <1>2, <1>3 DEF Init, TypeOK, OthersOK, VolumeOK
<1>5. Snapshots
  BY WorkspaceAssumption DEF Init, Snapshots
<1> QED
  BY <1>4, <1>5 DEF IInv

LEMMA NextInv ==
  ASSUME IInv, Next
  PROVE  IInv' /\ Forward
BY ReconcileInv, ClusterInv, HandleInv, AbandonInv DEF Next

LEMMA StutterInv ==
  ASSUME IInv, UNCHANGED vars
  PROVE  IInv' /\ Forward
BY DEF vars, IInv, TypeOK, Snapshots, At, Waiting, Forward

LEMMA InvariantHolds == Spec => []IInv
<1>1. Init => IInv
  BY InitInv
<1>2. IInv /\ [Next]_vars => IInv'
  BY NextInv, StutterInv
<1> QED
  BY <1>1, <1>2, PTL DEF Spec

\* Every variable keeps its type whatever requests are cut off where, in
\* particular an existing preview Job always has a pod of its own.
THEOREM TypeCorrect == Spec => []TypeOK
<1>1. IInv => TypeOK
  BY DEF IInv
<1> QED
  BY <1>1, InvariantHolds, PTL

\* handleStartChat, handleStopChat, handleRefreshDiff and the rest write what
\* they decided long ago, but never over an approval, a resumption, an end or
\* a deletion that came in between.
THEOREM WritesNeverGoBack == Spec => NeverBack
<1>1. IInv /\ [Next]_vars => [Progress(run') >= Progress(run)]_run
  BY NextInv, StutterInv DEF Forward
<1> QED
  BY <1>1, InvariantHolds, PTL DEF Spec, NeverBack

=============================================================================
