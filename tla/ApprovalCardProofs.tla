--------------------------- MODULE ApprovalCardProofs ---------------------------
(***************************************************************************)
(* What the visitor reviews in ApprovalCard is the workspace as it is, for *)
(* any number of edits, dialogs, calls, polls and loads of the run.        *)
(***************************************************************************)
EXTENDS ApprovalCard, TLAPS

-----------------------------------------------------------------------------
(* The invariant.                                                          *)

\* A dialog is mounted where StepApproval shows one.
Mounted ==
  IF chat.st = "closed" THEN chat.id = Page
  ELSE chat.id # Page /\ card.on /\ card.hasJob /\ card.open

\* The calls are of the page and of dialogs that have been mounted; agents work on
\* messages.
Numbered ==
  /\ chat.id <= opened
  /\ \A c \in calls : c.by <= opened /\ (c.st = "working" => c.kind = "message")

\* An agent works, or will, only for the dialog that is open and that nobody closes.
WorksForDialog ==
  ~lost => /\ ~orphan
           /\ \A c \in calls : AtWork(c) => chat.st # "closed" /\ c.by = chat.id /\ ~Closing

\* The dialog that is open has had its refresh served.
Refreshed == \E c \in calls : c.kind = "refresh" /\ c.by = chat.id /\ c.st # "sent"

Fits == preview.job = "written" => preview.of = ws

\* With no dialog, and from the refresh that ends one, the preview is of the
\* workspace.
PreviewFits == ~lost /\ (chat.st = "closed" \/ Refreshed) => Fits

\* So are the diff on the card and the one that is on its way to it.
DiffFits ==
  ~lost /\ card.on /\ card.hasJob /\ ~card.open =>
    /\ card.diff \in Versions => card.diff = ws
    /\ card.got \in Versions => card.got = ws

Review == Mounted /\ Numbered /\ WorksForDialog /\ PreviewFits /\ DiffFits

IInv == TypeOK /\ Review
-----------------------------------------------------------------------------
(* The records, and what changes of a field keep.                          *)

LEMMA CallFields ==
  ASSUME NEW c \in Call,
         NEW st \in {"sent", "working", "done", "refused", "expired"}
  PROVE  LET n == [c EXCEPT !.st = st]
         IN  n \in Call /\ n.kind = c.kind /\ n.by = c.by /\ n.st = st
  BY DEF Call

LEMMA NewCallFields ==
  ASSUME NEW k \in {"start", "message", "delete", "refresh", "button", "approve"},
         NEW d \in Nat
  PROVE  LET n == NewCall(k, d)
         IN  n \in Call /\ n.kind = k /\ n.by = d /\ n.st = "sent"
  BY DEF Call, NewCall

LEMMA ClosedChat == Closed \in Chat /\ Closed.id = Page /\ Closed.st = "closed"
<1>1. 0 \in 0 .. MaxPolls
  BY ApprovalCardAssumption
<1> QED
  BY <1>1 DEF Closed, Chat, Page

LEMMA NoCardFields == NoCard \in Card /\ NoCard.on = FALSE
  BY DEF NoCard, Card

\* The effect of a card keeps what is shown, and drops the diff of a card that asks
\* for one.
LEMMA EffectFields ==
  ASSUME NEW c \in Card
  PROVE  /\ EffectOf(c) \in Card
         /\ EffectOf(c).on = c.on /\ EffectOf(c).hasJob = c.hasJob /\ EffectOf(c).open = c.open
         /\ c.hasJob => EffectOf(c).diff = NoDiff /\ EffectOf(c).got = NoDiff
  BY DEF EffectOf, Card

LEMMA CardFields ==
  ASSUME NEW c \in Card, NEW b \in BOOLEAN
  PROVE  /\ LET n == [c EXCEPT !.open = b]
            IN  n \in Card /\ n.on = c.on /\ n.hasJob = c.hasJob /\ n.open = b
         /\ LET n == [c EXCEPT !.hasJob = b]
            IN  n \in Card /\ n.on = c.on /\ n.hasJob = b /\ n.open = c.open
  BY DEF Card

LEMMA NoDiffIsNone == NoDiff \notin Versions
  BY ApprovalCardAssumption DEF NoDiff, Versions

-----------------------------------------------------------------------------
(* What the steps do to the calls.                                         *)

States == {"sent", "working", "done", "refused", "expired"}

\* The calls of the next state are of the page and of dialogs that were mounted;
\* each at work was at work, and each that closes a dialog closed it before.
SameWork ==
  /\ calls' \subseteq Call
  /\ \A e \in calls' : e.by <= opened /\ (e.st = "working" => e.kind = "message")
  /\ \A e \in calls' : AtWork(e) => \E f \in calls : AtWork(f) /\ f.by = e.by
  /\ \A e \in calls' : e.kind \in {"delete", "refresh"} =>
       \E f \in calls : f.kind \in {"delete", "refresh"} /\ f.by = e.by

\* No refresh has been served that was not.
SameRefreshes ==
  \A e \in calls' : e.kind = "refresh" /\ e.st # "sent" =>
     \E f \in calls : f.kind = "refresh" /\ f.by = e.by /\ f.st # "sent"

LEMMA UnchangedCalls ==
  ASSUME TypeOK, Numbered, UNCHANGED calls
  PROVE  SameWork /\ SameRefreshes
  BY DEF TypeOK, Numbered, SameWork, SameRefreshes

LEMMA ServedCall ==
  ASSUME TypeOK, Numbered, NEW c \in calls, NEW st \in States, Serve(c, st),
         st # "sent" /\ (st = "working" => Asks(c, "message"))
  PROVE  SameWork /\ (c.kind # "refresh" => SameRefreshes)
<1>1. c \in Call /\ calls \subseteq Call
  BY DEF TypeOK
<1> DEFINE n == [c EXCEPT !.st = st]
<1>2. n \in Call /\ n.kind = c.kind /\ n.by = c.by /\ n.st = st
  BY <1>1, CallFields DEF States
<1>3. \A e \in calls' : e \in calls \/ e = n
  BY DEF Serve
<1> HIDE DEF n
<1>4. AtWork(n) => AtWork(c)
  BY <1>2 DEF AtWork, Asks
<1>5. /\ calls' \subseteq Call
      /\ \A e \in calls' : e.by <= opened /\ (e.st = "working" => e.kind = "message")
  BY <1>1, <1>2, <1>3 DEF Numbered, Asks
<1>6. \A e \in calls' : AtWork(e) => \E f \in calls : AtWork(f) /\ f.by = e.by
  BY <1>2, <1>3, <1>4
<1>7. \A e \in calls' : e.kind \in {"delete", "refresh"} =>
        \E f \in calls : f.kind \in {"delete", "refresh"} /\ f.by = e.by
  BY <1>2, <1>3
<1>8. c.kind # "refresh" => SameRefreshes
  BY <1>2, <1>3 DEF SameRefreshes
<1> QED
  BY <1>5, <1>6, <1>7, <1>8 DEF SameWork

LEMMA SettledCall ==
  ASSUME TypeOK, Numbered, NEW c \in calls, Settle(c)
  PROVE  SameWork /\ SameRefreshes
<1>1. \A e \in calls' : e \in calls
  BY DEF Settle
<1> QED
  BY <1>1 DEF TypeOK, Numbered, SameWork, SameRefreshes

\* A request of the page itself, or the one with which a dialog starts.
LEMMA SentCall ==
  ASSUME TypeOK, Numbered, NEW k \in {"start", "button", "approve"}, NEW d \in Nat,
         d <= opened, Send(k, d)
  PROVE  SameWork /\ SameRefreshes
<1> DEFINE n == NewCall(k, d)
<1>1. n \in Call /\ n.kind = k /\ n.by = d /\ n.st = "sent"
  BY NewCallFields
<1>2. \A e \in calls' : e \in calls \/ e = n
  BY DEF Send
<1> HIDE DEF n
<1>3. /\ calls' \subseteq Call
      /\ \A e \in calls' : e.by <= opened /\ (e.st = "working" => e.kind = "message")
  BY <1>1, <1>2 DEF TypeOK, Numbered
<1>4. ~AtWork(n) /\ n.kind \notin {"delete", "refresh"}
  BY <1>1 DEF AtWork, Asks
<1> QED
  BY <1>2, <1>3, <1>4 DEF SameWork, SameRefreshes

-----------------------------------------------------------------------------
(* A step that leaves the dialog and the workspace as they are.            *)

SameDialog ==
  /\ chat' \in Chat /\ chat'.id = chat.id /\ ((chat'.st = "closed") <=> (chat.st = "closed"))
  /\ card'.on = card.on /\ card'.hasJob = card.hasJob /\ card'.open = card.open
  /\ opened' = opened

LEMMA StillClosing ==
  ASSUME SameWork, chat'.id = chat.id, ~Closing
  PROVE  ~Closing'
<1>1. ASSUME NEW e \in calls', e.by = chat.id, e.kind \in {"delete", "refresh"}
      PROVE  FALSE
  <2>1. PICK f \in calls : f.kind \in {"delete", "refresh"} /\ f.by = e.by
    BY <1>1 DEF SameWork
  <2> QED
    BY <1>1, <2>1 DEF Closing, UnderWay
<1> QED
  BY <1>1 DEF Closing, UnderWay

\* What a step leaves as it is: who works for whom, and with it the preview.
LEMMA Steady ==
  ASSUME Mounted, Numbered, WorksForDialog, SameWork, SameDialog,
         ~lost' => ~lost /\ ~orphan'
  PROVE  Mounted' /\ Numbered' /\ WorksForDialog'
<1>1. Mounted'
  BY DEF Mounted, SameDialog
<1>2. Numbered'
  BY DEF Numbered, SameDialog, SameWork
<1>3. ASSUME ~lost', NEW e \in calls', AtWork(e)
      PROVE  chat'.st # "closed" /\ e.by = chat'.id /\ ~Closing'
  <2>1. PICK f \in calls : AtWork(f) /\ f.by = e.by
    BY <1>3 DEF SameWork
  <2>2. chat.st # "closed" /\ f.by = chat.id /\ ~Closing
    BY <1>3, <2>1 DEF WorksForDialog
  <2>3. ~Closing'
    BY <2>2, StillClosing DEF SameDialog
  <2> QED
    BY <2>1, <2>2, <2>3 DEF SameDialog
<1>4. WorksForDialog'
  BY <1>3, Zenon DEF WorksForDialog, AtWork, Asks
<1> QED
  BY <1>1, <1>2, <1>4

\* The preview, as long as no refresh of the dialog is served.
LEMMA SteadyPreview ==
  ASSUME PreviewFits, SameRefreshes, SameDialog, ~lost' => ~lost, Fits => Fits'
  PROVE  PreviewFits'
<1>1. Refreshed' => Refreshed
  BY DEF Refreshed, SameRefreshes, SameDialog
<1> QED
  BY <1>1 DEF PreviewFits, SameDialog

LEMMA SteadyDiff ==
  ASSUME DiffFits, ~lost' => ~lost, UNCHANGED <<ws, card>>
  PROVE  DiffFits'
  BY DEF DiffFits

-----------------------------------------------------------------------------
(* The initial state.                                                      *)

LEMMA InitReview == Init => IInv
<1> SUFFICES ASSUME Init PROVE IInv
  OBVIOUS
<1>1. Closed \in Chat /\ Closed.id = Page /\ Closed.st = "closed"
  BY ClosedChat
<1>2. /\ card \in Card /\ card.on = TRUE /\ card.diff = NoDiff /\ card.got = NoDiff
  BY NoCardFields DEF Init, NoCard, Card
<1>3. preview \in Preview /\ run \in Run /\ ws \in Versions /\ preview.job = "new"
  BY ApprovalCardAssumption DEF Init, Preview, Run, Versions
<1>4. visit \in Visits /\ loads \in Nat
  BY ApprovalCardAssumption DEF Init
<1>5. TypeOK
  BY <1>1, <1>2, <1>3, <1>4 DEF Init, TypeOK, PodStates
<1>6. Mounted /\ Numbered
  BY <1>1 DEF Init, Mounted, Numbered, Page
<1>7. WorksForDialog /\ PreviewFits /\ DiffFits
  BY <1>2, <1>3, NoDiffIsNone DEF Init, WorksForDialog, PreviewFits, Fits, DiffFits
<1> QED
  BY <1>5, <1>6, <1>7 DEF IInv, Review

-----------------------------------------------------------------------------
(* The pods and the reconciler.                                            *)

LEMMA StayedDialog ==
  ASSUME TypeOK, UNCHANGED page
  PROVE  SameDialog /\ UNCHANGED <<card, lost>>
  BY DEF TypeOK, SameDialog, page

LEMMA PageTypes ==
  ASSUME TypeOK, UNCHANGED page,
         ws' \in Versions, run' \in Run, pod' \in PodStates, orphan' \in BOOLEAN,
         preview' \in Preview, bare' \in BOOLEAN, calls' \subseteq Call
  PROVE  TypeOK'
  BY DEF TypeOK, page

LEMMA ServerTypes ==
  ASSUME TypeOK, UNCHANGED <<server, visit>>, opened' \in Nat, loads' \in Nat,
         calls' \subseteq Call, card' \in Card, chat' \in Chat, lost' \in BOOLEAN
  PROVE  TypeOK'
  BY DEF TypeOK, server

LEMMA PodStartsReview == IInv /\ PodStarts => IInv'
<1> SUFFICES ASSUME IInv, PodStarts PROVE IInv'
  OBVIOUS
<1>1. TypeOK'
  BY PageTypes DEF PodStarts, IInv, TypeOK, PodStates
<1>2. SameDialog /\ SameWork /\ SameRefreshes /\ UNCHANGED <<card, lost>>
  BY StayedDialog, UnchangedCalls DEF PodStarts, IInv, Review
<1>3. Fits => Fits'
  BY DEF PodStarts, Fits
<1>4. ~lost' => ~lost /\ ~orphan'
  BY <1>2 DEF PodStarts, IInv, Review, WorksForDialog
<1> QED
  BY <1>1, <1>2, <1>3, <1>4, Steady, SteadyPreview, SteadyDiff DEF PodStarts, IInv, Review

LEMMA PreviewRunsReview == IInv /\ PreviewRuns => IInv'
<1> SUFFICES ASSUME IInv, PreviewRuns PROVE IInv'
  OBVIOUS
<1>1. preview' \in Preview
  BY DEF PreviewRuns, Preview, IInv, TypeOK
<1>2. TypeOK'
  BY <1>1, PageTypes DEF PreviewRuns, IInv, TypeOK
<1>3. SameDialog /\ SameWork /\ SameRefreshes /\ UNCHANGED <<card, lost>>
  BY StayedDialog, UnchangedCalls DEF PreviewRuns, IInv, Review
<1>4. Fits => Fits'
  BY DEF PreviewRuns, Fits, IInv, TypeOK, Preview
<1>5. ~lost' => ~lost /\ ~orphan'
  BY <1>3 DEF PreviewRuns, IInv, Review, WorksForDialog
<1> QED
  BY <1>2, <1>3, <1>4, <1>5, Steady, SteadyPreview, SteadyDiff DEF PreviewRuns, IInv, Review

\* An agent edits for the dialog that is open, or after a close has been lost.
LEMMA AgentEditsReview == IInv /\ AgentEdits => IInv'
<1> SUFFICES ASSUME IInv, AgentEdits PROVE IInv'
  OBVIOUS
<1>1. ws' \in Versions
  BY ApprovalCardAssumption DEF AgentEdits, IInv, TypeOK, Versions
<1>2. TypeOK'
  BY <1>1, PageTypes DEF AgentEdits, IInv, TypeOK
<1>3. SameDialog /\ SameWork /\ UNCHANGED <<card, lost>>
  BY StayedDialog, UnchangedCalls DEF AgentEdits, IInv, Review
<1>4. ~lost' => ~lost /\ ~orphan'
  BY <1>3 DEF AgentEdits, IInv, Review, WorksForDialog
<1>5. ASSUME ~lost
      PROVE  chat.st # "closed" /\ ~Closing
  <2>1. PICK c \in calls : c.st = "working"
    BY <1>5 DEF AgentEdits, Working, IInv, Review, WorksForDialog
  <2>2. AtWork(c)
    BY <2>1 DEF AtWork
  <2> QED
    BY <1>5, <2>2 DEF IInv, Review, WorksForDialog
<1>6. PreviewFits'
  <2>1. Refreshed' => Closing
    BY DEF AgentEdits, page, Refreshed, Closing, UnderWay
  <2> QED
    BY <1>3, <1>5, <2>1 DEF PreviewFits, SameDialog
<1>7. DiffFits'
  BY <1>3, <1>5 DEF DiffFits, IInv, Review, Mounted
<1> QED
  BY <1>2, <1>3, <1>4, <1>6, <1>7, Steady DEF IInv, Review

LEMMA AgentDoneReview == IInv /\ AgentDone => IInv'
<1> SUFFICES ASSUME IInv, AgentDone PROVE IInv'
  OBVIOUS
<1>1. SameWork /\ SameRefreshes /\ orphan' \in BOOLEAN /\ (orphan' => orphan)
  <2>1. CASE orphan /\ orphan' = FALSE /\ UNCHANGED calls
    BY <2>1, UnchangedCalls DEF IInv, Review
  <2>2. CASE \E c \in calls : Working(c) /\ Serve(c, "done") /\ UNCHANGED orphan
    <3>1. PICK c \in calls : Working(c) /\ Serve(c, "done") /\ UNCHANGED orphan
      BY <2>2
    <3>2. SameWork /\ (c.kind # "refresh" => SameRefreshes)
      BY <3>1, ServedCall DEF IInv, Review, States
    <3>3. SameRefreshes
      <4>1. \A e \in calls' : e \in calls \/ e = [c EXCEPT !.st = "done"]
        BY <3>1 DEF Serve
      <4>2. LET n == [c EXCEPT !.st = "done"] IN n.kind = c.kind /\ n.by = c.by
        BY <3>1, CallFields DEF IInv, TypeOK
      <4> QED
        BY <3>1, <4>1, <4>2 DEF SameRefreshes, Working
    <3> QED
      BY <3>1, <3>2, <3>3 DEF IInv, TypeOK
  <2> QED
    BY <2>1, <2>2 DEF AgentDone
<1>2. TypeOK'
  BY <1>1, PageTypes DEF AgentDone, IInv, TypeOK, SameWork
<1>3. SameDialog /\ UNCHANGED <<card, lost>>
  BY StayedDialog DEF AgentDone, IInv
<1>4. Fits => Fits'
  BY DEF AgentDone, Fits
<1>5. ~lost' => ~lost /\ ~orphan'
  BY <1>1, <1>3 DEF IInv, Review, WorksForDialog
<1> QED
  BY <1>1, <1>2, <1>3, <1>4, <1>5, Steady, SteadyPreview, SteadyDiff DEF AgentDone, IInv, Review

LEMMA PodGoneReview == IInv /\ PodGone => IInv'
<1> SUFFICES ASSUME IInv, PodGone PROVE IInv'
  OBVIOUS
<1> DEFINE Ended(c) == IF c.st = "working" THEN [c EXCEPT !.st = "done"] ELSE c
<1>1. ASSUME NEW e \in calls'
      PROVE  \E f \in calls : /\ e \in Call /\ e.kind = f.kind /\ e.by = f.by
                              /\ e.st # "working"
                              /\ e.st = f.st \/ f.st = "working"
  <2>1. PICK f \in calls : e = Ended(f)
    BY DEF PodGone
  <2>2. f \in Call
    BY DEF IInv, TypeOK
  <2>3. CASE f.st = "working"
    BY <2>1, <2>2, <2>3, CallFields
  <2>4. CASE f.st # "working"
    BY <2>1, <2>2, <2>4
  <2> QED
    BY <2>3, <2>4
<1>2. /\ calls' \subseteq Call
      /\ \A e \in calls' : e.by <= opened /\ (e.st = "working" => e.kind = "message")
  BY <1>1 DEF IInv, Review, Numbered
<1>3. \A e \in calls' : AtWork(e) => \E f \in calls : AtWork(f) /\ f.by = e.by
  BY <1>1 DEF AtWork, Asks
<1>4. \A e \in calls' : e.kind \in {"delete", "refresh"} =>
        \E f \in calls : f.kind \in {"delete", "refresh"} /\ f.by = e.by
  BY <1>1
<1>5. SameWork /\ SameRefreshes
  <2>1. SameRefreshes
    BY <1>1 DEF SameRefreshes
  <2> QED
    BY <1>2, <1>3, <1>4, <2>1 DEF SameWork
<1>6. TypeOK'
  BY <1>2, PageTypes DEF PodGone, IInv, TypeOK, PodStates
<1>7. SameDialog /\ UNCHANGED <<card, lost>>
  BY StayedDialog DEF PodGone, IInv
<1>8. Fits => Fits'
  BY DEF PodGone, Fits
<1>9. ~lost' => ~lost /\ ~orphan'
  BY <1>7 DEF PodGone
<1> QED
  BY <1>5, <1>6, <1>7, <1>8, <1>9, Steady, SteadyPreview, SteadyDiff DEF PodGone, IInv, Review

LEMMA ResumesReview == IInv /\ Resumes => IInv'
<1> SUFFICES ASSUME IInv, Resumes PROVE IInv'
  OBVIOUS
<1>1. run' \in Run /\ preview' \in Preview /\ pod' \in PodStates
  <2>1. NoPreview \in Preview
    BY ApprovalCardAssumption DEF NoPreview, Preview, Versions
  <2> QED
    BY <2>1 DEF Resumes, Run, PodStates, IInv, TypeOK
<1>2. TypeOK'
  BY <1>1, PageTypes DEF Resumes, IInv, TypeOK
<1>3. SameDialog /\ SameWork /\ SameRefreshes /\ UNCHANGED <<card, lost>>
  BY StayedDialog, UnchangedCalls DEF Resumes, IInv, Review
<1>4. Fits => Fits'
  BY DEF Resumes, Fits, NoPreview
<1>5. ~lost' => ~lost /\ ~orphan'
  BY <1>3 DEF Resumes, IInv, Review, WorksForDialog
<1> QED
  BY <1>2, <1>3, <1>4, <1>5, Steady, SteadyPreview, SteadyDiff DEF Resumes, IInv, Review

-----------------------------------------------------------------------------
(* The card.                                                               *)

LEMMA FetchFields ==
  ASSUME NEW c \in Card, NEW v \in Versions \cup {NoDiff}
  PROVE  /\ LET n == [c EXCEPT !.fetch = "answered", !.got = v]
            IN  /\ n \in Card /\ n.on = c.on /\ n.hasJob = c.hasJob /\ n.open = c.open
                /\ n.diff = c.diff /\ n.got = v
         /\ LET n == [c EXCEPT !.fetch = "none", !.diff = c.got, !.got = NoDiff]
            IN  /\ n \in Card /\ n.on = c.on /\ n.hasJob = c.hasJob /\ n.open = c.open
                /\ n.diff = c.got /\ n.got = NoDiff
         /\ LET n == [c EXCEPT !.fetch = "none", !.got = NoDiff, !.failed = TRUE]
            IN  /\ n \in Card /\ n.on = c.on /\ n.hasJob = c.hasJob /\ n.open = c.open
                /\ n.diff = c.diff /\ n.got = NoDiff
  BY DEF Card

\* The card's fetches: what arrives is a diff of the workspace as it is.
LEMMA FetchReview == IInv /\ (DiffServed \/ DiffArrives \/ DiffFails) => IInv'
<1> SUFFICES ASSUME IInv, DiffServed \/ DiffArrives \/ DiffFails PROVE IInv'
  OBVIOUS
<1>1. /\ UNCHANGED <<server, calls, visit, chat, opened, loads, lost>>
      /\ card \in Card /\ chat \in Chat
  BY DEF DiffServed, DiffArrives, DiffFails, IInv, TypeOK
<1>2. \A v \in {preview.of, NoDiff} : v \in Versions \cup {NoDiff}
  BY DEF IInv, TypeOK, Preview
<1>3. /\ card' \in Card /\ card'.on = card.on /\ card'.hasJob = card.hasJob
      /\ card'.open = card.open
      /\ card'.diff \in {card.diff, card.got}
      /\ card'.got \in {card.got, NoDiff} \/ (preview.job = "written" /\ card'.got = preview.of)
  <2>1. CASE DiffServed
    <3>1. PICK v \in {preview.of, NoDiff} :
            card' = [card EXCEPT !.fetch = "answered", !.got = v]
      BY <2>1 DEF DiffServed
    <3>2. preview.job = "written"
      BY <2>1 DEF DiffServed
    <3>3. /\ card' \in Card /\ card'.on = card.on /\ card'.hasJob = card.hasJob
          /\ card'.open = card.open /\ card'.diff = card.diff /\ card'.got = v
      BY <1>1, <1>2, <3>1, FetchFields
    <3> QED
      BY <3>2, <3>3
  <2>2. CASE DiffArrives
    <3>1. card' = [card EXCEPT !.fetch = "none", !.diff = card.got, !.got = NoDiff]
      BY <2>2 DEF DiffArrives
    <3> QED
      BY <1>1, <3>1, FetchFields
  <2>3. CASE DiffFails
    <3>1. card' = [card EXCEPT !.fetch = "none", !.got = NoDiff, !.failed = TRUE]
      BY <2>3 DEF DiffFails
    <3> QED
      BY <1>1, <3>1, FetchFields
  <2> QED
    BY <2>1, <2>2, <2>3
<1>4. TypeOK'
  BY <1>1, <1>3, ServerTypes DEF IInv, TypeOK
<1>5. SameDialog
  BY <1>1, <1>3 DEF SameDialog
<1>6. SameWork /\ SameRefreshes
  BY <1>1, UnchangedCalls DEF IInv, Review
<1>7. Fits => Fits'
  BY <1>1 DEF server, Fits
<1>8. ~lost' => ~lost /\ ~orphan'
  BY <1>1 DEF server, IInv, Review, WorksForDialog
<1>9. DiffFits'
  <2> SUFFICES ASSUME ~lost, card.on, card.hasJob, ~card.open
               PROVE  /\ card'.diff \in Versions => card'.diff = ws
                      /\ card'.got \in Versions => card'.got = ws
    BY <1>1, <1>3 DEF DiffFits, server, Versions
  <2>1. /\ card.diff \in Versions => card.diff = ws
        /\ card.got \in Versions => card.got = ws
    BY DEF IInv, Review, DiffFits
  <2>2. preview.job = "written" => preview.of = ws
    BY DEF IInv, Review, PreviewFits, Fits, Mounted
  <2> QED
    BY <1>3, <2>1, <2>2, NoDiffIsNone
<1> QED
  BY <1>1, <1>4, <1>5, <1>6, <1>7, <1>8, <1>9, Steady, SteadyPreview DEF IInv, Review

\* A click that only sends a request of the page.
LEMMA ClickReview == IInv /\ (ClickRefresh \/ ClickApprove) => IInv'
<1> SUFFICES ASSUME IInv, ClickRefresh \/ ClickApprove PROVE IInv'
  OBVIOUS
<1>1. UNCHANGED <<server, page>> /\ \E k \in {"button", "approve"} : Send(k, Page)
  BY DEF ClickRefresh, ClickApprove
<1>2. SameWork /\ SameRefreshes
  <2>1. Page \in Nat /\ Page <= opened
    BY DEF Page, IInv, TypeOK
  <2> QED
    BY <1>1, <2>1, SentCall DEF IInv, Review
<1>3. SameDialog /\ UNCHANGED <<card, lost>>
  BY <1>1, StayedDialog DEF IInv
<1>4. TypeOK'
  BY <1>1, <1>2, PageTypes DEF server, SameWork, IInv, TypeOK
<1>5. Fits => Fits'
  BY <1>1 DEF server, Fits
<1>6. ~lost' => ~lost /\ ~orphan'
  BY <1>1, <1>3 DEF server, IInv, Review, WorksForDialog
<1> QED
  BY <1>1, <1>2, <1>3, <1>4, <1>5, <1>6, Steady, SteadyPreview, SteadyDiff
     DEF server, IInv, Review

-----------------------------------------------------------------------------
(* The dialog.                                                             *)

\* A dialog mounts where none is: it is for no agent's work, and nobody closes it.
LEMMA MountReview ==
  ASSUME IInv, Mounts, chat.st = "closed", UNCHANGED <<server, visit, lost>>,
         loads' \in Nat, card' \in Card, card'.on, card'.hasJob, card'.open
  PROVE  IInv'
<1> DEFINE d == opened + 1
<1>1. /\ d \in Nat /\ d <= opened' /\ opened <= opened' /\ d > opened /\ d # Page
      /\ opened \in Nat /\ opened' \in Nat
  BY DEF Mounts, IInv, TypeOK, Page
<1>2. Send("start", d) /\ chat' = [id |-> d, st |-> "creating", polls |-> 0]
  BY DEF Mounts
<1>3. chat' \in Chat /\ chat'.id = d /\ chat'.st = "creating"
  <2>1. 0 \in 0 .. MaxPolls
    BY ApprovalCardAssumption
  <2> QED
    BY <1>1, <1>2, <2>1 DEF Chat
<1> DEFINE n == NewCall("start", d)
<1>4. n \in Call /\ n.kind = "start" /\ n.by = d /\ n.st = "sent"
  BY <1>1, NewCallFields
<1>5. \A e \in calls' : e \in calls \/ e = n
  BY <1>2 DEF Send
<1> HIDE DEF n
<1>6. calls' \subseteq Call
  BY <1>4, <1>5 DEF IInv, TypeOK
<1>7. TypeOK'
  BY <1>1, <1>3, <1>6, ServerTypes DEF IInv, TypeOK
<1>8. Mounted'
  BY <1>1, <1>3 DEF Mounted
<1>9. Numbered'
  <2>1. \A e \in calls : e.by \in Nat /\ e.by <= opened
    BY DEF IInv, Review, Numbered, TypeOK, Call
  <2>2. \A e \in calls' : e.by <= opened' /\ (e.st = "working" => e.kind = "message")
    BY <1>1, <1>4, <1>5, <2>1 DEF IInv, Review, Numbered
  <2> QED
    BY <1>1, <1>3, <2>2 DEF Numbered
<1>10. WorksForDialog'
  <2>1. ~AtWork(n)
    BY <1>4 DEF AtWork, Asks
  <2>2. ~lost => ~orphan /\ \A e \in calls' : ~AtWork(e)
    BY <1>5, <2>1 DEF IInv, Review, WorksForDialog
  <2> QED
    BY <2>2 DEF WorksForDialog, server, AtWork, Asks
<1>11. PreviewFits'
  <2>1. \A e \in calls : e.by # d
    BY <1>1 DEF IInv, Review, Numbered, TypeOK, Call
  <2>2. ~Refreshed'
    BY <1>3, <1>4, <1>5, <2>1 DEF Refreshed
  <2> QED
    BY <1>3, <2>2 DEF PreviewFits
<1>12. DiffFits'
  BY DEF DiffFits
<1> QED
  BY <1>7, <1>8, <1>9, <1>10, <1>11, <1>12 DEF IInv, Review

LEMMA OpenChatReview == IInv /\ OpenChat => IInv'
<1> SUFFICES ASSUME IInv, OpenChat PROVE IInv'
  OBVIOUS
<1>1. card \in Card /\ card.on /\ card.hasJob /\ ~card.open /\ card' = [card EXCEPT !.open = TRUE]
  BY DEF OpenChat, IInv, TypeOK
<1>2. card' \in Card /\ card'.on /\ card'.hasJob /\ card'.open
  <2>1. /\ card' \in Card /\ card'.on = card.on /\ card'.hasJob = card.hasJob
        /\ card'.open = TRUE
    BY <1>1, CardFields
  <2> QED
    BY <1>1, <2>1
<1>3. chat.st = "closed"
  BY <1>1 DEF IInv, Review, Mounted
<1> QED
  BY <1>2, <1>3, MountReview DEF OpenChat, IInv, TypeOK

\* A dialog that goes while a close is lost, or when the workspace is handed over.
LEMMA GoneReview ==
  ASSUME IInv, UNCHANGED <<server, visit, opened>>, loads' \in Nat, lost' \in BOOLEAN,
         chat' = Closed, card' \in Card, SameWork,
         ~lost' => Fits /\ ~orphan /\ \A e \in calls' : ~AtWork(e),
         ~lost' /\ card'.on /\ card'.hasJob /\ ~card'.open
           => card'.diff = NoDiff /\ card'.got = NoDiff
  PROVE  IInv'
<1>1. chat' \in Chat /\ chat'.id = Page /\ chat'.st = "closed"
  BY ClosedChat
<1>2. TypeOK'
  BY <1>1, ServerTypes DEF SameWork, IInv, TypeOK
<1>3. Mounted'
  BY <1>1 DEF Mounted
<1>4. Numbered'
  BY <1>1 DEF Numbered, SameWork, Page, IInv, TypeOK
<1>5. WorksForDialog'
  BY DEF WorksForDialog, server, AtWork, Asks
<1>6. PreviewFits'
  BY DEF PreviewFits, Fits, server
<1>7. DiffFits'
  BY NoDiffIsNone DEF DiffFits, Versions
<1> QED
  BY <1>2, <1>3, <1>4, <1>5, <1>6, <1>7 DEF IInv, Review

LEMMA PageLoadsReview == IInv /\ PageLoads => IInv'
<1> SUFFICES ASSUME IInv, PageLoads PROVE IInv'
  OBVIOUS
<1>1. loads' \in Nat /\ card \in Card /\ card.on /\ UNCHANGED <<server, visit>>
  BY DEF PageLoads, IInv, TypeOK
<1>2. ASSUME chat' = Closed, lost' = (lost \/ chat # Closed), UNCHANGED <<calls, opened>>,
             card' \in Card,
             card'.on /\ card'.hasJob => card'.diff = NoDiff /\ card'.got = NoDiff
      PROVE  IInv'
  <2>1. SameWork
    BY <1>2, UnchangedCalls DEF IInv, Review
  <2>2. ASSUME ~lost'
        PROVE  Fits /\ ~orphan /\ \A e \in calls' : ~AtWork(e)
    <3>1. ~lost /\ chat.st = "closed"
      BY <1>2, <2>2, ClosedChat
    <3> QED
      BY <1>2, <3>1 DEF IInv, Review, WorksForDialog, PreviewFits
  <2>3. lost' \in BOOLEAN
    BY <1>2 DEF IInv, TypeOK
  <2> QED
    BY <1>1, <1>2, <2>1, <2>2, <2>3, GoneReview
<1>3. CASE card' = NoCard /\ chat' = Closed /\ lost' = (lost \/ chat # Closed)
           /\ UNCHANGED <<calls, opened>>
  BY <1>2, <1>3, NoCardFields
<1>4. CASE card' = EffectOf([card EXCEPT !.hasJob = FALSE]) /\ chat' = Closed
           /\ lost' = (lost \/ chat # Closed) /\ UNCHANGED <<calls, opened>>
  <2>1. card' \in Card /\ ~card'.hasJob
    BY <1>1, <1>4, CardFields, EffectFields
  <2> QED
    BY <1>2, <1>4, <2>1
<1>5. CASE /\ ~card.hasJob /\ card' = EffectOf([card EXCEPT !.hasJob = TRUE])
           /\ IF card.open THEN Mounts ELSE UNCHANGED <<chat, opened, calls>>
           /\ UNCHANGED lost
  <2>1. /\ card' \in Card /\ card'.on /\ card'.hasJob /\ card'.open = card.open
        /\ card'.diff = NoDiff /\ card'.got = NoDiff
    <3> DEFINE m == [card EXCEPT !.hasJob = TRUE]
    <3>1. m \in Card /\ m.on = card.on /\ m.hasJob = TRUE /\ m.open = card.open
      BY <1>1, CardFields
    <3>2. card' = EffectOf(m)
      BY <1>5
    <3> HIDE DEF m
    <3>3. /\ card' \in Card /\ card'.on = m.on /\ card'.hasJob = m.hasJob
          /\ card'.open = m.open /\ card'.diff = NoDiff /\ card'.got = NoDiff
      BY <3>1, <3>2, EffectFields
    <3> QED
      BY <1>1, <3>1, <3>3
  <2>2. chat.st = "closed"
    BY <1>5 DEF IInv, Review, Mounted
  <2>3. CASE card.open
    BY <1>1, <1>5, <2>1, <2>2, <2>3, MountReview
  <2>4. CASE ~card.open
    <3>1. UNCHANGED <<chat, opened, calls, lost>>
      BY <1>5, <2>4
    <3>2. TypeOK'
      BY <1>1, <2>1, <3>1, ServerTypes DEF IInv, TypeOK
    <3>3. Mounted' /\ Numbered'
      BY <2>2, <3>1 DEF IInv, Review, Mounted, Numbered
    <3>4. WorksForDialog' /\ PreviewFits'
      BY <1>1, <3>1 DEF server, IInv, Review, WorksForDialog, Closing, UnderWay, AtWork, Asks,
                        PreviewFits, Refreshed, Fits
    <3>5. DiffFits'
      BY <2>1, NoDiffIsNone DEF DiffFits, Versions
    <3> QED
      BY <3>2, <3>3, <3>4, <3>5 DEF IInv, Review
  <2> QED
    BY <2>3, <2>4
<1> QED
  BY <1>3, <1>4, <1>5 DEF PageLoads

LEMMA ChatFields ==
  ASSUME NEW c \in Chat, c.st # "closed"
  PROVE  /\ \A st \in {"waiting", "ready", "error"} :
              LET n == [c EXCEPT !.st = st] IN n \in Chat /\ n.id = c.id /\ n.st = st
         /\ c.polls < MaxPolls =>
              LET n == [c EXCEPT !.polls = @ + 1] IN n \in Chat /\ n.id = c.id /\ n.st = c.st
<1>1. \A st \in {"waiting", "ready", "error"} :
        LET n == [c EXCEPT !.st = st] IN n \in Chat /\ n.id = c.id /\ n.st = st
  BY DEF Chat
<1>2. ASSUME c.polls < MaxPolls
      PROVE  LET n == [c EXCEPT !.polls = @ + 1] IN n \in Chat /\ n.id = c.id /\ n.st = c.st
  <2>1. c.polls + 1 \in 0 .. MaxPolls
    BY <1>2, ApprovalCardAssumption DEF Chat
  <2> QED
    BY <2>1 DEF Chat
<1> QED
  BY <1>1, <1>2

\* A step of the dialog's poll.
LEMMA PollReview == IInv /\ (Tick \/ PollAnswered) => IInv'
<1> SUFFICES ASSUME IInv, Tick \/ PollAnswered PROVE IInv'
  OBVIOUS
<1>1. /\ UNCHANGED <<server, calls, visit, card, opened, loads, lost>>
      /\ chat \in Chat /\ chat.st = "waiting"
  BY DEF Tick, PollAnswered, IInv, TypeOK
<1>2. chat' \in Chat /\ chat'.id = chat.id /\ chat'.st # "closed"
  BY <1>1, ChatFields DEF Tick, PollAnswered
<1>3. TypeOK'
  BY <1>1, <1>2, ServerTypes DEF IInv, TypeOK
<1>4. SameDialog
  BY <1>1, <1>2 DEF SameDialog
<1>5. SameWork /\ SameRefreshes
  BY <1>1, UnchangedCalls DEF IInv, Review
<1>6. Fits => Fits'
  BY <1>1 DEF server, Fits
<1>7. ~lost' => ~lost /\ ~orphan'
  BY <1>1 DEF server, IInv, Review, WorksForDialog
<1>8. DiffFits'
  BY <1>1, SteadyDiff DEF server, IInv, Review
<1> QED
  BY <1>1, <1>3, <1>4, <1>5, <1>6, <1>7, <1>8, Steady, SteadyPreview DEF IInv, Review

LEMMA PodForgottenReview == IInv /\ PodForgotten => IInv'
<1> SUFFICES ASSUME IInv, PodForgotten PROVE IInv'
  OBVIOUS
<1>1. run' \in Run
  BY DEF PodForgotten, Run, IInv, TypeOK
<1>2. TypeOK'
  BY <1>1, PageTypes DEF PodForgotten, IInv, TypeOK
<1>3. SameDialog /\ SameWork /\ SameRefreshes /\ UNCHANGED <<card, lost>>
  BY StayedDialog, UnchangedCalls DEF PodForgotten, IInv, Review
<1>4. Fits => Fits'
  BY DEF PodForgotten, Fits
<1>5. ~lost' => ~lost /\ ~orphan'
  BY <1>3 DEF PodForgotten, IInv, Review, WorksForDialog
<1> QED
  BY <1>2, <1>3, <1>4, <1>5, Steady, SteadyPreview, SteadyDiff DEF PodForgotten, IInv, Review

\* A message is for the dialog that is open; sent from one that closes, it counts as
\* a close that is lost.
LEMMA SendMessageReview == IInv /\ SendMessage => IInv'
<1> SUFFICES ASSUME IInv, SendMessage PROVE IInv'
  OBVIOUS
<1> DEFINE n == NewCall("message", chat.id)
<1>1. n \in Call /\ n.kind = "message" /\ n.by = chat.id /\ n.st = "sent"
  BY NewCallFields DEF IInv, TypeOK, Chat
<1>2. /\ UNCHANGED <<server, visit, card, chat, opened, loads>>
      /\ chat.st = "ready" /\ lost' = (lost \/ Closing)
      /\ \A e \in calls' : e \in calls \/ e = n
  BY DEF SendMessage, Send
<1> HIDE DEF n
<1>3. calls' \subseteq Call /\ lost' \in BOOLEAN
  BY <1>1, <1>2 DEF IInv, TypeOK
<1>4. TypeOK'
  BY <1>2, <1>3, ServerTypes DEF IInv, TypeOK
<1>5. Mounted' /\ Numbered'
  BY <1>1, <1>2 DEF IInv, Review, Mounted, Numbered
<1>6. ASSUME ~lost'
      PROVE  ~lost /\ ~Closing'
  <2>1. ~lost /\ ~Closing
    BY <1>2, <1>6
  <2> QED
    BY <1>1, <1>2, <2>1 DEF Closing, UnderWay
<1>7. WorksForDialog'
  <2>1. ASSUME ~lost', NEW e \in calls', AtWork(e)
        PROVE  e.by = chat.id
    BY <1>1, <1>2, <1>6, <2>1 DEF IInv, Review, WorksForDialog
  <2>2. ~lost' => ~orphan'
    BY <1>2, <1>6 DEF server, IInv, Review, WorksForDialog
  <2> QED
    BY <1>2, <1>6, <2>1, <2>2 DEF WorksForDialog, AtWork, Asks
<1>8. PreviewFits'
  <2>1. Refreshed' => Refreshed
    BY <1>1, <1>2 DEF Refreshed
  <2> QED
    BY <1>2, <1>6, <2>1 DEF server, IInv, Review, PreviewFits, Fits
<1>9. DiffFits'
  BY <1>2, <1>6 DEF server, IInv, Review, DiffFits, Versions
<1> QED
  BY <1>4, <1>5, <1>7, <1>8, <1>9 DEF IInv, Review

\* The X is not clicked while an agent works.
LEMMA ClickXReview == IInv /\ ClickX => IInv'
<1> SUFFICES ASSUME IInv, ClickX PROVE IInv'
  OBVIOUS
<1> DEFINE n == NewCall("delete", chat.id)
<1>1. n \in Call /\ n.kind = "delete" /\ n.by = chat.id /\ n.st = "sent"
  BY NewCallFields DEF IInv, TypeOK, Chat
<1>2. UNCHANGED <<server, page>> /\ ~Streaming /\ \A e \in calls' : e \in calls \/ e = n
  BY DEF ClickX, Send
<1> HIDE DEF n
<1>3. calls' \subseteq Call
  BY <1>1, <1>2 DEF IInv, TypeOK
<1>4. TypeOK'
  BY <1>2, <1>3, PageTypes DEF server, IInv, TypeOK
<1>5. Mounted' /\ Numbered'
  BY <1>1, <1>2 DEF page, IInv, Review, Mounted, Numbered
<1>6. ASSUME ~lost, NEW e \in calls', AtWork(e)
      PROVE  FALSE
  <2>1. e \in calls
    BY <1>1, <1>2, <1>6 DEF AtWork, Asks
  <2>2. e.by = chat.id
    BY <1>6, <2>1 DEF IInv, Review, WorksForDialog
  <2>3. e.kind = "message"
    BY <1>6, <2>1 DEF AtWork, Asks, IInv, Review, Numbered
  <2> QED
    BY <1>2, <2>1, <2>2, <2>3 DEF Streaming, UnderWay
<1>7. WorksForDialog'
  BY <1>2, <1>6 DEF server, page, IInv, Review, WorksForDialog, AtWork, Asks
<1>8. PreviewFits'
  <2>1. Refreshed' => Refreshed
    BY <1>1, <1>2 DEF page, Refreshed
  <2> QED
    BY <1>2, <2>1 DEF server, page, IInv, Review, PreviewFits, Fits
<1>9. DiffFits'
  BY <1>2 DEF server, page, IInv, Review, DiffFits, Versions
<1> QED
  BY <1>4, <1>5, <1>7, <1>8, <1>9 DEF IInv, Review

-----------------------------------------------------------------------------
(* The server.                                                             *)

LEMMA ServerFields ==
  /\ NoPreview \in Preview /\ NoPreview.job = "none"
  /\ [job |-> "new", of |-> 0] \in Preview
  /\ \A r \in Run : /\ \A b \in BOOLEAN : [r EXCEPT !.chatPod = b] \in Run
                    /\ [r EXCEPT !.chatPod = TRUE, !.diffJob = FALSE] \in Run
                    /\ [r EXCEPT !.diffJob = TRUE] \in Run
                    /\ [r EXCEPT !.phase = "approved"] \in Run
<1>1. 0 \in Versions
  BY ApprovalCardAssumption DEF Versions
<1>2. NoPreview \in Preview /\ NoPreview.job = "none" /\ [job |-> "new", of |-> 0] \in Preview
  BY <1>1 DEF NoPreview, Preview
<1>3. ASSUME NEW r \in Run
      PROVE  /\ \A b \in BOOLEAN : [r EXCEPT !.chatPod = b] \in Run
             /\ [r EXCEPT !.chatPod = TRUE, !.diffJob = FALSE] \in Run
             /\ [r EXCEPT !.diffJob = TRUE] \in Run
             /\ [r EXCEPT !.phase = "approved"] \in Run
  BY DEF Run
<1> QED
  BY <1>2, <1>3

\* A call that is served, and leaves the workspace and what works on it: the preview
\* is what it was, or is made again.
LEMMA ServedReview ==
  ASSUME IInv, NEW c \in calls, NEW st \in States, Serve(c, st), st # "sent",
         st = "working" => Asks(c, "message"),
         UNCHANGED <<visit, card, chat, opened, loads, ws, orphan>>,
         run' \in Run, pod' \in PodStates, bare' \in BOOLEAN, preview' \in Preview,
         lost' \in BOOLEAN, ~lost' => ~lost,
         preview' = preview \/ preview'.job \in {"none", "new"},
         c.kind = "refresh" /\ ~lost' => preview'.job \in {"none", "new"}
  PROVE  IInv'
<1>1. SameWork /\ (c.kind # "refresh" => SameRefreshes)
  BY ServedCall DEF IInv, Review
<1>2. TypeOK'
  BY <1>1 DEF SameWork, IInv, TypeOK
<1>3. SameDialog
  BY DEF SameDialog, IInv, TypeOK
<1>4. Fits => Fits'
  BY DEF Fits
<1>5. ~lost' => ~lost /\ ~orphan'
  BY DEF IInv, Review, WorksForDialog
<1>6. PreviewFits'
  <2>1. CASE c.kind # "refresh"
    BY <1>1, <1>3, <1>4, <2>1, SteadyPreview DEF IInv, Review
  <2>2. CASE c.kind = "refresh"
    BY <2>2 DEF PreviewFits, Fits
  <2> QED
    BY <2>1, <2>2
<1> QED
  BY <1>1, <1>2, <1>3, <1>5, <1>6, Steady, SteadyDiff DEF IInv, Review

LEMMA ServesReview == IInv /\ (\E c \in calls : Serves(c)) => IInv'
<1> SUFFICES ASSUME IInv, NEW c \in calls, Serves(c) PROVE IInv'
  OBVIOUS
<1>1. /\ run \in Run /\ pod \in PodStates /\ preview \in Preview /\ bare \in BOOLEAN
      /\ lost \in BOOLEAN
  BY DEF IInv, TypeOK
<1>2. CASE ServeStart(c)
  <2>1. Serve(c, "done") /\ c.kind = "start" /\ UNCHANGED <<page, ws, orphan>>
    BY <1>2 DEF ServeStart, Asks
  <2>2. run' \in Run
    BY <1>1, <1>2, ServerFields DEF ServeStart
  <2>3. pod' \in PodStates
    BY <1>1, <1>2 DEF ServeStart, PodStates
  <2>4. preview' \in Preview /\ (preview' = preview \/ preview'.job \in {"none", "new"})
    BY <1>1, <1>2, ServerFields DEF ServeStart
  <2>5. bare' \in BOOLEAN
    BY <1>1, <1>2 DEF ServeStart
  <2> QED
    BY <1>1, <2>1, <2>2, <2>3, <2>4, <2>5, ServedReview DEF page, States
<1>3. CASE ServeMessage(c)
  <2>1. /\ \E st \in {"done", "expired", "working"} : Serve(c, st)
        /\ Asks(c, "message") /\ UNCHANGED <<page, ws, pod, orphan, preview, bare>>
    BY <1>3 DEF ServeMessage
  <2>2. run' \in Run
    BY <1>1, <1>3, ServerFields DEF ServeMessage
  <2> QED
    BY <1>1, <2>1, <2>2, ServedReview DEF page, States, Asks
<1>4. CASE ServeDelete(c)
  <2>1. Serve(c, "done") /\ c.kind = "delete" /\ UNCHANGED <<page, ws, orphan, preview, bare>>
    BY <1>4 DEF ServeDelete, Asks
  <2>2. run' \in Run
    BY <1>1, <1>4, ServerFields DEF ServeDelete
  <2>3. pod' \in PodStates
    BY <1>1, <1>4 DEF ServeDelete, PodStates
  <2> QED
    BY <1>1, <2>1, <2>2, <2>3, ServedReview DEF page, States
<1>5. CASE ServeRefresh(c)
  <2>1. Serve(c, "done") /\ UNCHANGED <<page, ws, pod, orphan, bare>>
    BY <1>5 DEF ServeRefresh
  <2>2. run' \in Run /\ preview' \in Preview /\ preview'.job = "new"
    BY <1>1, <1>5, ServerFields DEF ServeRefresh
  <2> QED
    BY <1>1, <2>1, <2>2, ServedReview DEF page, States
<1>6. CASE ServeApprove(c)
  <2>1. /\ Serve(c, "done") /\ c.kind = "approve"
        /\ UNCHANGED <<page, ws, pod, orphan, preview, bare>>
    BY <1>6 DEF ServeApprove, Asks
  <2>2. run' \in Run
    BY <1>1, <1>6, ServerFields DEF ServeApprove
  <2> QED
    BY <1>1, <2>1, <2>2, ServedReview DEF page, States
<1>7. CASE Refuse(c)
  <2>1. /\ \E st \in {"refused", "done"} : Serve(c, st)
        /\ UNCHANGED <<ws, run, orphan, bare, visit, card, chat, opened, loads>>
        /\ c.kind = "refresh" => lost'
    BY <1>7 DEF Refuse
  <2>2. lost' \in BOOLEAN /\ (~lost' => ~lost)
    BY <1>1, <1>7 DEF Refuse
  <2>3. preview' \in Preview /\ (preview' = preview \/ preview'.job \in {"none", "new"})
    <3>1. preview' = preview \/ preview' = NoPreview \/ preview' = [job |-> "new", of |-> 0]
      BY <1>7 DEF Refuse
    <3>2. [job |-> "new", of |-> 0].job = "new"
      OBVIOUS
    <3>3. CASE preview' = preview
      BY <1>1, <3>3
    <3>4. CASE preview' = NoPreview
      BY <3>4, ServerFields
    <3>5. CASE preview' = [job |-> "new", of |-> 0]
      BY <3>2, <3>5, ServerFields
    <3> QED
      BY <3>1, <3>3, <3>4, <3>5
  <2>4. pod' \in PodStates
    BY <1>1, <1>7 DEF Refuse, PodStates
  <2> QED
    BY <1>1, <2>1, <2>2, <2>3, <2>4, ServedReview DEF States
<1> QED
  BY <1>2, <1>3, <1>4, <1>5, <1>6, <1>7 DEF Serves

-----------------------------------------------------------------------------
(* The answers.                                                            *)

\* A call that is settled, or makes way for a refresh, and leaves the dialog open.
LEMMA AnsweredReview ==
  ASSUME IInv, SameWork, SameRefreshes, SameDialog,
         UNCHANGED <<ws, run, pod, preview, bare, visit, card>>,
         orphan' \in BOOLEAN, loads' \in Nat, lost' \in BOOLEAN, ~lost' => ~lost /\ ~orphan'
  PROVE  IInv'
<1>1. TypeOK'
  BY DEF SameWork, SameDialog, IInv, TypeOK
<1>2. Fits => Fits'
  BY DEF Fits
<1> QED
  BY <1>1, <1>2, Steady, SteadyPreview, SteadyDiff DEF IInv, Review

LEMMA ToldDialog ==
  ASSUME TypeOK, NEW c \in calls, NEW from, "closed" \notin from,
         NEW st \in {"waiting", "error"}, Told(c, from, st), UNCHANGED <<card, opened>>
  PROVE  SameDialog
<1>1. chat \in Chat
  BY DEF TypeOK
<1>2. CASE chat.id = c.by /\ chat.st \in from
  <2>1. chat.st # "closed" /\ chat' = [chat EXCEPT !.st = st]
    BY <1>2 DEF Told
  <2>2. chat' \in Chat /\ chat'.id = chat.id /\ chat'.st = st
    BY <1>1, <2>1, ChatFields
  <2> QED
    BY <2>1, <2>2 DEF SameDialog
<1>3. CASE ~(chat.id = c.by /\ chat.st \in from)
  BY <1>1, <1>3 DEF Told, SameDialog
<1> QED
  BY <1>2, <1>3

\* A close ends: whatever dialog is open goes.
LEMMA ClosesReview ==
  ASSUME IInv, NEW c \in calls, c.kind \in {"delete", "refresh"}, Settle(c),
         UNCHANGED <<server, visit, opened, loads>>,
         chat' = Closed,
         card' = IF card.on THEN EffectOf([card EXCEPT !.open = FALSE]) ELSE card,
         lost' \in BOOLEAN,
         ~lost' => \/ HandedOver
                   \/ ~lost /\ c.kind = "refresh" /\ c.st # "sent" /\ chat.id \in {c.by, Page}
  PROVE  IInv'
<1>1. SameWork
  BY SettledCall DEF IInv, Review
<1>2. card \in Card /\ loads \in Nat /\ calls' \subseteq calls
  BY DEF IInv, TypeOK, Settle
<1>3. card' \in Card /\ (card'.on /\ card'.hasJob => card'.diff = NoDiff /\ card'.got = NoDiff)
  <2>1. CASE card.on
    <3> DEFINE m == [card EXCEPT !.open = FALSE]
    <3>1. m \in Card
      BY <1>2, CardFields
    <3>2. card' = EffectOf(m)
      BY <2>1
    <3> HIDE DEF m
    <3> QED
      BY <3>1, <3>2, EffectFields
  <2>2. CASE ~card.on
    BY <1>2, <2>2
  <2> QED
    BY <2>1, <2>2
<1>4. ASSUME ~lost'
      PROVE  Fits /\ ~orphan /\ \A e \in calls' : ~AtWork(e)
  <2>1. CASE HandedOver
    BY <1>2, <2>1 DEF HandedOver, Busy, Fits
  <2>2. CASE ~lost /\ c.kind = "refresh" /\ c.st # "sent" /\ chat.id \in {c.by, Page}
    <3>1. chat.st = "closed" \/ chat.id = c.by
      BY <2>2 DEF IInv, Review, Mounted
    <3>2. chat.st = "closed" \/ (Refreshed /\ Closing)
      BY <2>2, <3>1 DEF Refreshed, Closing, UnderWay
    <3> QED
      BY <1>2, <2>2, <3>2 DEF IInv, Review, WorksForDialog, PreviewFits
  <2> QED
    BY <1>4, <2>1, <2>2
<1> QED
  BY <1>1, <1>2, <1>3, <1>4, GoneReview

\* The card loads its diff again: if that makes up for a close that was lost, the
\* workspace has been handed over.
LEMMA ReloadsReview ==
  ASSUME IInv, NEW c \in calls, Settle(c), Reloads, UNCHANGED <<server, visit, opened, loads>>
  PROVE  IInv'
<1>1. SameWork /\ SameRefreshes
  BY SettledCall DEF IInv, Review
<1>2. /\ card \in Card /\ lost \in BOOLEAN
      /\ card' = (IF card.on THEN EffectOf(card) ELSE card) /\ chat' = chat
      /\ lost' = (lost /\ ~HandedOver)
  BY DEF Reloads, IInv, TypeOK
<1>3. /\ card' \in Card /\ card'.on = card.on /\ card'.hasJob = card.hasJob
      /\ card'.open = card.open
      /\ card.on /\ card.hasJob => card'.diff = NoDiff /\ card'.got = NoDiff
  BY <1>2, EffectFields
<1>4. TypeOK'
  BY <1>1, <1>2, <1>3, ServerTypes DEF SameWork, IInv, TypeOK
<1>5. SameDialog
  BY <1>2, <1>3 DEF SameDialog, IInv, TypeOK
<1>6. CASE ~lost
  <2>1. ~lost' => ~lost /\ ~orphan'
    BY <1>6 DEF server, IInv, Review, WorksForDialog
  <2>2. Fits => Fits'
    BY DEF server, Fits
  <2>3. DiffFits'
    BY <1>2, <1>3, NoDiffIsNone DEF server, DiffFits, Versions
  <2> QED
    BY <1>1, <1>4, <1>5, <1>6, <2>1, <2>2, <2>3, Steady, SteadyPreview DEF IInv, Review
<1>7. CASE lost
  <2>1. Mounted' /\ Numbered'
    BY <1>1, <1>2, <1>3 DEF SameWork, IInv, Review, Mounted, Numbered
  <2>2. WorksForDialog'
    <3>1. ~lost' => ~orphan /\ \A e \in calls' : ~AtWork(e)
      BY <1>2, <1>7 DEF HandedOver, Busy, Settle
    <3> QED
      BY <3>1 DEF server, WorksForDialog, AtWork, Asks
  <2>3. PreviewFits'
    BY <1>2, <1>7 DEF server, PreviewFits, HandedOver, Fits
  <2>4. DiffFits'
    BY <1>2, <1>3, NoDiffIsNone DEF server, DiffFits, Versions
  <2> QED
    BY <1>4, <2>1, <2>2, <2>3, <2>4 DEF IInv, Review
<1> QED
  BY <1>2, <1>6, <1>7

LEMMA AnswersReview == IInv /\ (\E c \in calls : Answered(c)) => IInv'
<1> SUFFICES ASSUME IInv, NEW c \in calls, Answered(c) PROVE IInv'
  OBVIOUS
<1>1. /\ UNCHANGED <<server, visit, opened>> /\ c.st \notin {"sent", "working"}
      /\ orphan \in BOOLEAN /\ loads \in Nat /\ lost \in BOOLEAN
  BY DEF Answered, IInv, TypeOK
<1>2. ~lost => ~orphan
  BY DEF IInv, Review, WorksForDialog
<1>3. Settle(c) => SameWork /\ SameRefreshes
  BY SettledCall DEF IInv, Review
<1>4. ASSUME NEW from, "closed" \notin from, NEW st \in {"waiting", "error"},
             Settle(c), Told(c, from, st), UNCHANGED <<loads, card, lost>>
      PROVE  IInv'
  <2>1. SameDialog
    BY <1>1, <1>4, ToldDialog DEF IInv
  <2> QED
    BY <1>1, <1>2, <1>3, <1>4, <2>1, AnsweredReview DEF server
<1>5. CASE /\ c.kind = "start" /\ Settle(c)
           /\ Told(c, {"creating"}, IF c.st = "done" THEN "waiting" ELSE "error")
           /\ UNCHANGED <<loads, card, lost>>
  <2>1. PICK st \in {"waiting", "error"} : Told(c, {"creating"}, st)
    BY <1>5
  <2> QED
    BY <1>4, <1>5, <2>1
<1>6. CASE /\ c.kind = "message" /\ Settle(c)
           /\ Told(c, IF c.st = "expired" THEN {"ready"} ELSE {}, "error")
           /\ UNCHANGED <<loads, card, lost>>
  <2>1. PICK from \in {{"ready"}, {}} : Told(c, from, "error")
    BY <1>6
  <2> QED
    BY <1>4, <1>6, <2>1
<1>7. CASE c.kind = "delete" /\ AfterDelete(c) /\ UNCHANGED loads
  <2> DEFINE n == NewCall("refresh", c.by)
  <2>1. n \in Call /\ n.kind = "refresh" /\ n.by = c.by /\ n.st = "sent"
    BY NewCallFields DEF IInv, TypeOK, Call
  <2>2. UNCHANGED <<card, chat, lost>> /\ \A e \in calls' : e \in calls \/ e = n
    BY <1>7 DEF AfterDelete
  <2> HIDE DEF n
  <2>3. /\ calls' \subseteq Call
        /\ \A e \in calls' : e.by <= opened /\ (e.st = "working" => e.kind = "message")
    BY <2>1, <2>2 DEF IInv, TypeOK, Review, Numbered
  <2>4. ~AtWork(n)
    BY <2>1 DEF AtWork, Asks
  <2>5. \A e \in calls' : e.kind \in {"delete", "refresh"} =>
          \E f \in calls : f.kind \in {"delete", "refresh"} /\ f.by = e.by
    BY <1>7, <2>1, <2>2
  <2>6. SameWork /\ SameRefreshes
    BY <2>1, <2>2, <2>3, <2>4, <2>5 DEF SameWork, SameRefreshes
  <2>7. SameDialog
    BY <1>1, <2>2 DEF SameDialog, IInv, TypeOK
  <2> QED
    BY <1>1, <1>2, <1>7, <2>2, <2>6, <2>7, AnsweredReview DEF server
<1>8. CASE c.kind = "refresh" /\ Settle(c) /\ Closes(c.by) /\ UNCHANGED loads
  <2>1. /\ chat' = Closed
        /\ card' = IF card.on THEN EffectOf([card EXCEPT !.open = FALSE]) ELSE card
        /\ lost' = ((lost \/ chat.id \notin {c.by, Page}) /\ ~HandedOver)
    BY <1>8 DEF Closes
  <2>2. lost' \in BOOLEAN
    BY <2>1
  <2>3. ~lost' => \/ HandedOver
                  \/ ~lost /\ c.kind = "refresh" /\ c.st # "sent" /\ chat.id \in {c.by, Page}
    BY <1>1, <1>8, <2>1
  <2> QED
    BY <1>1, <1>8, <2>1, <2>2, <2>3, ClosesReview
<1>9. CASE c.kind = "button" /\ Settle(c) /\ Reloads /\ UNCHANGED loads
  BY <1>1, <1>9, ReloadsReview
<1>10. CASE /\ c.kind = "approve" /\ Settle(c)
            /\ loads' = IF c.st = "done" THEN loads + 1 ELSE loads
            /\ UNCHANGED <<card, chat, lost>>
  <2>1. SameDialog /\ loads' \in Nat
    BY <1>1, <1>10 DEF SameDialog, IInv, TypeOK
  <2> QED
    BY <1>1, <1>2, <1>3, <1>10, <2>1, AnsweredReview DEF server
<1> QED
  BY <1>5, <1>6, <1>7, <1>8, <1>9, <1>10 DEF Answered

LEMMA BreaksReview == IInv /\ (\E c \in calls : Breaks(c)) => IInv'
<1> SUFFICES ASSUME IInv, NEW c \in calls, Breaks(c) PROVE IInv'
  OBVIOUS
<1>1. /\ UNCHANGED <<ws, run, pod, preview, bare, visit, opened, loads>> /\ Settle(c)
      /\ orphan \in BOOLEAN /\ loads \in Nat /\ lost \in BOOLEAN
  BY DEF Breaks, IInv, TypeOK
<1>2. ~lost => ~orphan
  BY DEF IInv, Review, WorksForDialog
<1>3. SameWork /\ SameRefreshes
  BY <1>1, SettledCall DEF IInv, Review
<1>4. CASE c.kind = "start" /\ Told(c, {"creating"}, "error") /\ UNCHANGED <<orphan, card, lost>>
  <2>1. SameDialog
    BY <1>1, <1>4, ToldDialog DEF IInv
  <2> QED
    BY <1>1, <1>2, <1>3, <1>4, <2>1, AnsweredReview
<1>5. CASE /\ c.kind = "message"
           /\ orphan' = (orphan \/ c.st = "working")
           /\ lost' = (lost \/ c.st = "working")
           /\ UNCHANGED <<card, chat>>
  <2>1. SameDialog
    BY <1>1, <1>5 DEF SameDialog, IInv, TypeOK
  <2> QED
    BY <1>1, <1>2, <1>3, <1>5, <2>1, AnsweredReview
<1>6. CASE /\ c.kind \in {"delete", "refresh"}
           /\ card' = IF card.on THEN EffectOf([card EXCEPT !.open = FALSE]) ELSE card
           /\ chat' = Closed
           /\ lost' = TRUE
           /\ UNCHANGED orphan
  BY <1>1, <1>6, ClosesReview DEF server
<1>7. CASE c.kind = "button" /\ Reloads /\ UNCHANGED orphan
  BY <1>1, <1>7, ReloadsReview DEF server
<1>8. CASE c.kind = "approve" /\ UNCHANGED <<orphan, card, chat, lost>>
  <2>1. SameDialog
    BY <1>1, <1>8 DEF SameDialog, IInv, TypeOK
  <2> QED
    BY <1>1, <1>2, <1>3, <1>8, <2>1, AnsweredReview
<1> QED
  BY <1>4, <1>5, <1>6, <1>7, <1>8 DEF Breaks

-----------------------------------------------------------------------------
(* The theorems.                                                           *)

LEMMA NextReview == IInv /\ [Next]_vars => IInv'
<1> SUFFICES ASSUME IInv, [Next]_vars PROVE IInv'
  OBVIOUS
<1>1. CASE Pods
  BY <1>1, PodStartsReview, PreviewRunsReview, AgentEditsReview, AgentDoneReview,
     PodGoneReview, ResumesReview DEF Pods
<1>2. CASE CardSteps
  BY <1>2, FetchReview, PageLoadsReview DEF CardSteps
<1>3. CASE ChatSteps
  BY <1>3, PollReview, PodForgottenReview DEF ChatSteps
<1>4. CASE Serving
  BY <1>4, ServesReview, AnswersReview, BreaksReview DEF Serving
<1>5. CASE Visitor
  BY <1>5, ClickReview, OpenChatReview, SendMessageReview, ClickXReview DEF Visitor
<1>6. CASE UNCHANGED vars
  <2>1. TypeOK'
    BY <1>6 DEF vars, IInv, TypeOK
  <2>2. Mounted' /\ Numbered'
    BY <1>6 DEF vars, IInv, Review, Mounted, Numbered
  <2>3. WorksForDialog' /\ PreviewFits' /\ DiffFits'
    BY <1>6 DEF vars, IInv, Review, WorksForDialog, PreviewFits, DiffFits, Fits, Refreshed,
                Closing, UnderWay, AtWork, Asks, Versions
  <2> QED
    BY <2>1, <2>2, <2>3 DEF IInv, Review
<1> QED
  BY <1>1, <1>2, <1>3, <1>4, <1>5, <1>6 DEF Next

LEMMA ReviewInvariant == Spec => []IInv
<1>1. Init => IInv
  BY InitReview
<1>2. IInv /\ [Next]_vars => IInv'
  BY NextReview
<1> QED
  BY <1>1, <1>2, PTL DEF Spec

\* Whatever the visitor edits in chats, and however late loads, calls, answers and
\* callbacks of dialogs that are gone come, the diff beside Approve is the
\* workspace's, unless a close was none (StepApproval, handleClose).
THEOREM ReviewIsFresh == Spec => []NoStaleReview
<1>1. IInv => NoStaleReview
  BY DEF IInv, Review, DiffFits, NoStaleReview
<1> QED
  BY <1>1, ReviewInvariant, PTL

=============================================================================
