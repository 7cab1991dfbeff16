# A formal model of ai-pipelines

ai-pipelines is a Kubernetes operator. A `Pipeline` names a trigger and a list of
steps; for each new issue the operator creates a `PipelineRun` and executes its
steps as Jobs on one shared workspace volume. A dashboard server lets users stop,
delete, retry, approve and answer runs, edit pipelines and chat with an agent in
the workspace; its pages are a React application in the browser. This directory
models that system in TLA+: TLC checks small instances, TLAPS proves the theorems
listed below for all of them.

## The system

| Component | State | Operations | Interacts through |
|---|---|---|---|
| PipelineRun reconciler (`internal/controller/pipelinerun_controller.go`) | none of its own: reads the run and its Jobs from informer caches | one pass per event, by phase: initialize, gate, create a Job, advance, retry, fail, resume, delete, record the end | status updates with a resourceVersion; Jobs, diff preview, workspace claim; history database |
| Dashboard, run requests (`internal/dashboard/server.go`) | none: reads the API server | stop, delete, approve, select-repo, create, retry, skip, history | spec and status updates with a resourceVersion; Job and pod deletion; history database |
| Dashboard, workspace requests (same file) | none | start and stop a chat, refresh the diff, list and read artifacts | pods and Jobs that mount the workspace; status updates |
| Job scripts (`pipelinerun_controller.go`, `buildJob` and `configure*Job`) | the workspace volume, the run's branch in the fork | checkout, check out a pull request, agent, shell, push, triage, report | Jobs that the reconciler creates and whose end it reads; git remotes |
| Pipeline reconciler and pollers (`internal/controller/pipeline_controller.go`) | a map of running pollers, guarded by a mutex | start, replace, stop a poller; poll issues or a schedule; create runs | trigger client; list of runs by label; history database |
| Trigger client (`internal/trigger`) | an ETag and body per URL | conditional GET with retries; parse issues, reviews, pull requests | HTTP |
| Issue history (`internal/issuehistory`) | a SQLite table keyed by pipeline and issue | completed?, mark, list, delete | SQL |
| API types (`api/v1alpha1`) | the fields of the objects | - | - |
| Run page (`dashboard/src/pages/RunDetail.tsx`) | the run as last loaded, an error, the buttons' state | load on an interval or after an answer; stop, retry, delete, approve, select | HTTP; the URL |
| Approval card and chat (same file, `components/ChatDialog.tsx`) | a diff, the dialog and its polls | load the diff, refresh it, open, use and close a chat, approve | HTTP; callbacks between dialog, card and page |
| Lists of runs (`pages/PipelineList.tsx`, `PipelineDetail.tsx`) | runs as last loaded, page, filter, row buttons | load on an interval, turn pages, filter, stop, retry, delete, create a run | HTTP |
| History page (`pages/IssueHistory.tsx`) | a table, a selected pipeline and its pending issues | load, select, skip, clear | HTTP |
| Views of one text (`pages/OperatorLogs.tsx`, `components/ArtifactsPanel.tsx`, `ArtifactViewerDialog.tsx`, step log, pipeline YAML) | what was loaded, for which selection | load on an interval or a click, select, open, close | HTTP |
| Creation of a pipeline (`pages/PipelineCreate.tsx`, `components/YamlEditor.tsx`) | the fields of the form, a text, the editor's document | edit, switch between form and YAML, submit, cancel | HTTP; effects of React |
| `cmd`, `config` | flags, manifests | wiring | - |

What makes it hard: every pass of a reconciler works on a cached object that may
be old and writes with optimistic locking; Jobs and pods are created and deleted
with no version at all; a pass has several writes and may die between two of
them; a request and a pass interleave freely; one volume is shared by all pods of
a run; the poller decides from a cache whether an issue already has a run. In the
browser every answer comes late, out of order or not at all, to a page that has
meanwhile got another run, other rows, or gone; what the visitor clicks is decided
by what the page showed, what is done by what the server has then.

What makes each component correct:

* **reconciler** - steps one at a time and in order, no success without every
  step's, an end that stays an end, no gated step without approval, retries that
  really run again, nothing left behind by a deletion, every run settles;
* **run requests** - a stop leaves nothing running, a deletion is not undone, the
  history says what happened;
* **workspace requests** - one user of the volume at a time, status names what exists;
* **Job scripts** - what is pushed has been tested, nothing pushed is lost, a Succeeded
  run has pushed its work, a retry starts from a clean volume;
* **pollers** - one run per issue, one poller per pipeline, on its current spec;
* **trigger client** - a cached body belongs to its ETag and is never replaced by
  an older one;
* **pages** - what is on the screen ends up being what the server has, a click acts
  on what the visitor saw, a request that is repeated or lost does no harm, nothing
  stays disabled or waiting for ever.

## Modules

| Module | What it is |
|---|---|
| `PipelineRun` | one run: reconciler, stop/delete/approve/select requests, Jobs, caches, history |
| `RunLifecycle` | the abstract specification of a run: phase, current step, step at work, steps passed |
| `MCPipelineRun` | the pipelines TLC runs them on |
| `PipelineEdit` | one run whose Pipeline is edited while it is under way |
| `MCPipelineEdit` | the edits TLC explores |
| `IssuePoller` | one Pipeline, its pollers, the runs and the history they are deduplicated by, the requests that change them |
| `MCIssuePoller` | the edits of the Pipeline TLC runs it on |
| `AtomicFetch` | the abstract specification of a fetch: the URL is read once, between call and return |
| `CachedClient` | the trigger client: concurrent conditional requests, the shared cache, retries |
| `Workspace` | the pods that share a waiting run's volume, the handlers that make them, the reconciler's gate |
| `StepJobs` | the scripts of a run's Jobs, statement by statement, on the workspace volume and the fork |
| `MCStepJobs` | the pipelines TLC runs it on, after `config/samples` |
| `RunPage` | the page of a run, its buttons and question cards, against a server with several runs |
| `MCRunPage` | the visits TLC runs it on |
| `ApprovalCard` | the card that asks for the approval of a push, its diff and its chat, against pods and handlers |
| `MCApprovalCard` | the visits TLC runs it on |
| `IssueHistory` | the history page, against handlers and other users |
| `RunList` | both lists of runs and the buttons of a row |
| `LiveView` | the five views that load one text or list |
| `PipelineForm` | the form and the YAML editor that create a pipeline |
| `Dashboard` | composes the last four: the router mounts one page, whose state begins anew |
| `MCDashboard` | the bounds of `Dashboard` |
| `PipelineRunProofs`, `PipelineEditProofs`, `IssuePollerProofs`, `CachedClientProofs`, `WorkspaceProofs`, `StepJobsProofs`, `ApprovalCardProofs`, `DashboardProofs` | the theorems |

### PipelineRun

The state is the API server's object (`run`), the operator's cached copy
(`cache`), the Jobs and the cached Jobs, the other objects of the run, the
history entry of its issue, the reconciler's position inside a pass (`rec`) and
the position of each HTTP request (`req`). `approvals` and `completed` only
remember what happened. A step is its index in the Pipeline, a Job is
`<<step, attempt>>` as in the Job's name (`pipelinerun_controller.go:226-230`);
`<<0, 0>>` is the diff preview. A phase `"Gone"` stands for the removed object,
a step phase `""` for a status not created yet.

*Optimistic locking.* `fresh` holds the names of those whose copy still carries
the object's resourceVersion: the cache, the pass (`"rec"`), each request. Every
write of the object empties it, a read adds the reader, an update by someone not
in it is a conflict. That replaces version counters, so the state stays finite.

*Atomicity.* A pass that only updates the status is one action, guarded by a
fresh cache (with a stale one its update conflicts and changes nothing). A pass
that writes something else first - a Job, the preview, deletions - is split
before its last update, and anything may happen in between, a restart of the
operator included. Requests are split at every read and write; a stop has four
steps (read, delete Jobs, update, record). `RecDeleting` makes its deletions in
one step: they are independent and none of them is conditional.

*Failures.* Building a Job may fail (`RecBuildFails`), the triage result may be
unreadable (`RecTriageFails`), the preview may not be created (third disjunct of
`RecGate`), any update may conflict, the operator may restart (`Restart`,
bounded by `MaxCrashes`). The history database is taken to accept what it is
given: its errors are logged and dropped (`pipelinerun_controller.go:617`).

*Code and model.* Each action carries the name of what it does: `Rec*` are the
branches of `Reconcile` in the order of the code, `StopGet`..`StopRecord`,
`DeleteGet`, `DeletePut`, `ApproveGet`, `ApprovePut`, `SelectGet`, `SelectPut`
are `handleStopRun`, `handleDeleteRun`, `handleApproveStep`, `handleSelectRepo`.
`Initialized`, `Failed`, `Advanced`, `JumpedBack` and so on are the assignments a
branch makes to the status. `RecInitialized` leaves to the next pass the rest of
the pass that the code would still do on the same Job. Operators introduced as a
*broken variant* are not part of the model: each is the next definition with a
plausible bug, and shows that the property named for it can fail.

*Left out:* an edit of the Pipeline during a run (see `PipelineEdit`), the run created
for a schedule (it differs in not being recorded), names and timestamps, and whatever a Job does
inside its pods.

### PipelineEdit

The reconciler reads the Pipeline anew in each pass (`Reconcile`, line 135) and keeps
in the run only the name of the current step and the list of statuses that
`reconcilePending` made. `pipeline` is the Pipeline in the API server, `seen` the
operator's cached copy, which may lag; `findStep` finds a step by name in `seen`, and
`At` takes the status at the same index. An index beyond `run.steps` is a Go panic:
controller-runtime recovers it and tries again, so that no branch is enabled until
another edit. `used` only remembers the
lists that passes have worked with.

Here the copies of the run and its Jobs are exact, because `PipelineRun` has their
lags, and a pass is one action, but for a Job whose recording is lost (`CreateJob`).
*Left out* beside what `PipelineRun` leaves out: triage, previews, stops, deletions,
builds that fail, and the deletion of the Pipeline itself.

### RunLifecycle

A run as its user sees it, with no caches, versions, attempts or requests in
flight. `PipelineRun` implements it (`ImplementsLifecycle`) under the mapping of
`run.phase`, `run.cur`, the step with an active Job and the steps that have a
succeeded Job, as long as no request stops the run: after a stop that lost its
update, a Job may run although its step has already been passed.

### IssuePoller

The state is the `Pipeline` (its generation and `status.pollerActive`) with the
operator's copy of it (`seen`), the entry of the poller table (`table`), the
goroutines (`poller`), the runs with the operator's copies (`cached`), the rows
of `completed_issues` (`history`) and the position of each request. `claimed`
only remembers: `<<p, k>>` is in it from the creation of a run for `k` by `p` until
something legitimately allows the next one. Of a run only its dedup label and
whether it is under way, ended or being deleted are kept; `PipelineRun` has the
rest. `Trigger[v]` is what the v-th spec asks for; `Sched` and `Spot` stand for
the label of a schedule's run and for runs no trigger looks for.

`Reconcile` is one pass of the Pipeline reconciler. A poller takes one action per
call that another process can interleave with: fetch (`Fetch`, `FetchFails`), list
the runs (`NextIssue`), ask the history (`CheckHistory`), create (`CreateRun`,
`CreateFails`), wait (`Tick`). Its context is looked at where the code looks at
it; a creation that is on its way is not called back. The requests of the
dashboard are split between the object and the database they write.

New objects and goroutines take the free identity that `CHOOSE` picks: which one
it is makes no difference. `PromptCache` says that the informer delivers a run the
poller created before its next poll; the poll interval defaults to 30 s and the
code relies on this silently.

*Left out:* `status.lastPollTime` and the fields copied from the issue; errors of
the history database and of the cached list (an error of the history lets the
issue through, `pipeline_controller.go:316-321`); the list of pending issues the
dashboard shows, which reads only; a Pipeline deleted and created again under the
same name before the operator looks, which keeps the old poller if the
generations agree (line 193); two Pipelines with one name prefix.

### AtomicFetch and CachedClient

`cache` is the client's map, `call` the progress of every caller, `content` what
the tracker holds. The ETag and the body of an entry are stored together and the
server derives the ETag from the content, so one content stands for both. A call
reads the entry (`Get`), is answered (`Respond`: 304, 200 or an error), and
returns the entry, stores and returns the body, tries again or fails. The mutex
guards the two accesses of the map, each a single action. `Seen` maps a call to
`AtomicFetch`: the answer fixes what is read, a 304 reads the entry. The map may
hold an older content than it did before; that costs a download and nothing else.

### Workspace

The run is reduced to its phase, whether the gated step has been approved, and
the names its status holds of the preview Job and the chat pod. It starts before
its gated git-push step, or in the middle of its user's chat. `fresh`, `cache` and
`rec` are those of `PipelineRun`. `pods` has the state of the chat pod, the
artifacts pod, the push Job's pod and the pods of preview Jobs; `preview` is the
preview Job with the identity of its pod, because a Job deleted in the background
goes at once and leaves its pod to the garbage collector, and one deleted in the
foreground stays until its pod is gone. `Previews` bounds these identities.

A handler is split at every call that another process can come between:
`handleStartChat` is `StartChatGet`, `Look`, `Sync` or `Clear`, `Free` (delete the
preview, wait), `Create`, `GetAgain`, `Put`. The waits end after ten seconds
whatever they waited for, so they are not guards. `handleChatMessage` and
`handleChatDiff` do the same to the run (`Message`); what they execute in the pod
changes nothing here. `handleListArtifacts`, `handleDownloadArtifacts` and
`handleViewArtifact` share `ensureArtifactsPod` (`Artifacts`). `Abandon` is the
browser that goes away: the calls still to come fail on the cancelled context.
A call that fails for another reason ends the handler the same way, except a look at
the chat pod (lines 1198, 1403 and 1511): its failure is taken for "no pod", so a live
pod may lose its name, and the `Create` that follows finds it and does not name it
(`StartChatLook`, `MessageCheck`).

Not here, because `PipelineRun` has it: the steps before, other requests,
restarts, the pass of a stale Job cache. The informer's copy of the preview Job is
taken to be exact. Each request is served once; a user who repeats one is a second
request.

### StepJobs

`jobs` gives, for each step and attempt, the statement its script is at; `vol` is
the volume that outlives the pods, `fork` the run's branch on the remote. A
source tree is a version number, and `Good` the versions whose tests pass. A
commit is its tree and the clone it was made in (two clones never make the same
commit), so `fork` and `vol.log` can be compared as git compares histories: the
remote takes a push that extends its branch (`Accepted`). The fork may hold a
commit that an earlier run of the same branch name left (`Earlier`).

Each script is cut at the statements that read or change the volume or the
fork, in their order: `Empty`, `Clone`, `Branch` of `configureCheckoutJob`;
`Empty`, `Clone`, `Fetch` of `configureCheckoutPRJob`; `AgentWorks` any number of
times and `AgentExits` of `configureAIJob`, followed by `Cat` for
`configureTriageJob`; `Commands`; `Cat` of `configureWatchReportJob`; `Guard`, `Add`,
`Commit`, `Push` of `configurePushJob`. `Fetch` may fail for good, where line 957
compares with a base branch that is not there. A pod may die at each of them (`PodDies`),
leaving a removal or a clone half-done, and a call to GitHub may fail
(`CallFails`). The reconciler is reduced to the rules by which it follows a
Job's end (`StepSucceeds`, `StepRetries`, `StepFails`).

*The agent* edits what it likes and may commit and switch branches (`AIMay`): no
script keeps it from that. An agent of a step with a `failureFile` is taken to do
what the samples tell it: it runs the tests, leaves the source alone and leaves
the file exactly if they fail, unless it crashes. Shell steps check and do not
edit.

*Left out:* gates, chats and caches (`PipelineRun`, `Workspace`); the files under
`artifacts/` are taken to be ignored by git; credentials, ownership, environment,
prompts, sidecars; a workflow clone that fails is a pod that dies.

### RunPage

`server` has the runs as phases, the current step and whether its question has been
answered; `PipelineRun` has the reconciler's own races, here a pass is one step.
`at` is the run in the URL, `shown` what `setRun` stored last, which after a retry
is still the old run. A load is called (`due`), sent (`loads`), served and stored,
at once (`ServeAtOnce`) or after others (`ServeSlowly`, `ArriveLate`), or it fails, and
the page then shows an error for good. A POST is sent, served (`ServePost`), and its
answer calls the button's callback (`AnswerReload`, `AnswerRetry`, `AnswerDelete`);
or it is refused, or lost before or after its effect (`PostFails`). A button that
is no longer rendered loses its state while its request goes on (`Kept`,
`Orphaned`); `held` are the buttons that their success leaves disabled. The effect
that loads on an interval depends on the phase shown (`EffectRuns`, `Polling`).

*Left out:* the second click of Delete (`RunList` has it) and what the page shows
beside phase and step.

### ApprovalCard

Here a diff is the version of the workspace it was taken of (`ws`), so that a stale
one can be told. `EffectOf` is the card's effect after `diffKey` or `diffJobName` has
changed, which drops what an earlier one asked for; the requests it repeats while the
preview has no pod (404) are one, which stays sent until it is served (`DiffServed`) or
fails (`DiffFails`). Every other call is in `calls` from the click to its answer: it is
served (`Serves`), perhaps refused, then answered (`Answered`), or its connection breaks
before or after its effect (`Breaks`). The handlers are those of `Workspace`, each as
one step.

A dialog has a number. It mounts with a POST, polls by its timer (`Tick`,
`PollAnswered`), and closes with a DELETE, then a refresh of the preview, then `onClose`
(`ClickX`, `AfterDelete`, `Closes`). As in the code, all of this goes on when the dialog
has been unmounted: its refresh is sent, and `onClose` closes whatever dialog is open by
then and makes the card load again. `chatOpen` (`card.open`) belongs to the card and
outlives the dialog: when a load shows a run without a preview the dialog goes, and when
a later one shows it with a preview a new dialog mounts by itself (`PageLoads`; `bare`
remembers that the run was without one since). `visit` says which buttons are used, how
many dialogs may be mounted and how many loads are under way.

`lost` says that a close has not done, or will not do, what it should: a load or the
callback of an earlier dialog has taken an open one away, its DELETE or its refresh
failed, a message was sent while it was closing (the input stays enabled), or the stream
of an agent at work broke off. The next answer that makes the card load its diff with
nobody at work and a preview that is new or of the workspace as it is (`HandedOver`)
makes up for it.

### IssueHistory, RunList, LiveView, Dashboard

`IssueHistory` keeps the rows of the server (`handled`) beside the table of the page,
with the loads of pending issues (`asks`) and the calls on their way. The visitor waits
for nothing: loads overtake one another, and so do calls. `unseen` only remembers the
rows that the table may show otherwise: those that other users and the reconciler
changed without the page being told, and those that two calls at once were about. What
a load of pending issues answers is any subset of the issues that the trigger reports
(`PendingOf`), because runs, which the handler also looks at, are not in this model and
a history or a list that cannot be read leaves nothing out.

`RunList` is both lists: `view` says which. The list of all pipelines loads the
runs of each pipeline in a request of its own, so that a slow load is served in
parts (`Serve`) and may arrive after quick ones (`LoadNow`). The rows are filtered,
sorted and cut into pages as in the code (`Filtered`, `Before`, `Place`, `OnPage`);
what has been clicked is kept under the row's key (`KeyOf`), as React keeps it.
`ClickDelete` arms the button for three seconds and the second click sends. A POST is
served (`ServePost`) and then answered, or it is refused or lost before or after its
effect (`Refused`); loads come in between.
`NewRun` is also `handleCreateRun`.

`LiveView` is one view of five kinds, which differ in when they load, what they do
with an error and whether closing them forgets their state. A load has a slot (`loads`)
from `Send` over `Serve` to `Arrives` or `Fails`, in any order with the others; none is
dropped, but those of a dialog that has been taken down. The artifact dialog does not
keep the keyboard from the list behind it, so another file may be opened in it
(`ViewFile`), and so with the YAML modal.

`Dashboard` composes these three and `PipelineForm`: one route is mounted, and
the state of the pages that are not stands still. Pages share no state but the
server, so that no more than one of them has to move.

### PipelineForm

`form` is what the fields hold: for a step its type and the set of fields that were
filled in, also under a type it had before; for triggers and repositories likewise.
`buildSpec` says what of it is sent. `content` is the page's `yamlContent`, `editor`
the document of CodeMirror with what is on its way: `queue` from the editor to the
page (`onChange`, a render), `due` from the page to the editor (the effect on
`value`). A POST is sent by the form (`handleSubmit`) or the editor
(`handleYamlSubmit`), served by `handleCreatePipeline`, which refuses a name that
exists, and answered or lost.

*Left out:* the texts typed into fields other than the name; a name with a slash.

## Runs

| Run | Question | Bounds |
|---|---|---|
| `MCRunRetry` | do the safety properties and the refinement survive triage and its answer, retries, approvals mixed with answers, a deletion, a preview, a DinD step and a crash? | 3 steps (triage; test, gated, returns to triage; push, gated), 2 attempts, 3 requests, 1 restart |
| `MCRunLive` | with stops, deletions and approvals at any moment, does no write revive an ended run, does the run settle, the deletion complete, the approval resume, the end get recorded? | 2 steps (DinD; gated and retried), 2 requests, 1 restart |
| `MCPipelineEdit` | with edits at any moment, do those that move no step do no harm, and what can make a run hang? | 7 lists of 2 to 4 of 4 steps (two gated, one retried), 2 edits, 2 attempts |
| `MCPoller` | does the table know every poller, does a poller create one run per issue, does it follow the spec, is every issue handled? | 1 issue, 3 specs (none, issues, schedule), 2 goroutines, 2 runs, 1 request of 5 kinds, 1 restart |
| `MCCachedClient` | is the client an atomic fetch however calls overlap, and does every call return? | 2 callers, 2 URLs, 2 contents, the default of 2 retries |
| `MCStepJobs` | does only what passed the tests reach the fork, does a checkout recover from any dead pod, is what lies behind it the clone of its own attempt, is a Succeeded run's work on its branch, does the run end? | 3 pipelines after the samples (issue, triage, review), 2 attempts, 3 trees of which one is good, 2 commits by agents, 2 faults |
| `MCWorkspace` | do late writes of slow handlers leave the run's progress alone, does a removed run take all its pods with it, can a broken chat always be reopened? | 2 requests of 7 kinds, 2 preview pods |
| `MCRunPage` | does the page end up showing what the server has, does it show a stop it was granted, does it land on the run a retry created? | 2 runs, 2 steps, 2 loads and 1 POST on their way, 3 visits (follow and answer; stop or delete; retry) |
| `MCApprovalCard` | is the diff beside Approve the workspace's, does a chat that was opened decide, does a closed one hand the workspace over? | 2 versions (1 edit), 1 poll (30 in the code), 2 calls under way, 2 visits (refresh, two dialogs, two loads of the run under way; approve, one dialog) |
| `MCDashboard` | do the tables agree with the server, does Delete hit the run it was armed for, does a form send what it shows and once, does a page that polls end up with the newest and stay there? | 2 pipelines that share an issue key, 2 loads of pending issues and 2 calls under way; 2 runs, 1 run to a page, 1 POST, buttons used on the page of one pipeline; 2 options, 3 versions, 2 loads of a view under way; 3 changes of triggers and repositories or 5 of steps, 2 of the text, 2 POSTs, 1 lost answer |

Three steps are enough for a step before the retry target's source, a source and
a step after it; two attempts for one retry and its exhaustion; three requests
for two approvals and one interference; one restart because after it all caches
are fresh again and nothing else is remembered. Requests are symmetric.
The lists of `MCPipelineEdit` are one Pipeline and what an edit can do to it: put a step
in front or in the place of the first, take a gate or a retry away, cut off the end or
the middle, change the order, also so that a retry jumps forward. Two edits are an
edit and its undoing.
The pollers need two goroutines, an old and a new one, and two runs, the one that
is there and the one that must not be; the issues are independent of one another
and their order does not matter, so one is enough. Two callers are enough for an
answer to overtake another. In the workspace, two requests let one act between any two
calls of another; what is left behind by earlier ones is among the initial states or
made by an abandoned request. They are not enough for everything: an abandoned request,
one that takes the version, and one between the two need three. `LoneChatHeals`
therefore speaks of a request that has the current version of the run when nobody else
is at work. A configuration with three requests that open or close the chat was checked
too; it has 524,680 states and the property holds in it.
In the scripts, three trees are the default branch, a bad and a good change (or the
pull request's and a change of it); two faults let a second pod die on what the
first one left; two commits let an agent commit on the wrong branch and on the
right one. Five steps are those of the samples.
`MCRunLive` has no push: its preview Job is in `MCRunRetry`, whose safety properties
do not depend on fairness. On the run's page, two loads are enough for one to overtake
another, two runs for a retry; a run has the two questions a page can show. On the
card, one poll is enough for the limit to be reached; one late load takes a dialog away
and a second brings it back, beside which one edit makes the diff stale; two dialogs let
the close of the one meet the other, and two calls are those of two dialogs, or of a
dialog and of the button. `ReviewIsFresh` is proved for any number of each. In the
history, two calls are about one row or about one issue of two pipelines, and two loads
of pending issues overtake one another; so do two loads of a view. The runs' buttons are
used on the page of one pipeline, whose rows move: in the list of all pipelines each
pipeline has one run here. `RecordsMatch` and `DeletesConfirmed` are proved for all
bounds and both lists. Five changes reach a
step that was given a field, then another type, and back. Each page of
`Dashboard` is alone with the server, so that one page at a time covers all of them.
Deadlock is checked where the system never rests (`MCCachedClient`). A run that has
ended and has no request left is at rest, so the other runs do not check it.

The other runs each show that the code does not do what a comment or a
document next to it says (`findings` of PROJECT.json quotes both):

| Run | What the code does |
|---|---|
| `MCLostPush` | a push that failed after its commit is retried, has nothing to commit and succeeds without pushing |
| `MCUntestedPush` | a linter after the tests sends the run back to implement; the old test result is taken and the new code pushed |

`MCLostPush` needs a push step that is retried and one fault, nothing from the
agent; an agent that commits its own work gets there with no fault at all, since
nothing is staged at the first attempt either. The samples avoid
both retries: in them only the test step has an `onFailure`.

Other divergences are in the models but have no run of their own. A stop deletes
"the active Job for the current step (if any)" (`server.go:1029`) only of a step that is
Running (line 1031): a DinD step that is still Initializing is marked Stopped
while its Job keeps running, and so does a Job that a pass under way creates (`StopKill`).
A stop that
reads a run while it is Deleting writes Stopped over it, because it refuses only
Succeeded, Failed and Stopped (`StopGet`, `server.go:1024`), although "the controller
will clean up jobs, PVC, and delete the CR" (line 1169); `DeletionCompletes` excepts
it. An approval outlives its attempt: `spec.approvedStep` is never cleared, and a
gated step that comes back after a retry runs its new code without asking
(`NeedsApproval`, controller line 237; `pipeline_types.go:361` says the step "waits for
explicit user approval"), hence "at that attempt or another" in `NoUnapprovedStep`. Two
steps that retry from one target can send it to an attempt number whose Job
exists, and its old result is taken (line 421); `RetryIsFresh` is checked and proved of
pipelines without that (`SeparateRetries`). A run deleted between
its end and the pass that follows is never recorded, because the Deleting phase is
looked at before `recordCompletion` (controller line 109), although the history is
kept "so that issues are not re-processed after their PipelineRun CRs are deleted"
(`store.go:12`). A step whose attempt
number has reached `maxRetries` fails (`MayRetry`, controller line 396), so
`maxRetries: n` allows n - 1 retries, where `pipeline_types.go:371` calls it "the
maximum number of retry attempts". And a preview is deleted on approval only if
`status.diffJobName` names it (`RecApproved`): when the pass that recorded the
wait had failed to create it and a later pass, on a cache that still says
Running, created it and lost its update, it stays beside the push Job.

Of edits under a run: after one that puts a step before the current one or removes one,
the Job, attempt and phase of that step are written into the status of another, although
a `StepStatus` "tracks the execution state of a single step" (`pipelinerun_types.go:129`;
`StatusIsOfItsStep` alone fails). One that makes the Pipeline longer than it was may
hang its runs: once the current step has an index beyond `status.steps`, every pass
panics (line 223), and the run stays Running until another edit, a stop or a deletion;
`EditedRunSettles` therefore asks nothing of longer Pipelines. One that moves the
current step while its Job is active gives it the attempt of another status, and with
it perhaps a second Job beside the first; `AnchoredEditsAreSafe` excepts such edits.
Two steps of one name share their Jobs, and `findStep` finds the first of them (line
561), so that a run at the second goes back to the first, whose Job has ended, for ever;
"name is the step identifier" (`pipeline_types.go:308`), and nothing checks it. Only `EditsInPlaceAreSafe` assumes
it (`DistinctNames`).

Four more, of the pollers: an edit of the Pipeline cancels the old poller and does not
wait for it (`ensurePoller`, line 196), so that it and its successor may create two runs
for one issue, against the deduplication that `README.md:21` names (`OneRunEach` is about
one poller); the retry of a schedule's run loses its label
(`RetryLabel`), so the schedule does not see it and may run beside it; a schedule
that does not parse leaves `status.pollerActive` true with no poller
(`runSchedulePoller`, lines 414-418, after `Reconcile` line 99); and a trigger
whose secret cannot be read leaves the poller of the previous spec running
(lines 125-129). `PollerFollowsSpec` therefore asks nothing of the last two.

Of the scripts: a push is never forced, so a run whose branch the fork already has
from another clone - a second run of one issue, or a checkout retried after a
push - is refused at every attempt (`Accepted`); the preview leaves `artifacts/` out
of what it shows (line 693) and `git add .` does not (line 1460).

Of the workspace: a chat pod created while its step is being approved
(`StartChatCreate`, `server.go:1338`) runs beside the push, although the controller
means to "clean up the diff preview Job and chat Pod before the push Job needs
the PVC" (`pipelinerun_controller.go:508`); opening a chat takes over a pod that is ending or has ended,
where the comment says "if it's still alive" (`server.go:1196`), and answers
"exists" even if the update that names the pod met a conflict (line 1203): after two
requests, one abandoned and one in between, a third that is alone to the end may leave
the pod without its name; a look at the pod that fails for whatever reason counts as
"gone" (lines 1198, 1403, 1511), clears the name of a live pod and lets its preview be
deleted; hence the conditions of `LoneChatHeals`; a preview can be refreshed
in any phase of the run (line 1554), beside its Jobs too; a "terminated" artifacts
pod that is deleted and recreated (line 1738) may be one that another request has
created and that is only pending; and the names of preview and chat are built
without the truncation the controller applies (lines 1222 and 683).

Of the run's page: an error is never taken back, on the lists and the history neither
(`LoadFails`); a page that asks for an approval does not poll, so that it goes on
asking after an approval whose reload was served too early, or for a step that
somebody else has approved, and a click on it then approves the step that waits
meanwhile, because the POST names none (`handleApproveStep`, `server.go:1095`); a page
in phase Deleting never notices the removal; Stop and Delete act on the run of the URL while an old run is still shown (`Target`); and
Retry forgets that it was clicked when a load of the page unmounts it (`Kept`).

Of the approval card: a dialog that a load takes down sends no DELETE and leaves its
pod (`PageLoads`), and an agent at work in it may go on editing beside the card and the
preview that the next load shows; `chatOpen` stays, so that when the preview is back a
dialog mounts by itself and POSTs for a pod that nobody asked for (`RunDetail.tsx:241`);
the `onClose` of a dialog that is gone may close a later one while its agent edits
(`Closes`, `ChatDialog.tsx:214-219`); a dialog closed while it is still being
created deletes a pod that does not exist yet (`ClickX`, `ServeDelete`), and the pod then
comes; X is disabled while the agent answers (`ChatDialog.tsx:272`), the input is not
disabled while the dialog closes, so that an agent may edit after the preview was taken
(`SendMessage`); a DELETE that fails at the server is not told from one that succeeds
(`AfterDelete`). Where this leaves a diff of an older workspace beside Approve, `lost`
excepts it. A log read before it is complete is shown as "No changes
detected in workspace." or in part (`DiffServed`, `RunDetail.tsx:421`).

Of the other pages: the history page shows the pending issues of a pipeline that is
no longer selected when its answer comes last (`AskArrives`; `IssueHistory.tsx:60`),
skipping removes the same key from the list of whatever pipeline is selected then
(`CallAnswered`), Enter ignores `skipping`, and two calls about one row that are
answered in another order than they were served leave the table different from the
history (`Send`); a list that shrinks below the page shown shows no rows
(`OnPage`), and a retried row may be retried again after it was mounted anew; the
operator's log may show an answer for another number of lines until the next
(`Arrives`), the YAML modal that of another pipeline (`OpenYaml`); the artifact dialog
in which another file was opened keeps the text of the first under the name of the
second until an answer comes, and for good when the answers come in the wrong order
(`ViewFile`, `ArtifactsPanel.tsx:113`); a step's log is cut off when
the step ends (`Polling`), and the artifacts have no "next poll" once the run has
ended (`ArtifactsPanel.tsx:48`). The form leaves an `onFailure` that names a step
removed since, sends the retry fields of types that hide them (`NoRetry`;
`PipelineCreate.tsx:571`), drops what was typed as YAML when the visitor goes back
to the form, and Cancel does not stop a creation under way (`Cancel`).

Two properties hold only with a restriction, and the runs reflect it.
`OneJobAtATime` fails when stops are allowed: a stop deletes a Job that has
already succeeded, its update conflicts with the advance of the run, and a pass
on a stale cache creates the deleted Job once more beside the next step's. For
the same reason `StepsInOrder` needs retries that jump backwards
(`OnFailure[s] <= s`): the code does not check it, all samples satisfy it.

## Fairness

`FairSpec` assumes weak fairness of the reconciler (controller-runtime requeues a
failed pass, and the code requeues a running one), of the informers (watches
deliver), of each request once it has read the run (a handler runs to its end),
of each Job (its pods end) and of the garbage collector. It assumes nothing of
users - no approval or answer need ever come - and a restart is never required.

`PipelineEdit!FairSpec` says the same of passes, the informer and Jobs; no edit and no
approval need ever come.

`IssuePoller!FairSpec` adds, for the pollers, weak fairness of a goroutine and
strong fairness of `Fetch` and `CreateRun`: the tracker and the API server answer
some of the attempts. Without it an issue may be refused for ever.
`CachedClient!FairSpec` says that a caller goes on and that a request that was sent
ends. The second is an assumption about the network: `http.DefaultClient` has no timeout
of its own.

`Workspace!FairSpec` adds the kubelet and the garbage collector, in one condition:
pods start, Job pods end, deleted pods go, orphans are deleted. A chat pod need not
end, a browser need not stay.

`StepJobs!FairSpec` says that the reconciler acts on what it sees and that scripts
go on; an agent's work is finite, because `AgentExits` stays possible while it
works. Pods need not die and calls need not fail.

`RunPage!FairSpec` says that the page's timer runs, that a request is answered in the
end, with success or not, and that callbacks are called; nothing is asked of the
reconciler or of the visitor. `ApprovalCard!FairSpec` says the same of the card and
the dialog, and that pods start and end, an agent answers and the reconciler acts on
an approval. `DashboardSpec` asks (`LoadsEnd`) that the intervals go on, that a load
under way is served and answered in the end, late or not, and that the answers are not
errors for ever (strong fairness of `View!Arrives`); for the list of all pipelines, that
again and again a load is answered at once and a slow one arrives. `StaysNew` says that
these are enough once nothing changes any more, whatever older answers are still on
their way.

## Proofs

`TypeOK` is not inductive: a pass writes what it computed from an older copy.
`IInv` of `PipelineRunProofs` adds what is still true of the object while that
copy is current (`Snapshots`): a fresh cache is the object; a pass between two
writes whose copy is fresh finds the phase it started from; a request likewise.
It also says that a run under way has a current step and that a step it was
approved for has been approved (`RunOK`). Two lemmas carry the argument:
`WriteInv` (a write of the object takes the version from everyone else, so
nothing about copies needs to be shown) and `KeepInv` (a step that leaves the
object alone only has to justify the version it hands out). `UpdateStep`,
`FinishStep`, `GoOnStep`, `GetStep` and `PutStep` apply them to the five ways the
code reads and writes, and each action is then one lemma.

| Theorem | For every pipeline, request set and number of crashes |
|---|---|
| `TypeCorrect` | `TypeOK` always |
| `TerminalIsSticky` | a run that has ended never runs again |
| `ApprovalRequired` | no Job of a gated step before the user approved the step |
| `RetriesAreFresh` | a step that a failure resets has no Job of its new attempt left from before, if no two steps retry from one step or one from the other |
| `EveryStepHasItsTurn` | no Job of a step before every earlier step has had one that succeeded, if failures jump backwards |
| `SuccessHasPassedAll` | a run that ended Succeeded has passed every step, each at its last attempt, if failures jump backwards |
| `OneJobAtOnce` | at most one active Job of a step, if nobody stops the run |
| `RunIsLifecycle` | `PipelineRun` implements `RunLifecycle`, if nobody stops the run and failures jump backwards |
| `LifecycleWorksInOrder` | in `RunLifecycle`, a step works only after all earlier ones have succeeded |
| `LifecycleSucceededMeansPassed` | in `RunLifecycle`, Succeeded means that all steps have |
| `TypeCorrect` of `PipelineEditProofs` | the types of `PipelineEdit`: no attempt exceeds what some list allows, though statuses may be mixed up |
| `EditsInPlaceAreSafe` | in `PipelineEdit`, edits that move no step mix up nothing, start no second Job and pass no step over, if a Pipeline's steps have names of their own |
| `TypeCorrect` of `IssuePollerProofs` | the types of `IssuePoller` |
| `TableKnowsPollers` | in `IssuePoller`, a goroutine that has not been cancelled is the one in the table |
| `OneRunForAnIssue` | in `IssuePoller`, a poller creates one run for an issue, if `PromptCache` |
| `ClientTypeCorrect` | a call is sent at most `Retries` + 1 times, and every record keeps its type |
| `ClientIsAtomic` | `CachedClient` implements `AtomicFetch` |
| `TypeCorrect` of `WorkspaceProofs` | the types of `Workspace`, and that a preview Job has a pod |
| `TypeCorrect` of `StepJobsProofs` | the types of `StepJobs`: no attempt exceeds what its step allows |
| `CheckoutAlwaysRecovers` | in `StepJobs`, a checkout fails only if its own pod or call does |
| `SucceededWorkIsCommitted` | in `StepJobs`, a run that Succeeded through a last push has its branch checked out and nothing uncommitted |
| `OnlyTestedIsPushed` | in `StepJobs`, what a run puts on its branch of the fork has passed the tests, if the tests guard the pushes |
| `CheckoutsAreFresh` | in `StepJobs`, behind a checkout that succeeded lies the clone of its own attempt and nothing else, if no failure goes back to a checkout that has succeeded |
| `WritesNeverGoBack` | in `Workspace`, no late write takes the run back to an earlier phase |
| `EditorIsSettled` | in `PipelineForm`, an editor with nothing on its way shows the text that a click would send |
| `OnePipeline` | in `PipelineForm`, a page creates one pipeline, and one more for each lost answer |
| `PostsWhatIsShown` | in `PipelineForm`, what is sent is what the fields, or the editor, show |
| `ReviewIsFresh` | in `ApprovalCard`, the diff beside Approve, with no dialog open, is of the workspace as it is, unless a close was lost (`lost`) |
| `TableMatchesHistory` | in `Dashboard`, the history's table differs from the server only in rows with a call under way, rows the page was not told of, and rows two calls at once were about |
| `DeletesNeedTwoClicks` | in `Dashboard`, a run is deleted only after two clicks on its own button |

Each theorem takes the named assumptions that its module makes of its constants, chiefly
that bounds are numbers and that `MaxAttempt` is at least what each retrying step may
use. Some take more, and without it the code does break them (see the end of Runs):

* `BackwardRetries` (`OnFailure[s] <= s`) and `SeparateRetries` (no two steps retry from
  one step, or one from the other) of `PipelineRunProofs`: the code checks neither; all
  samples satisfy both, and so does the Pipeline of `MCRunRetry`.
* `"stop" \notin Ops`, in `OneJobAtOnce` and `RunIsLifecycle`: nobody stops the run.
* `PromptCache`, in `OneRunForAnIssue`: the informer is faster than the poll interval.
* `TestsGuardPushes`, in `OnlyTestedIsPushed`: the tests come after every step that
  changes the source and before every push, and no failure jumps across them. TLC finds
  it true of the Pipelines of `MCStepJobs` (`GuardAssumption`), after the samples; the one
  of `MCUntestedPush`, whose linter sends the run back across its tests, breaks it.
* `FreshCheckouts`, in `CheckoutsAreFresh`: no failure goes back to a checkout, or across
  it, but the checkout's own to itself. `GuardAssumption` has it for the same Pipelines.
  With a test that sends the run back to a checkout which has itself retried before, the
  attempt numbers meet, the Job of that attempt has already succeeded, and the run goes on
  with the old workspace; TLC finds that too.
* `DistinctNames`, in `EditsInPlaceAreSafe`: a Pipeline's steps have names of their own,
  as the lists of `MCPipelineEdit` do (`EditedAssumption`).

The five theorems about order, retries and single Jobs share one lemma. `NextEffect` says what a
step, whichever it is, does to the run, its cached copy and its Jobs: it leaves them
alone, writes the run in one of seven ways (`Hold` it at its Job, `Begin`, `Pass`,
`AskRepo`, `JumpBack`, `Choose`, `End`), creates the Job the cache asks for (`Launched`),
removes Jobs (`Killed`), refreshes a copy, or ends a Job. The invariants are then about
these effects and no longer about the actions.

For the order, `Progress` says of the run and of the cached copy alike that every step
behind the current one is Succeeded and its Job did succeed; the copy matters because
`RecCreateJob` looks at nothing else. A jump backwards writes only to steps from its
target on, so it keeps what lies before.

For fresh retries, `AttemptsFit` says that no step has a Job of a later attempt than its
own and that a retrying step and its target are at one attempt, of the object; the copy
lags behind (`Behind`), so what a pass creates from it is never ahead. Where two steps
retry from one, only the second half fails, and the theorem with it.

For one Job at a time, the object says little: a pass on an old copy creates Jobs. So
`OnlyCur` holds of both copies, the active Job being the current one of whichever may
still go on; `CreationFits` says of the Job an old copy still lacks that it has ended
since or is still the one due; `EndsAreReal`, that an end which the informer reports was
not undone; `RepoWaitIdle` and `UnapprovedIdle`, that a run in either wait has nothing at
work; `PassFits`, that a pass which may still write the wait saw an unapproved step.
`IdleWrite` concludes that whoever moves the run on finds no Job active. A stop breaks
`EndsAreReal`, and with it the theorem. `LifecycleStep` maps each effect to a step of
`RunLifecycle` or a stutter: `Hold` to `Wait` or `Resume`, `End` to `Skip`, `Fail`,
`Delete` or `Remove`, `Pass` and `Choose` to `Pass`.

`OneRunForAnIssue` needs an account of how the two layers cover for each other (`Inv` of
`IssuePollerProofs`). `ClaimsHold`: what a poller has claimed has its run still or its
entry in the history, because a run that goes unrecorded and an entry that is cleared
release the key. `Blocked`: of the issues a goroutine may still take up before its next
tick, one it has claimed is in the history or has a run that the operator can *see*; a
run that is removed between the two looks has been recorded before. `KeyLooked` carries
what the first look showed to the second, and the second to the creation, while runs end
and requests come in between. `SameObject` says that an informer's copy belongs to the
object, since an identity is reused only when both are gone. Three lemmas do the work:
`ServerStep` for whatever changes runs and history, `GoroutinesStep` for the goroutines,
`CreateRunInv` for the one step that claims.

`ClientIsAtomic` is a refinement proof. Its invariant (`IInv` of
`CachedClientProofs`) adds to the types that a call under way has a URL and that
nothing but a 200 carries a body (`RecordOK`); without the second, an answer that
is retried would seem to have read something. `NextRefines` maps every step:
`Get` begins, a 304 or a 200 reads, the returns return, a retry and an error
status change nothing that is seen.

`WritesNeverGoBack` rests on the same idea as `TypeCorrect` of `PipelineRun`: its
`Snapshots` say what a pass or a request that holds a current copy knows of the
run, so that its write moves the run forward; whoever holds an older copy
conflicts. What writes the preview's fields without moving the run
(`PutNameInv`) is shown to keep the phase.

`CheckoutRecovers` speaks of a failed Job; the invariant that carries it says what
must be true while the Job is still running (`IInv` of `StepJobsProofs`). `Active`:
only the current Job of a running run is at a statement, and it is a statement of
its step's type. `Recovery`: a clone finds the volume empty, and a checkout that has
failed has met a fault. `MoveInv` covers the passes of the
reconciler and `StatementInv` the statements.

`SucceededWorkIsCommitted` follows a push from statement to statement (`PInv`): past the
guard HEAD is the run's branch, and what is pushed is a commit of the tree (`Pushing`);
the last push succeeds once, and nothing comes after it (`PushedLast`, `EndedByJob`).
`OnlyTestedIsPushed` needs to know where the tests stand. `TestsInv` says of the step that
the assumption names (`Guards`): once the run is past it, the tree on the volume is
good, because no later step changes the source and none goes back; its Job has succeeded
for such a tree only; and what has been pushed is good. What an agent commits, or
switches to, before the tests does not matter, because the push steps commit the tree.

`CheckoutsAreFresh` says of the volume what each statement of a checkout has made of it
(`CheckedOut`), and of a checkout that it has no Job of an attempt to come (`Checkout`),
so that a Job the reconciler finds there was made by the script that has just run.

`EditsInPlaceAreSafe` speaks of edits that were all harmless (`Harmless`: `Anchored` and
`RetriesGoBack`), which is about `used`, a set that only grows: no step leads from a state
that is not harmless to one that is (`Monotone`), so the invariant may assume it of both
sides. A pass then finds at its index the status of the step it looks at (`AtCurrent`);
only the current Job may be active (`OnlyCurrent`), and the steps before the current one,
or before one that has a Job, are done (`CurrentInOrder`, `JobsInOrder`).

`ReviewIsFresh` must say what protects a workspace that an agent may still edit.
`WorksForDialog`: unless `lost`, an agent at work, or a message on its way to one, belongs
to the dialog that is mounted, which has not begun to close. Then, once the dialog is
closed or its refresh has been served, a preview that is written is of the workspace as it
is (`PreviewFits`), and so is a diff taken of it or on its way (`DiffFits`). `Mounted` says
when a dialog is there, `Numbered` that no call is of a dialog yet to come, so that a new
one starts with none. The steps that clear `lost` clear it only when nobody is at work and
the preview fits (`HandedOver`), which is what gives the invariant back.

The theorems about `Dashboard` are those of its pages: a lemma lifts an invariant of one
page, since the others stand still or are not mounted. `HistoryInv` accounts for a row in
which table and server differ: the page is still loading (`HistoryLoads`), or there is one
call about the row, whose effect its answer will tell, or something nobody told the page
(`HistoryCalls`). `ClicksInv` says that a click is kept under the key of its row, which is
the run's name, however the rows have moved, and that a POST, served or not, is of the run
that was clicked.

The three theorems about `PipelineForm` rest on one invariant each. `EditorInv`: there is
never a third text, what is queued is the editor's document and what is due the page's
text. `PostInv`: there is one POST at a time, for which the buttons are disabled, and every
pipeline the page has made but one is paid for by a lost answer. `FormInv` is the type of
the form; with it `SentStep` compares `buildSpec` with `OnScreen` field by field.

What `RunLifecycle` promises is proved of its specification (`Abstract` in
`PipelineRunProofs`) and reaches `PipelineRun` through `RunIsLifecycle`, which
`MCRunRetry` checks on a small instance.

Every invariant and every action property that a passing run checks is proved. Only
model-checked: liveness under fairness and `ENABLED`, which are outside the prover.
The types of
`IssuePoller`, `CachedClient`, `Workspace`, `StepJobs` and `PipelineEdit` are proved and
stated in no configuration; those of the pages are stated in their modules, and the
proofs use what they need of them.

## Not modelled

* The trigger fetchers (`internal/trigger/fetch.go`): filters of the trackers'
  answers and text conversions, a pure function of each answer; `IssuePoller` takes the
  set of open issues as given.
* Job names and labels, repository resolution, environment and mounts of the Jobs.
* What the frontend computes from a text: the parts of a diff (`diffUtils.ts`,
  `DiffDialog.tsx`), of an agent's stream (`streamUtils.ts`, `StreamChat.tsx`,
  `LogViewer.tsx`), durations and colours. They keep no state that others see.
* The repositories that the card of a triage offers (`RepoSelector` loads them once);
  which one is chosen makes no difference to `RunPage`.
* `cmd`, the manifests and the generated deep copies.

## Plan

1. `PipelineRun`, `RunLifecycle`, their runs and first theorems (done).
2. `IssuePoller`: pollers, deduplication, history, schedule (done).
3. `AtomicFetch`, `CachedClient`, the refinement proved (done).
4. `Workspace`: chat, diff refresh and artifacts pods (done).
5. `StepJobs`: the scripts on the volume and the fork (done).
6. `RunPage`, `ApprovalCard`, `RunList`, `IssueHistory`, `LiveView`, `PipelineForm`,
   `Dashboard`: the pages (done).
7. `PipelineEdit`: a Pipeline edited under a run (done).
8. Proofs of every invariant and action property that a run checks (done).
9. Left: the pure parts (Job names and labels, repository resolution, confidence, the
   filters of the trigger fetchers, ADF text, the frontend's diff and stream functions).
   `RunPage` has no theorem: what is checked of it is liveness.
