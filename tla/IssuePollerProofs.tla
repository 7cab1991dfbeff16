--------------------------- MODULE IssuePollerProofs ---------------------------
(***************************************************************************)
(* Theorems about IssuePoller, for any issues, goroutines, runs, requests  *)
(* and specs: the table of pollers knows every goroutine that lives, and   *)
(* a poller creates one run for an issue if the informer is prompt.        *)
(***************************************************************************)
EXTENDS IssuePoller, TLAPS

-----------------------------------------------------------------------------
(* Types.                                                                  *)

Goroutine ==
  [pc : {"idle", "poll", "next", "history", "create", "wait", "exit"},
   live : BOOLEAN, version : Versions, todo : SUBSET Issues, key : Issues \cup {Sched}]

LEMMA VersionsAreNumbers == Versions = 1 .. Len(Trigger) /\ Len(Trigger) \in Nat /\ 1 \in Versions
BY TriggerAssumption DEF Versions

LEMMA IdleType == Idle \in Goroutine
BY VersionsAreNumbers DEF Idle, Goroutine

LEMMA StartedType ==
  ASSUME NEW v \in Versions
  PROVE  Started(v) \in Goroutine
BY DEF Started, Goroutine

LEMMA NewRunType ==
  ASSUME NEW key \in Keys, NEW skipped \in BOOLEAN, NEW by \in Pollers \cup {None}
  PROVE  NewRun(key, skipped, by) \in RunRecord
BY DEF NewRun, RunRecord

LEMMA NoRunType == NoRun \in RunRecord
BY DEF NoRun, RunRecord, Keys

\* A new object takes an identity that is free in the server and in the cache.
LEMMA CreateStep ==
  ASSUME NEW run, Create(run)
  PROVE  \E r \in Runs : /\ runs[r] = NoRun /\ cached[r] = NoRun
                         /\ runs' = [runs EXCEPT ![r] = run]
<1> DEFINE r == CHOOSE r \in Free : TRUE
<1>1. r \in Free
  BY DEF Create
<1>2. runs' = [runs EXCEPT ![r] = run]
  BY DEF Create
<1> QED  BY <1>1, <1>2 DEF Free

LEMMA CreateType ==
  ASSUME TypeOK, NEW run \in RunRecord, Create(run)
  PROVE  runs' \in [Runs -> RunRecord]
BY CreateStep DEF TypeOK

\* The passes of the Pipeline reconciler.
LEMMA CancelledType ==
  ASSUME TypeOK, NEW entry
  PROVE  Cancelled(entry) \in [Pollers -> Goroutine]
<1>1. \A p \in Pollers : poller[p] \in Goroutine
  BY DEF TypeOK, Goroutine
<1>2. ASSUME NEW g \in Goroutine
      PROVE  [g EXCEPT !.live = FALSE] \in Goroutine
  BY DEF Goroutine
<1> QED  BY <1>1, <1>2 DEF Cancelled

LEMMA StartStep ==
  ASSUME NEW rest, StartPoller(rest)
  PROVE  \E p \in Pollers :
           /\ poller[p].pc = "idle"
           /\ poller' = [rest EXCEPT ![p] = Started(seen.generation)]
           /\ table' = [generation |-> seen.generation, id |-> p]
<1> DEFINE free == {p \in Pollers : poller[p].pc = "idle"}
           p == CHOOSE p \in free : TRUE
<1>1. p \in free
  BY DEF StartPoller
<1>2. /\ poller' = [rest EXCEPT ![p] = Started(seen.generation)]
      /\ table' = [generation |-> seen.generation, id |-> p]
  BY DEF StartPoller
<1> QED  BY <1>1, <1>2

LEMMA ReconcileType ==
  ASSUME TypeOK, Reconcile
  PROVE  TypeOK'
<1>1. seen.generation \in Nat /\ (seen.generation # 0 => seen.generation \in Versions)
  BY VersionsAreNumbers DEF TypeOK, Pipeline
<1>2. CASE ReconcileGone \/ ReconcileNoTrigger
  <2>1. table' = NoEntry /\ poller' = Cancelled(table)
    BY <1>2 DEF ReconcileGone, ReconcileNoTrigger, StopPoller
  <2>2. poller' \in [Pollers -> Goroutine]
    BY <2>1, CancelledType
  <2>3. pipeline' \in Pipeline
    BY <1>2 DEF ReconcileGone, ReconcileNoTrigger, SetActive, TypeOK, Pipeline
  <2>4. table' \in [generation : Nat, id : Pollers \cup {None}]
    BY <2>1 DEF NoEntry
  <2> QED  BY <2>2, <2>3, <2>4 DEF Reconcile, TypeOK, Goroutine
<1>3. CASE ReconcileTrigger
  <2>1. pipeline' \in Pipeline
    BY <1>3 DEF ReconcileTrigger, SetActive, TypeOK, Pipeline
  <2>2. /\ poller' \in [Pollers -> Goroutine]
        /\ table' \in [generation : Nat, id : Pollers \cup {None}]
    <3>1. CASE UNCHANGED <<table, poller>>
      BY <3>1 DEF TypeOK, Goroutine
    <3>2. CASE StartPoller(Cancelled(table))
      <4>1. PICK p \in Pollers :
              /\ poller' = [Cancelled(table) EXCEPT ![p] = Started(seen.generation)]
              /\ table' = [generation |-> seen.generation, id |-> p]
        BY <3>2, StartStep
      <4>2. Started(seen.generation) \in Goroutine
        BY <1>1, <1>3, StartedType DEF ReconcileTrigger
      <4> QED  BY <4>1, <4>2, <1>1, CancelledType
    <3> QED  BY <1>3, <3>1, <3>2 DEF ReconcileTrigger, EnsurePoller
  <2> QED  BY <2>1, <2>2 DEF Reconcile, TypeOK, Goroutine
<1> QED  BY <1>2, <1>3 DEF Reconcile

\* What a goroutine does to itself.
LEMMA GoroutineStep ==
  ASSUME NEW g \in Goroutine, NEW t \in SUBSET Issues, NEW k \in Issues \cup {Sched},
         NEW pc \in {"idle", "poll", "next", "history", "create", "wait", "exit"}
  PROVE  /\ [g EXCEPT !.pc = pc] \in Goroutine
         /\ [g EXCEPT !.pc = pc, !.todo = t] \in Goroutine
         /\ [g EXCEPT !.pc = pc, !.key = k] \in Goroutine
         /\ [g EXCEPT !.todo = t, !.key = k, !.pc = pc] \in Goroutine
BY DEF Goroutine

\* The poller goroutine.
LEMMA PollType ==
  ASSUME TypeOK, NEW p \in Pollers, Poll(p)
  PROVE  TypeOK'
<1>1. poller \in [Pollers -> Goroutine]
  BY DEF TypeOK, Goroutine
<1>2. CASE Exit(p)
  BY <1>1, <1>2, IdleType DEF Exit, TypeOK, cluster, Goroutine
<1> DEFINE g == poller[p]
<1>a. g \in Goroutine /\ g.key \in Issues \cup {Sched} /\ g.todo \in SUBSET Issues
  BY <1>1 DEF Goroutine
<1>b. ASSUME NEW h \in Goroutine, poller' = [poller EXCEPT ![p] = h],
             UNCHANGED <<cluster, table, history, req, claimed, crashes>>
      PROVE  TypeOK'
  <2>1. poller' \in [Pollers -> Goroutine]
    BY <1>1, <1>b
  <2> QED  BY <1>b, <2>1 DEF TypeOK, Goroutine, cluster
<1>3. CASE Fetch(p)
  <2>1. poller' = [poller EXCEPT ![p] = [g EXCEPT !.pc = "next", !.todo = Issues]]
    BY <1>1, <1>3 DEF Fetch
  <2> QED  BY <1>3, <1>a, <1>b, <2>1, GoroutineStep DEF Fetch
<1>4. CASE FetchFails(p)
  BY <1>1, <1>4, <1>a, <1>b, GoroutineStep DEF FetchFails, Goto
<1>5. CASE NextIssue(p)
  <2>1. PICK i \in g.todo :
          poller' = [poller EXCEPT ![p] = [g EXCEPT !.todo = g.todo \ {i},
                                                    !.key = IF Exists(i) THEN g.key ELSE i,
                                                    !.pc = IF Exists(i) THEN "next" ELSE "history"]]
    BY <1>1, <1>5 DEF NextIssue
  <2>2. [g EXCEPT !.todo = g.todo \ {i}, !.key = IF Exists(i) THEN g.key ELSE i,
                  !.pc = IF Exists(i) THEN "next" ELSE "history"] \in Goroutine
    BY <1>a, GoroutineStep
  <2> QED  BY <1>5, <1>b, <2>1, <2>2 DEF NextIssue
<1>6. CASE PollDone(p)
  BY <1>1, <1>6, <1>a, <1>b, GoroutineStep DEF PollDone, Goto
<1>c. [g EXCEPT !.pc = IF g.key = Sched THEN "wait" ELSE "next", !.key = Sched] \in Goroutine
  BY <1>a, GoroutineStep
<1>d. ASSUME Return(p)
      PROVE  poller' = [poller EXCEPT ![p] =
                          [g EXCEPT !.pc = IF g.key = Sched THEN "wait" ELSE "next", !.key = Sched]]
  BY <1>1, <1>d DEF Return
<1>7. CASE CheckHistory(p)
  <2>1. CASE g.key \in history
    BY <1>7, <1>b, <1>c, <1>d, <2>1 DEF CheckHistory
  <2>2. CASE g.key \notin history
    BY <1>1, <1>7, <1>a, <1>b, <2>2, GoroutineStep DEF CheckHistory, Goto
  <2> QED  BY <2>1, <2>2
<1>8. CASE CreateRun(p)
  <2>1. poller[p].key \in Keys
    BY DEF TypeOK, Keys
  <2>2. runs' \in [Runs -> RunRecord]
    BY <1>8, <2>1, NewRunType, CreateType DEF CreateRun
  <2>3. poller' \in [Pollers -> Goroutine]
    BY <1>1, <1>8, <1>c, <1>d DEF CreateRun
  <2> QED  BY <1>8, <2>1, <2>2, <2>3 DEF CreateRun, TypeOK, Goroutine
<1>9. CASE CreateFails(p)
  BY <1>9, <1>b, <1>c, <1>d DEF CreateFails
<1>10. CASE Tick(p)
  <2>1. CASE poller' = [poller EXCEPT ![p].pc = "create", ![p].key = Sched]
    BY <1>1, <1>10, <1>a, <1>b, <2>1, GoroutineStep DEF Tick
  <2>2. CASE Goto(p, "poll")
    BY <1>1, <1>10, <1>a, <1>b, <2>2, GoroutineStep DEF Tick, Goto
  <2> QED  BY <1>10, <2>1, <2>2 DEF Tick
<1> QED  BY <1>2, <1>3, <1>4, <1>5, <1>6, <1>7, <1>8, <1>9, <1>10 DEF Poll

\* The runs.
LEMMA RunType ==
  ASSUME TypeOK, NEW r \in Runs, RunStep(r)
  PROVE  TypeOK'
<1>1. runs[r] \in RunRecord /\ cached[r] \in RunRecord
  BY DEF TypeOK
<1>2. CASE RunEnds(r)
  BY <1>1, <1>2 DEF RunEnds, Ended, Release, TypeOK, RunRecord
<1>3. CASE RecordCompletion(r)
  BY <1>1, <1>3 DEF RecordCompletion, TypeOK, cluster
<1>4. CASE RemoveRun(r)
  BY <1>1, <1>4, NoRunType DEF RemoveRun, Lost, Release, TypeOK
<1>5. CASE CollectRun(r)
  BY <1>1, <1>5, NoRunType DEF CollectRun, Lost, Release, TypeOK
<1>6. CASE SyncRun(r)
  BY <1>1, <1>6 DEF SyncRun, TypeOK
<1> QED  BY <1>2, <1>3, <1>4, <1>5, <1>6 DEF RunStep

\* The requests.
LEMMA StepType ==
  ASSUME TypeOK, NEW q \in Requests, NEW from, NEW to \in {"new", "mark", "forget", "retry", "done"},
         NEW key \in Keys, Step(q, from, to, key)
  PROVE  req' \in [Requests -> [pc : {"new", "mark", "forget", "retry", "done"}, key : Keys]]
BY DEF Step, TypeOK

LEMMA DashboardType ==
  ASSUME TypeOK, NEW q \in Requests, Dashboard(q)
  PROVE  TypeOK'
<1>1. Sched \in Keys /\ Spot \in Keys /\ Issues \subseteq Keys /\ req[q].key \in Keys
  BY DEF Keys, TypeOK
<1>2. CASE SkipCreate(q)
  <2>1. PICK i \in Issues : Step(q, "new", "mark", i) /\ Create(NewRun(i, TRUE, None))
    BY <1>2 DEF SkipCreate
  <2>2. runs' \in [Runs -> RunRecord]
    BY <1>1, <2>1, NewRunType, CreateType
  <2>3. req' \in [Requests -> [pc : {"new", "mark", "forget", "retry", "done"}, key : Keys]]
    BY <1>1, <2>1, StepType
  <2> QED  BY <1>2, <2>2, <2>3 DEF SkipCreate, TypeOK
<1>3. CASE StopRun(q)
  <2>1. PICK r \in Runs :
          /\ Step(q, "new", "mark", runs[r].key)
          /\ runs' = [runs EXCEPT ![r].phase = "ended"]
          /\ Ended(runs[r].key)
    BY <1>3 DEF StopRun
  <2>2. runs[r] \in RunRecord
    BY DEF TypeOK
  <2>3. runs' \in [Runs -> RunRecord] /\ runs[r].key \in Keys
    BY <2>1, <2>2 DEF TypeOK, RunRecord
  <2>4. req' \in [Requests -> [pc : {"new", "mark", "forget", "retry", "done"}, key : Keys]]
    BY <2>1, <2>3, StepType
  <2> QED  BY <1>3, <2>1, <2>3, <2>4 DEF StopRun, Ended, Release, TypeOK
<1>4. CASE MarkCompleted(q)
  <2>1. req' \in [Requests -> [pc : {"new", "mark", "forget", "retry", "done"}, key : Keys]]
    BY <1>1, <1>4, StepType DEF MarkCompleted
  <2> QED  BY <1>4, <2>1 DEF MarkCompleted, TypeOK, cluster
<1>5. CASE ClearRuns(q)
  <2>1. PICK i \in Issues :
          /\ Step(q, "new", "forget", i)
          /\ runs' = [r \in Runs |-> IF runs[r].key = i /\ runs[r].skipped THEN NoRun
                                     ELSE runs[r]]
          /\ Release(i)
    BY <1>5 DEF ClearRuns
  <2>2. runs' \in [Runs -> RunRecord]
    BY <2>1, NoRunType DEF TypeOK
  <2>3. req' \in [Requests -> [pc : {"new", "mark", "forget", "retry", "done"}, key : Keys]]
    BY <1>1, <2>1, StepType
  <2> QED  BY <1>5, <2>1, <2>2, <2>3 DEF ClearRuns, Release, TypeOK
<1>6. CASE ClearRecord(q)
  <2>1. req' \in [Requests -> [pc : {"new", "mark", "forget", "retry", "done"}, key : Keys]]
    BY <1>1, <1>6, StepType DEF ClearRecord
  <2> QED  BY <1>6, <2>1 DEF ClearRecord, Release, TypeOK, cluster
<1>7. CASE RetryClear(q)
  <2>1. PICK r \in Runs :
          /\ Step(q, "new", "retry", RetryLabel(runs[r].key))
          /\ history' = history \ {runs[r].key}
          /\ Release(RetryLabel(runs[r].key))
    BY <1>7 DEF RetryClear
  <2>2. RetryLabel(runs[r].key) \in Keys
    BY <1>1 DEF TypeOK, RunRecord, RetryLabel
  <2>3. req' \in [Requests -> [pc : {"new", "mark", "forget", "retry", "done"}, key : Keys]]
    BY <2>1, <2>2, StepType
  <2> QED  BY <1>7, <2>1, <2>3 DEF RetryClear, Release, TypeOK, cluster
<1>8. CASE RetryCreate(q)
  <2>1. req' \in [Requests -> [pc : {"new", "mark", "forget", "retry", "done"}, key : Keys]]
    BY <1>1, <1>8, StepType DEF RetryCreate
  <2>2. runs' \in [Runs -> RunRecord]
    BY <1>1, <1>8, NewRunType, CreateType DEF RetryCreate
  <2> QED  BY <1>8, <2>1, <2>2 DEF RetryCreate, TypeOK
<1>9. CASE DeleteRun(q)
  <2>1. PICK r \in Runs :
          /\ Step(q, "new", "done", Sched)
          /\ runs' = [runs EXCEPT ![r].phase = "deleting"]
    BY <1>9 DEF DeleteRun
  <2>2. runs' \in [Runs -> RunRecord]
    <3>1. runs[r] \in RunRecord /\ runs \in [Runs -> RunRecord]
      BY DEF TypeOK
    <3>2. [runs[r] EXCEPT !.phase = "deleting"] \in RunRecord
      BY <3>1 DEF RunRecord
    <3> QED  BY <2>1, <3>1, <3>2
  <2>3. req' \in [Requests -> [pc : {"new", "mark", "forget", "retry", "done"}, key : Keys]]
    BY <1>1, <2>1, StepType
  <2> QED  BY <1>9, <2>2, <2>3 DEF DeleteRun, TypeOK
<1> QED
  BY <1>2, <1>3, <1>4, <1>5, <1>6, <1>7, <1>8, <1>9 DEF Dashboard

LEMMA TypeInit == Init => TypeOK
<1> SUFFICES ASSUME Init PROVE TypeOK
  OBVIOUS
<1>1. pipeline \in Pipeline /\ seen \in Pipeline
  BY VersionsAreNumbers DEF Init, Pipeline
<1>2. poller \in [Pollers -> Goroutine]
  BY IdleType DEF Init
<1>3. runs \in [Runs -> RunRecord] /\ cached \in [Runs -> RunRecord]
  BY NoRunType DEF Init
<1> QED  BY <1>1, <1>2, <1>3 DEF Init, TypeOK, NoEntry, NewRequest, Keys, Goroutine

LEMMA TypeNext == TypeOK /\ [Next]_vars => TypeOK'
<1> SUFFICES ASSUME TypeOK, [Next]_vars
             PROVE  TypeOK'
  OBVIOUS
<1>1. CASE UNCHANGED vars
  BY <1>1 DEF vars, TypeOK
<1>2. CASE UpdatePipeline
  BY <1>2, VersionsAreNumbers DEF UpdatePipeline, TypeOK, Pipeline
<1>3. CASE DeletePipeline
  BY <1>3, VersionsAreNumbers DEF DeletePipeline, TypeOK, Pipeline
<1>4. CASE SyncPipeline
  BY <1>4 DEF SyncPipeline, TypeOK
<1>5. CASE Restart
  <2>1. poller' \in [Pollers -> Goroutine]
    BY <1>5, IdleType DEF Restart
  <2> QED  BY <1>5, <2>1 DEF Restart, TypeOK, NoEntry, Goroutine
<1> QED
  BY <1>1, <1>2, <1>3, <1>4, <1>5, ReconcileType, PollType, RunType, DashboardType DEF Next

-----------------------------------------------------------------------------
(* The table.                                                              *)

\* A goroutine writes to its own state only and never comes alive by itself.
LEMMA PollerStep ==
  ASSUME poller \in [Pollers -> Goroutine], NEW p \in Pollers, Poll(p)
  PROVE  \E h : poller' = [poller EXCEPT ![p] = h] /\ (h.live => poller[p].live)
<1> DEFINE g == poller[p]
<1>1. g \in Goroutine
  OBVIOUS
<1>2. ASSUME NEW pc PROVE [g EXCEPT !.pc = pc].live = g.live
  BY <1>1 DEF Goroutine
<1>3. ASSUME NEW pc, NEW k PROVE [g EXCEPT !.pc = pc, !.key = k].live = g.live
  BY <1>1 DEF Goroutine
<1>4. CASE Exit(p)
  <2>1. poller' = [poller EXCEPT ![p] = Idle]
    BY <1>4 DEF Exit
  <2>2. ~ Idle.live
    BY DEF Idle
  <2> QED  BY <2>1, <2>2
<1>5. CASE Fetch(p)
  <2>1. poller' = [poller EXCEPT ![p] = [g EXCEPT !.pc = "next", !.todo = Issues]]
    BY <1>5 DEF Fetch
  <2>2. [g EXCEPT !.pc = "next", !.todo = Issues].live = g.live
    BY <1>1 DEF Goroutine
  <2> QED  BY <2>1, <2>2
<1>6. CASE \E pc : Goto(p, pc)
  <2>1. PICK pc : poller' = [poller EXCEPT ![p] = [g EXCEPT !.pc = pc]]
    BY <1>6 DEF Goto
  <2> QED  BY <1>2, <2>1
<1>7. CASE NextIssue(p)
  <2>1. PICK i \in g.todo :
          poller' = [poller EXCEPT ![p] = [g EXCEPT !.todo = g.todo \ {i},
                                                    !.key = IF Exists(i) THEN g.key ELSE i,
                                                    !.pc = IF Exists(i) THEN "next" ELSE "history"]]
    BY <1>7 DEF NextIssue
  <2>2. [g EXCEPT !.todo = g.todo \ {i}, !.key = IF Exists(i) THEN g.key ELSE i,
                  !.pc = IF Exists(i) THEN "next" ELSE "history"].live = g.live
    BY <1>1 DEF Goroutine
  <2> QED  BY <2>1, <2>2
<1>8. CASE Return(p)
  <2>1. poller' = [poller EXCEPT ![p] =
                     [g EXCEPT !.pc = IF g.key = Sched THEN "wait" ELSE "next", !.key = Sched]]
    BY <1>8 DEF Return
  <2> QED  BY <1>3, <2>1
<1>9. CASE poller' = [poller EXCEPT ![p].pc = "create", ![p].key = Sched]
  <2>1. poller' = [poller EXCEPT ![p] = [g EXCEPT !.pc = "create", !.key = Sched]]
    BY <1>9
  <2> QED  BY <1>3, <2>1
<1> QED
  BY <1>4, <1>5, <1>6, <1>7, <1>8, <1>9
     DEF Poll, FetchFails, PollDone, CheckHistory, CreateRun, CreateFails, Tick

\* NoStrayPoller: an entry is cancelled before it is replaced or removed, and a
\* goroutine never comes alive again by itself.
LEMMA StrayNext == TypeOK /\ NoStrayPoller /\ [Next]_vars => NoStrayPoller'
<1> SUFFICES ASSUME TypeOK, NoStrayPoller, [Next]_vars
             PROVE  NoStrayPoller'
  OBVIOUS
<1>1. CASE UNCHANGED <<table, poller>>
  BY <1>1 DEF NoStrayPoller
<1>2. CASE Reconcile
  <2>1. \A p \in Pollers : ~Cancelled(table)[p].live
    BY DEF TypeOK, NoStrayPoller, Cancelled
  <2>2. CASE poller' = Cancelled(table)
    BY <2>1, <2>2 DEF NoStrayPoller
  <2>3. CASE StartPoller(Cancelled(table))
    <3>1. PICK p \in Pollers :
            /\ poller' = [Cancelled(table) EXCEPT ![p] = Started(seen.generation)]
            /\ table' = [generation |-> seen.generation, id |-> p]
      BY <2>3, StartStep
    <3>2. \A o \in Pollers \ {p} : poller'[o] = Cancelled(table)[o]
      BY <3>1 DEF Cancelled
    <3> QED  BY <2>1, <3>1, <3>2 DEF NoStrayPoller
  <2> QED
    BY <1>1, <1>2, <2>2, <2>3
       DEF Reconcile, ReconcileGone, ReconcileNoTrigger, ReconcileTrigger, StopPoller, EnsurePoller
<1>3. CASE Restart
  BY <1>3 DEF Restart, Idle, NoStrayPoller
<1>4. ASSUME NEW p \in Pollers, Poll(p)
      PROVE  NoStrayPoller'
  <2>1. UNCHANGED table
    BY <1>4 DEF Poll, Exit, Fetch, FetchFails, NextIssue, PollDone, CheckHistory, CreateRun,
                CreateFails, Tick
  <2>2. poller \in [Pollers -> Goroutine]
    BY DEF TypeOK, Goroutine
  <2>3. \E h : poller' = [poller EXCEPT ![p] = h] /\ (h.live => poller[p].live)
    BY <1>4, <2>2, PollerStep
  <2> QED  BY <2>1, <2>2, <2>3 DEF NoStrayPoller
<1>5. ASSUME NEW r \in Runs, RunStep(r)
      PROVE  NoStrayPoller'
  BY <1>1, <1>5 DEF RunStep, RunEnds, RecordCompletion, RemoveRun, CollectRun, SyncRun
<1>6. ASSUME NEW q \in Requests, Dashboard(q)
      PROVE  NoStrayPoller'
  BY <1>1, <1>6 DEF Dashboard, SkipCreate, StopRun, MarkCompleted, ClearRuns, ClearRecord,
                    RetryClear, RetryCreate, DeleteRun
<1>7. CASE UNCHANGED vars \/ UpdatePipeline \/ DeletePipeline \/ SyncPipeline
  BY <1>1, <1>7 DEF vars, UpdatePipeline, DeletePipeline, SyncPipeline
<1> QED  BY <1>2, <1>3, <1>4, <1>5, <1>6, <1>7 DEF Next

-----------------------------------------------------------------------------
(* One run for an issue.                                                    *)

UnderWay == {"active", "deleting"}

\* A record without a phase is no record.
Present(records) == \A r \in Runs : records[r].phase = "none" => records[r] = NoRun

\* A run and its copy in the informer are of one object.
SameObject ==
  \A r \in Runs : runs[r] # NoRun /\ cached[r] # NoRun => cached[r].key = runs[r].key

\* The issue has a run that the operator can see.
Visible(i) ==
  \E r \in Runs : /\ runs[r] # NoRun /\ runs[r].key = i
                  /\ cached[r] # NoRun /\ cached[r].key = i

\* A run that p created is there; that of a schedule has not ended.
Made(p, k) ==
  \E r \in Runs : /\ runs[r] # NoRun /\ runs[r].key = k /\ runs[r].by = p
                  /\ k = Sched => runs[r].phase \in UnderWay /\ cached[r].phase # "ended"

\* What a poller has claimed has its run still, or its entry in the history.
ClaimsHold ==
  \A p \in Pollers, k \in Keys :
    <<p, k>> \in claimed => /\ poller[p].pc # "idle"
                            /\ k \in history \/ Made(p, k)

\* The issues that a goroutine may still take up before its next tick.
Pending(p) ==
  CASE poller[p].pc = "poll" -> Issues
    [] poller[p].pc = "next" -> poller[p].todo
    [] poller[p].pc \in {"history", "create"} /\ poller[p].key # Sched -> poller[p].todo
    [] OTHER -> {}

\* Of those, the ones it has claimed cannot pass both layers.
Blocked(p) ==
  \A i \in Pending(p) : <<p, i>> \in claimed => i \in history \/ Visible(i)

\* What the layers have shown of the key under consideration.
KeyLooked(p) ==
  /\ poller[p].pc \in {"history", "create"} => poller[p].key \notin poller[p].todo
  /\ poller[p].pc = "history" /\ <<p, poller[p].key>> \in claimed => poller[p].key \in history
  /\ poller[p].pc = "create" => <<p, poller[p].key>> \notin claimed

Inv ==
  /\ Present(runs) /\ Present(cached)
  /\ SameObject
  /\ ClaimsHold
  /\ \A p \in Pollers : Blocked(p) /\ KeyLooked(p)

\* A step that leaves goroutines and informer alone keeps the invariant if a run
\* is replaced by none but a new one, a run that goes (or ends, for a schedule)
\* releases its key unless it is recorded, and so does an entry that is cleared.
LEMMA ServerStep ==
  ASSUME TypeOK, Inv, UNCHANGED <<poller, cached>>, claimed' \subseteq claimed,
         Present(runs)',
         \A r \in Runs : runs'[r] # NoRun =>
           \/ runs[r] # NoRun /\ runs'[r].key = runs[r].key /\ runs'[r].by = runs[r].by
           \/ runs[r] = NoRun /\ cached[r] = NoRun,
         \A r \in Runs : runs[r] # NoRun =>
           \/ /\ runs'[r] # NoRun
              /\ runs[r].key = Sched /\ runs[r].phase \in UnderWay => runs'[r].phase \in UnderWay
           \/ \A p \in Pollers : <<p, runs[r].key>> \in claimed' => runs[r].key \in history',
         \A p \in Pollers, k \in history : <<p, k>> \in claimed' => k \in history'
  PROVE  Inv'
<1>1. SameObject'
  BY DEF Inv, SameObject
<1>2. ClaimsHold'
  <2>1. ASSUME NEW p \in Pollers, NEW k \in Keys, <<p, k>> \in claimed'
        PROVE  poller'[p].pc # "idle" /\ (k \in history' \/ Made(p, k)')
    <3>1. poller[p].pc # "idle" /\ (k \in history \/ Made(p, k))
      BY <2>1 DEF Inv, ClaimsHold
    <3>2. CASE k \in history
      BY <2>1, <3>1, <3>2
    <3>3. CASE Made(p, k)
      BY <2>1, <3>1, <3>3 DEF Made
    <3> QED  BY <3>1, <3>2, <3>3
  <2> QED  BY <2>1 DEF ClaimsHold
<1>3. ASSUME NEW p \in Pollers
      PROVE  Blocked(p)'
  <2>1. Pending(p)' = Pending(p) /\ Pending(p) \subseteq Issues
    BY DEF Pending, TypeOK
  <2> SUFFICES ASSUME NEW i \in Pending(p), <<p, i>> \in claimed', i \notin history'
               PROVE  Visible(i)'
    BY <2>1 DEF Blocked
  <2>2. Visible(i)
    BY <1>3 DEF Inv, Blocked
  <2> QED  BY <1>3, <2>2 DEF Visible
<1>4. ASSUME NEW p \in Pollers
      PROVE  KeyLooked(p)'
  BY <1>4 DEF Inv, KeyLooked
<1>5. Present(cached)'
  BY DEF Inv, Present
<1> QED  BY <1>1, <1>2, <1>3, <1>4, <1>5 DEF Inv

\* A step of goroutines keeps it if each goroutine that moves is blocked from what
\* it has claimed at the place it moves to.
LEMMA GoroutinesStep ==
  ASSUME Inv, UNCHANGED <<runs, cached, history>>, claimed' \subseteq claimed,
         \A p \in Pollers :
           \/ /\ poller'[p].pc = poller[p].pc
              /\ poller'[p].todo = poller[p].todo
              /\ poller'[p].key = poller[p].key
           \/ /\ poller'[p].pc = "idle" => \A k \in Keys : <<p, k>> \notin claimed'
              /\ Blocked(p)' /\ KeyLooked(p)'
  PROVE  Inv'
<1>1. Present(runs)' /\ Present(cached)' /\ SameObject'
  BY DEF Inv, Present, SameObject
<1>2. \A i : Visible(i)' = Visible(i)
  BY DEF Visible
<1>3. \A p, k : Made(p, k)' = Made(p, k)
  BY DEF Made
<1>4. ClaimsHold'
  BY <1>3 DEF Inv, ClaimsHold
<1>5. ASSUME NEW p \in Pollers
      PROVE  Blocked(p)' /\ KeyLooked(p)'
  <2> SUFFICES ASSUME poller'[p].pc = poller[p].pc, poller'[p].todo = poller[p].todo,
                      poller'[p].key = poller[p].key
               PROVE  Blocked(p)' /\ KeyLooked(p)'
    BY <1>5
  <2>1. Pending(p)' = Pending(p)
    BY DEF Pending
  <2>2. Blocked(p)'
    BY <1>2, <1>5, <2>1 DEF Inv, Blocked
  <2> QED  BY <1>5, <2>2 DEF Inv, KeyLooked
<1> QED  BY <1>1, <1>4, <1>5 DEF Inv

\* What is released is claimed by nobody.
LEMMA ReleaseStep ==
  ASSUME NEW key, Release(key)
  PROVE  claimed' \subseteq claimed /\ \A p \in Pollers : <<p, key>> \notin claimed'
BY DEF Release

\* Reconcile starts only a goroutine that has claimed nothing.
LEMMA ReconcileInv ==
  ASSUME TypeOK, Inv, Reconcile
  PROVE  Inv'
<1>1. UNCHANGED <<runs, cached, history, claimed>>
  BY DEF Reconcile
<1>2. poller \in [Pollers -> Goroutine]
  BY DEF TypeOK, Goroutine
<1>3. \A p \in Pollers : LET g == Cancelled(table)[p] IN
        g.pc = poller[p].pc /\ g.todo = poller[p].todo /\ g.key = poller[p].key
  BY <1>2 DEF Cancelled, Goroutine
<1>4. CASE UNCHANGED poller
  BY <1>1, <1>4, GoroutinesStep
<1>5. CASE poller' = Cancelled(table)
  BY <1>1, <1>3, <1>5, GoroutinesStep
<1>6. CASE StartPoller(Cancelled(table))
  <2>1. PICK p \in Pollers :
          /\ poller[p].pc = "idle"
          /\ poller' = [Cancelled(table) EXCEPT ![p] = Started(seen.generation)]
    BY <1>6, StartStep
  <2>2. poller'[p] = Started(seen.generation)
    BY <2>1 DEF Cancelled
  <2>3. \A o \in Pollers \ {p} : poller'[o] = Cancelled(table)[o]
    BY <2>1 DEF Cancelled
  <2>4. \A k \in Keys : <<p, k>> \notin claimed'
    BY <1>1, <2>1 DEF Inv, ClaimsHold
  <2>5. poller'[p].pc \in {"poll", "wait", "exit"}
    BY <2>2 DEF Started
  <2>6. KeyLooked(p)'
    BY <2>5 DEF KeyLooked
  <2>7. Pending(p)' \subseteq Keys
    BY <2>5 DEF Pending, Keys
  <2>8. Blocked(p)'
    BY <2>4, <2>7 DEF Blocked
  <2> QED  BY <1>1, <1>3, <2>3, <2>5, <2>6, <2>8, GoroutinesStep
<1> QED
  BY <1>4, <1>5, <1>6
     DEF Reconcile, ReconcileGone, ReconcileNoTrigger, ReconcileTrigger, StopPoller, EnsurePoller

\* A poller that does not create a run: each look finds what it looks for.
LEMMA LookInv ==
  ASSUME TypeOK, Inv, PromptCache, NEW p \in Pollers, Poll(p), ~ CreateRun(p)
  PROVE  Inv'
<1> DEFINE g == poller[p]
<1>1. /\ poller \in [Pollers -> Goroutine] /\ g \in Goroutine
      /\ g.todo \subseteq Issues /\ g.key \in Issues \cup {Sched}
  BY DEF TypeOK, Goroutine
<1>2. UNCHANGED <<runs, cached, history>> /\ claimed' \subseteq claimed
  BY DEF Poll, Exit, Fetch, FetchFails, NextIssue, PollDone, CheckHistory, CreateFails, Tick, cluster
<1>3. \A i : Visible(i)' = Visible(i)
  BY <1>2 DEF Visible
<1>3a. \A o \in Pollers \ {p} : poller'[o] = poller[o]
  BY <1>1, PollerStep
<1>4. ASSUME poller'[p].pc # "idle", Blocked(p)', KeyLooked(p)'
      PROVE  Inv'
  BY <1>2, <1>3a, <1>4, GoroutinesStep
<1>5. Blocked(p) /\ KeyLooked(p)
  BY DEF Inv
<1>6. ASSUME poller'[p].pc \in {"wait", "exit"}
      PROVE  Inv'
  <2>1. Pending(p)' = {}
    BY <1>6 DEF Pending
  <2>2. Blocked(p)' /\ KeyLooked(p)'
    BY <1>6, <2>1 DEF Blocked, KeyLooked
  <2> QED  BY <1>4, <1>6, <2>2
<1>7. CASE Exit(p)
  <2>1. poller'[p] = Idle /\ Idle.pc = "idle"
    BY <1>1, <1>7 DEF Exit, Idle
  <2>2. Blocked(p)' /\ KeyLooked(p)'
    BY <2>1 DEF Blocked, KeyLooked, Pending
  <2>3. \A k \in Keys : <<p, k>> \notin claimed'
    BY <1>7 DEF Exit
  <2> QED  BY <1>2, <1>3a, <2>2, <2>3, GoroutinesStep
<1>8. CASE FetchFails(p) \/ PollDone(p)
  <2> DEFINE h == [g EXCEPT !.pc = "wait"]
  <2>1. poller'[p] = h /\ h.pc = "wait"
    BY <1>1, <1>8 DEF FetchFails, PollDone, Goto, Goroutine
  <2> HIDE DEF h
  <2> QED  BY <1>6, <2>1
<1>9. CASE Fetch(p)
  <2> DEFINE h == [g EXCEPT !.pc = "next", !.todo = Issues]
  <2>1. /\ poller'[p] = h
        /\ h.pc = "next" /\ h.todo = Issues
    BY <1>1, <1>9 DEF Fetch, Goroutine
  <2> HIDE DEF h
  <2>2. Pending(p) = Issues /\ Pending(p)' = Issues /\ claimed' = claimed
    BY <1>9, <2>1 DEF Fetch, Pending
  <2>3. Blocked(p)'
    BY <1>2, <1>3, <1>5, <2>2 DEF Blocked
  <2>4. KeyLooked(p)'
    BY <2>1 DEF KeyLooked
  <2> QED  BY <1>4, <2>1, <2>3, <2>4
<1>10. CASE NextIssue(p)
  <2>1. PICK i \in g.todo :
          poller' = [poller EXCEPT ![p] = [g EXCEPT !.todo = g.todo \ {i},
                                                    !.key = IF Exists(i) THEN g.key ELSE i,
                                                    !.pc = IF Exists(i) THEN "next" ELSE "history"]]
    BY <1>1, <1>10 DEF NextIssue
  <2> DEFINE h == [g EXCEPT !.todo = g.todo \ {i}, !.key = IF Exists(i) THEN g.key ELSE i,
                            !.pc = IF Exists(i) THEN "next" ELSE "history"]
  <2>2. /\ poller'[p] = h
        /\ h.todo = g.todo \ {i}
        /\ h.key = IF Exists(i) THEN g.key ELSE i
        /\ h.pc = IF Exists(i) THEN "next" ELSE "history"
    BY <1>1, <2>1 DEF Goroutine
  <2> HIDE DEF h
  <2>3. g.pc = "next" /\ claimed' = claimed
    BY <1>10 DEF NextIssue
  <2>4. Pending(p) = g.todo /\ Pending(p)' \subseteq g.todo \ {i}
    BY <1>1, <2>2, <2>3 DEF Pending
  <2>5. Blocked(p)'
    BY <1>2, <1>3, <1>5, <2>3, <2>4 DEF Blocked
  <2>6. CASE Exists(i)
    <3>1. KeyLooked(p)'
      BY <2>2, <2>6 DEF KeyLooked
    <3> QED  BY <1>4, <2>2, <2>5, <2>6, <3>1
  <2>7. CASE ~ Exists(i)
    <3>1. ~ Visible(i)
      <4>1. i # Sched
        BY <1>1, NameAssumption
      <4>2. ASSUME NEW r \in Runs, cached[r] # NoRun PROVE cached[r].phase # "none"
        BY <4>2 DEF Inv, Present
      <4> QED  BY <2>7, <4>1, <4>2 DEF Exists, Visible
    <3>2. <<p, i>> \in claimed' => i \in history'
      BY <1>2, <1>5, <2>3, <2>4, <3>1 DEF Blocked
    <3>3. KeyLooked(p)'
      BY <2>2, <2>7, <3>2 DEF KeyLooked
    <3> QED  BY <1>4, <2>2, <2>5, <2>7, <3>3
  <2> QED  BY <2>6, <2>7
<1>11. ASSUME Return(p), claimed' = claimed, g.pc \in {"history", "create"}
       PROVE  Inv'
  <2> DEFINE h == [g EXCEPT !.pc = IF g.key = Sched THEN "wait" ELSE "next", !.key = Sched]
  <2>1. /\ poller'[p] = h
        /\ h.todo = g.todo /\ h.pc = IF g.key = Sched THEN "wait" ELSE "next"
    BY <1>1, <1>11 DEF Return, Goroutine
  <2> HIDE DEF h
  <2>2. CASE g.key = Sched
    BY <1>6, <2>1, <2>2
  <2>3. CASE g.key # Sched
    <3>1. Pending(p) = g.todo /\ Pending(p)' = g.todo
      BY <1>11, <2>1, <2>3 DEF Pending
    <3>2. Blocked(p)'
      BY <1>2, <1>3, <1>5, <1>11, <3>1 DEF Blocked
    <3>3. KeyLooked(p)'
      BY <2>1, <2>3 DEF KeyLooked
    <3> QED  BY <1>4, <2>1, <2>3, <3>2, <3>3
  <2> QED  BY <2>2, <2>3
<1>12. CASE CheckHistory(p)
  <2>1. CASE g.key \in history
    BY <1>11, <1>12, <2>1 DEF CheckHistory
  <2>2. CASE g.key \notin history
    <3> DEFINE h == [g EXCEPT !.pc = "create"]
    <3>1. /\ poller'[p] = h
          /\ h.todo = g.todo /\ h.key = g.key /\ h.pc = "create"
      BY <1>1, <1>12, <2>2 DEF CheckHistory, Goto, Goroutine
    <3> HIDE DEF h
    <3>2. g.pc = "history" /\ claimed' = claimed
      BY <1>12 DEF CheckHistory
    <3>3. Pending(p)' = Pending(p)
      BY <3>1, <3>2 DEF Pending
    <3>4. Blocked(p)'
      BY <1>2, <1>3, <1>5, <3>2, <3>3 DEF Blocked
    <3>5. KeyLooked(p)'
      BY <1>5, <2>2, <3>1, <3>2 DEF KeyLooked
    <3> QED  BY <1>4, <3>1, <3>4, <3>5
  <2> QED  BY <2>1, <2>2
<1>13. CASE CreateFails(p)
  BY <1>11, <1>13 DEF CreateFails
<1>14. CASE Tick(p)
  <2>1. g.pc = "wait" /\ claimed' = claimed /\ \A r \in Runs : runs[r].by = p => cached[r] # NoRun
    BY <1>14 DEF Tick
  <2>2. \A r \in Runs : runs[r] # NoRun /\ runs[r].by = p => cached[r].key = runs[r].key
    BY <2>1 DEF Inv, SameObject
  <2>3. CASE Goto(p, "poll")
    <3> DEFINE h == [g EXCEPT !.pc = "poll"]
    <3>1. poller'[p] = h /\ h.pc = "poll"
      BY <1>1, <2>3 DEF Goto, Goroutine
    <3> HIDE DEF h
    <3>2. Pending(p)' = Issues
      BY <3>1 DEF Pending
    <3>3. ASSUME NEW i \in Issues, <<p, i>> \in claimed, i \notin history
          PROVE  Visible(i)
      <4>1. PICK r \in Runs : runs[r] # NoRun /\ runs[r].key = i /\ runs[r].by = p
        BY <3>3 DEF Inv, ClaimsHold, Made, Keys
      <4> QED  BY <2>1, <2>2, <4>1 DEF Visible
    <3>4. Blocked(p)'
      BY <1>2, <1>3, <2>1, <3>2, <3>3 DEF Blocked
    <3>5. KeyLooked(p)'
      BY <3>1 DEF KeyLooked
    <3> QED  BY <1>4, <3>1, <3>4, <3>5
  <2>4. CASE /\ ~ Exists(Sched)
             /\ poller' = [poller EXCEPT ![p].pc = "create", ![p].key = Sched]
    <3> DEFINE h == [g EXCEPT !.pc = "create", !.key = Sched]
    <3>1. /\ poller'[p] = h
          /\ h.pc = "create" /\ h.key = Sched /\ h.todo = g.todo
      BY <1>1, <2>4 DEF Goroutine
    <3> HIDE DEF h
    <3>2. Pending(p)' = {}
      BY <3>1 DEF Pending
    <3>3. <<p, Sched>> \notin claimed
      <4> SUFFICES ASSUME <<p, Sched>> \in claimed PROVE FALSE
        OBVIOUS
      <4>1. Sched \in Keys /\ Sched \notin history
        BY NameAssumption DEF Keys, TypeOK
      <4>2. PICK r \in Runs : /\ runs[r] # NoRun /\ runs[r].key = Sched /\ runs[r].by = p
                             /\ cached[r].phase # "ended"
        BY <4>1 DEF Inv, ClaimsHold, Made
      <4>3. cached[r].key = Sched /\ cached[r].phase # "none"
        BY <2>1, <2>2, <4>2 DEF Inv, Present
      <4> QED  BY <2>4, <4>2, <4>3 DEF Exists
    <3>4. Blocked(p)'
      BY <3>2 DEF Blocked
    <3>5. Sched \notin g.todo
      BY <1>1, NameAssumption
    <3>6. KeyLooked(p)'
      BY <2>1, <3>1, <3>3, <3>5 DEF KeyLooked
    <3> QED  BY <1>4, <3>1, <3>4, <3>6
  <2> QED  BY <1>14, <2>3, <2>4 DEF Tick
<1> QED
  BY <1>7, <1>8, <1>9, <1>10, <1>12, <1>13, <1>14 DEF Poll

\* The run that a poller creates is the one it claims.
LEMMA CreateRunInv ==
  ASSUME TypeOK, Inv, NEW p \in Pollers, CreateRun(p)
  PROVE  Inv'
<1> DEFINE key == poller[p].key
<1>1. /\ poller \in [Pollers -> Goroutine] /\ poller[p] \in Goroutine
      /\ poller[p].todo \subseteq Issues /\ key \in Keys
  BY DEF TypeOK, Goroutine, Keys
<1>2. /\ poller[p].pc = "create" /\ UNCHANGED <<cached, history>>
      /\ claimed' = claimed \cup {<<p, key>>}
  BY DEF CreateRun
<1>3. PICK r \in Runs : /\ runs[r] = NoRun /\ cached[r] = NoRun
                        /\ runs' = [runs EXCEPT ![r] = NewRun(key, FALSE, p)]
  BY CreateStep DEF CreateRun
<1>4. /\ runs'[r] = NewRun(key, FALSE, p)
      /\ \A o \in Runs \ {r} : runs'[o] = runs[o]
  BY <1>3 DEF TypeOK
<1>5. NewRun(key, FALSE, p).phase = "active" /\ NewRun(key, FALSE, p).key = key
      /\ NewRun(key, FALSE, p).by = p /\ NewRun(key, FALSE, p) # NoRun
      /\ NoRun.phase = "none"
  BY DEF NewRun, NoRun
<1>6. \A o \in Pollers \ {p} : poller'[o] = poller[o]
  BY <1>1 DEF CreateRun, Return
<1>7. /\ poller'[p].pc = IF key = Sched THEN "wait" ELSE "next"
      /\ poller'[p].todo = poller[p].todo
  BY <1>1 DEF CreateRun, Return, Goroutine
<1>8. Present(runs)' /\ Present(cached)'
  BY <1>2, <1>4, <1>5 DEF Inv, Present
<1>9. SameObject'
  BY <1>2, <1>3, <1>4 DEF Inv, SameObject
<1>10. ClaimsHold'
  <2> SUFFICES ASSUME NEW o \in Pollers, NEW k \in Keys, <<o, k>> \in claimed'
               PROVE  poller'[o].pc # "idle" /\ (k \in history' \/ Made(o, k)')
    BY DEF ClaimsHold
  <2>1. poller'[o].pc # "idle"
    BY <1>2, <1>6, <1>7 DEF Inv, ClaimsHold
  <2>2. CASE <<o, k>> \in claimed
    <3>1. CASE k \in history
      BY <1>2, <2>1, <3>1
    <3>2. CASE Made(o, k)
      <4>1. PICK x \in Runs : /\ runs[x] # NoRun /\ runs[x].key = k /\ runs[x].by = o
                              /\ k = Sched => /\ runs[x].phase \in UnderWay
                                              /\ cached[x].phase # "ended"
        BY <3>2 DEF Made
      <4>2. runs'[x] = runs[x] /\ cached'[x] = cached[x]
        BY <1>2, <1>3, <1>4, <4>1
      <4> QED  BY <2>1, <4>1, <4>2 DEF Made
    <3> QED  BY <2>2, <3>1, <3>2 DEF Inv, ClaimsHold
  <2>3. CASE o = p /\ k = key
    <3>1. /\ runs'[r] # NoRun /\ runs'[r].key = k /\ runs'[r].by = o
          /\ runs'[r].phase \in UnderWay /\ cached'[r].phase # "ended"
      BY <1>2, <1>3, <1>4, <1>5, <2>3 DEF UnderWay
    <3> QED  BY <2>1, <3>1 DEF Made
  <2> QED  BY <1>2, <2>2, <2>3
<1>11. ASSUME NEW i, Visible(i)
       PROVE  Visible(i)'
  <2>1. PICK x \in Runs : /\ runs[x] # NoRun /\ runs[x].key = i
                          /\ cached[x] # NoRun /\ cached[x].key = i
    BY <1>11 DEF Visible
  <2>2. runs'[x] = runs[x] /\ cached'[x] = cached[x]
    BY <1>2, <1>3, <1>4, <2>1
  <2> QED  BY <2>1, <2>2 DEF Visible
<1>12. ASSUME NEW o \in Pollers \ {p}
       PROVE  Blocked(o)' /\ KeyLooked(o)'
  <2>1. \A k : <<o, k>> \in claimed' <=> <<o, k>> \in claimed
    BY <1>2
  <2>2. Pending(o)' = Pending(o)
    BY <1>6 DEF Pending
  <2>3. Blocked(o)'
    BY <1>2, <1>11, <2>1, <2>2 DEF Inv, Blocked
  <2>4. KeyLooked(o)'
    BY <1>2, <1>6, <2>1 DEF Inv, KeyLooked
  <2> QED  BY <2>3, <2>4
<1>13. KeyLooked(p)'
  BY <1>7 DEF KeyLooked
<1>14. Blocked(p)'
  <2>1. CASE key = Sched
    <3>1. Pending(p)' = {}
      BY <1>7, <2>1 DEF Pending
    <3> QED  BY <3>1 DEF Blocked
  <2>2. CASE key # Sched
    <3>1. Pending(p) = poller[p].todo /\ Pending(p)' = poller[p].todo
      BY <1>2, <1>7, <2>2 DEF Pending
    <3>2. key \notin poller[p].todo
      BY <1>2 DEF Inv, KeyLooked
    <3>3. \A i \in Pending(p)' : <<p, i>> \in claimed' => <<p, i>> \in claimed
      BY <1>2, <3>1, <3>2
    <3>4. \A i \in Pending(p) : <<p, i>> \in claimed => i \in history \/ Visible(i)
      BY DEF Inv, Blocked
    <3> QED  BY <1>2, <1>11, <3>1, <3>3, <3>4 DEF Blocked
  <2> QED  BY <2>1, <2>2
<1> QED  BY <1>8, <1>9, <1>10, <1>12, <1>13, <1>14 DEF Inv

\* The informer shows what it did not, and nothing it showed becomes another run.
LEMMA SyncRunInv ==
  ASSUME TypeOK, Inv, NEW r \in Runs, SyncRun(r)
  PROVE  Inv'
<1>1. /\ UNCHANGED <<poller, runs, history, claimed>>
      /\ cached'[r] = runs[r]
      /\ \A o \in Runs \ {r} : cached'[o] = cached[o]
  BY DEF SyncRun, TypeOK
<1>2. Present(runs)' /\ Present(cached)' /\ SameObject'
  BY <1>1 DEF Inv, Present, SameObject
<1>3. ASSUME NEW p \in Pollers, NEW k \in Keys, Made(p, k)
      PROVE  Made(p, k)'
  <2>1. PICK x \in Runs : /\ runs[x] # NoRun /\ runs[x].key = k /\ runs[x].by = p
                          /\ k = Sched => /\ runs[x].phase \in UnderWay
                                          /\ cached[x].phase # "ended"
    BY <1>3 DEF Made
  <2>2. k = Sched => cached'[x].phase # "ended"
    BY <1>1, <2>1 DEF UnderWay
  <2> QED  BY <1>1, <2>1, <2>2 DEF Made
<1>4. ClaimsHold'
  BY <1>1, <1>3 DEF Inv, ClaimsHold
<1>5. ASSUME NEW i, Visible(i)
      PROVE  Visible(i)'
  <2>1. PICK x \in Runs : /\ runs[x] # NoRun /\ runs[x].key = i
                          /\ cached[x] # NoRun /\ cached[x].key = i
    BY <1>5 DEF Visible
  <2>2. cached'[x] # NoRun /\ cached'[x].key = i
    BY <1>1, <2>1
  <2> QED  BY <1>1, <2>1, <2>2 DEF Visible
<1>6. ASSUME NEW p \in Pollers
      PROVE  Blocked(p)' /\ KeyLooked(p)'
  <2>1. Pending(p)' = Pending(p)
    BY <1>1 DEF Pending
  <2>2. Blocked(p)'
    BY <1>1, <1>5, <2>1 DEF Inv, Blocked
  <2> QED  BY <1>1, <2>2 DEF Inv, KeyLooked
<1> QED  BY <1>2, <1>4, <1>6 DEF Inv

\* A run's phase is all that its controller, a stop and a deletion write.
LEMMA PhaseStep ==
  ASSUME TypeOK, Inv, NEW r \in Runs, runs[r].phase # "none",
         NEW phase \in {"active", "ended", "deleting"},
         runs' = [runs EXCEPT ![r].phase = phase],
         phase = "ended" => Ended(runs[r].key), phase # "ended" => claimed' = claimed,
         UNCHANGED <<poller, cached>>, history \subseteq history'
  PROVE  Inv'
<1>1. /\ runs[r] # NoRun
      /\ runs'[r].phase = phase /\ runs'[r].key = runs[r].key /\ runs'[r].by = runs[r].by
      /\ \A o \in Runs \ {r} : runs'[o] = runs[o]
  BY DEF TypeOK, RunRecord, NoRun
<1>2. runs'[r] # NoRun
  BY <1>1 DEF NoRun
<1>3. claimed' \subseteq claimed
  BY DEF Ended, Release
<1>4. Present(runs)'
  BY <1>1 DEF Inv, Present
<1>5. \/ runs[r].key = Sched /\ runs[r].phase \in UnderWay => runs'[r].phase \in UnderWay
      \/ \A p \in Pollers : <<p, runs[r].key>> \in claimed' => runs[r].key \in history'
  BY <1>1 DEF Ended, Release, UnderWay
<1> QED  BY <1>1, <1>2, <1>3, <1>4, <1>5, ServerStep

\* A new object replaces none.
LEMMA NewObjectStep ==
  ASSUME TypeOK, Inv, NEW run \in RunRecord, run.phase = "active", Create(run),
         UNCHANGED <<poller, cached, claimed, history>>
  PROVE  Inv'
<1>1. PICK r \in Runs : /\ runs[r] = NoRun /\ cached[r] = NoRun
                        /\ runs' = [runs EXCEPT ![r] = run]
  BY CreateStep
<1>2. runs'[r] = run /\ \A o \in Runs \ {r} : runs'[o] = runs[o]
  BY <1>1 DEF TypeOK
<1>3. Present(runs)'
  BY <1>2 DEF Inv, Present
<1> QED  BY <1>1, <1>2, <1>3, ServerStep

\* An object that goes releases its key unless it is recorded.
LEMMA RemovedStep ==
  ASSUME TypeOK, Inv, NEW r \in Runs, runs' = [runs EXCEPT ![r] = NoRun], Lost(runs[r].key),
         UNCHANGED <<poller, cached, history>>
  PROVE  Inv'
<1>1. runs'[r] = NoRun /\ \A o \in Runs \ {r} : runs'[o] = runs[o]
  BY DEF TypeOK
<1>2. claimed' \subseteq claimed
  BY DEF Lost, Release
<1>3. \A p \in Pollers : <<p, runs[r].key>> \in claimed' => runs[r].key \in history'
  BY DEF Lost, Release
<1>4. Present(runs)'
  BY <1>1 DEF Inv, Present
<1> QED  BY <1>1, <1>2, <1>3, <1>4, ServerStep

\* The history loses an entry only with the claims on it.
LEMMA HistoryStep ==
  ASSUME TypeOK, Inv, UNCHANGED <<runs, poller, cached>>, claimed' \subseteq claimed,
         \A p \in Pollers, k \in history : <<p, k>> \in claimed' => k \in history'
  PROVE  Inv'
<1>1. Present(runs)'
  BY DEF Inv, Present
<1> QED  BY <1>1, ServerStep

LEMMA RunInv ==
  ASSUME TypeOK, Inv, NEW r \in Runs, RunStep(r)
  PROVE  Inv'
<1>1. CASE RunEnds(r)
  BY <1>1, PhaseStep DEF RunEnds
<1>2. CASE RecordCompletion(r)
  BY <1>2, HistoryStep DEF RecordCompletion, cluster
<1>3. CASE RemoveRun(r)
  BY <1>3, RemovedStep DEF RemoveRun
<1>4. CASE CollectRun(r)
  BY <1>4, RemovedStep DEF CollectRun
<1>5. CASE SyncRun(r)
  BY <1>5, SyncRunInv
<1> QED  BY <1>1, <1>2, <1>3, <1>4, <1>5 DEF RunStep

LEMMA DashboardInv ==
  ASSUME TypeOK, Inv, NEW q \in Requests, Dashboard(q)
  PROVE  Inv'
<1>1. CASE SkipCreate(q)
  <2>1. PICK i \in Issues : Create(NewRun(i, TRUE, None))
    BY <1>1 DEF SkipCreate
  <2>2. NewRun(i, TRUE, None) \in RunRecord /\ NewRun(i, TRUE, None).phase = "active"
    BY NewRunType DEF NewRun, Keys
  <2> QED  BY <1>1, <2>1, <2>2, NewObjectStep DEF SkipCreate
<1>2. CASE StopRun(q)
  <2>1. PICK r \in Runs : /\ runs[r].phase \in UnderWay
                          /\ runs' = [runs EXCEPT ![r].phase = "ended"]
                          /\ Ended(runs[r].key)
    BY <1>2 DEF StopRun, UnderWay
  <2>2. runs[r].phase # "none"
    BY <2>1 DEF UnderWay
  <2> QED  BY <1>2, <2>1, <2>2, PhaseStep DEF StopRun
<1>3. CASE MarkCompleted(q)
  BY <1>3, HistoryStep DEF MarkCompleted, cluster
<1>4. CASE ClearRuns(q)
  <2>1. PICK i \in Issues :
          /\ runs' = [r \in Runs |-> IF runs[r].key = i /\ runs[r].skipped THEN NoRun
                                     ELSE runs[r]]
          /\ Release(i)
    BY <1>4 DEF ClearRuns
  <2>2. claimed' \subseteq claimed /\ \A p \in Pollers : <<p, i>> \notin claimed'
    BY <2>1, ReleaseStep
  <2>3. ASSUME NEW r \in Runs
        PROVE  runs'[r] = runs[r] \/ (runs'[r] = NoRun /\ runs[r].key = i)
    <3>1. runs'[r] = IF runs[r].key = i /\ runs[r].skipped THEN NoRun ELSE runs[r]
      BY <2>1
    <3> QED  BY <3>1
  <2>4. Present(runs)'
    BY <2>3 DEF Inv, Present
  <2> QED  BY <1>4, <2>2, <2>3, <2>4, ServerStep DEF ClearRuns
<1>5. CASE ClearRecord(q)
  BY <1>5, ReleaseStep, HistoryStep DEF ClearRecord, cluster
<1>6. CASE RetryClear(q)
  <2>1. PICK r \in Runs : /\ history' = history \ {runs[r].key}
                          /\ Release(RetryLabel(runs[r].key))
    BY <1>6 DEF RetryClear
  <2>2. /\ claimed' \subseteq claimed
        /\ \A p \in Pollers : <<p, RetryLabel(runs[r].key)>> \notin claimed'
    BY <2>1, ReleaseStep
  <2>3. Sched \notin history
    BY NameAssumption DEF TypeOK
  <2>4. \A p \in Pollers, k \in history : <<p, k>> \in claimed' => k \in history'
    BY <2>1, <2>2, <2>3 DEF RetryLabel
  <2> QED  BY <1>6, <2>2, <2>4, HistoryStep DEF RetryClear, cluster
<1>7. CASE RetryCreate(q)
  <2>1. req[q].key \in Keys
    BY DEF TypeOK
  <2>2. /\ NewRun(req[q].key, FALSE, None) \in RunRecord
        /\ NewRun(req[q].key, FALSE, None).phase = "active"
    BY <2>1, NewRunType DEF NewRun
  <2> QED  BY <1>7, <2>2, NewObjectStep DEF RetryCreate
<1>8. CASE DeleteRun(q)
  <2>1. PICK r \in Runs : /\ runs[r].phase \in {"active", "ended"}
                          /\ runs' = [runs EXCEPT ![r].phase = "deleting"]
    BY <1>8 DEF DeleteRun
  <2>2. runs[r].phase # "none"
    BY <2>1
  <2> QED  BY <1>8, <2>1, <2>2, PhaseStep DEF DeleteRun
<1> QED  BY <1>1, <1>2, <1>3, <1>4, <1>5, <1>6, <1>7, <1>8 DEF Dashboard

LEMMA InvInit == Init => Inv
BY DEF Init, Inv, Present, SameObject, ClaimsHold, Blocked, KeyLooked, Pending, Idle

LEMMA InvNext == PromptCache /\ TypeOK /\ Inv /\ [Next]_vars => Inv'
<1> SUFFICES ASSUME PromptCache, TypeOK, Inv, [Next]_vars
             PROVE  Inv'
  OBVIOUS
<1>1. CASE UNCHANGED vars \/ UpdatePipeline \/ DeletePipeline \/ SyncPipeline
  BY <1>1, HistoryStep DEF vars, UpdatePipeline, DeletePipeline, SyncPipeline
<1>2. CASE Restart
  <2>1. /\ cached' = runs /\ runs' = runs /\ claimed' = {}
        /\ \A p \in Pollers : poller'[p].pc = "idle"
    BY <1>2 DEF Restart, Idle
  <2>2. Present(runs)' /\ Present(cached)' /\ SameObject'
    BY <2>1 DEF Inv, Present, SameObject
  <2> QED  BY <2>1, <2>2 DEF Inv, ClaimsHold, Blocked, KeyLooked
<1>3. ASSUME NEW p \in Pollers, Poll(p)
      PROVE  Inv'
  BY <1>3, LookInv, CreateRunInv
<1> QED  BY <1>1, <1>2, <1>3, ReconcileInv, RunInv, DashboardInv DEF Next

\* Only the creation by p gives a run that p created.
LEMMA OneRunStep ==
  ASSUME TypeOK, Inv, [Next]_vars, NEW p \in Pollers, NEW k \in Keys, <<p, k>> \in claimed,
         NEW r \in Runs, runs[r] = NoRun
  PROVE  ~ (runs'[r].by = p /\ runs'[r].key = k)
<1>0. NoRun.by # p /\ None # p /\ NoRun.phase = "none"
  BY NameAssumption DEF NoRun
<1>1. CASE UNCHANGED runs
  BY <1>0, <1>1
<1>2. ASSUME NEW o \in Pollers, CreateRun(o)
      PROVE  ~ (runs'[r].by = p /\ runs'[r].key = k)
  <2>1. PICK x \in Runs : runs' = [runs EXCEPT ![x] = NewRun(poller[o].key, FALSE, o)]
    BY <1>2, CreateStep DEF CreateRun
  <2>2. CASE r = x
    <3>1. runs'[r].by = o /\ runs'[r].key = poller[o].key
      BY <2>1, <2>2 DEF NewRun, TypeOK
    <3>2. <<o, poller[o].key>> \notin claimed
      BY <1>2 DEF CreateRun, Inv, KeyLooked
    <3> QED  BY <3>1, <3>2
  <2>3. CASE r # x
    BY <1>0, <2>1, <2>3 DEF TypeOK
  <2> QED  BY <2>2, <2>3
<1>3. ASSUME NEW q \in Requests, SkipCreate(q) \/ RetryCreate(q)
      PROVE  ~ (runs'[r].by = p /\ runs'[r].key = k)
  <2>1. PICK key, skipped : Create(NewRun(key, skipped, None))
    BY <1>3 DEF SkipCreate, RetryCreate
  <2>2. PICK x \in Runs : runs' = [runs EXCEPT ![x] = NewRun(key, skipped, None)]
    BY <2>1, CreateStep
  <2>3. NewRun(key, skipped, None).by = None
    BY DEF NewRun
  <2> QED  BY <1>0, <2>2, <2>3 DEF TypeOK
<1>4. ASSUME runs'[r] = runs[r]
      PROVE  ~ (runs'[r].by = p /\ runs'[r].key = k)
  BY <1>0, <1>4
<1>5. ASSUME NEW o \in Runs, RunStep(o)
      PROVE  runs'[r] = runs[r]
  BY <1>0, <1>5
     DEF RunStep, RunEnds, RecordCompletion, RemoveRun, CollectRun, SyncRun, TypeOK, cluster
<1>6. ASSUME NEW q \in Requests, Dashboard(q), ~ SkipCreate(q), ~ RetryCreate(q)
      PROVE  runs'[r] = runs[r]
  BY <1>0, <1>6
     DEF Dashboard, StopRun, MarkCompleted, ClearRuns, ClearRecord, RetryClear, DeleteRun,
         TypeOK, cluster
<1>7. ASSUME NEW o \in Pollers, Poll(o), ~ CreateRun(o)
      PROVE  UNCHANGED runs
  BY <1>7 DEF Poll, Exit, Fetch, FetchFails, NextIssue, PollDone, CheckHistory, CreateFails, Tick,
              cluster
<1>8. CASE UNCHANGED vars \/ UpdatePipeline \/ DeletePipeline \/ SyncPipeline \/ Reconcile \/ Restart
  BY <1>1, <1>8 DEF vars, UpdatePipeline, DeletePipeline, SyncPipeline, Reconcile, Restart
<1> QED  BY <1>1, <1>2, <1>3, <1>4, <1>5, <1>6, <1>7, <1>8 DEF Next

-----------------------------------------------------------------------------
(* The theorems.                                                           *)

\* Every variable of the poller keeps its type, versions and keys included.
THEOREM TypeCorrect == Spec => []TypeOK
<1> QED  BY TypeInit, TypeNext, PTL DEF Spec

\* A goroutine that has not been cancelled is the one the table names, whatever is
\* edited, deleted or restarted (ensurePoller and stopPoller).
THEOREM TableKnowsPollers == Spec => []NoStrayPoller
<1>1. Init => NoStrayPoller
  BY DEF Init, NoStrayPoller, Idle
<1> QED  BY <1>1, StrayNext, TypeInit, TypeNext, PTL DEF Spec

\* While it lives, a poller creates one run for an issue and one at a time for its
\* schedule: the two dedup layers of pollOnce, label and history, leave no gap
\* between them - however runs end, are recorded, removed, skipped, stopped or
\* cleared - if the informer shows a run before its poller's next tick.
THEOREM OneRunForAnIssue ==
  ASSUME PromptCache
  PROVE  Spec => OneRunEach
<1>1. TypeOK /\ Inv /\ [Next]_vars
        => [\A p \in Pollers, k \in Keys : <<p, k>> \in claimed =>
              ~ \E r \in Runs : runs[r] = NoRun /\ runs'[r].by = p /\ runs'[r].key = k]_vars
  BY OneRunStep
<1>2. TypeOK /\ Inv /\ [Next]_vars => TypeOK' /\ Inv'
  BY TypeNext, InvNext
<1> QED  BY <1>1, <1>2, TypeInit, InvInit, PTL DEF Spec, OneRunEach
=============================================================================
