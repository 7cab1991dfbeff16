------------------------------ MODULE IssueHistory ------------------------------
(***************************************************************************)
(* The history page of the dashboard (dashboard/src/pages/IssueHistory.tsx)*)
(* against the history that its requests and the reconciler change.  The   *)
(* page loads the history once and then keeps its own list of it; it loads *)
(* the issues that are pending for a pipeline whenever one is selected.    *)
(*                                                                         *)
(* IssuePoller has the handlers call by call; here each is one step, and   *)
(* its answer arrives later, in any order, or not at all.                  *)
(***************************************************************************)
EXTENDS Integers, FiniteSets

CONSTANTS
  Pipelines,
  Keys,      \* issue keys, which pipelines may share
  Open,      \* the issues that the trigger of a pipeline reports
  None,      \* no pipeline is selected
  MaxAsks,   \* bound of the loads of pending issues in flight
  MaxCalls   \* bound of the POSTs and DELETEs in flight

Rows == Pipelines \X Keys

VARIABLES
  handled,  \* the rows of the history, in the server
  load,     \* the load of the history: sent, its rows when served, or done
  asks,     \* loads of pending issues in flight, with their answer
  calls,    \* POSTs and DELETEs in flight
  page,     \* the state of the page
  unseen    \* rows that have changed where no answer tells the page, or tells it in order

vars == <<handled, load, asks, calls, page, unseen>>

Page == [records : SUBSET Rows,                 \* the table
         st : {"loading", "error", "shown"},
         choices : SUBSET Pipelines,            \* the select's options
         sel : Pipelines \cup {None},
         pending : SUBSET Keys, loading : BOOLEAN, failed : BOOLEAN,
         skipping : BOOLEAN]

NewPage == [records |-> {}, st |-> "loading", choices |-> {}, sel |-> None,
            pending |-> {}, loading |-> FALSE, failed |-> FALSE, skipping |-> FALSE]

Load == [st : {"sent", "served", "done"}, rows : SUBSET Rows]
Ask == [of : Pipelines, served : BOOLEAN, keys : SUBSET Keys]
Call == [kind : {"skip", "clear"}, row : Rows, served : BOOLEAN]

Shown == page.st = "shown"
InFlight(r) == \E c \in calls : c.row = r

-----------------------------------------------------------------------------
(* The loads of the page when it is opened.                                *)

ServeLoad ==
  /\ load.st = "sent"
  /\ load' = [st |-> "served", rows |-> handled]
  /\ unseen' = {}
  /\ UNCHANGED <<handled, asks, calls, page>>

LoadArrives ==
  /\ load.st = "served"
  /\ load' = [st |-> "done", rows |-> {}]
  /\ page' = [page EXCEPT !.records = load.rows, !.st = "shown"]
  /\ UNCHANGED <<handled, asks, calls, unseen>>

\* Nothing loads again.
LoadFails ==
  /\ load.st # "done"
  /\ load' = [st |-> "done", rows |-> {}]
  /\ page' = [page EXCEPT !.st = "error"]
  /\ UNCHANGED <<handled, asks, calls, unseen>>

ChoicesArrive ==
  /\ page.choices = {}
  /\ page' = [page EXCEPT !.choices = Pipelines]
  /\ UNCHANGED <<handled, load, asks, calls, unseen>>

-----------------------------------------------------------------------------
(* The pending issues.  Nothing cancels a load when the selection changes, *)
(* and the list of the pipeline before stays until an answer arrives.      *)

Deselect ==
  /\ Shown /\ page.sel # None
  /\ page' = [page EXCEPT !.sel = None, !.pending = {}]
  /\ UNCHANGED <<handled, load, asks, calls, unseen>>

Select(p) ==
  /\ Shown /\ p \in page.choices \ {page.sel}
  /\ Cardinality(asks) < MaxAsks
  /\ page' = [page EXCEPT !.sel = p, !.loading = TRUE, !.failed = FALSE]
  /\ asks' = asks \cup {[of |-> p, served |-> FALSE, keys |-> {}]}
  /\ UNCHANGED <<handled, load, calls, unseen>>

\* What handlePendingIssues may answer: of the issues that the trigger reports it leaves
\* out what is handled and what has runs.  A history that cannot be read leaves out
\* nothing, no more do runs that cannot be listed; runs are not in this model.
PendingOf(p) == SUBSET {k \in Keys : <<p, k>> \in Open}

ServeAsk(a) ==
  /\ ~a.served
  /\ \E keys \in PendingOf(a.of) :
       asks' = (asks \ {a}) \cup {[a EXCEPT !.served = TRUE, !.keys = keys]}
  /\ UNCHANGED <<handled, load, calls, page, unseen>>

AskArrives(a) ==
  /\ a.served
  /\ asks' = asks \ {a}
  /\ page' = [page EXCEPT !.pending = a.keys, !.loading = FALSE]
  /\ UNCHANGED <<handled, load, calls, unseen>>

AskFails(a) ==
  /\ asks' = asks \ {a}
  /\ page' = [page EXCEPT !.failed = TRUE, !.loading = FALSE]
  /\ UNCHANGED <<handled, load, calls, unseen>>

-----------------------------------------------------------------------------
(* Skipping and clearing.                                                  *)

\* Two calls about one row may be served in one order and answered in the other.
\* Bound: of two calls alike that wait to be served one is kept.
Send(kind, r) ==
  /\ Cardinality(calls) < MaxCalls
  /\ calls' = calls \cup {[kind |-> kind, row |-> r, served |-> FALSE]}
  /\ unseen' = IF InFlight(r) THEN unseen \cup {r} ELSE unseen
  /\ UNCHANGED <<handled, load, asks>>

\* handleSkip, of the button beside a pending issue or of the one at the input.
ClickSkip(k) ==
  /\ Shown /\ page.sel # None /\ ~page.skipping
  /\ Send("skip", <<page.sel, k>>)
  /\ page' = [page EXCEPT !.skipping = TRUE]

\* Enter in the input asks only for a key, not whether a skip is under way.
EnterSkip(k) ==
  /\ Shown /\ page.sel # None
  /\ Send("skip", <<page.sel, k>>)
  /\ page' = [page EXCEPT !.skipping = TRUE]

\* handleClear, confirmed.
ClickClear(r) ==
  /\ Shown /\ r \in page.records
  /\ Send("clear", r)
  /\ UNCHANGED page

ServeCall(c) ==
  /\ ~c.served
  /\ handled' = IF c.kind = "skip" THEN handled \cup {c.row} ELSE handled \ {c.row}
  /\ calls' = (calls \ {c}) \cup {[c EXCEPT !.served = TRUE]}
  /\ UNCHANGED <<load, asks, page, unseen>>

\* Broken variant of Cleared: the rows of the issue in every pipeline go.
ClearedByKey(r) == {x \in page.records : x[2] # r[2]}

Cleared(r) == page.records \ {r}

\* A skip takes the key out of the pending list, whichever pipeline that is of.
CallAnswered(c) ==
  /\ c.served
  /\ calls' = calls \ {c}
  /\ page' = IF c.kind = "clear" THEN [page EXCEPT !.records = Cleared(c.row)]
             ELSE [page EXCEPT !.records = @ \cup {c.row}, !.pending = @ \ {c.row[2]},
                               !.skipping = FALSE]
  /\ UNCHANGED <<handled, load, asks, unseen>>

\* An alert; the server may have served the call.
CallFails(c) ==
  /\ calls' = calls \ {c}
  /\ page' = [page EXCEPT !.skipping = @ /\ c.kind # "skip"]
  /\ unseen' = IF c.served THEN unseen \cup {c.row} ELSE unseen
  /\ UNCHANGED <<handled, load, asks>>

\* The reconciler records a run that has ended, or another visitor clears a row.
\* Bound: rows of one issue, which the trigger reports.
Others(r) ==
  /\ unseen \subseteq {r}
  /\ handled' = IF r \in handled THEN handled \ {r} ELSE handled \cup {r}
  /\ unseen' = unseen \cup {r}
  /\ UNCHANGED <<load, asks, calls, page>>

-----------------------------------------------------------------------------
Init ==
  /\ handled \in SUBSET Open
  /\ load = [st |-> "sent", rows |-> {}]
  /\ asks = {} /\ calls = {} /\ page = NewPage /\ unseen = {}

Next ==
  \/ ServeLoad \/ LoadArrives \/ LoadFails \/ ChoicesArrive \/ Deselect
  \/ \E p \in Pipelines : Select(p)
  \/ \E a \in asks : ServeAsk(a) \/ AskArrives(a) \/ AskFails(a)
  \/ \E k \in Keys : (k \in page.pending /\ ClickSkip(k)) \/ EnterSkip(k)
  \/ \E c \in calls : ServeCall(c) \/ CallAnswered(c) \/ CallFails(c)
  \/ (\E r \in Rows : ClickClear(r)) \/ \E r \in Open : Others(r)

Spec == Init /\ [][Next]_vars

-----------------------------------------------------------------------------
(* Properties.                                                             *)

TypeOK ==
  /\ handled \subseteq Rows /\ unseen \subseteq Rows
  /\ load \in Load /\ page \in Page
  /\ asks \subseteq Ask /\ calls \subseteq Call

\* The table and the history do not drift apart: a row is in the one and not in
\* the other only while a call about it is under way, after something that the
\* page was never told of, or after two calls about that row at once.  Rows of
\* several pipelines share issue keys.
RecordsMatch ==
  Shown => \A r \in Rows : (r \in page.records) = (r \in handled) \/ InFlight(r) \/ r \in unseen
=============================================================================
