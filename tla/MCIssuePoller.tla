----------------------------- MODULE MCIssuePoller -----------------------------
(* Pipelines on which TLC checks IssuePoller.                              *)
EXTENDS IssuePoller

\* A Pipeline whose trigger is edited, and one whose other fields are.
Edited == <<"none", "issues", "schedule">>
SameTwice == <<"issues", "issues">>
=============================================================================
