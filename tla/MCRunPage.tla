------------------------------- MODULE MCRunPage -------------------------------
(* Visits of one run and of the run that retrying it creates.              *)
EXTENDS RunPage

CONSTANTS r1, r2
TwoRuns == {r1, r2}

Visit(phase, buttons) == [phase |-> phase, uses |-> buttons]

\* A visitor who follows a new run and answers its questions, one who stops and
\* deletes, and one who retries a run that has failed.
AllVisits == {Visit("Pending", {"approve", "select", "stop"}),
              Visit("Running", {"stop", "delete"}), Visit("Failed", {"retry", "stop"})}
=============================================================================
