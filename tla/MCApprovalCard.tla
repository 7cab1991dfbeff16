---------------------------- MODULE MCApprovalCard ----------------------------
(* Visits of the page of a run that waits for its push to be approved.     *)
EXTENDS ApprovalCard

Visit(buttons, dialogs, n) == [uses |-> buttons, chats |-> dialogs, loads |-> n]

\* A visitor who asks for previews and opens two dialogs while two loads are under
\* way, which may take the first dialog away and bring the second; and one who
\* approves.
AllVisits == {Visit({"refresh"}, 2, 2), Visit({"approve"}, 1, 0)}
=============================================================================
