------------------------------ MODULE MCDashboard ------------------------------
(* Five changes reach a step whose type was changed after a field was      *)
(* filled; two pipelines share the issue "1"; the list has a run of each   *)
(* pipeline and the page of one pipeline has two.                          *)
EXTENDS Dashboard

FewEdits == [sources |-> 3, steps |-> 5]
SomeOpen == {<<"p", "1">>, <<"q", "1">>}
TwoWorlds == [list |-> <<"p", "q">>, detail |-> <<"p", "p">>]
=============================================================================
