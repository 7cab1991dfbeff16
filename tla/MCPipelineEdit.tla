----------------------------- MODULE MCPipelineEdit -----------------------------
(* A pipeline after config/samples and the edits TLC explores. *)
EXTENDS PipelineEdit

Step(n) == [name |-> n, onFailure |-> None, maxRetries |-> 0, requireApproval |-> FALSE]

Implement == Step("implement")
Plan == [Step("plan") EXCEPT !.requireApproval = TRUE]
Test == [Step("test") EXCEPT !.onFailure = "implement", !.maxRetries = 2]
Push == [Step("push") EXCEPT !.requireApproval = TRUE]

\* As it was; a step in front, or instead of the first; a gate or a retry taken
\* away; the end cut off or the middle; the order turned round.
Edited == {
  <<Implement, Test, Push>>,
  <<Plan, Implement, Test, Push>>,
  <<Plan, Test, Push>>,
  <<Implement, Step("test"), Step("push")>>,
  <<Implement, Test>>,
  <<Implement, Push>>,
  <<Test, Implement, Push>>}

ASSUME EditedAssumption == DistinctNames
=============================================================================
