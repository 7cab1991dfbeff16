----------------------------- MODULE MCPipelineRun -----------------------------
(* Pipelines on which TLC checks PipelineRun.                              *)
EXTENDS PipelineRun, TLC

\* implement, test (back to implement), push: the shape of config/samples.
RetryToFirst == <<0, 1, 0>>
NoRetry1 == <<0>>
TwoAttempts == <<0, 2, 0>>
NoMax1 == <<0>>

\* A gated step that retries from the step before it.
GateRetries == <<0, 1>>
TwoOnSecond == <<0, 2>>

Symmetry == Permutations(Requests)
=============================================================================
