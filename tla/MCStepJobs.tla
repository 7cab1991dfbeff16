------------------------------ MODULE MCStepJobs ------------------------------
(* Pipelines on which TLC checks StepJobs, after config/samples.           *)
EXTENDS StepJobs

PlainStep(type) ==
  [type |-> type, failureFile |-> FALSE, onFailure |-> 0, maxRetries |-> 0]
Retried(step, target) == [step EXCEPT !.onFailure = target, !.maxRetries = 2]
TestStep == [PlainStep("ai") EXCEPT !.failureFile = TRUE]

\* checkout, implement, test (back to implement), lint, push.
IssuePipeline ==
  << Retried(PlainStep("git-checkout"), 1), PlainStep("ai"), Retried(TestStep, 2),
     PlainStep("shell"), Retried(PlainStep("git-push"), 5) >>

\* triage, checkout, implement, test (back to implement), push.
TriagePipeline ==
  << Retried(PlainStep("triage"), 1), PlainStep("git-checkout"), PlainStep("ai"),
     Retried(TestStep, 3), PlainStep("git-push") >>

\* checkout-pr, analyze, show-report (back to analyze).
ReviewPipeline ==
  << Retried(PlainStep("git-checkout-pr"), 1), PlainStep("ai"),
     Retried(PlainStep("watch-report"), 2) >>

\* checkout, implement, test and lint (both back to implement), push.
LintRetries ==
  << PlainStep("git-checkout"), PlainStep("ai"), Retried(TestStep, 2),
     Retried(PlainStep("shell"), 2), PlainStep("git-push") >>

AllPipelines == {IssuePipeline, TriagePipeline, ReviewPipeline}
OnlyLintRetries == {LintRetries}
OnlyIssues == {IssuePipeline}

\* The samples test behind the last change, where a linter that sends the run back
\* does not, and none of them goes back to a checkout that has succeeded.
ASSUME GuardAssumption ==
  /\ \A p \in AllPipelines : TestsGuardPushes(p)
  /\ \A p \in OnlyLintRetries : ~TestsGuardPushes(p)
  /\ \A p \in AllPipelines : FreshCheckouts(p)
=============================================================================
