\* Any edits of a run's Pipeline, at any moment.
SPECIFICATION FairSpec
CONSTANTS
  Specs <- Edited
  MaxAttempt = 2
  MaxEdits = 2
INVARIANT AnchoredEditsAreSafe
PROPERTY EditedRunSettles
CHECK_DEADLOCK FALSE
