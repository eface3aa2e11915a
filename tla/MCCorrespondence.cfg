SPECIFICATION Spec
CONSTANTS
  MaxAttempts = 2
  Configs <- MCConfigs
INVARIANTS
  OnlyValidatedLeaves
  RowTellsTruth
  EntryOfItsCall
  CallsTraced
  CompletedMeansDone
CHECK_DEADLOCK FALSE
