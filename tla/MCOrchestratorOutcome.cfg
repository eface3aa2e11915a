SPECIFICATION Spec
CONSTANTS
  a = a
  b = b
  c = c
  StepIds <- MCStepIds
  PlanFiles <- DistinctPlans
INVARIANT OutcomeAlways
CHECK_DEADLOCK FALSE
