SPECIFICATION Spec
CONSTANTS
  a = a
  b = b
  c = c
  StepIds <- MCStepIds
  PlanFiles <- AllPlans
INVARIANTS
  TypeOK
  ReverseOrder
  OnlyCompletedCompensated
  CompensationAnnounced
  StatusTruthful
  OrphansNamed
  SilentEffectIsLast
PROPERTIES
  CompensatedOnce
  SagaPromise
CHECK_DEADLOCK FALSE
