SPECIFICATION Spec
CONSTANTS
  read = read
  write = write
  erp = erp
  gmail = gmail
  model = model
  booker = booker
  replier = replier
  plan1 = plan1
  step1 = step1
  step2 = step2
  ToolTypes = {read, write}
  Targets = {erp, gmail, model}
  ModelTarget = model
  Agents = {booker, replier}
  PlanIds = {plan1}
  StepNames = {step1, step2}
  PolicyFiles <- MCPolicyFiles
  MaxEvaluations = 3
INVARIANTS
  NeverWidens
  GrantsBounded
CHECK_DEADLOCK FALSE
