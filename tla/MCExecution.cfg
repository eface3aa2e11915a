SPECIFICATION Spec
CONSTANTS
  acknowledge = acknowledge
  register = register
  booking = booking
  lookup = lookup
  read = read
  reply = reply
  create = create
  cancel = cancel
  check = check
  confirm = confirm
  none = none
  StepIds = {acknowledge, register, booking, lookup}
  PlanFiles <- MCPlanFiles
  Tools = {read, reply, create, cancel, check, confirm}
  Registered = {read, reply, create, cancel, check, confirm}
  Recorded = {create, cancel}
  Effects = {reply, create, cancel, confirm}
  NoTool = none
  Capabilities <- MCCapabilities
  MaxCalls = 4
  Agent <- MCAgent
  Serves <- MCServes
  Reverts <- MCReverts
INVARIANT ReturnMeansDone
PROPERTIES
  ImplementsOrchestrator
  Termination
CHECK_DEADLOCK FALSE
