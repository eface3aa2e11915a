SPECIFICATION Spec
CONSTANTS
  acknowledge = acknowledge
  register = register
  booking = booking
  lookup = lookup
  read = read
  reply = reply
  create = create
  cancel = cancel
  check = check
  confirm = confirm
  none = none
  StepIds = {acknowledge, register, booking, lookup}
  PlanFiles <- ShippedPlans
  Tools = {read, reply, create, cancel, check, confirm}
  Registered = {read, reply, create, cancel, check, confirm}
  Recorded = {create, cancel}
  Effects = {reply, create, cancel, confirm}
  NoTool = none
  Capabilities <- MCCapabilities
  MaxCalls = 4
  Agent <- MCAgent
  Serves <- MCServes
  Reverts <- MCReverts
INVARIANTS
  FailedCleanMeansClean
CHECK_DEADLOCK FALSE
