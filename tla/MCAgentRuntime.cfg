SPECIFICATION Spec
CONSTANTS
  check = check
  create = create
  send = send
  cancel = cancel
  retract = retract
  missing = missing
  none = none
  NoTool = none
  Tools = {check, create, send, cancel, retract, missing}
  Registered = {check, create, send, cancel, retract}
  Recorded = {create, cancel}
  Effects = {create, send, cancel, retract}
  Capabilities <- MCCapabilities
  MaxCalls = 2
INVARIANTS
  TypeOK
  AdmittedWhenIdle
  EffectsAccounted
  ReverseOrder
  NothingForgotten
  TurnsTellWholeCalls
PROPERTIES
  NoComposition
  CallsEnd
CHECK_DEADLOCK FALSE
