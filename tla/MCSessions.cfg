SPECIFICATION Spec
CONSTANTS
  Writers = {p1, p2}
  TurnIds = {"t"}
  Tokens = {1, 3}
  Ttl = 2
  LastN = 2
  HeadTokens = 2
  Budget = 5
  MaxAppends = 4
  MaxTime = 4
SYMMETRY MCSymmetry
INVARIANT NewestInContext
PROPERTIES
  NeverRewritten
  LoneAppendSucceeds
CHECK_DEADLOCK FALSE
