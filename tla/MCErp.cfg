SPECIFICATION Spec
CONSTANTS
  ann = ann
  bob = bob
  noon = noon
  w1 = w1
  w2 = w2
  Customers = {ann, bob}
  Slots = {noon}
  Workers = {w1, w2}
  MaxId = 3
  Engine = "sqlite"
INVARIANTS
  TypeOK
  OneLivePerKey
  AnswersHold
  BookedHolds
PROPERTIES
  ImplementsContract
CHECK_DEADLOCK FALSE
