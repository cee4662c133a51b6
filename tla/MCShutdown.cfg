SPECIFICATION Spec
CONSTANTS
  MaxQueue = 3
  MaxSignals = 2
CHECK_DEADLOCK FALSE
INVARIANTS
  TypeOK
  OneMore
  Wakeable
PROPERTIES
  Stops
