SPECIFICATION TickSpec
CONSTANTS
  Node <- MCNode3
  Replicas = 1
  PointHash <- MCPoints3
  NameHash <- MCNames3b
  None = None
  MaxCalls = 2
  MaxCallsOf = 2
  MaxFaults = 1
  Timely = TRUE
  MaxEvents = 1
  MaxRestarts = 0
INVARIANTS
  MonitorsSuccessor
  ToldSuccessor
PROPERTIES
  OnlySuccessorDropped
  NoFalseDown
CHECK_DEADLOCK FALSE
