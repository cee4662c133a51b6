SPECIFICATION TickSpec
CONSTANTS
  Node <- MCNode3
  Replicas = 1
  PointHash <- MCPoints3
  NameHash <- MCNames3
  None = None
  MaxCalls = 3
  MaxCallsOf = 3
  MaxFaults = 0
  Timely = TRUE
  MaxEvents = 0
  MaxRestarts = 0
PROPERTY PongListMerged
CHECK_DEADLOCK FALSE
