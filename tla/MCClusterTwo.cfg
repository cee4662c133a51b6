SPECIFICATION Spec
CONSTANTS
  Node <- MCNode2
  Replicas = 1
  PointHash <- MCPoints2
  NameHash <- MCNames2
  None = None
  MaxCalls = 2
  MaxCallsOf = 2
  MaxFaults = 2
  Timely = FALSE
INVARIANTS
  TypeOK
  SelfIsMember
  MonitorIsTimed
  PingUnderWay
