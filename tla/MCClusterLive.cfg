SPECIFICATION FairSpec
CONSTANTS
  Node <- MCNode2
  Replicas = 1
  PointHash <- MCPoints2
  NameHash <- MCNames2b
  None = None
  MaxCalls = 3
  MaxCallsOf = 1
  MaxFaults = 1
  Timely = TRUE
PROPERTIES
  Convergence
  DeathNoticed
