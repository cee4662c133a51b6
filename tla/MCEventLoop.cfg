SPECIFICATION FairSpec
CONSTANTS
  Node <- MCNode
  Replicas = 1
  PointHash <- MCPoints
  NameHash <- MCNames
  None = None
  Self = 2
  Lists <- MCLists
  MaxReady = 2
  MaxCalls = 1
INVARIANTS
  TypeOK
  MonitorsSuccessor
  MonitorIsTimed
  NeverMute
  ToldSuccessor
PROPERTIES
  OnlySuccessorDropped
  NoStorm
  SilentDropped
