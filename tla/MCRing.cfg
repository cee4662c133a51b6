SPECIFICATION FairSpec
CONSTANTS
  Node <- MCNode
  Replicas = 2
  PointHash <- MCPoints
  NameHash <- MCNames
  Counts = {1, 2}
  Position <- MCPosition
  MaxPrefs = 4
  None = None
INVARIANTS
  TypeOK
  RingOfMembers
  NoChangeMissed
  PreferenceIsFailover
PROPERTIES
  WalkEnds
  IsConsistentHash
