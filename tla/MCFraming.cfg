SPECIFICATION FairSpec
CONSTANTS
  End <- MCEnd
  Header = 2
  Unit <- MCUnit
  Buffer = 5
INVARIANTS
  TypeOK
  NothingLost
PROPERTY Delivered
CHECK_DEADLOCK FALSE
