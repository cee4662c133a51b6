SPECIFICATION FairSpec
CONSTANTS
  Conn = {c1, c2}
  Send = {s1}
  Call = {p1, p2}
  None = None
  MaxFaults = 2
INVARIANTS
  TypeOK
  AnswerIsOwn
  PoolIsQuiet
PROPERTIES
  IsRequestChannel
  CalledBack
CHECK_DEADLOCK FALSE
