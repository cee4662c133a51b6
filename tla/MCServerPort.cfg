SPECIFICATION FairSpec
CONSTANTS
  Process = {p1, p2, p3}
  Client = {c1, c2}
  FirstPort = 5
  Tries = 2
  MaxOpen = 1
  MaxDeaths = 1
  None = None
INVARIANTS
  TypeOK
  NameIsOwn
PROPERTIES
  GivesUpWhenFull
  Served
CHECK_DEADLOCK FALSE
