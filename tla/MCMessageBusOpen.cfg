SPECIFICATION Spec
CONSTANTS
  Conn = {c1, c2}
  Send = {s1}
  Call = {p1, p2}
  None = None
  MaxFaults = 1
PROPERTY FoundOpen
CHECK_DEADLOCK FALSE
