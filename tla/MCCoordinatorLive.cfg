CONSTANTS
  p1 = p1
  p2 = p2
  Proc = {p1, p2}
  NoOne = NoOne
  MaxFaults = 1
  MaxGeneration = 3
SPECIFICATION FairSpec
CHECK_DEADLOCK FALSE
PROPERTIES
  Decided
  ReleaseStands
