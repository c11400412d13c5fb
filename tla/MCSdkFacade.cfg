\* Bounds: two sessions, three replay leases, one create call at a time, five calls.
CONSTANTS
  s1 = s1
  s2 = s2
  box = box
  Session = {s1, s2}
  Name = {box}
  NameOf <- MCNameOf
  Creation = {k1}
  Replay = {l1, l2, l3}
  Commands = 2
  MaxCalls = 5
  None = None
SYMMETRY Symmetric
SPECIFICATION Spec
CHECK_DEADLOCK FALSE

  
PROPERTIES
  OthersUntouched
