CONSTANTS
  p1 = p1
  p2 = p2
  Proc = {p1, p2}
  NoOne = NoOne
  MaxFaults = 2
  MaxGeneration = 2
SPECIFICATION Spec
SYMMETRY Symmetry
CHECK_DEADLOCK FALSE
INVARIANTS
  EgressAfterCleanup
  SlotHeldWhileLive
  ReleasedIsTrue
  OneSandbox
PROPERTIES
  OutcomeFinal
  KeepsItsPromise
