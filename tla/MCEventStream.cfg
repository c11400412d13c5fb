CONSTANTS
  Page = 2
  Attempts = 2
  Strict = {TRUE, FALSE}
  MaxEvents = 4
  MaxFaults = 2
SPECIFICATION StreamSpec
CHECK_DEADLOCK FALSE
INVARIANTS
  GapFree
PROPERTIES
  ShownOrFailed
