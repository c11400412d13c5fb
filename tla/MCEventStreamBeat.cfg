CONSTANTS
  Page = 2
  Attempts = 2
  Strict = {TRUE}
  MaxEvents = 4
  MaxFaults = 2
SPECIFICATION StreamSpec
CHECK_DEADLOCK FALSE
INVARIANTS
  FailedByAFault
