\* Bounds: one name asked for by two admissions, one stray sandbox.
CONSTANTS
  a1 = a1
  a2 = a2
  job1 = job1
  stray = stray
  Admission = {a1, a2}
  Name = {job1, stray}
  NameOf <- MCNameOf
  Generation = {a1}
  Nobody = Nobody
  Reconcile = Reconcile
  MaxCalls = 11
  MaxAllocations = 1
  ReconcileLimit = 1
SPECIFICATION Spec
CHECK_DEADLOCK FALSE
INVARIANTS
  NoSandboxForgotten
  CleanupIsPaid
