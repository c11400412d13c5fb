\* Bounds: five reservations, four receipts, calls at times 0..2, and at most
\* MaxRevision transitions, enough for two whole lifetimes side by side.
CONSTANTS
  a0 = a0
  a1 = a1
  b0 = b0
  c0 = c0
  d0 = d0
  j1 = j1
  j2 = j2
  j3 = j3
  j4 = j4
  t1 = t1
  t2 = t2
  t3 = t3
  p1 = p1
  p2 = p2
  p3 = p3
  p4 = p4
  u1 = u1
  u2 = u2
  u3 = u3
  u4 = u4
  x = x
  y = y
  e1 = e1
  NoEvidence = NoEvidence
  Reservation = {a0, a1, b0, c0, d0}
  Receipt = {u1, u2, u3, u4}
  Job = {j1, j2, j3, j4}
  Tenant = {t1, t2, t3}
  Project = {p1, p2, p3, p4}
  Resource = {x, y}
  Evidence = {e1}
  Request <- MCRequest
  Usage <- MCUsage
  Ceiling = 6
  GlobalLimit = 2
  RateMaxAge = 1
  ReceiptMaxAge = 1
  MaxTime = 2
  MaxRevision = 9
SPECIFICATION Spec
CHECK_DEADLOCK FALSE
INVARIANTS
  LiveIsActive
  ConcurrencyBounded
  OneReservationPerJob
  RetainedIsQuarantined
  RestorableOnceCreated
PROPERTIES
  NoRevival
  HeldUntilAccounted
  ServesEveryJob
