SPECIFICATION Spec
CONSTANTS
  User = {u1, u2}
  Payment = {p1, p2}
  Request = {r1, r2}
  MaxSubs = 2
  CleanBatch = 2
  MaxRequests = 4
  None = None
INVARIANTS TypeOK TotalsExact EndedIsNotCharged LimitKept
PROPERTIES HistoryIsKept
SYMMETRY Interchangeable
CHECK_DEADLOCK FALSE
