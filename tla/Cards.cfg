SPECIFICATION Spec
CONSTANTS
  User = {u1, u2}
  Card = {c1, c2}
  Payment = {p1, p2, p3}
  Request = {r1, r2}
  MaxRequests = 3
  None = None
INVARIANTS TypeOK OneDefault NothingLeftBehind GivenBackForACard
PROPERTIES DedupeKeepsNewest
SYMMETRY Interchangeable
CHECK_DEADLOCK FALSE
