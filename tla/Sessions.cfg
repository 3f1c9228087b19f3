SPECIFICATION Spec
CONSTANTS
  User = {u1, u2}
  Admin = {a1, a2}
  Email = {e1, e2}
  Device = {v1}
  Code = {k1}
  Token = {t1, t2, t3}
  Request = {r1, r2}
  SendLimit = 1
  MaxRequests = 3
  None = None
INVARIANTS TypeOK IssuedOnce SignedOut LimitIsLifted
SYMMETRY Interchangeable
CHECK_DEADLOCK FALSE
