SPECIFICATION Spec
CONSTANTS
  Campaign = {c1, c2}
  Foundation = {f1, f2}
  Sub = {x1}
  Payment = {p1}
  Offline = {o1, o2}
  Ref = {n1}
  Goal = {2}
  Request = {r1, r2}
  MaxRequests = 3
  None = None
INVARIANTS TypeOK CollectedExact
PROPERTIES LifeCycle ClosingEmpties MovedToActive
SYMMETRY Interchangeable
CHECK_DEADLOCK FALSE
