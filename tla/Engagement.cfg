SPECIFICATION Spec
CONSTANTS
  User = {u1, u2}
  Guest = {u2}
  Payment = {p1, p2}
  a1 = a1
  a2 = a2
  Achievement = {a1, a2}
  Condition <- TwoOfEach
  Poster = {b1, b2}
  Creator = {k1, k2}
  Cooldown = 1
  Day = 1
  MaxTime = 2
  MaxChanges = 1
  MaxSkips = 1
  MaxGuestRows = 1
  BatchSize = 2
  None = None
INVARIANTS TypeOK CooldownKept FeedAgrees StreakExact AwardsExact
SYMMETRY Interchangeable
CHECK_DEADLOCK FALSE
