SPECIFICATION Spec
CONSTANTS
  d1 = d1
  d2 = d2
  u1 = u1
  u2 = u2
  c1 = c1
  Contribution <- MCContribution
  Campaign = {c1}
  User = {u1}
  Owner <- SameUser
  Target <- OneCampaign
  Amount <- Amounts
  Goals = {0, 2}
  SumOf <- MCSumOf
  Session = {s1, s2}
  NoDonation = NoDonation
  PatronLink = {d2}
  MinAge = 2
  Cooldown = 1
  MaxAge = 0
  LinkTTL = 0
  BatchSize = 2
  MaxTime = 1
  Overlap = TRUE
SYMMETRY Sessions
INVARIANT NotCountedTwice
CHECK_DEADLOCK FALSE
