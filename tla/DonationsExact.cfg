SPECIFICATION Spec
CONSTANTS
  d1 = d1
  d2 = d2
  u1 = u1
  u2 = u2
  c1 = c1
  Contribution <- MCContribution
  Campaign = {c1}
  User = {u1}
  Owner <- SameUser
  Target <- OneCampaign
  Amount <- Amounts
  Goals = {0, 2}
  SumOf <- MCSumOf
  Session = {s1, s2}
  NoDonation = NoDonation
  PatronLink = {d2}
  MinAge = 0
  Cooldown = 1
  MaxAge = 1
  LinkTTL = 1
  BatchSize = 2
  MaxTime = 2
  Overlap = FALSE
SYMMETRY Sessions
INVARIANT BooksExact
PROPERTY ImplementsLedger
CHECK_DEADLOCK FALSE
