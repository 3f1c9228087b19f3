SPECIFICATION FairSpec
CONSTANTS
  d1 = d1
  d2 = d2
  u1 = u1
  u2 = u2
  c1 = c1
  Contribution <- MCContribution
  Campaign = {c1}
  User = {u1, u2}
  Owner <- TwoUsers
  Target <- OneCampaign
  Amount <- Amounts
  Goals = {0}
  SumOf <- MCSumOf
  Session = {s1}
  NoDonation = NoDonation
  PatronLink = {}
  MinAge = 0
  Cooldown = 1
  MaxAge = 1
  LinkTTL = 1
  BatchSize = 1
  MaxTime = 2
  Overlap = TRUE
PROPERTIES PaidIsResolved DriftIsRepaired
CHECK_DEADLOCK FALSE
