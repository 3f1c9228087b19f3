SPECIFICATION Spec
CONSTANTS
  s1 = s1
  Subscription = {s1}
  Txn = {1, 2, 3}
  SubOf <- OneSubscription
  Payment = {1, 2, 3}
  Session = {k1}
  None = None
  MaxAttempts = 2
  Overlap = TRUE
  Outages = FALSE

PROPERTY RunIsIdempotent
CHECK_DEADLOCK FALSE
