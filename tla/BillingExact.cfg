SPECIFICATION Spec
CONSTANTS
  s1 = s1
  Subscription = {s1}
  Txn = {1, 2, 3}
  SubOf <- OneSubscription
  Payment = {1, 2, 3}
  Session = {k1}
  None = None
  MaxAttempts = 2
  Overlap = FALSE
  Outages = TRUE

INVARIANTS PostedOnce
PROPERTY ImplementsDunning
CHECK_DEADLOCK FALSE
