SPECIFICATION FairSpec
CONSTANTS
  s1 = s1
  Subscription = {s1}
  Txn = {1, 2}
  SubOf <- OneSubscription
  Payment = {1, 2, 3}
  Session = {k1}
  None = None
  MaxAttempts = 2
  Overlap = TRUE
  Outages = TRUE

INVARIANTS TypeOK SuccessWasPaid ActiveWasPaid
PROPERTY RetryIsTaken
CHECK_DEADLOCK FALSE
