SPECIFICATION FairSpec
CONSTANTS
  Orders = {o1, o2}
  Deliveries = {d1, d2}
  Admitted = {"pending", "paid", "failed", "cancelled", "completed"}
  MaxNotices = 2
  ExpiryRuns = TRUE
  Faults = TRUE
  None = None
INVARIANTS TypeOK CreditedOnce
PROPERTIES CompletedStays PaidIsCredited
CHECK_DEADLOCK FALSE
