SPECIFICATION FairSpec
CONSTANTS
  Orders = {o1}
  Deliveries = {d1, d2}
  Admitted = {"pending", "paid", "failed", "cancelled"}
  MaxNotices = 2
  ExpiryRuns = FALSE
  Faults = FALSE
  None = None
PROPERTY PaidIsCredited
CHECK_DEADLOCK FALSE
