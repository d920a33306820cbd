SPECIFICATION OSpec
CONSTANTS
  a1 = a1
  a2 = a2
  a3 = a3
  Accounts = {a1, a2, a3}
  Requests = {r1}
  Calls = {c1, c2}
  Priced <- MCPriced
  Status <- MCStatus
  Opening <- MCOpening
  IncludedPrice = 1
  OveragePrice = 2
  DefaultPrice = 3
  Topups = {2}
  MaxTopups = 0
  TimePasses = TRUE
  Faults = TRUE
  None = None
INVARIANTS OTypeOK DeliveredIsPaid BilledIsRecognized NoHoldLeftBehind
PROPERTY AttemptsEnd
CHECK_DEADLOCK FALSE
