SPECIFICATION OSpec
CONSTANTS
  a1 = a1
  a2 = a2
  a3 = a3
  Accounts = {a2}
  Requests = {r1, r2}
  Calls = {c1, c2}
  Priced <- MCPriced
  Status <- MCStatus
  Opening <- MCOpening
  IncludedPrice = 1
  OveragePrice = 2
  DefaultPrice = 3
  Topups = {2}
  MaxTopups = 0
  TimePasses = FALSE
  Faults = FALSE
  None = None
INVARIANT InsufficientGets402
CHECK_DEADLOCK FALSE
