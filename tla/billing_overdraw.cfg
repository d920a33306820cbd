SPECIFICATION NotedSpec
CONSTANTS
  a1 = a1
  a2 = a2
  Accounts = {a2}
  Requests = {r1, r2}
  Calls = {c1, c2}
  Priced <- MCPriced
  Status <- MCStatus
  Opening <- MCOpening
  IncludedPrice = 1
  OveragePrice = 2
  DefaultPrice = 3
  Topups = {2}
  MaxTopups = 0
  TimePasses = FALSE
  None = None
SYMMETRY Symmetry
INVARIANT NeverOverdrawn
CHECK_DEADLOCK FALSE
