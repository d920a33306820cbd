SPECIFICATION NotedSpec
CONSTANTS
  a1 = a1
  a2 = a2
  Accounts = {a1}
  Requests = {r1, r2}
  Calls = {c1, c2}
  Priced <- MCPriced
  Status <- MCStatus
  Opening <- MCOpening
  IncludedPrice = 1
  OveragePrice = 2
  DefaultPrice = 3
  Topups = {1}
  MaxTopups = 1
  TimePasses = TRUE
  None = None
VIEW Told
SYMMETRY Symmetry
INVARIANTS TypeOK ChargedOnce OnlyStrainedOverdrawn
PROPERTY ImplementsLedger
CHECK_DEADLOCK FALSE
