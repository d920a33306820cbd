SPECIFICATION Spec
CONSTANTS
  free = free
  pro = pro
  None = None
  Accounts = {a1}
  Calls = {c1, c2}
  Tariffs = {free, pro}
  BasePrice <- MCBasePrice
  Package <- MCPackage
  UsagePrice = 1
  Topups = {2}
  MaxArrivals = 2
  MaxRows = 1
SYMMETRY Symmetry
INVARIANTS
  TypeOK
  BalanceIsSumOfEvents
  SpendsWhatItHas
  PackageIsPaidFor
  LastDowngradeStands
CHECK_DEADLOCK FALSE
