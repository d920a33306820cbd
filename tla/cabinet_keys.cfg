SPECIFICATION Spec
CONSTANTS
  None = None
  Emails = {e1}
  Calls = {c1, c2}
  KeyLimit = 1
  MaxCalls = 4
  MaxLogins = 1
  Requests = {q1}
  Paths = {}
  MaxRequests = 0
SYMMETRY Symmetry
INVARIANT
  KeyLimitHolds
CHECK_DEADLOCK FALSE
