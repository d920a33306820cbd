SPECIFICATION Spec
CONSTANTS
  None = None
  Emails = {e1, e2}
  Calls = {c1}
  KeyLimit = 1
  MaxCalls = 5
  MaxLogins = 1
  Requests = {q1}
  Paths = {"/v1/recognize"}
  MaxRequests = 1
INVARIANT
  RecognitionChargesOwner
CHECK_DEADLOCK FALSE
