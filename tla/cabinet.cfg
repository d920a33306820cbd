SPECIFICATION Spec
CONSTANTS
  None = None
  Emails = {e1, e2}
  Calls = {c1, c2}
  KeyLimit = 1
  MaxCalls = 5
  MaxLogins = 1
  Requests = {q1}
  Paths = {"/v1/recognize", "/v1/billing/accounts/me/", "/v1/billing/accounts/{id}/",
           "/api/v1/history"}
  MaxRequests = 1
SYMMETRY Symmetry
INVARIANTS
  TypeOK
  OneAccountEach
  OwnAccount
  HandedKeyWorks
  MockCreditedOnce
  CompletedIsToppedUp
  NothingAfterRevocation
  MeIsOwn
PROPERTY
  RevokedForGood
CHECK_DEADLOCK FALSE
