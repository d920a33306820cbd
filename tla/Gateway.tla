------------------------------- MODULE Gateway -------------------------------
(***************************************************************************)
(* The API gateway in front of the services, over the tables that it       *)
(* shares with module Cabinet: authentication by API key, the rate limit,  *)
(* the resolution of /accounts/me/ and the routing of a request.           *)
(***************************************************************************)
EXTENDS Cabinet

CONSTANTS
  Requests,     \* the requests the gateway can be serving at one time
  Paths,        \* the paths of the requests, among Routes
  MaxRequests   \* bound: requests in a behaviour

VARIABLES
  phase,     \* phase[q]: what is done for request q next
  asked,     \* asked[q]: its path, the key in X-Api-Key, 0 if none, and the
             \* account whose number is in the path, 0 if none
  values,    \* values[q]: what the middleware put in its context
  sent,      \* sent[q]: the service it went to, and the billing account that
             \* service will work on
  requested, \* requests so far
  dead       \* dead[q]: its key was revoked when it came (history)

gateway == <<phase, asked, values, sent, requested, dead>>
vars == <<cabinet, gateway>>

(* The paths that main passes to the handler, by what the code tells apart: *)
(* those below /v1/ and /api/v1/.                                           *)
Recognize == "/v1/recognize"
MyPaths == {"/v1/billing/accounts/me/", "/api/v1/billing/accounts/me/"}
AccountPaths == {"/v1/billing/accounts/{id}/", "/api/v1/billing/accounts/{id}/"}
TransactionPaths ==
  {"/v1/billing/transactions/{id}/", "/api/v1/billing/transactions/{id}/"}
BillingPaths == MyPaths \union AccountPaths \union TransactionPaths
Exempted == {"/api/v1/auth/", "/api/v1/payments/", "/api/v1/mock-payments",
             "/api/v1/api-keys", "/api/v1/balance"}
CabinetPaths == Exempted \union {"/api/v1/cabinet/"}
NotRouted == {"/api/v1/subscription", "/api/v1/history"}
Routes == {Recognize} \union BillingPaths \union CabinetPaths \union NotRouted

ASSUME PathsAreRoutes == Paths \subseteq Routes /\ MaxRequests \in Nat

(* ExemptPath: no key is asked for; the cabinet looks at the session.       *)
ExemptPath(path) == path \in Exempted

(* resolveTarget: the service, None where the answer is 404.                *)
ResolveTarget(path) ==
  IF path = Recognize THEN "orchestrator"
  ELSE IF path \in BillingPaths THEN "billing"
  ELSE IF path \in CabinetPaths THEN "cabinet" ELSE None

Nothing == [org |-> 0]
Nowhere == [service |-> None, account |-> 0]
Unasked == [path |-> None, key |-> 0, id |-> 0]

GatewayInit ==
  /\ phase = [q \in Requests |-> "idle"]
  /\ asked = [q \in Requests |-> Unasked]
  /\ values = [q \in Requests |-> Nothing]
  /\ sent = [q \in Requests |-> Nowhere]
  /\ requested = 0
  /\ dead = [q \in Requests |-> FALSE]

Move(q, step) == phase' = [phase EXCEPT ![q] = step]

Finish(q) ==
  /\ Move(q, "idle")
  /\ asked' = [asked EXCEPT ![q] = Unasked]
  /\ values' = [values EXCEPT ![q] = Nothing]
  /\ sent' = [sent EXCEPT ![q] = Nowhere]
  /\ dead' = [dead EXCEPT ![q] = FALSE]
  /\ UNCHANGED <<requested, cabinet>>

(* A request comes, with a key that its owner was given or, where the path  *)
(* needs none, without; id: the account that its path names.                *)
Arrive(q, path, k, id) ==
  /\ phase[q] = "idle" /\ requested < MaxRequests
  /\ k = 0 <=> ExemptPath(path)
  /\ id # 0 => path \in AccountPaths
  /\ requested' = requested + 1
  /\ asked' = [asked EXCEPT ![q] = [path |-> path, key |-> k, id |-> id]]
  /\ dead' = [dead EXCEPT ![q] = k # 0 /\ k \notin ActiveKeys(keys[k].org)]
  /\ Move(q, IF k = 0 THEN "limit" ELSE "key")
  /\ UNCHANGED <<cabinet, values, sent>>

(* MUTANT: the status of the key is not looked at. *)
AnyKey(k) == keys[k].hash = "final"

(* APIKey.Valid and the comparison with the hash; keys do not expire.       *)
ValidKey(k) == keys[k].status = "active" /\ keys[k].hash = "final"

(* GetAPIKeyByID, 403 for a key that is not active, 401 for a wrong one.    *)
ReadKey(q) ==
  /\ phase[q] = "key"
  /\ IF ValidKey(asked[q].key)
     THEN /\ values' = [values EXCEPT ![q].org = keys[asked[q].key].org]
          /\ Move(q, "limit")
          /\ UNCHANGED <<cabinet, asked, sent, requested, dead>>
     ELSE Finish(q)

(* The limiter looks for "api_key_id" as a string; the authentication has   *)
(* put it there as a contextKey.  A request whose key is not found passes.  *)
RateLimit(q) ==
  /\ phase[q] = "limit"
  /\ Move(q, IF asked[q].path \in MyPaths THEN "me" ELSE "send")
  /\ UNCHANGED <<cabinet, asked, values, sent, requested, dead>>

(* MUTANT: the id of the organization is taken for that of the account. *)
ResolveToOrganization(q) ==
  /\ phase[q] = "me"
  /\ Move(q, "send")
  /\ sent' = [sent EXCEPT ![q].account = values[q].org]
  /\ UNCHANGED <<cabinet, asked, values, requested, dead>>

(* resolveMePath: the organization is read once more.                       *)
ResolveMe(q) ==
  LET account == AccountOf(values[q].org) IN
  /\ phase[q] = "me"
  /\ IF account = 0 THEN Finish(q)
     ELSE /\ Move(q, "send")
          /\ sent' = [sent EXCEPT ![q].account = account]
          /\ UNCHANGED <<cabinet, asked, values, requested, dead>>

(* The orchestrator takes X-Organization-ID for the account (getAccountID), *)
(* the billing service the number in the path, as it came or was put there  *)
(* by resolveMePath.  A transaction is no account: 0.                       *)
AccountSeen(q) ==
  IF asked[q].path = Recognize THEN values[q].org
  ELSE IF asked[q].path \in MyPaths THEN sent[q].account ELSE asked[q].id

(* The request goes on with X-Organization-ID, or there is no such path.    *)
(* A number in the path is forwarded as it is, whosever account it is.      *)
Forward(q) ==
  LET service == ResolveTarget(asked[q].path) IN
  /\ phase[q] = "send"
  /\ IF service = None THEN Finish(q)
     ELSE /\ Move(q, "sent")
          /\ sent' = [sent EXCEPT ![q] = [service |-> service, account |-> AccountSeen(q)]]
          /\ UNCHANGED <<cabinet, asked, values, requested, dead>>

(* The answer is passed back, or an error at any stage ends the request.    *)
Answer(q) == phase[q] # "idle" /\ Finish(q)

GatewayNext ==
  \/ \E q \in Requests, path \in Paths, k \in {0} \union handed,
        id \in {0} \union DOMAIN accounts : Arrive(q, path, k, id)
  \/ \E q \in Requests :
       ReadKey(q) \/ RateLimit(q) \/ ResolveMe(q) \/ Forward(q) \/ Answer(q)

Init == CabinetInit /\ GatewayInit
Next == (CabinetNext /\ UNCHANGED gateway) \/ GatewayNext
Spec == Init /\ [][Next]_vars

-----------------------------------------------------------------------------
(* Properties.                                                              *)

(* Every variable of both services holds a value that it can hold.          *)
TypeOK ==
  /\ CabinetTypeOK
  /\ phase \in [Requests -> {"idle", "key", "limit", "me", "send", "sent"}]
  /\ asked \in [Requests -> [path : Paths \union {None}, key : Nat, id : Nat]]
  /\ values \in [Requests -> [org : Nat]]
  /\ sent \in [Requests -> [service : {"orchestrator", "billing", "cabinet", None},
                            account : Nat]]
  /\ requested \in Nat
  /\ dead \in [Requests -> BOOLEAN]

(* The gateway keeps no key: a request that comes after the revocation of   *)
(* its key goes no further.                                                 *)
NothingAfterRevocation == \A q \in Requests : phase[q] = "sent" => ~dead[q]

(* A request for /accounts/me/ goes to the billing service with the account *)
(* that was opened for the organization whose key it has, although that     *)
(* organization is read again after the key, and registrations link their   *)
(* accounts meanwhile.  It says nothing of the paths that name an account   *)
(* or a transaction by its number: those go on with any valid key.          *)
MeIsOwn ==
  \A q \in Requests : phase[q] = "sent" /\ asked[q].path \in MyPaths =>
    /\ sent[q].service = "billing"
    /\ sent[q].account \in DOMAIN accounts
    /\ accounts[sent[q].account] = values[q].org

(* billing-architecture.md: operations name the account by the              *)
(* billing_account_id that the cabinet keeps for the organization.  So no   *)
(* recognition is charged to the account of another organization.           *)
RecognitionChargesOwner ==
  \A q \in Requests :
    /\ phase[q] = "sent" /\ sent[q].service = "orchestrator"
    /\ sent[q].account \in DOMAIN accounts
    => accounts[sent[q].account] = values[q].org
=============================================================================
