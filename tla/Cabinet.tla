------------------------------- MODULE Cabinet -------------------------------
(***************************************************************************)
(* The cabinet service: registration of an organization, which opens its   *)
(* account in the billing service, sessions, API keys and mock payments.   *)
(* A call runs one SQL statement, or one call of the billing service, per  *)
(* step, with no transaction.  Rows are numbered in order of insertion.    *)
(* The audit log, account_events, is left out: its errors are ignored and  *)
(* no handler reads it.                                                    *)
(***************************************************************************)
EXTENDS Integers, Sequences, FiniteSets

CONSTANTS
  Emails,     \* addresses that organizations register with
  Calls,      \* the calls the service can be handling at one time
  KeyLimit,   \* active keys of an organization: 10
  MaxCalls,   \* bound: calls in a behaviour
  MaxLogins,  \* bound: sessions, and calls to begin one, at a time
  None

ASSUME LimitIsPositive == KeyLimit \in Nat \ {0}
ASSUME CallsAreFinite == IsFiniteSet(Calls) /\ MaxCalls \in Nat /\ MaxLogins \in Nat
ASSUME NoneIsNoEmail == None \notin Emails

VARIABLES
  organizations,  \* the table
  users,          \* ids of the organizations that have their user
  accounts,       \* billing accounts: accounts[i] is the organization that
                  \* account i was opened for
  sessions,       \* the table; "live": not deleted and not past expires_at
  keys,           \* api_keys
  handed,         \* ids of the keys whose full text was answered
  payments,       \* mock_payments, each with the number of its top-ups
  pc,             \* pc[c]: the statement call c runs next; "ok": it succeeded
  job,            \* job[c]: what it was called for
  row,            \* row[c]: the organization, account, key or session in hand
  context,        \* context[c]: who calls, as the middleware or Login found
  started,        \* calls so far
  unsure          \* payments that two calls confirmed at one time, or whose
                  \* top-up was not followed by the UPDATE (history)

tables == <<organizations, users, accounts, sessions, keys, handed, payments>>
calls == <<pc, job, row, context, started>>
cabinet == <<tables, calls, unsure>>

Public == {"register", "login"}
(* "look": every call that changes none of the tables; the handlers Verify, *)
(* ListAPIKeys, GetBalance, GetSubscription, GetHistory, CreateSubscription. *)
Protected == {"look", "logout", "create_key", "revoke", "create_payment", "confirm"}
LoggingIn == {"read_org", "read_user", "insert_session"}
Running == {"find", "insert_org", "insert_user", "open", "link",
            "read_org", "read_user", "insert_session",
            "session", "identity", "handle", "insert_key", "hash",
            "topup", "complete"}

(* job.target: the key or the payment; job.session: the token.              *)
Jobs == [op : Public \union Protected, email : Emails \union {None},
         session : Nat, target : Nat]
Nobody == [org |-> 0, account |-> 0]

(* models: the columns that matter.  Account 0 is NULL, or the 0 of a       *)
(* session.  No code changes the status of an organization from "active".   *)
Organization == [email : Emails, verified : BOOLEAN, account : Nat]
Session == [org : Nat, account : Nat, live : BOOLEAN]
(* "temporary": the hash of the key with id 0.                              *)
APIKey == [org : Nat, status : {"active", "revoked"}, hash : {"temporary", "final"}]
MockPayment == [org : Nat, account : Nat, status : {"pending", "completed"},
                topups : Nat]

-----------------------------------------------------------------------------
(* Reads of the repository.                                                 *)

(* GetOrganizationByEmail.                                                  *)
OrganizationOf(e) == {o \in DOMAIN organizations : organizations[o].email = e}

(* GetOrganizationByID, and the billing account of it.                      *)
AccountOf(o) == organizations[o].account

(* CountActiveAPIKeys.                                                      *)
ActiveKeys(o) == {k \in DOMAIN keys : keys[k].org = o /\ keys[k].status = "active"}

(* GetSessionByToken: the row, if it has not expired.                       *)
IsLive(s) == s \in DOMAIN sessions /\ sessions[s].live

CabinetInit ==
  /\ organizations = << >> /\ users = {} /\ accounts = << >>
  /\ sessions = << >> /\ keys = << >> /\ handed = {} /\ payments = << >>
  /\ pc = [c \in Calls |-> "idle"]
  /\ job = [c \in Calls |-> None]
  /\ row = [c \in Calls |-> 0]
  /\ context = [c \in Calls |-> Nobody]
  /\ started = 0
  /\ unsure = {}

Goto(c, step) == pc' = [pc EXCEPT ![c] = step]

(* The call is over; its caller has an answer or an error.                  *)
End(c) ==
  /\ Goto(c, "idle")
  /\ job' = [job EXCEPT ![c] = None]
  /\ row' = [row EXCEPT ![c] = 0]
  /\ context' = [context EXCEPT ![c] = Nobody]
  /\ UNCHANGED started

Step(c, step) == Goto(c, step) /\ UNCHANGED <<job, row, context, started>>

StepWith(c, step, id) ==
  Goto(c, step) /\ row' = [row EXCEPT ![c] = id] /\ UNCHANGED <<job, context, started>>

Begin(c, step, j) ==
  /\ pc[c] = "idle" /\ started < MaxCalls
  /\ started' = started + 1
  /\ Goto(c, step)
  /\ job' = [job EXCEPT ![c] = j]
  /\ UNCHANGED <<row, context, tables, unsure>>

-----------------------------------------------------------------------------
(* Register.                                                                *)
StartRegister(c, e) ==
  Begin(c, "find", [op |-> "register", email |-> e, session |-> 0, target |-> 0])

(* An address that has an organization is refused.                          *)
FindEmail(c) ==
  /\ pc[c] = "find"
  /\ IF OrganizationOf(job[c].email) = {} THEN Step(c, "insert_org") ELSE End(c)
  /\ UNCHANGED <<tables, unsure>>

(* MUTANT: an INSERT that takes over the row which has the address. *)
UpsertOrganization(c) ==
  /\ pc[c] = "insert_org"
  /\ LET same == OrganizationOf(job[c].email) IN
       IF same = {}
       THEN /\ organizations' = Append(organizations,
                 [email |-> job[c].email, verified |-> FALSE, account |-> 0])
            /\ StepWith(c, "insert_user", Len(organizations) + 1)
       ELSE StepWith(c, "insert_user", CHOOSE o \in same : TRUE) /\ UNCHANGED organizations
  /\ UNCHANGED <<users, accounts, sessions, keys, handed, payments, unsure>>

(* CreateOrganization; organizations.email is UNIQUE.                       *)
InsertOrganization(c) ==
  /\ pc[c] = "insert_org"
  /\ IF OrganizationOf(job[c].email) = {}
     THEN /\ organizations' = Append(organizations,
               [email |-> job[c].email, verified |-> FALSE, account |-> 0])
          /\ StepWith(c, "insert_user", Len(organizations) + 1)
     ELSE End(c) /\ UNCHANGED organizations
  /\ UNCHANGED <<users, accounts, sessions, keys, handed, payments, unsure>>

(* CreateUser.                                                              *)
InsertUser(c) ==
  /\ pc[c] = "insert_user"
  /\ users' = users \union {row[c]}
  /\ Step(c, "open")
  /\ UNCHANGED <<organizations, accounts, sessions, keys, handed, payments, unsure>>

(* POST /accounts; context.org keeps the organization while the id of the   *)
(* account is in hand.                                                      *)
OpenAccount(c) ==
  /\ pc[c] = "open"
  /\ accounts' = Append(accounts, row[c])
  /\ Goto(c, "link")
  /\ context' = [context EXCEPT ![c] = [org |-> row[c], account |-> Len(accounts) + 1]]
  /\ UNCHANGED <<organizations, users, sessions, keys, handed, payments,
                 job, row, started, unsure>>

(* The billing service is down or slow, or the UPDATE fails: an error that  *)
(* is logged.  The account may have been opened all the same.               *)
GoWithoutAccount(c) ==
  /\ pc[c] \in {"open", "link"}
  /\ Step(c, "ok")
  /\ \/ UNCHANGED accounts
     \/ pc[c] = "open" /\ accounts' = Append(accounts, row[c])
  /\ UNCHANGED <<organizations, users, sessions, keys, handed, payments, unsure>>

(* MUTANT: the newest account is linked, not the one that was answered. *)
LinkNewest(c) ==
  /\ pc[c] = "link"
  /\ organizations' = [organizations EXCEPT ![row[c]].account = Len(accounts)]
  /\ Step(c, "ok")
  /\ UNCHANGED <<users, accounts, sessions, keys, handed, payments, unsure>>

(* SetBillingAccountID.                                                     *)
LinkAccount(c) ==
  /\ pc[c] = "link"
  /\ organizations' = [organizations EXCEPT ![row[c]].account = context[c].account]
  /\ Step(c, "ok")
  /\ UNCHANGED <<users, accounts, sessions, keys, handed, payments, unsure>>

(* No code of the services sets email_verified; it is done in SQL.          *)
OperatorVerifies(o) ==
  /\ ~organizations[o].verified
  /\ organizations' = [organizations EXCEPT ![o].verified = TRUE]
  /\ UNCHANGED <<users, accounts, sessions, keys, handed, payments, calls, unsure>>

-----------------------------------------------------------------------------
(* Login, and the session of every protected call.                          *)
StartLogin(c, e) ==
  /\ Len(sessions) + Cardinality({d \in Calls : pc[d] \in LoggingIn}) < MaxLogins
  /\ Begin(c, "read_org", [op |-> "login", email |-> e, session |-> 0, target |-> 0])

(* The organization, active and verified, with its account of the moment.   *)
ReadOrganization(c) ==
  /\ pc[c] = "read_org"
  /\ LET found == {o \in OrganizationOf(job[c].email) : organizations[o].verified} IN
       IF found = {} THEN End(c)
       ELSE /\ Goto(c, "read_user")
            /\ context' = [context EXCEPT ![c] =
                 LET o == CHOOSE o \in found : TRUE
                 IN [org |-> o, account |-> AccountOf(o)]]
            /\ UNCHANGED <<job, row, started>>
  /\ UNCHANGED <<tables, unsure>>

(* GetUserByEmail; the password is right.                                   *)
ReadUser(c) ==
  /\ pc[c] = "read_user"
  /\ IF context[c].org \in users THEN Step(c, "insert_session") ELSE End(c)
  /\ UNCHANGED <<tables, unsure>>

InsertSession(c) ==
  /\ pc[c] = "insert_session"
  /\ sessions' = Append(sessions,
       [org |-> context[c].org, account |-> context[c].account, live |-> TRUE])
  /\ StepWith(c, "ok", Len(sessions) + 1)
  /\ UNCHANGED <<organizations, users, accounts, keys, handed, payments, unsure>>

(* 24 hours have passed.                                                    *)
SessionExpires(s) ==
  /\ sessions[s].live
  /\ sessions' = [sessions EXCEPT ![s].live = FALSE]
  /\ UNCHANGED <<organizations, users, accounts, keys, handed, payments, calls, unsure>>

(* The routes behind the middleware; t: the key or payment in the path.     *)
StartProtected(c, s, op, t) ==
  /\ s \in DOMAIN sessions
  /\ IF op = "revoke" THEN t \in DOMAIN keys
     ELSE IF op = "confirm" THEN t \in DOMAIN payments ELSE t = 0
  /\ Begin(c, "session", [op |-> op, email |-> None, session |-> s, target |-> t])

ReadSession(c) ==
  /\ pc[c] = "session"
  /\ IF IsLive(job[c].session) THEN Step(c, "identity") ELSE End(c)
  /\ UNCHANGED <<tables, unsure>>

(* The account of the organization, or else that of the session.            *)
ReadIdentity(c) ==
  LET s == sessions[job[c].session] IN
  /\ pc[c] = "identity"
  /\ Goto(c, "handle")
  /\ context' = [context EXCEPT ![c] =
       [org |-> s.org,
        account |-> IF AccountOf(s.org) # 0 THEN AccountOf(s.org) ELSE s.account]]
  /\ UNCHANGED <<tables, job, row, started, unsure>>

Handles(c, op) == pc[c] = "handle" /\ job[c].op = op

(* DELETE; the handler answers 200 also when it fails.                      *)
Logout(c) ==
  /\ Handles(c, "logout")
  /\ Step(c, "ok")
  /\ \/ sessions' = [sessions EXCEPT ![job[c].session].live = FALSE]
     \/ UNCHANGED sessions
  /\ UNCHANGED <<organizations, users, accounts, keys, handed, payments, unsure>>

(* The organization is read again.                                          *)
Verify(c) == Handles(c, "look") /\ End(c) /\ UNCHANGED <<tables, unsure>>

(* Without an account 400, else the answer of the billing service.          *)
GetBalance(c) == Handles(c, "look") /\ End(c) /\ UNCHANGED <<tables, unsure>>
GetSubscription(c) == Handles(c, "look") /\ End(c) /\ UNCHANGED <<tables, unsure>>
GetHistory(c) == Handles(c, "look") /\ End(c) /\ UNCHANGED <<tables, unsure>>

(* The billing service does the work: module Subscriptions.                 *)
CreateSubscription(c) == Handles(c, "look") /\ End(c) /\ UNCHANGED <<tables, unsure>>

-----------------------------------------------------------------------------
(* API keys.                                                                *)

ListAPIKeys(c) == Handles(c, "look") /\ End(c) /\ UNCHANGED <<tables, unsure>>

(* CreateAPIKey counts the keys that are active; the INSERT comes after.    *)
CountKeys(c) ==
  /\ Handles(c, "create_key")
  /\ IF Cardinality(ActiveKeys(context[c].org)) >= KeyLimit THEN End(c) ELSE Step(c, "insert_key")
  /\ UNCHANGED <<tables, unsure>>

(* MUTANT: the key is answered with the hash it was inserted with. *)
InsertKeyAndAnswer(c) ==
  /\ pc[c] = "insert_key"
  /\ keys' = Append(keys, [org |-> context[c].org, status |-> "active", hash |-> "temporary"])
  /\ StepWith(c, "ok", Len(keys) + 1)
  /\ UNCHANGED <<organizations, users, accounts, sessions, handed, payments, unsure>>

(* The id of the row is part of the key, so the hash has to wait for it.    *)
InsertKey(c) ==
  /\ pc[c] = "insert_key"
  /\ keys' = Append(keys, [org |-> context[c].org, status |-> "active", hash |-> "temporary"])
  /\ StepWith(c, "hash", Len(keys) + 1)
  /\ UNCHANGED <<organizations, users, accounts, sessions, handed, payments, unsure>>

(* MUTANT: the UPDATE saves the key as it was created. *)
SaveKey(c) ==
  /\ pc[c] = "hash"
  /\ keys' = [keys EXCEPT ![row[c]] =
       [org |-> context[c].org, status |-> "active", hash |-> "final"]]
  /\ Step(c, "ok")
  /\ UNCHANGED <<organizations, users, accounts, sessions, handed, payments, unsure>>

(* UpdateAPIKeyHash.                                                        *)
WriteHash(c) ==
  /\ pc[c] = "hash"
  /\ keys' = [keys EXCEPT ![row[c]].hash = "final"]
  /\ Step(c, "ok")
  /\ UNCHANGED <<organizations, users, accounts, sessions, handed, payments, unsure>>

(* One UPDATE, for an active key of the caller's organization.              *)
RevokeAPIKey(c) ==
  LET k == job[c].target IN
  /\ Handles(c, "revoke")
  /\ IF k \in ActiveKeys(context[c].org)
     THEN keys' = [keys EXCEPT ![k].status = "revoked"] /\ Step(c, "ok")
     ELSE End(c) /\ UNCHANGED keys
  /\ UNCHANGED <<organizations, users, accounts, sessions, handed, payments, unsure>>

-----------------------------------------------------------------------------
(* Mock payments.                                                           *)

(* payment_id has the second and the organization in it and is UNIQUE: an   *)
(* INSERT that is refused is an Abort.  Account 0 is no obstacle.           *)
CreateMockPayment(c) ==
  /\ Handles(c, "create_payment")
  /\ payments' = Append(payments,
       [org |-> context[c].org, account |-> context[c].account,
        status |-> "pending", topups |-> 0])
  /\ StepWith(c, "ok", Len(payments) + 1)
  /\ UNCHANGED <<organizations, users, accounts, sessions, keys, handed, unsure>>

(* Call c has found payment p pending and not marked it yet.                *)
InHand(c, p) == pc[c] \in {"topup", "complete"} /\ job[c].target = p

Found(c) ==
  LET p == job[c].target IN
  /\ Step(c, "topup")
  /\ unsure' = IF \E d \in Calls : InHand(d, p) THEN unsure \union {p} ELSE unsure

(* MUTANT: the payment is found whatever its status. *)
FindAnyPayment(c) == Handles(c, "confirm") /\ Found(c) /\ UNCHANGED tables

(* The organization of the payment is not compared with the caller's.       *)
FindPendingPayment(c) ==
  /\ Handles(c, "confirm")
  /\ IF payments[job[c].target].status = "pending"
     THEN Found(c) ELSE End(c) /\ UNCHANGED unsure
  /\ UNCHANGED tables

(* MUTANT: the answer of the billing service is not looked at. *)
TopupAnyAnswer(c) ==
  /\ pc[c] = "topup"
  /\ Step(c, "complete")
  /\ \/ UNCHANGED payments
     \/ payments' = [payments EXCEPT ![job[c].target].topups = @ + 1]
  /\ UNCHANGED <<organizations, users, accounts, sessions, keys, handed, unsure>>

(* POST topup.  The billing service refuses an account that it does not     *)
(* have.  An answer that is lost or late stops the call.                    *)
Topup(c) ==
  LET p == job[c].target IN
  /\ pc[c] = "topup"
  /\ payments[p].account \in DOMAIN accounts
  /\ payments' = [payments EXCEPT ![p].topups = @ + 1]
  /\ \/ Step(c, "complete") /\ UNCHANGED unsure
     \/ End(c) /\ unsure' = unsure \union {p}
  /\ UNCHANGED <<organizations, users, accounts, sessions, keys, handed>>

(* MUTANT: a status that the table does not have. *)
MarkSucceeded(c) ==
  /\ pc[c] = "complete"
  /\ payments' = [payments EXCEPT ![job[c].target].status = "succeeded"]
  /\ Step(c, "ok")
  /\ UNCHANGED <<organizations, users, accounts, sessions, keys, handed, unsure>>

(* The UPDATE does not ask for the status again.                            *)
CompletePayment(c) ==
  /\ pc[c] = "complete"
  /\ payments' = [payments EXCEPT ![job[c].target].status = "completed"]
  /\ Step(c, "ok")
  /\ UNCHANGED <<organizations, users, accounts, sessions, keys, handed, unsure>>

-----------------------------------------------------------------------------
(* A statement fails, the request is cancelled or the service stops: what   *)
(* the call has written stays.                                              *)
Abort(c) ==
  /\ pc[c] \in Running
  /\ End(c)
  /\ unsure' = IF pc[c] = "complete" THEN unsure \union {job[c].target} ELSE unsure
  /\ UNCHANGED tables

(* The 200 or 201 reaches the caller; with it goes a new key.               *)
Return(c) ==
  /\ pc[c] = "ok"
  /\ handed' = IF job[c].op = "create_key" THEN handed \union {row[c]} ELSE handed
  /\ End(c)
  /\ UNCHANGED <<organizations, users, accounts, sessions, keys, payments, unsure>>

Serve(c) ==
  \/ FindEmail(c) \/ InsertOrganization(c) \/ InsertUser(c) \/ OpenAccount(c)
  \/ GoWithoutAccount(c) \/ LinkAccount(c)
  \/ ReadOrganization(c) \/ ReadUser(c) \/ InsertSession(c)
  \/ ReadSession(c) \/ ReadIdentity(c) \/ Logout(c) \/ Verify(c)
  \/ GetBalance(c) \/ GetSubscription(c) \/ GetHistory(c) \/ CreateSubscription(c)
  \/ ListAPIKeys(c) \/ CountKeys(c) \/ InsertKey(c) \/ WriteHash(c) \/ RevokeAPIKey(c)
  \/ CreateMockPayment(c) \/ FindPendingPayment(c) \/ Topup(c) \/ CompletePayment(c)

CabinetNext ==
  \/ \E c \in Calls, e \in Emails : StartRegister(c, e) \/ StartLogin(c, e)
  \/ \E c \in Calls, s \in DOMAIN sessions, op \in Protected,
        t \in {0} \union DOMAIN keys \union DOMAIN payments : StartProtected(c, s, op, t)
  \/ \E c \in Calls : Serve(c) \/ Abort(c) \/ Return(c)
  \/ \E o \in DOMAIN organizations : OperatorVerifies(o)
  \/ \E s \in DOMAIN sessions : SessionExpires(s)

-----------------------------------------------------------------------------
(* Properties.                                                              *)

CabinetTypeOK ==
  /\ organizations \in Seq(Organization)
  /\ users \subseteq DOMAIN organizations
  /\ accounts \in Seq(DOMAIN organizations)
  /\ sessions \in Seq(Session)
  /\ keys \in Seq(APIKey)
  /\ handed \subseteq DOMAIN keys
  /\ payments \in Seq(MockPayment)
  /\ pc \in [Calls -> Running \union {"idle", "ok"}]
  /\ job \in [Calls -> Jobs \union {None}]
  /\ row \in [Calls -> Nat]
  /\ context \in [Calls -> [org : Nat, account : Nat]]
  /\ started \in Nat
  /\ unsure \subseteq DOMAIN payments

(* However calls to register one address overlap, an organization never has *)
(* two billing accounts opened for it.                                      *)
OneAccountEach ==
  \A i, j \in DOMAIN accounts : accounts[i] = accounts[j] => i = j

Owns(o, i) == i = 0 \/ (i \in DOMAIN accounts /\ accounts[i] = o)

(* Whatever fails or overlaps in a registration, an organization, its       *)
(* sessions, its calls and its payments name no account but the one that    *)
(* was opened for it.                                                       *)
OwnAccount ==
  /\ \A o \in DOMAIN organizations : Owns(o, AccountOf(o))
  /\ \A s \in DOMAIN sessions : Owns(sessions[s].org, sessions[s].account)
  /\ \A p \in DOMAIN payments : Owns(payments[p].org, payments[p].account)
  /\ \A c \in Calls : Owns(context[c].org, context[c].account)

(* docs/api-scan-plan.md: an organization may have no more than 10 active   *)
(* keys at one time, however its calls to create them overlap.              *)
KeyLimitHolds ==
  \A o \in DOMAIN organizations : Cardinality(ActiveKeys(o)) <= KeyLimit

(* A key that was answered to its owner has the hash of the full key, and   *)
(* one that a stopped call left with the hash of key 0 was not answered.    *)
HandedKeyWorks == \A k \in handed : keys[k].hash = "final"

(* A key that is revoked, even while the call that creates it is at work,   *)
(* stays revoked.                                                           *)
RevokedForGood ==
  [][\A k \in DOMAIN keys :
       keys[k].status = "revoked" => keys'[k].status = "revoked"]_cabinet

(* A confirmed mock payment is credited once, unless two calls confirm it   *)
(* at one time or one stops between the top-up and the UPDATE.              *)
MockCreditedOnce ==
  \A p \in DOMAIN payments : payments[p].topups > 1 => p \in unsure

(* A mock payment that is marked completed was topped up, however its       *)
(* confirmations overlap, stop or repeat and whatever the billing service   *)
(* refuses or does not answer: no paid amount is closed without its credit. *)
CompletedIsToppedUp ==
  \A p \in DOMAIN payments :
    payments[p].status = "completed" => payments[p].topups > 0
=============================================================================
