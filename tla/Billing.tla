------------------------------- MODULE Billing -------------------------------
(***************************************************************************)
(* The two-phase charging engine of the billing service                    *)
(* (services/billing): Reserve, Commit and Rollback as the HTTP handlers   *)
(* run them, several at a time.  No operation opens a transaction: every   *)
(* repository call is an SQL statement of its own, so each is a step here, *)
(* and calls interleave between statements.  A call may stop after any     *)
(* statement (its context is cancelled, the database fails, the process    *)
(* dies); what it had written stays written.                               *)
(***************************************************************************)
EXTENDS Integers, Sequences, FiniteSetsExt

CONSTANTS
  Accounts,    \* billing accounts
  Requests,    \* request ids the callers use
  Calls,       \* the HTTP calls the service can be handling at one time
  Priced,      \* accounts with an active subscription whose tariff prices the service
  Status,      \* Status[a]: accounts.status
  Opening,     \* Opening[a]: the balance snapshot, [real, prepaid]
  IncludedPrice, OveragePrice, DefaultPrice,
  Topups,      \* amounts of a top-up
  MaxTopups,   \* bound: top-ups in a behaviour
  TimePasses,  \* whether a reservation can reach its expires_at
  None

ASSUME PricesAreAmounts ==
  IncludedPrice \in Nat /\ OveragePrice \in Nat /\ DefaultPrice \in Nat
ASSUME OpeningIsBalance == Opening \in [Accounts -> [real : Int, prepaid : Int]]
ASSUME AccountsAreRows ==
  Priced \subseteq Accounts /\ Status \in [Accounts -> {"active", "blocked", "archived"}]
(* A request id is a VARCHAR(100).                                         *)
ASSUME RequestIdsAreFinite == IsFiniteSet(Requests)
ASSUME TopupsArePositive == Topups \subseteq Nat \ {0} /\ MaxTopups \in Nat

VARIABLES
  reservations,  \* reservations[r]: the row with request_id r, or None
  events,        \* billing_events, oldest first
  pc,            \* pc[c]: the statement call c runs next, or its answer
  account,       \* account[c], request[c]: the arguments of call c
  request,
  seen,          \* seen[c]: how many events call c has read (the oldest ones)
  hold           \* hold[c]: the reservation call c read, or is about to insert

vars == <<reservations, events, pc, account, request, seen, hold>>
database == <<reservations, events>>

(* Statements of Reserve, of Commit and of Rollback, and the answers.      *)
Running == {"lookup", "balance", "reservations", "insert",
            "read", "delete", "bill", "rollback"}
Answers == {"ok", "failed", "insufficient"}
(* Calls of Commit that have read their reservation.                       *)
Committing == {"delete", "bill"}

ChargeTypes == {"prepaid", "pay_as_you_go"}
EventTypes == {"prepaid_usage", "pay_as_you_go", "balance_topup"}
Amounts == {IncludedPrice, OveragePrice, DefaultPrice}
Rows == [account : Accounts, type : ChargeTypes, amount : Amounts, expired : BOOLEAN]
Events == [request : Requests \union {None}, account : Accounts,
           type : EventTypes, amount : Int]

ASSUME NoneIsNothing ==
  None \notin Accounts /\ None \notin Requests /\ None \notin Rows

-----------------------------------------------------------------------------
(* What is billed and what is held.                                        *)
Total(a, types, n) ==
  SumFunctionOnSet([i \in DOMAIN events |-> events[i].amount],
    {i \in 1..n : events[i].account = a /\ events[i].type \in types})

(* GetAccountBalance plus GetBillingEventsSince: the snapshot and the first *)
(* n events, all after it.  Nothing moves the snapshot in this module.      *)
BalanceAt(a, n) ==
  [ real    |-> Opening[a].real + Total(a, {"pay_as_you_go", "balance_topup"}, n),
    prepaid |-> Opening[a].prepaid + Total(a, {"prepaid_usage"}, n) ]

(* GetActiveReservations, of one charge type: expired rows don't count.     *)
ActiveReservations(a, type) ==
  {r \in Requests : /\ reservations[r] # None
                    /\ reservations[r].account = a
                    /\ reservations[r].type = type
                    /\ ~reservations[r].expired}

(* Reserve adds them up by charge type.                                     *)
Reserved(a, type) ==
  LET rows == ActiveReservations(a, type)
  IN  SumFunctionOnSet([r \in rows |-> reservations[r].amount], rows)

(* What the first n events and the reservations leave.                      *)
AvailableAt(a, n) ==
  [ real    |-> BalanceAt(a, n).real - Reserved(a, "pay_as_you_go"),
    prepaid |-> BalanceAt(a, n).prepaid - Reserved(a, "prepaid") ]

Charge(type, amount) == [type |-> type, amount |-> amount]

(* MUTANT: the overage price is not compared with what is available. *)
PriceUnchecked(priced, available) ==
  IF priced /\ available.prepaid >= IncludedPrice THEN Charge("prepaid", IncludedPrice)
  ELSE IF available.real > 0
       THEN Charge("pay_as_you_go", IF priced THEN OveragePrice ELSE DefaultPrice)
       ELSE None

(* The charge Reserve settles on for what is available, or None. *)
Price(priced, available) ==
  IF priced
  THEN IF available.prepaid >= IncludedPrice THEN Charge("prepaid", IncludedPrice)
       ELSE IF available.real >= OveragePrice THEN Charge("pay_as_you_go", OveragePrice)
       ELSE None
  ELSE IF available.real > 0 THEN Charge("pay_as_you_go", DefaultPrice) ELSE None

Billed(r) == \E i \in DOMAIN events : events[i].request = r

-----------------------------------------------------------------------------
Init ==
  /\ reservations = [r \in Requests |-> None]
  /\ events = << >>
  /\ pc = [c \in Calls |-> "idle"]
  /\ account = [c \in Calls |-> None]
  /\ request = [c \in Calls |-> None]
  /\ seen = [c \in Calls |-> 0]
  /\ hold = [c \in Calls |-> None]

Goto(c, step) == pc' = [pc EXCEPT ![c] = step]

Start(c, step, a, r) ==
  /\ pc[c] = "idle"
  /\ Goto(c, step)
  /\ account' = [account EXCEPT ![c] = a]
  /\ request' = [request EXCEPT ![c] = r]
  /\ UNCHANGED <<database, seen, hold>>

StartReserve(c, a, r) == Start(c, "lookup", a, r)
StartCommit(c, r) == Start(c, "read", None, r)
StartRollback(c, r) == Start(c, "rollback", None, r)

-----------------------------------------------------------------------------
(* Reserve.                                                                 *)

(* The account must be active; a row that is already there for the request *)
(* is the answer, whoever made it and however old it is.                    *)
Lookup(c) ==
  /\ pc[c] = "lookup"
  /\ \/ /\ Status[account[c]] # "active"
        /\ Goto(c, "failed")
        /\ UNCHANGED hold
     \/ /\ Status[account[c]] = "active"
        /\ reservations[request[c]] # None
        /\ Goto(c, "ok")
        /\ hold' = [hold EXCEPT ![c] = reservations[request[c]]]
     \/ /\ Status[account[c]] = "active"
        /\ reservations[request[c]] = None
        /\ Goto(c, "balance")
        /\ UNCHANGED hold
  /\ UNCHANGED <<database, account, request, seen>>

(* An error of that query counts as "no reservation".                       *)
LookupError(c) ==
  /\ pc[c] = "lookup"
  /\ Status[account[c]] = "active"
  /\ Goto(c, "balance")
  /\ UNCHANGED <<database, account, request, seen, hold>>

ReadBalance(c) ==
  /\ pc[c] = "balance"
  /\ seen' = [seen EXCEPT ![c] = Len(events)]
  /\ Goto(c, "reservations")
  /\ UNCHANGED <<database, account, request, hold>>

Settle(c, charge) ==
  \/ /\ charge = None
     /\ Goto(c, "insufficient")
     /\ UNCHANGED hold
  \/ /\ charge # None
     /\ Goto(c, "insert")
     /\ hold' = [hold EXCEPT ![c] = [account |-> account[c], type |-> charge.type,
                                     amount |-> charge.amount, expired |-> FALSE]]

(* The reservations, then the price: subscriptions do not move here, and an *)
(* error of the price query counts as "no price for the service".           *)
ReadReservations(c) ==
  /\ pc[c] = "reservations"
  /\ \E priced \in BOOLEAN :
       /\ priced => account[c] \in Priced
       /\ Settle(c, Price(priced, AvailableAt(account[c], seen[c])))
  /\ seen' = [seen EXCEPT ![c] = 0]
  /\ UNCHANGED <<database, account, request>>

(* reservations.request_id is UNIQUE.                                       *)
Insert(c) ==
  /\ pc[c] = "insert"
  /\ \/ /\ reservations[request[c]] # None
        /\ Goto(c, "failed")
        /\ UNCHANGED reservations
     \/ /\ reservations[request[c]] = None
        /\ Goto(c, "ok")
        /\ reservations' = [reservations EXCEPT ![request[c]] = hold[c]]
  /\ UNCHANGED <<events, account, request, seen, hold>>

-----------------------------------------------------------------------------
(* Commit.                                                                  *)
CommitRead(c) ==
  /\ pc[c] = "read"
  /\ \/ /\ reservations[request[c]] = None
        /\ Goto(c, "failed")
        /\ UNCHANGED hold
     \/ /\ reservations[request[c]] # None
        /\ Goto(c, "delete")
        /\ hold' = [hold EXCEPT ![c] = reservations[request[c]]]
  /\ UNCHANGED <<database, account, request, seen>>

(* The DELETE succeeds whether or not the row is still there.               *)
CommitDelete(c) ==
  /\ pc[c] = "delete"
  /\ reservations' = [reservations EXCEPT ![request[c]] = None]
  /\ Goto(c, "bill")
  /\ UNCHANGED <<events, account, request, seen, hold>>

(* MUTANT: the charge type is written as it is. *)
EventTypeSame(type) == type

EventType(type) == IF type = "prepaid" THEN "prepaid_usage" ELSE "pay_as_you_go"

(* MUTANT: the charge is credited. *)
UsageEventCredited(r, row) ==
  [ request |-> r, account |-> row.account,
    type |-> EventType(row.type), amount |-> row.amount ]

UsageEvent(r, row) ==
  [ request |-> r, account |-> row.account,
    type |-> EventType(row.type), amount |-> -row.amount ]

(* MUTANT: without the UNIQUE constraint on the events' request_id. *)
CommitBillAgain(c) ==
  /\ pc[c] = "bill"
  /\ Goto(c, "ok")
  /\ events' = Append(events, UsageEvent(request[c], hold[c]))
  /\ UNCHANGED <<reservations, account, request, seen, hold>>

(* billing_events.request_id is UNIQUE.                                     *)
CommitBill(c) ==
  /\ pc[c] = "bill"
  /\ \/ /\ Billed(request[c])
        /\ Goto(c, "failed")
        /\ UNCHANGED events
     \/ /\ ~Billed(request[c])
        /\ Goto(c, "ok")
        /\ events' = Append(events, UsageEvent(request[c], hold[c]))
  /\ UNCHANGED <<reservations, account, request, seen, hold>>

(* Rollback: one DELETE, which succeeds whatever it finds.                  *)
Rollback(c) ==
  /\ pc[c] = "rollback"
  /\ reservations' = [reservations EXCEPT ![request[c]] = None]
  /\ Goto(c, "ok")
  /\ UNCHANGED <<events, account, request, seen, hold>>

-----------------------------------------------------------------------------
(* A call stops at a statement: its error is the answer.                   *)
Abort(c) ==
  /\ pc[c] \in Running
  /\ Goto(c, "failed")
  /\ UNCHANGED <<database, account, request, seen, hold>>

(* The caller has the answer and the call is over.                          *)
Return(c) ==
  /\ pc[c] \in Answers
  /\ Goto(c, "idle")
  /\ account' = [account EXCEPT ![c] = None]
  /\ request' = [request EXCEPT ![c] = None]
  /\ seen' = [seen EXCEPT ![c] = 0]
  /\ hold' = [hold EXCEPT ![c] = None]
  /\ UNCHANGED database

TopupEvent(a, n) ==
  [request |-> None, account |-> a, type |-> "balance_topup", amount |-> n]

(* CreateTopupEvent: one INSERT; the trigger gives it a fresh request_id.   *)
Topup(a, n) ==
  /\ Cardinality({i \in DOMAIN events : events[i].request = None}) < MaxTopups
  /\ events' = Append(events, TopupEvent(a, n))
  /\ UNCHANGED <<reservations, pc, account, request, seen, hold>>

(* Five minutes have passed since the reservation was made.                 *)
Expire(r) ==
  /\ TimePasses
  /\ reservations[r] # None
  /\ ~reservations[r].expired
  /\ reservations' = [reservations EXCEPT ![r].expired = TRUE]
  /\ UNCHANGED <<events, pc, account, request, seen, hold>>

Serve(c) ==
  \/ Lookup(c) \/ LookupError(c) \/ ReadBalance(c) \/ ReadReservations(c) \/ Insert(c)
  \/ CommitRead(c) \/ CommitDelete(c) \/ CommitBill(c) \/ Rollback(c)

Environment ==
  \/ \E a \in Accounts, n \in Topups : Topup(a, n)
  \/ \E r \in Requests : Expire(r)

Next ==
  \/ \E c \in Calls, a \in Accounts, r \in Requests : StartReserve(c, a, r)
  \/ \E c \in Calls, r \in Requests : StartCommit(c, r) \/ StartRollback(c, r)
  \/ \E c \in Calls : Serve(c) \/ Abort(c) \/ Return(c)
  \/ Environment

Spec == Init /\ [][Next]_vars

-----------------------------------------------------------------------------
(* Properties.                                                              *)

(* Every variable holds a value the service or its tables can hold.         *)
TypeOK ==
  /\ reservations \in [Requests -> Rows \union {None}]
  /\ events \in Seq(Events)
  /\ pc \in [Calls -> {"idle"} \union Running \union Answers]
  /\ account \in [Calls -> Accounts \union {None}]
  /\ request \in [Calls -> Requests \union {None}]
  /\ seen \in [Calls -> Nat]
  /\ hold \in [Calls -> Rows \union {None}]

(* However commits, retries and re-reservations of one request id overlap,  *)
(* the request is billed at most once.                                      *)
ChargedOnce ==
  \A i, j \in DOMAIN events :
    events[i].request # None /\ events[i].request = events[j].request => i = j

TermsOf(row) == [account |-> row.account, type |-> EventType(row.type), amount |-> row.amount]

Terms == [account : Accounts, type : EventTypes, amount : Amounts]

(* The terms r may be billed on: those of its row, and those of the commits *)
(* that have read its row and not yet inserted the event.                   *)
HeldFor(r) ==
  {TermsOf(row) : row \in {reservations[r]} \ {None}} \union
  {TermsOf(hold[c]) : c \in {d \in Calls : pc[d] \in Committing /\ request[d] = r}}

TermsOnHold == [r \in Requests |-> HeldFor(r)]

Ledger == INSTANCE ChargeLedger
  WITH onHold <- TermsOnHold, log <- events, NoRequest <- None

(* The service implements ChargeLedger: an event bills a request once, on   *)
(* terms held for it at that moment, and no event is changed or removed.    *)
ImplementsLedger == Ledger!LSpec

Available(a) == AvailableAt(a, Len(events))

(* Whether a is charged the default price, held or billed.                  *)
DefaultCharged(a) ==
  \/ \E r \in Requests : /\ reservations[r] # None
                          /\ reservations[r].account = a
                          /\ reservations[r].amount = DefaultPrice
  \/ \E i \in DOMAIN events : events[i].account = a /\ events[i].amount = -DefaultPrice

(* What is reserved and billed exceeds neither the prepaid package nor the  *)
(* real balance of a, but for one request at the default price, which any   *)
(* positive balance admits.                                                 *)
NotOverdrawn(a) ==
  /\ Available(a).prepaid >= 0
  /\ \/ Available(a).real >= 0
     \/ Available(a).real > -DefaultPrice /\ DefaultCharged(a)

(* What Reserve's checks are for: no account is ever overdrawn.             *)
NeverOverdrawn == \A a \in Accounts : NotOverdrawn(a)
=============================================================================
