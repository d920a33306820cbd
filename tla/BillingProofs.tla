---------------------------- MODULE BillingProofs ----------------------------
(***************************************************************************)
(* Proofs about Billing, for any accounts, requests, prices and number of  *)
(* calls at a time.                                                        *)
(*                                                                         *)
(* TypeOK is not inductive: that an event is well formed needs the row its *)
(* call holds, and that a hold is well formed needs the call's account.    *)
(* ArgumentsInv adds what a call in progress has got.                      *)
(***************************************************************************)
EXTENDS Billing, SequenceTheorems, TLAPS

(* A call in progress knows its request; before it has settled on a charge  *)
(* it knows its account, and from then on it has a row in hand.             *)
Settling == {"lookup", "balance", "reservations"}
Holding == {"insert"} \union Committing

ArgumentsInv ==
  \A c \in Calls :
    /\ pc[c] \in Running => request[c] \in Requests
    /\ pc[c] \in Settling => account[c] \in Accounts
    /\ pc[c] \in Holding => hold[c] \in Rows

IInv == TypeOK /\ ArgumentsInv /\ ChargedOnce

-----------------------------------------------------------------------------
(* Whatever the balance, the charge Reserve settles on is one of a price    *)
(* list, or there is none.                                                  *)
LEMMA PriceType ==
  ASSUME NEW priced \in BOOLEAN, NEW available
  PROVE  LET charge == Price(priced, available) IN
         charge # None => charge \in [type : ChargeTypes, amount : Amounts]
BY DEF Price, Charge, ChargeTypes, Amounts

(* The event of a commit is well formed.                                    *)
LEMMA UsageEventType ==
  ASSUME NEW r \in Requests, NEW row \in Rows
  PROVE  UsageEvent(r, row) \in Events
<1>1. row.amount \in Int
  BY PricesAreAmounts DEF Rows, Amounts
<1> QED
  BY <1>1 DEF UsageEvent, EventType, Events, EventTypes, Rows

(* So is that of a top-up.                                                  *)
LEMMA TopupEventType ==
  ASSUME NEW a \in Accounts, NEW n \in Topups
  PROVE  TopupEvent(a, n) \in Events
BY TopupsArePositive DEF TopupEvent, Events, EventTypes

-----------------------------------------------------------------------------
(* The steps of a call keep the types and the arguments of the calls.       *)
LEMMA ServeStep ==
  ASSUME TypeOK, ArgumentsInv, NEW c \in Calls, Serve(c)
  PROVE  TypeOK' /\ ArgumentsInv'
<1> USE DEF TypeOK, ArgumentsInv, Running, Answers, Settling, Holding, Committing, Goto, database
<1>1. CASE Lookup(c)
  BY <1>1 DEF Lookup
<1>2. CASE LookupError(c)
  BY <1>2 DEF LookupError
<1>3. CASE ReadBalance(c)
  <2>1. Len(events) \in Nat
    BY LenProperties
  <2> QED
    BY <1>3, <2>1 DEF ReadBalance
<1>4. CASE ReadReservations(c)
  <2>p. PICK priced \in BOOLEAN : Settle(c, Price(priced, AvailableAt(account[c], seen[c])))
    BY <1>4 DEF ReadReservations
  <2> DEFINE charge == Price(priced, AvailableAt(account[c], seen[c]))
  <2>1. /\ Settle(c, charge)
        /\ charge # None => charge \in [type : ChargeTypes, amount : Amounts]
    BY <2>p, PriceType
  <2> HIDE DEF charge
  <2>0. pc[c] = "reservations" /\ account[c] \in Accounts
    BY <1>4 DEF ReadReservations
  <2>2. seen' = [seen EXCEPT ![c] = 0] /\ UNCHANGED <<database, account, request>>
    BY <1>4 DEF ReadReservations
  <2>3. CASE charge = None
    BY <2>0, <2>1, <2>2, <2>3 DEF Settle
  <2>4. CASE charge # None
    <3> DEFINE row == [account |-> account[c], type |-> charge.type,
                       amount |-> charge.amount, expired |-> FALSE]
    <3>1. row \in Rows
      BY <2>0, <2>1, <2>4 DEF Rows
    <3>2. hold' = [hold EXCEPT ![c] = row] /\ pc' = [pc EXCEPT ![c] = "insert"]
      BY <2>1, <2>4 DEF Settle
    <3> HIDE DEF row
    <3> QED
      BY <2>0, <2>2, <3>1, <3>2
  <2> QED
    BY <2>3, <2>4
<1>5. CASE Insert(c)
  <2>1. CASE reservations[request[c]] = None
    BY <1>5, <2>1 DEF Insert
  <2>2. CASE reservations[request[c]] # None
    BY <1>5, <2>2 DEF Insert
  <2> QED
    BY <2>1, <2>2
<1>6. CASE CommitRead(c)
  BY <1>6 DEF CommitRead
<1>7. CASE CommitDelete(c)
  BY <1>7 DEF CommitDelete
<1>8. CASE CommitBill(c)
  <2>1. UsageEvent(request[c], hold[c]) \in Events
    BY <1>8, UsageEventType DEF CommitBill
  <2>2. Append(events, UsageEvent(request[c], hold[c])) \in Seq(Events)
    BY <2>1, AppendProperties
  <2> QED
    BY <1>8, <2>2 DEF CommitBill
<1>9. CASE Rollback(c)
  BY <1>9 DEF Rollback
<1> QED
  BY <1>1, <1>2, <1>3, <1>4, <1>5, <1>6, <1>7, <1>8, <1>9 DEF Serve

(* So do the steps the clients, the clock and the crashes take.             *)
LEMMA OtherStep ==
  ASSUME TypeOK, ArgumentsInv,
         \/ \E c \in Calls, a \in Accounts, r \in Requests : StartReserve(c, a, r)
         \/ \E c \in Calls, r \in Requests : StartCommit(c, r) \/ StartRollback(c, r)
         \/ \E c \in Calls : Abort(c) \/ Return(c)
         \/ Environment
         \/ UNCHANGED vars
  PROVE  TypeOK' /\ ArgumentsInv'
<1> USE DEF TypeOK, ArgumentsInv, Running, Answers, Settling, Holding, Committing, Goto, database
<1>1. ASSUME NEW c \in Calls, NEW a \in Accounts, NEW r \in Requests, StartReserve(c, a, r)
      PROVE  TypeOK' /\ ArgumentsInv'
  BY <1>1 DEF StartReserve, Start
<1>2. ASSUME NEW c \in Calls, NEW r \in Requests, StartCommit(c, r) \/ StartRollback(c, r)
      PROVE  TypeOK' /\ ArgumentsInv'
  <2>1. CASE StartCommit(c, r)
    BY <2>1 DEF StartCommit, Start
  <2>2. CASE StartRollback(c, r)
    BY <2>2 DEF StartRollback, Start
  <2> QED
    BY <1>2, <2>1, <2>2
<1>3. ASSUME NEW c \in Calls, Abort(c) \/ Return(c)
      PROVE  TypeOK' /\ ArgumentsInv'
  <2>1. CASE Abort(c)
    BY <2>1 DEF Abort
  <2>2. CASE Return(c)
    BY <2>2 DEF Return
  <2> QED
    BY <1>3, <2>1, <2>2
<1>4. ASSUME NEW a \in Accounts, NEW n \in Topups, Topup(a, n)
      PROVE  TypeOK' /\ ArgumentsInv'
  <2>1. Append(events, TopupEvent(a, n)) \in Seq(Events)
    BY TopupEventType, AppendProperties
  <2> QED
    BY <1>4, <2>1 DEF Topup
<1>5. ASSUME NEW r \in Requests, Expire(r)
      PROVE  TypeOK' /\ ArgumentsInv'
  <2>1. [reservations[r] EXCEPT !.expired = TRUE] \in Rows
    BY <1>5 DEF Expire, Rows
  <2> QED
    BY <1>5, <2>1 DEF Expire
<1>6. CASE UNCHANGED vars
  BY <1>6 DEF vars
<1> QED
  BY <1>1, <1>2, <1>3, <1>4, <1>5, <1>6 DEF Environment

(* An event that bills nothing, or a request not yet billed, leaves every   *)
(* request billed at most once.                                             *)
LEMMA AppendOnce ==
  ASSUME events \in Seq(Events), ChargedOnce, NEW e \in Events,
         e.request # None => ~Billed(e.request),
         events' = Append(events, e)
  PROVE  ChargedOnce'
<1>1. /\ events' \in Seq(Events)
      /\ Len(events') = Len(events) + 1
      /\ \A i \in 1..Len(events) : events'[i] = events[i]
      /\ events'[Len(events) + 1] = e
  BY AppendProperties
<1>2. DOMAIN events = 1..Len(events) /\ DOMAIN events' = 1..Len(events') /\ Len(events) \in Nat
  BY <1>1, LenProperties
<1> SUFFICES ASSUME NEW i \in DOMAIN events', NEW j \in DOMAIN events',
                    events'[i].request # None, events'[i].request = events'[j].request
             PROVE  i = j
  BY DEF ChargedOnce
<1>3. CASE i \in 1..Len(events) /\ j \in 1..Len(events)
  BY <1>1, <1>2, <1>3 DEF ChargedOnce
<1>4. CASE i = Len(events) + 1 /\ j \in 1..Len(events)
  BY <1>1, <1>2, <1>4 DEF Billed
<1>5. CASE i \in 1..Len(events) /\ j = Len(events) + 1
  BY <1>1, <1>2, <1>5 DEF Billed
<1> QED
  BY <1>1, <1>2, <1>3, <1>4, <1>5

(* Only CommitBill and Topup add an event, and both satisfy AppendOnce.     *)
LEMMA ChargedOnceStep ==
  ASSUME IInv, [Next]_vars
  PROVE  ChargedOnce'
<1> USE DEF IInv, TypeOK
<1>1. CASE UNCHANGED events
  BY <1>1 DEF IInv, ChargedOnce
<1>2. ASSUME NEW c \in Calls, CommitBill(c), ~Billed(request[c]) PROVE ChargedOnce'
  <2>1. request[c] \in Requests /\ hold[c] \in Rows
    BY <1>2 DEF CommitBill, ArgumentsInv, Running, Holding, Committing
  <2>2. /\ UsageEvent(request[c], hold[c]) \in Events
        /\ UsageEvent(request[c], hold[c]).request = request[c]
    BY <2>1, UsageEventType DEF UsageEvent
  <2>3. events' = Append(events, UsageEvent(request[c], hold[c]))
    BY <1>2 DEF CommitBill
  <2> QED
    BY <1>2, <2>2, <2>3, AppendOnce
<1>3. ASSUME NEW a \in Accounts, NEW n \in Topups, Topup(a, n) PROVE ChargedOnce'
  <2>1. TopupEvent(a, n) \in Events /\ TopupEvent(a, n).request = None
    BY TopupEventType DEF TopupEvent
  <2>2. events' = Append(events, TopupEvent(a, n))
    BY <1>3 DEF Topup
  <2> QED
    BY <2>1, <2>2, AppendOnce
<1> QED
  BY <1>1, <1>2, <1>3
  DEF Next, Environment, vars, database, Serve, StartReserve, StartCommit, StartRollback, Start,
      Lookup, LookupError, ReadBalance, ReadReservations, Insert, CommitRead, CommitDelete,
      CommitBill, Rollback, Abort, Return, Expire

-----------------------------------------------------------------------------
(* It holds in the initial state, and every step keeps it.                  *)
LEMMA InvariantInit == Init => IInv
<1> SUFFICES ASSUME Init PROVE IInv
  OBVIOUS
<1>1. TypeOK
  BY DEF Init, TypeOK
<1>2. ArgumentsInv
  BY DEF Init, ArgumentsInv, Running, Settling, Holding, Committing
<1>3. ChargedOnce
  BY DEF Init, ChargedOnce
<1> QED
  BY <1>1, <1>2, <1>3 DEF IInv

LEMMA InvariantStep == IInv /\ [Next]_vars => IInv'
<1> SUFFICES ASSUME IInv, [Next]_vars PROVE IInv'
  OBVIOUS
<1>1. TypeOK' /\ ArgumentsInv'
  BY ServeStep, OtherStep DEF IInv, Next
<1> QED
  BY <1>1, ChargedOnceStep DEF IInv

(* So it holds in every reachable state.                                    *)
THEOREM Invariant == Spec => []IInv
BY InvariantInit, InvariantStep, PTL DEF Spec

(* The tables and the calls in progress always hold what they may hold.     *)
THEOREM TypeCorrect == Spec => []TypeOK
BY Invariant, PTL DEF IInv

(* No interleaving of any number of calls bills a request twice.            *)
THEOREM EachChargedOnce == Spec => []ChargedOnce
BY Invariant, PTL DEF IInv

-----------------------------------------------------------------------------
(* Billing implements ChargeLedger: every step of a call, taken in a state  *)
(* that satisfies the invariant, puts terms on hold, releases some, charges *)
(* a request on terms it holds, credits an account, or changes nothing the  *)
(* ledger knows of.                                                         *)

(* The terms of a row are terms.                                            *)
LEMMA TermsOfType ==
  ASSUME NEW row \in Rows
  PROVE  TermsOf(row) \in Terms
BY DEF TermsOf, Terms, Rows, EventType, EventTypes, ChargeTypes

(* What is on hold depends on the rows and on the commits under way only.   *)
LEMMA SameHolds ==
  ASSUME \A r \in Requests : HeldFor(r)' = HeldFor(r)
  PROVE  TermsOnHold' = TermsOnHold
BY DEF TermsOnHold

(* A step that takes terms away from one request only is a Release.         *)
LEMMA FewerHolds ==
  ASSUME NEW r \in Requests,
         HeldFor(r)' \subseteq HeldFor(r),
         \A s \in Requests \ {r} : HeldFor(s)' = HeldFor(s)
  PROVE  \E kept \in SUBSET TermsOnHold[r] : TermsOnHold' = [TermsOnHold EXCEPT ![r] = kept]
<1>1. HeldFor(r)' \in SUBSET TermsOnHold[r]
  BY DEF TermsOnHold
<1>2. TermsOnHold' = [TermsOnHold EXCEPT ![r] = HeldFor(r)']
  BY DEF TermsOnHold
<1> QED
  BY <1>1, <1>2

(* Steps that leave the rows and the commits under way as they are.         *)
LEMMA QuietStep ==
  ASSUME UNCHANGED reservations,
         \A c \in Calls :
           /\ (pc[c] \in Committing)' <=> pc[c] \in Committing
           /\ pc[c] \in Committing => request'[c] = request[c] /\ hold'[c] = hold[c]
  PROVE  TermsOnHold' = TermsOnHold
<1>1. ASSUME NEW r \in Requests PROVE HeldFor(r)' = HeldFor(r)
  BY DEF HeldFor
<1> QED
  BY <1>1, SameHolds

-----------------------------------------------------------------------------
(* Steps the ledger does not see: those of Reserve up to its INSERT, the    *)
(* beginning and the end of a call, and a commit that reads its row.        *)
LEMMA UnseenStep ==
  ASSUME TypeOK, ArgumentsInv, NEW c \in Calls,
         \/ \E a \in Accounts, r \in Requests : StartReserve(c, a, r)
         \/ \E r \in Requests : StartCommit(c, r) \/ StartRollback(c, r)
         \/ Lookup(c) \/ LookupError(c) \/ ReadBalance(c) \/ ReadReservations(c)
         \/ CommitRead(c) \/ Return(c)
  PROVE  UNCHANGED <<TermsOnHold, events>>
<1> USE DEF TypeOK, Committing, Goto, database
<1>1. ASSUME NEW a \in Accounts, NEW r \in Requests, StartReserve(c, a, r)
      PROVE  UNCHANGED <<TermsOnHold, events>>
  BY <1>1, QuietStep DEF StartReserve, Start
<1>2. ASSUME NEW r \in Requests, StartCommit(c, r) \/ StartRollback(c, r)
      PROVE  UNCHANGED <<TermsOnHold, events>>
  BY <1>2, QuietStep DEF StartCommit, StartRollback, Start
<1>3. CASE Lookup(c)
  BY <1>3, QuietStep DEF Lookup
<1>4. CASE LookupError(c)
  BY <1>4, QuietStep DEF LookupError
<1>5. CASE ReadBalance(c)
  BY <1>5, QuietStep DEF ReadBalance
<1>6. CASE ReadReservations(c)
  <2>1. /\ pc[c] = "reservations"
        /\ \E priced \in BOOLEAN :
             Settle(c, Price(priced, AvailableAt(account[c], seen[c])))
        /\ UNCHANGED <<reservations, events, request>>
    BY <1>6 DEF ReadReservations
  <2>2. \E charge : Settle(c, charge)
    BY <2>1
  <2>3. /\ pc' = [pc EXCEPT ![c] = "insufficient"] \/ pc' = [pc EXCEPT ![c] = "insert"]
        /\ \A d \in Calls : d # c => hold'[d] = hold[d]
    BY <2>2 DEF Settle
  <2> QED
    BY <2>1, <2>3, QuietStep
<1>7. CASE CommitRead(c)
  <2>1. CASE reservations[request[c]] = None
    BY <1>7, <2>1, QuietStep DEF CommitRead
  <2>2. CASE reservations[request[c]] # None
    <3> DEFINE row == reservations[request[c]]
    <3>1. /\ pc[c] = "read" /\ pc' = [pc EXCEPT ![c] = "delete"]
          /\ hold' = [hold EXCEPT ![c] = row]
          /\ UNCHANGED <<reservations, events, request>>
      BY <1>7, <2>2 DEF CommitRead
    <3>2. ASSUME NEW r \in Requests PROVE HeldFor(r)' = HeldFor(r)
      <4>1. ASSUME NEW d \in Calls, d # c
            PROVE  pc'[d] = pc[d] /\ hold'[d] = hold[d] /\ request'[d] = request[d]
        BY <3>1, <4>1
      <4>2. /\ pc'[c] \in Committing /\ pc[c] \notin Committing
            /\ hold'[c] = row /\ request'[c] = request[c]
        BY <3>1
      <4>3. ASSUME NEW t PROVE (t \in HeldFor(r)') <=> t \in HeldFor(r)
        BY <2>2, <3>1, <4>1, <4>2 DEF HeldFor, TermsOf
      <4> QED
        BY <4>3 DEF HeldFor
    <3> QED
      BY <3>1, <3>2, SameHolds
  <2> QED
    BY <2>1, <2>2
<1>8. CASE Return(c)
  BY <1>8, QuietStep DEF Return, Answers
<1> QED
  BY <1>1, <1>2, <1>3, <1>4, <1>5, <1>6, <1>7, <1>8

-----------------------------------------------------------------------------
(* The INSERT of Reserve holds the terms of its row.                        *)
LEMMA InsertStep ==
  ASSUME TypeOK, ArgumentsInv, NEW c \in Calls, Insert(c)
  PROVE  \/ UNCHANGED <<TermsOnHold, events>>
         \/ \E r \in Requests, t \in Terms : Ledger!Hold(r, t)
<1> USE DEF TypeOK, Committing, Goto
<1>1. CASE reservations[request[c]] # None
  BY <1>1, QuietStep DEF Insert
<1>2. CASE reservations[request[c]] = None
  <2> PICK r \in Requests : r = request[c]
    BY DEF Insert, ArgumentsInv, Running
  <2> PICK t \in Terms : hold[c] \in Rows /\ t = TermsOf(hold[c])
    BY TermsOfType DEF Insert, ArgumentsInv, Holding
  <2>1. /\ pc[c] = "insert" /\ pc' = [pc EXCEPT ![c] = "ok"]
        /\ reservations' = [reservations EXCEPT ![r] = hold[c]]
        /\ UNCHANGED <<events, request, hold>>
    BY <1>2 DEF Insert
  <2>3. hold[c] # None
    BY NoneIsNothing
  <2>4. ASSUME NEW s \in Requests \ {r} PROVE HeldFor(s)' = HeldFor(s)
    BY <2>1 DEF HeldFor, TermsOf
  <2>5. HeldFor(r)' = HeldFor(r) \union {t}
    <3>1. ASSUME NEW u PROVE (u \in HeldFor(r)') <=> u \in HeldFor(r) \union {t}
      BY <1>2, <2>1, <2>3 DEF HeldFor, TermsOf
    <3> QED
      BY <3>1 DEF HeldFor
  <2>6. TermsOnHold' = [TermsOnHold EXCEPT ![r] = TermsOnHold[r] \union {t}]
    <3>1. TermsOnHold[r] \union {t} = HeldFor(r)'
      BY <2>5 DEF TermsOnHold
    <3>2. TermsOnHold' = [TermsOnHold EXCEPT ![r] = HeldFor(r)']
      BY <2>4 DEF TermsOnHold
    <3> QED
      BY <3>1, <3>2
  <2> QED
    BY <2>1, <2>6 DEF Ledger!Hold
<1> QED
  BY <1>1, <1>2

(* A DELETE, of Commit or of Rollback, and a call that stops release.       *)
LEMMA ReleaseStep ==
  ASSUME TypeOK, ArgumentsInv, NEW c \in Calls,
         CommitDelete(c) \/ Rollback(c) \/ Abort(c)
  PROVE  \/ UNCHANGED <<TermsOnHold, events>>
         \/ \E r \in Requests : Ledger!Release(r)
<1> USE DEF TypeOK, Committing, Goto
<1> PICK r \in Requests : r = request[c]
  BY DEF ArgumentsInv, Running, CommitDelete, Rollback, Abort
<1>1. UNCHANGED <<events, request, hold>>
  BY DEF CommitDelete, Rollback, Abort, database
<1>2. ASSUME NEW d \in Calls, d # c
      PROVE  pc'[d] = pc[d] /\ request'[d] = request[d] /\ hold'[d] = hold[d]
  BY <1>1, <1>2 DEF CommitDelete, Rollback, Abort
<1>3. ASSUME NEW s \in Requests, s # r PROVE reservations'[s] = reservations[s]
  BY <1>3 DEF CommitDelete, Rollback, Abort, database
<1>4. reservations'[r] = reservations[r] \/ reservations'[r] = None
  BY <1>1 DEF CommitDelete, Rollback, Abort, database
<1>5. pc'[c] \in Committing => pc[c] \in Committing
  BY DEF CommitDelete, Rollback, Abort
<1>6. HeldFor(r)' \subseteq HeldFor(r)
  BY <1>1, <1>2, <1>4, <1>5 DEF HeldFor, TermsOf
<1>7. ASSUME NEW s \in Requests \ {r} PROVE HeldFor(s)' = HeldFor(s)
  <2>1. ASSUME NEW t PROVE (t \in HeldFor(s)') <=> t \in HeldFor(s)
    BY <1>1, <1>2, <1>3 DEF HeldFor, TermsOf
  <2> QED
    BY <2>1 DEF HeldFor
<1> QED
  BY <1>1, <1>6, <1>7, FewerHolds DEF Ledger!Release

(* The INSERT of Commit charges the request on the terms of the row it      *)
(* read, or releases them when the request is billed already.               *)
LEMMA BillStep ==
  ASSUME TypeOK, ArgumentsInv, NEW c \in Calls, CommitBill(c)
  PROVE  \/ \E r \in Requests : Ledger!Release(r)
         \/ \E r \in Requests, t \in Terms : Ledger!Charge(r, t)
<1> USE DEF TypeOK, Committing, Goto
<1> PICK r \in Requests : r = request[c]
  BY DEF CommitBill, ArgumentsInv, Running
<1> PICK t \in Terms : t = TermsOf(hold[c])
  BY TermsOfType DEF CommitBill, ArgumentsInv, Holding
<1>1. /\ pc[c] = "bill"
      /\ UNCHANGED <<reservations, request, hold>>
      /\ pc' = [pc EXCEPT ![c] = "failed"] \/ pc' = [pc EXCEPT ![c] = "ok"]
  BY DEF CommitBill
<1>3. \E kept \in SUBSET TermsOnHold[r] : TermsOnHold' = [TermsOnHold EXCEPT ![r] = kept]
  <2>1. ASSUME NEW d \in Calls, d # c
        PROVE  pc'[d] = pc[d] /\ request'[d] = request[d] /\ hold'[d] = hold[d]
    BY <1>1, <2>1
  <2>2. pc'[c] \notin Committing
    BY <1>1
  <2>3. HeldFor(r)' \subseteq HeldFor(r)
    BY <1>1, <2>1, <2>2 DEF HeldFor, TermsOf
  <2>4. ASSUME NEW s \in Requests \ {r} PROVE HeldFor(s)' = HeldFor(s)
    <3>1. ASSUME NEW u PROVE (u \in HeldFor(s)') <=> u \in HeldFor(s)
      BY <1>1, <2>1, <2>2 DEF HeldFor, TermsOf
    <3> QED
      BY <3>1 DEF HeldFor
  <2> QED
    BY <2>3, <2>4, FewerHolds
<1>4. CASE Billed(r)
  BY <1>3, <1>4 DEF CommitBill, Ledger!Release
<1>5. CASE ~Billed(r)
  <2>1. t \in TermsOnHold[r]
    BY <1>1 DEF TermsOnHold, HeldFor
  <2>2. events' = Append(events, UsageEvent(r, hold[c]))
    BY <1>5 DEF CommitBill
  <2>3. UsageEvent(r, hold[c]) = Ledger!Bill(r, t)
    BY DEF UsageEvent, Ledger!Bill, TermsOf
  <2>4. ~Ledger!Billed(r)
    BY <1>5 DEF Billed, Ledger!Billed
  <2> QED
    BY <1>3, <2>1, <2>2, <2>3, <2>4 DEF Ledger!Charge
<1> QED
  BY <1>4, <1>5

(* A top-up credits an account.                                             *)
LEMMA TopupStep ==
  ASSUME TypeOK, NEW a \in Accounts, NEW n \in Topups, Topup(a, n)
  PROVE  \E t \in Terms, m \in Topups : Ledger!Credit(t, m)
<1> DEFINE t == [account |-> a, type |-> "balance_topup", amount |-> IncludedPrice]
<1>1. t \in Terms
  BY DEF Terms, EventTypes, Amounts
<1>2. TermsOnHold' = TermsOnHold
  BY QuietStep DEF Topup
<1>3. events' = Append(events, TopupEvent(a, n))
  BY DEF Topup
<1> QED
  BY <1>1, <1>2, <1>3 DEF Ledger!Credit, TopupEvent

(* Running out does not change what a reservation can be billed for.        *)
LEMMA ExpireStep ==
  ASSUME TypeOK, NEW r \in Requests, Expire(r)
  PROVE  UNCHANGED <<TermsOnHold, events>>
<1> USE DEF TypeOK
<1>1. /\ reservations[r] # None /\ reservations[r] \in Rows
      /\ reservations' = [reservations EXCEPT ![r] = [reservations[r] EXCEPT !.expired = TRUE]]
      /\ UNCHANGED <<events, pc, request, hold>>
  BY DEF Expire
<1>2. [reservations[r] EXCEPT !.expired = TRUE] \in Rows
  BY <1>1 DEF Rows
<1>3. reservations'[r] # None /\ TermsOf(reservations[r])' = TermsOf(reservations[r])
  BY <1>1, <1>2, NoneIsNothing DEF TermsOf, Rows
<1>4. ASSUME NEW s \in Requests PROVE HeldFor(s)' = HeldFor(s)
  <2>1. CASE s = r
    <3>1. ASSUME NEW row \in {reservations[r], reservations'[r]}
          PROVE  row # None /\ TermsOf(row) = TermsOf(reservations[r])
      BY <1>1, <1>3 DEF TermsOf
    <3>2. {TermsOf(row) : row \in {reservations'[r]} \ {None}}
            = {TermsOf(row) : row \in {reservations[r]} \ {None}}
      BY <3>1
    <3> QED
      BY <1>1, <2>1, <3>2 DEF HeldFor, TermsOf
  <2>2. CASE s # r
    BY <1>1, <2>2 DEF HeldFor, TermsOf
  <2> QED
    BY <2>1, <2>2
<1> QED
  BY <1>1, <1>4, SameHolds

-----------------------------------------------------------------------------
(* Nothing is held or billed to begin with.                                 *)
LEMMA LedgerInit == Init => Ledger!LInit
<1> SUFFICES ASSUME Init PROVE Ledger!LInit
  OBVIOUS
<1>1. ASSUME NEW r \in Requests PROVE HeldFor(r) = {}
  BY DEF Init, HeldFor, Committing
<1> QED
  BY <1>1 DEF Init, TermsOnHold, Ledger!LInit

(* Every step of the service is a step of the ledger, or none.              *)
LEMMA LedgerStep == IInv /\ [Next]_vars => [Ledger!LNext]_(Ledger!ledgerVars)
<1> SUFFICES ASSUME IInv, [Next]_vars
             PROVE  Ledger!LNext \/ UNCHANGED <<TermsOnHold, events>>
  BY DEF Ledger!ledgerVars
<1> USE DEF IInv
<1>1. ASSUME NEW c \in Calls, Serve(c)
      PROVE  Ledger!LNext \/ UNCHANGED <<TermsOnHold, events>>
  <2>1. CASE Insert(c)
    BY <2>1, InsertStep DEF Ledger!LNext
  <2>2. CASE CommitDelete(c) \/ Rollback(c)
    BY <2>2, ReleaseStep DEF Ledger!LNext
  <2>3. CASE CommitBill(c)
    BY <2>3, BillStep DEF Ledger!LNext
  <2> QED
    BY <1>1, <2>1, <2>2, <2>3, UnseenStep DEF Serve
<1>2. ASSUME NEW c \in Calls, Abort(c)
      PROVE  Ledger!LNext \/ UNCHANGED <<TermsOnHold, events>>
  BY <1>2, ReleaseStep DEF Ledger!LNext
<1>3. CASE Environment
  BY <1>3, TopupStep, ExpireStep DEF Environment, Ledger!LNext
<1>4. CASE UNCHANGED vars
  BY <1>4, QuietStep DEF vars
<1> QED
  BY <1>1, <1>2, <1>3, <1>4, UnseenStep DEF Next

(* The two-phase engine implements the ledger: however its statements       *)
(* interleave and wherever calls stop, a request is billed once, on terms   *)
(* on hold for it at that moment, and the log only grows.                   *)
THEOREM BillingImplementsLedger == Spec => ImplementsLedger
<1>1. Init => Ledger!LInit
  BY LedgerInit
<1>2. IInv /\ [Next]_vars => [Ledger!LNext]_(Ledger!ledgerVars)
  BY LedgerStep
<1> QED
  BY <1>1, <1>2, Invariant, PTL DEF Spec, ImplementsLedger, Ledger!LSpec
=============================================================================
