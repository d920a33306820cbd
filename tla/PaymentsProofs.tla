--------------------------- MODULE PaymentsProofs ---------------------------
(***************************************************************************)
(* Proofs about Payments, for any orders, number of deliveries, statuses   *)
(* the table admits, and with or without the expiry and faults.            *)
(*                                                                         *)
(* CreditedOnce is not inductive: that a delivery about to insert an event *)
(* is the first one needs what its order is like and that nobody else has  *)
(* it in hand.  OneHand says so for every order nobody has raced for.      *)
(***************************************************************************)
EXTENDS Payments, TLAPS

(* A delivery at work knows its order.                                      *)
AboutInv == \A d \in Deliveries : step[d] # "idle" => about[d] \in Orders

Has(d, o) == about[d] = o /\ step[d] \in {"update", "credit"}

(* One at a time has o in hand; whoever is about to write it has not seen   *)
(* it completed nor credited, and whoever is about to credit it completed it.*)
OneHand(o) ==
  /\ \A d, e \in Deliveries : Has(d, o) /\ Has(e, o) => d = e
  /\ \A d \in Deliveries :
       /\ Has(d, o) => credits[o] = 0 /\ checking # o
       /\ Has(d, o) => (step[d] = "credit" <=> status[o] = "completed")
  /\ checking = o => status[o] # "completed" /\ credits[o] = 0
  /\ credits[o] # 0 => credits[o] = 1 /\ status[o] = "completed"

HandInv == \A o \in Orders : raced[o] \/ OneHand(o)

IInv == TypeOK /\ AboutInv /\ HandInv

-----------------------------------------------------------------------------
LEMMA InitInv == Init => IInv
BY NoneIsNoOrder
   DEF Init, IInv, TypeOK, AboutInv, HandInv, OneHand, Has,
       Statuses, Payments, Steps

(* The types of the variables, and what is known of orders and deliveries.  *)
LEMMA TypeStep ==
  ASSUME TypeOK, AboutInv, [Next]_vars
  PROVE  TypeOK' /\ AboutInv'
<1> USE DEF TypeOK, AboutInv, Statuses, Payments, Settled, Steps,
            rows, delivery, expiry, history, Fault, Answer, TakeInHand
<1>1. ASSUME NEW o \in Orders, CreatePayment(o) \/ Settle(o)
      PROVE  TypeOK' /\ AboutInv'
  <2>1. CASE InsertOrder(o)
    BY <2>1 DEF InsertOrder
  <2>2. CASE NameOrder(o)
    BY <2>2 DEF NameOrder
  <2>3. CASE NameOrderFails(o) \/ CreationStops(o)
    BY <2>3 DEF NameOrderFails, CreationStops
  <2>4. CASE Settle(o)
    BY <2>4 DEF Settle
  <2> QED
    BY <1>1, <2>1, <2>2, <2>3, <2>4 DEF CreatePayment
<1>2. ASSUME NEW d \in Deliveries, NEW o \in Orders, Notify(d, o)
      PROVE  TypeOK' /\ AboutInv'
  BY <1>2 DEF Notify
<1>3. ASSUME NEW d \in Deliveries, ProcessWebhook(d) \/ DeliveryFails(d)
      PROVE  TypeOK' /\ AboutInv'
  <2>1. CASE Ignore(d) \/ DeliveryFails(d)
    BY <2>1 DEF Ignore, DeliveryFails
  <2>2. CASE Find(d)
    <3>1. raced' \in [Orders -> BOOLEAN]
      BY <2>2 DEF Find, InHand
    <3> QED
      BY <2>2, <3>1 DEF Find
  <2>3. CASE Update(d)
    BY <2>3 DEF Update, NewStatus
  <2>4. CASE Credit(d)
    BY <2>4 DEF Credit
  <2> QED
    BY <1>3, <2>1, <2>2, <2>3, <2>4 DEF ProcessWebhook
<1>4. ASSUME ProcessExpired
      PROVE  TypeOK' /\ AboutInv'
  <2>1. CASE ListExpired
    BY <2>1 DEF ListExpired
  <2>2. ASSUME NEW o \in Orders, CheckExpired(o)
        PROVE  TypeOK' /\ AboutInv'
    <3>1. raced' \in [Orders -> BOOLEAN]
      BY <2>2 DEF CheckExpired, InHand
    <3> QED
      BY <2>2, <3>1 DEF CheckExpired
  <2>3. CASE FailExpired
    BY <2>3 DEF FailExpired
  <2>4. CASE PassOver
    BY <2>4 DEF PassOver
  <2> QED
    BY <1>4, <2>1, <2>2, <2>3, <2>4 DEF ProcessExpired
<1>5. ASSUME UNCHANGED vars
      PROVE  TypeOK' /\ AboutInv'
  BY <1>5 DEF vars
<1> QED
  BY <1>1, <1>2, <1>3, <1>4, <1>5 DEF Next

-----------------------------------------------------------------------------
(* Steps that touch neither the status nor the credits of o, nor who has it *)
(* in hand.                                                                 *)
LEMMA HandKept ==
  ASSUME NEW o \in Orders, raced[o] \/ OneHand(o),
         raced'[o] = raced[o], status'[o] = status[o], credits'[o] = credits[o],
         (checking = o)' => checking = o,
         \A d \in Deliveries : Has(d, o)' => Has(d, o) /\ step'[d] = step[d]
  PROVE  (raced[o] \/ OneHand(o))'
BY DEF OneHand, Has

LEMMA HandStep ==
  ASSUME TypeOK, AboutInv, HandInv, [Next]_vars
  PROVE  HandInv'
<1> SUFFICES ASSUME NEW o \in Orders PROVE (raced[o] \/ OneHand(o))'
  BY DEF HandInv
<1> USE DEF TypeOK, rows, delivery, expiry, history, Fault
<1>0. raced[o] \/ OneHand(o)
  BY DEF HandInv
<1>1. ASSUME NEW p \in Orders, CreatePayment(p) \/ Settle(p)
      PROVE  (raced[o] \/ OneHand(o))'
  <2>1. CASE InsertOrder(p)
    BY <1>0, <2>1 DEF InsertOrder, OneHand, Has
  <2>2. CASE ~InsertOrder(p)
    BY <1>0, <1>1, <2>2, HandKept
       DEF CreatePayment, NameOrder, NameOrderFails, CreationStops, Settle, Has
  <2> QED
    BY <2>1, <2>2
<1>2. ASSUME NEW d \in Deliveries, NEW p \in Orders, Notify(d, p)
      PROVE  (raced[o] \/ OneHand(o))'
  BY <1>0, <1>2, HandKept DEF Notify, Has
<1>3. ASSUME NEW d \in Deliveries, ProcessWebhook(d) \/ DeliveryFails(d)
      PROVE  (raced[o] \/ OneHand(o))'
  <2>1. CASE Ignore(d) \/ DeliveryFails(d)
    BY <1>0, <2>1, HandKept DEF Ignore, DeliveryFails, Answer, Has
  <2>2. CASE Find(d)
    <3>1. CASE about[d] = o
      BY <1>0, <2>2, <3>1 DEF Find, TakeInHand, InHand, Processed, OneHand, Has
    <3>2. CASE about[d] # o
      BY <1>0, <2>2, <3>2, HandKept DEF Find, TakeInHand, Has
    <3> QED
      BY <3>1, <3>2
  <2>3. CASE Update(d)
    <3>1. about[d] \in Orders
      BY <2>3 DEF Update, AboutInv
    <3>2. CASE about[d] = o
      BY <1>0, <2>3, <3>2, NoneIsNoOrder DEF Update, NewStatus, Answer, OneHand, Has
    <3>3. CASE about[d] # o
      BY <1>0, <2>3, <3>1, <3>3, NoneIsNoOrder, HandKept DEF Update, Answer, Has
    <3> QED
      BY <3>2, <3>3
  <2>4. CASE Credit(d)
    <3>1. about[d] \in Orders
      BY <2>4 DEF Credit, AboutInv
    <3>2. CASE about[d] = o
      BY <1>0, <2>4, <3>2, NoneIsNoOrder DEF Credit, Answer, OneHand, Has
    <3>3. CASE about[d] # o
      BY <1>0, <2>4, <3>1, <3>3, NoneIsNoOrder, HandKept DEF Credit, Answer, Has
    <3> QED
      BY <3>2, <3>3
  <2> QED
    BY <1>3, <2>1, <2>2, <2>3, <2>4 DEF ProcessWebhook
<1>4. CASE ProcessExpired
  <2>1. CASE ListExpired \/ PassOver
    BY <1>0, <2>1, NoneIsNoOrder, HandKept DEF ListExpired, PassOver, Has
  <2>2. ASSUME NEW p \in Orders, CheckExpired(p)
        PROVE  (raced[o] \/ OneHand(o))'
    <3>1. CASE p = o /\ status[p] = "pending"
      BY <1>0, <2>2, <3>1 DEF CheckExpired, TakeInHand, InHand, OneHand, Has
    <3>2. CASE ~(p = o /\ status[p] = "pending")
      BY <1>0, <2>2, <3>2, HandKept DEF CheckExpired, TakeInHand, Has
    <3> QED
      BY <3>1, <3>2
  <2>3. CASE FailExpired
    <3>1. CASE checking = o
      BY <1>0, <2>3, <3>1, NoneIsNoOrder DEF FailExpired, OneHand, Has
    <3>2. CASE checking # o
      BY <1>0, <2>3, <3>2, NoneIsNoOrder, HandKept DEF FailExpired, Has
    <3> QED
      BY <3>1, <3>2
  <2> QED
    BY <1>4, <2>1, <2>2, <2>3 DEF ProcessExpired
<1>5. CASE UNCHANGED vars
  BY <1>0, <1>5, HandKept DEF vars, Has
<1> QED
  BY <1>1, <1>2, <1>3, <1>4, <1>5 DEF Next

(* The inductive invariant holds in every state.                            *)
THEOREM Invariant == Spec => []IInv
<1>1. IInv /\ [Next]_vars => IInv'
  BY TypeStep, HandStep DEF IInv
<1> QED
  BY <1>1, InitInv, PTL DEF Spec

(* The table of orders, the deliveries and the expiry keep their types.     *)
THEOREM TypeCorrect == Spec => []TypeOK
BY Invariant, PTL DEF IInv

(* However often YooKassa repeats itself, and whatever fails, a payment is  *)
(* credited once unless two had its order in hand.                          *)
THEOREM EachCreditedOnce == Spec => []CreditedOnce
<1>1. IInv => CreditedOnce
  BY DEF IInv, HandInv, OneHand, CreditedOnce, TypeOK
<1> QED
  BY <1>1, Invariant, PTL

(* A completed order nobody raced for is never written back.                *)
THEOREM CompletedForGood == Spec => CompletedStays
<1> DEFINE Kept == \A o \in Orders :
                     status[o] = "completed" /\ ~raced[o] => status'[o] = "completed"
<1>1. IInv /\ [Next]_vars => Kept
  <2> SUFFICES ASSUME IInv, [Next]_vars, NEW o \in Orders,
                      status[o] = "completed", ~raced[o]
               PROVE  status'[o] = "completed"
    OBVIOUS
  <2> USE DEF IInv, TypeOK, rows
  <2>1. OneHand(o)
    BY DEF HandInv
  <2>2. ASSUME NEW p \in Orders, CreatePayment(p) \/ Settle(p)
        PROVE  status'[o] = "completed"
    BY <2>2 DEF CreatePayment, InsertOrder, NameOrder, NameOrderFails, CreationStops, Settle
  <2>3. ASSUME NEW d \in Deliveries, ProcessWebhook(d)
        PROVE  status'[o] = "completed"
    <3>1. CASE Update(d)
      BY <2>1, <3>1 DEF Update, OneHand, Has
    <3> QED
      BY <2>3, <3>1 DEF ProcessWebhook, Ignore, Find, Credit
  <2>4. CASE ProcessExpired
    BY <2>1, <2>4, NoneIsNoOrder
       DEF ProcessExpired, ListExpired, CheckExpired, FailExpired, PassOver, OneHand
  <2> QED
    BY <2>2, <2>3, <2>4 DEF Next, Notify, DeliveryFails, vars
<1>2. IInv /\ [Next]_vars => [Kept]_vars
  BY <1>1
<1> QED
  BY <1>2, Invariant, PTL DEF Spec, CompletedStays
=============================================================================
