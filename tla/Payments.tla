------------------------------ MODULE Payments ------------------------------
(***************************************************************************)
(* Top-ups through YooKassa: orders made by CreatePayment of               *)
(* services/billing, settled by the webhooks YooKassa sends to             *)
(* services/billing-webhook-yookassa, and given up by                      *)
(* ProcessExpiredPayments.  All three work on the row of payment_orders    *)
(* with single statements: they read it, decide, and write all of it back. *)
(* YooKassa reports the outcome of a payment at least once, and may repeat *)
(* itself while an earlier report is still being handled.  The webhook     *)
(* answers 200 whatever became of it, so a failure brings no repeat.       *)
(***************************************************************************)
EXTENDS Naturals

CONSTANTS
  Orders,      \* rows of payment_orders
  Deliveries,  \* webhook calls handled at one time
  Admitted,    \* the statuses the table's CHECK admits
  MaxNotices,  \* bound: reports of one outcome
  ExpiryRuns,  \* whether something runs ProcessExpiredPayments
  Faults,      \* whether statements can fail and calls stop
  None

ASSUME OrdersArePending == {"pending", "failed"} \subseteq Admitted
ASSUME SwitchesAreChoices == ExpiryRuns \in BOOLEAN /\ Faults \in BOOLEAN
ASSUME NoticesAreCounted == MaxNotices \in Nat
ASSUME NoneIsNoOrder == None \notin Orders

VARIABLES
  status,    \* status[o]: payment_orders.status, or "none" before the INSERT
  named,     \* named[o]: whether the row has its yookassa_payment_id
  payment,   \* payment[o]: what became of the payment at YooKassa
  notices,   \* notices[o]: how often YooKassa has reported it
  credits,   \* credits[o]: balance_topup events inserted for the order
  step,      \* step[d]: the statement delivery d runs next
  about,     \* about[d]: its order, or None
  batch,     \* the expired orders ProcessExpiredPayments has still to look at
  checking,  \* the order it has just seen pending again, or None
  faulty,    \* faulty[o]: a statement about o failed (history)
  raced      \* raced[o]: one took o in hand while another had it (history)

vars == <<status, named, payment, notices, credits, step, about,
          batch, checking, faulty, raced>>
rows == <<status, named>>
delivery == <<step, about>>
expiry == <<batch, checking>>
history == <<faulty, raced>>

Statuses == {"none", "pending", "completed", "failed"}
Payments == {"none", "never", "open", "succeeded", "canceled"}
Settled == {"succeeded", "canceled"}
Steps == {"idle", "find", "update", "credit"}

-----------------------------------------------------------------------------
Init ==
  /\ status = [o \in Orders |-> "none"]
  /\ named = [o \in Orders |-> FALSE]
  /\ payment = [o \in Orders |-> "none"]
  /\ notices = [o \in Orders |-> 0]
  /\ credits = [o \in Orders |-> 0]
  /\ step = [d \in Deliveries |-> "idle"]
  /\ about = [d \in Deliveries |-> None]
  /\ batch = {}
  /\ checking = None
  /\ faulty = [o \in Orders |-> FALSE]
  /\ raced = [o \in Orders |-> FALSE]

(* A delivery or the expiry has read o and not yet done with what it read.  *)
InHand(o) == checking = o \/ \E d \in Deliveries : about[d] = o /\ step[d] \in {"update", "credit"}

TakeInHand(o) == raced' = [raced EXCEPT ![o] = @ \/ InHand(o)]

Fault(o) == Faults /\ faulty' = [faulty EXCEPT ![o] = TRUE]

-----------------------------------------------------------------------------
(* CreatePayment: the row, then its payment id, then the URL for the client.*)
InsertOrder(o) ==
  /\ status[o] = "none"
  /\ status' = [status EXCEPT ![o] = "pending"]
  /\ UNCHANGED <<named, payment, notices, credits, delivery, expiry, history>>

NameOrder(o) ==
  /\ status[o] = "pending" /\ payment[o] = "none"
  /\ named' = [named EXCEPT ![o] = TRUE]
  /\ payment' = [payment EXCEPT ![o] = "open"]
  /\ UNCHANGED <<status, notices, credits, delivery, expiry, history>>

(* The error of that UPDATE is ignored, and the client gets the URL.        *)
NameOrderFails(o) ==
  /\ status[o] = "pending" /\ payment[o] = "none"
  /\ payment' = [payment EXCEPT ![o] = "open"]
  /\ Fault(o)
  /\ UNCHANGED <<rows, notices, credits, delivery, expiry, raced>>

(* The call stops before that.                                              *)
CreationStops(o) ==
  /\ status[o] = "pending" /\ payment[o] = "none"
  /\ payment' = [payment EXCEPT ![o] = "never"]
  /\ Fault(o)
  /\ UNCHANGED <<rows, notices, credits, delivery, expiry, raced>>

-----------------------------------------------------------------------------
(* YooKassa.                                                                *)
Settle(o) ==
  /\ payment[o] = "open"
  /\ \E outcome \in Settled : payment' = [payment EXCEPT ![o] = outcome]
  /\ UNCHANGED <<rows, notices, credits, delivery, expiry, history>>

Notify(d, o) ==
  /\ payment[o] \in Settled
  /\ notices[o] < MaxNotices
  /\ step[d] = "idle"
  /\ notices' = [notices EXCEPT ![o] = @ + 1]
  /\ step' = [step EXCEPT ![d] = "find"]
  /\ about' = [about EXCEPT ![d] = o]
  /\ UNCHANGED <<rows, payment, credits, expiry, history>>

-----------------------------------------------------------------------------
(* The webhook, after its answer is settled to be 200.                      *)
Answer(d) ==
  /\ step' = [step EXCEPT ![d] = "idle"]
  /\ about' = [about EXCEPT ![d] = None]

(* MUTANT: a failed order counts as processed, too.                         *)
ProcessedOrFailed(o) == status[o] \in {"completed", "failed"}

(* Processed already: the delivery has nothing to do.                       *)
Processed(o) == status[o] = "completed"

Ignore(d) ==
  /\ step[d] = "find"
  /\ ~named[about[d]] \/ Processed(about[d])
  /\ Answer(d)
  /\ UNCHANGED <<rows, payment, notices, credits, expiry, history>>

(* MUTANT: no look at the status.                                           *)
FindAny(d) ==
  /\ step[d] = "find"
  /\ named[about[d]]
  /\ step' = [step EXCEPT ![d] = "update"]
  /\ TakeInHand(about[d])
  /\ UNCHANGED <<rows, payment, notices, credits, about, expiry, faulty>>

(* A pending order, or a failed one, which a success restores.              *)
Find(d) ==
  /\ step[d] = "find"
  /\ named[about[d]] /\ ~Processed(about[d])
  /\ step' = [step EXCEPT ![d] = "update"]
  /\ TakeInHand(about[d])
  /\ UNCHANGED <<rows, payment, notices, credits, about, expiry, faulty>>

(* MUTANT: the status the schema has for a payment.                         *)
NewStatusPaid(outcome) == IF outcome = "succeeded" THEN "paid" ELSE "failed"

(* processSuccess writes "completed", processCancel "failed".               *)
NewStatus(outcome) == IF outcome = "succeeded" THEN "completed" ELSE "failed"

(* The CHECK of the table may reject the UPDATE: nothing is written then,    *)
(* and the delivery is over.                                                *)
Update(d) ==
  LET o == about[d]
      new == NewStatus(payment[o])
      stored == new \in Admitted
  IN
  /\ step[d] = "update"
  /\ status' = [status EXCEPT ![o] = IF stored THEN new ELSE @]
  /\ IF stored /\ new = "completed"
     THEN step' = [step EXCEPT ![d] = "credit"] /\ UNCHANGED about
     ELSE Answer(d)
  /\ UNCHANGED <<named, payment, notices, credits, expiry, history>>

Credit(d) ==
  /\ step[d] = "credit"
  /\ credits' = [credits EXCEPT ![about[d]] = @ + 1]
  /\ Answer(d)
  /\ UNCHANGED <<rows, payment, notices, expiry, history>>

(* A statement fails, or the call stops at it.                              *)
DeliveryFails(d) ==
  /\ step[d] # "idle"
  /\ Fault(about[d])
  /\ Answer(d)
  /\ UNCHANGED <<rows, payment, notices, credits, expiry, raced>>

-----------------------------------------------------------------------------
(* ProcessExpiredPayments.  Its timeout is longer than any CreatePayment.   *)
ListExpired ==
  /\ ExpiryRuns
  /\ batch = {} /\ checking = None
  /\ batch' = {o \in Orders : status[o] = "pending" /\ payment[o] # "none"}
  /\ UNCHANGED <<rows, payment, notices, credits, delivery, checking, history>>

(* MUTANT: without reading the order again.                                 *)
CheckExpiredNot(o) ==
  /\ o \in batch /\ checking = None
  /\ batch' = batch \ {o}
  /\ checking' = o
  /\ TakeInHand(o)
  /\ UNCHANGED <<rows, payment, notices, credits, delivery, faulty>>

CheckExpired(o) ==
  /\ o \in batch /\ checking = None
  /\ batch' = batch \ {o}
  /\ IF status[o] = "pending" THEN checking' = o /\ TakeInHand(o)
                              ELSE UNCHANGED <<checking, raced>>
  /\ UNCHANGED <<rows, payment, notices, credits, delivery, faulty>>

(* The row that was listed is written back, with the status failed.         *)
FailExpired ==
  /\ checking # None
  /\ status' = [status EXCEPT ![checking] = "failed"]
  /\ checking' = None
  /\ UNCHANGED <<named, payment, notices, credits, delivery, batch, history>>

(* An error of either statement: the order is passed over.                  *)
PassOver ==
  /\ Faults
  /\ \/ /\ checking # None
        /\ checking' = None
        /\ UNCHANGED batch
     \/ /\ checking = None
        /\ \E o \in batch : batch' = batch \ {o}
        /\ UNCHANGED checking
  /\ UNCHANGED <<rows, payment, notices, credits, delivery, history>>

-----------------------------------------------------------------------------
CreatePayment(o) ==
  InsertOrder(o) \/ NameOrder(o) \/ NameOrderFails(o) \/ CreationStops(o)

ProcessWebhook(d) ==
  Ignore(d) \/ Find(d) \/ Update(d) \/ Credit(d)

ProcessExpired == ListExpired \/ (\E o \in Orders : CheckExpired(o)) \/ FailExpired \/ PassOver

Next ==
  \/ \E o \in Orders : CreatePayment(o) \/ Settle(o)
  \/ \E d \in Deliveries, o \in Orders : Notify(d, o)
  \/ \E d \in Deliveries : ProcessWebhook(d) \/ DeliveryFails(d)
  \/ ProcessExpired

Spec == Init /\ [][Next]_vars

(* YooKassa reports every outcome once, and the webhook service goes on     *)
(* with the calls it has got.                                               *)
FairSpec ==
  /\ Spec
  /\ \A o \in Orders : WF_vars(notices[o] = 0 /\ \E d \in Deliveries : Notify(d, o))
  /\ \A d \in Deliveries : WF_vars(ProcessWebhook(d))

-----------------------------------------------------------------------------
(* Properties.                                                              *)

(* Every variable holds a value the program can have.                       *)
TypeOK ==
  /\ status \in [Orders -> Statuses]
  /\ named \in [Orders -> BOOLEAN]
  /\ payment \in [Orders -> Payments]
  /\ notices \in [Orders -> Nat]
  /\ credits \in [Orders -> Nat]
  /\ step \in [Deliveries -> Steps]
  /\ about \in [Deliveries -> Orders \union {None}]
  /\ batch \subseteq Orders
  /\ checking \in Orders \union {None}
  /\ faulty \in [Orders -> BOOLEAN]
  /\ raced \in [Orders -> BOOLEAN]

(* However often the outcome is reported, and whatever fails on the way,    *)
(* the account gets the money once - unless two had the order in hand.      *)
CreditedOnce == \A o \in Orders : credits[o] > 1 => raced[o]

(* A completed order stays completed: neither a late report nor the expiry  *)
(* takes it back, unless two had it in hand.                                *)
CompletedStays ==
  [][\A o \in Orders : status[o] = "completed" /\ ~raced[o] => status'[o] = "completed"]_vars

(* A payment that went through is credited, also when its order was given   *)
(* up before; only a failing statement can lose it.                         *)
PaidIsCredited == \A o \in Orders : (payment[o] = "succeeded") ~> (credits[o] > 0 \/ faulty[o])
=============================================================================
