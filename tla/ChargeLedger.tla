---------------------------- MODULE ChargeLedger ----------------------------
(***************************************************************************)
(* What the billing service promises its callers about paid requests: a    *)
(* request is billed at most once, only on terms that are on hold for it   *)
(* at that moment, and the log of billing events only grows.  How holds    *)
(* are stored, and the steps a hold, a commit or a rollback takes, belong  *)
(* to module Billing, which implements this specification.                 *)
(***************************************************************************)
EXTENDS Integers, Sequences

CONSTANTS
  Requests,   \* request ids chosen by the callers
  Terms,      \* what a hold fixes: [account, type, amount]
  Topups,     \* amounts a top-up may bring
  NoRequest   \* the request of a log entry that bills no request

VARIABLES
  onHold,     \* onHold[r]: the terms on which r may be billed now
  log         \* the billing events, oldest first

ledgerVars == <<onHold, log>>

(* The event that bills request r on terms t.                              *)
Bill(r, t) ==
  [ request |-> r, account |-> t.account, type |-> t.type, amount |-> -t.amount ]

Billed(r) == \E i \in DOMAIN log : log[i].request = r

-----------------------------------------------------------------------------
LInit ==
  /\ onHold = [r \in Requests |-> {}]
  /\ log = << >>

Hold(r, t) ==
  /\ onHold' = [onHold EXCEPT ![r] = @ \union {t}]
  /\ UNCHANGED log

Release(r) ==
  /\ \E kept \in SUBSET onHold[r] : onHold' = [onHold EXCEPT ![r] = kept]
  /\ UNCHANGED log

Charge(r, t) ==
  /\ t \in onHold[r]
  /\ ~Billed(r)
  /\ log' = Append(log, Bill(r, t))
  /\ \E kept \in SUBSET onHold[r] : onHold' = [onHold EXCEPT ![r] = kept]

(* Money comes in: an event that bills no request.                         *)
Credit(t, n) ==
  /\ log' = Append(log, [ request |-> NoRequest, account |-> t.account,
                          type |-> "balance_topup", amount |-> n ])
  /\ UNCHANGED onHold

LNext ==
  \/ \E r \in Requests, t \in Terms : Hold(r, t) \/ Charge(r, t)
  \/ \E r \in Requests : Release(r)
  \/ \E t \in Terms, n \in Topups : Credit(t, n)

LSpec == LInit /\ [][LNext]_ledgerVars
=============================================================================
