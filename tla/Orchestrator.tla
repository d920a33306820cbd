---------------------------- MODULE Orchestrator ----------------------------
(***************************************************************************)
(* A recognition request, end to end: FullOrchestrator.Process of          *)
(* services/orchestrator reserves, runs the OCR, then commits or rolls     *)
(* back, each over HTTP on the billing service of module Billing.  Attempt *)
(* c uses call slot c of that service, for one call after the other.  A    *)
(* client that repeats a request starts another attempt with the same      *)
(* request id (the idempotency key), at any time.                          *)
(*                                                                         *)
(* A billing call or its answer can be lost, and an attempt can give up a  *)
(* call that is still running: the HTTP client's 10 s timeout, or the      *)
(* client of the request going away (its context is that of every call).   *)
(***************************************************************************)
EXTENDS Billing

CONSTANTS
  Faults  \* whether calls and answers can be lost, and either service can die

ASSUME FaultsIsChoice == Faults \in BOOLEAN
ASSUME NoneIsNoAttempt ==
  None \notin [account : Accounts, request : Requests] /\ None # "good"

VARIABLES
  phase,  \* phase[c]: where attempt c is in Process
  ocr,    \* ocr[c]: what the OCR gave: "good", "low" (confidence) or "failed"
  reply,  \* reply[c]: HTTP status sent to the client, or None
  cause,  \* cause[c]: the error Reserve got from the billing client, or None
  asked,  \* asked[c]: the [account, request] of attempt c, or None
  faulty  \* faulty[c]: some call of c was lost, given up or stopped (history)

attemptVars == <<phase, ocr, reply, cause, asked, faulty>>
allVars == <<vars, attemptVars>>

Waiting == {"reserving", "committing", "rolling_back"}
Over == {"delivered", "refused", "gone"}
Phases == {"new", "recognizing"} \union Waiting \union Over

-----------------------------------------------------------------------------
(* Go errors, as far as the handler's `switch err` can tell them apart:     *)
(* Process wraps what the billing client returns, and a wrapped error       *)
(* equals no sentinel.                                                      *)
Sentinel(kind) == [wrapped |-> FALSE, kind |-> kind]
Wrapped(err) == [err EXCEPT !.wrapped = TRUE]
Errors == [wrapped : BOOLEAN, kind : {"insufficient", "unavailable", "other"}]

HttpStatus(err) ==
  CASE err = Sentinel("insufficient") -> 402
    [] err = Sentinel("unavailable") -> 503
    [] OTHER -> 500

(* The billing service's answer to Reserve, as handleResponse reads it.     *)
ReserveError(answer) ==
  Sentinel(IF answer = "insufficient" THEN "insufficient" ELSE "other")

-----------------------------------------------------------------------------
OInit ==
  /\ Init
  /\ phase = [c \in Calls |-> "new"]
  /\ ocr = [c \in Calls |-> None]
  /\ reply = [c \in Calls |-> None]
  /\ cause = [c \in Calls |-> None]
  /\ asked = [c \in Calls |-> None]
  /\ faulty = [c \in Calls |-> FALSE]

Enter(c, p) == phase' = [phase EXCEPT ![c] = p]

Refuse(c, err) ==
  /\ Enter(c, "refused")
  /\ reply' = [reply EXCEPT ![c] = HttpStatus(err)]

Recognize(c, a, r) ==
  /\ phase[c] = "new"
  /\ asked' = [asked EXCEPT ![c] = [account |-> a, request |-> r]]
  /\ Enter(c, "reserving")
  /\ StartReserve(c, a, r)
  /\ UNCHANGED <<ocr, reply, cause, faulty>>

(* Reserve has answered.                                                    *)
ReserveDone(c) ==
  /\ phase[c] = "reserving"
  /\ pc[c] = "ok"
  /\ Return(c)
  /\ Enter(c, "recognizing")
  /\ UNCHANGED <<ocr, reply, cause, asked, faulty>>

ReserveRefused(c) ==
  /\ phase[c] = "reserving"
  /\ pc[c] \in {"failed", "insufficient"}
  /\ cause' = [cause EXCEPT ![c] = ReserveError(pc[c])]
  /\ Refuse(c, Wrapped(ReserveError(pc[c])))
  /\ Return(c)
  /\ UNCHANGED <<ocr, asked, faulty>>

(* MUTANT: the confidence is not compared with the threshold.               *)
OcrGoodOrLow(c) ==
  /\ phase[c] = "recognizing"
  /\ \E outcome \in {"good", "low"} : ocr' = [ocr EXCEPT ![c] = outcome]
  /\ Enter(c, "committing")
  /\ StartCommit(c, asked[c].request)
  /\ UNCHANGED <<reply, cause, asked, faulty>>

(* doOCR returns.  On a confident result the attempt commits.               *)
OcrGood(c) ==
  /\ phase[c] = "recognizing"
  /\ ocr' = [ocr EXCEPT ![c] = "good"]
  /\ Enter(c, "committing")
  /\ StartCommit(c, asked[c].request)
  /\ UNCHANGED <<reply, cause, asked, faulty>>

(* MUTANT: too low a confidence is refused without a rollback.              *)
OcrBadKept(c) ==
  /\ phase[c] = "recognizing"
  /\ ocr' = [ocr EXCEPT ![c] = "low"]
  /\ Refuse(c, Sentinel("other"))
  /\ UNCHANGED <<vars, cause, asked, faulty>>

(* On an error or too low a confidence it rolls back.                       *)
OcrBad(c) ==
  /\ phase[c] = "recognizing"
  /\ \E outcome \in {"low", "failed"} : ocr' = [ocr EXCEPT ![c] = outcome]
  /\ Enter(c, "rolling_back")
  /\ StartRollback(c, asked[c].request)
  /\ UNCHANGED <<reply, cause, asked, faulty>>

(* Commit has answered.                                                     *)
Deliver(c) ==
  /\ phase[c] = "committing"
  /\ pc[c] = "ok"
  /\ Return(c)
  /\ Enter(c, "delivered")
  /\ reply' = [reply EXCEPT ![c] = 200]
  /\ UNCHANGED <<ocr, cause, asked, faulty>>

(* MUTANT: an error of Commit does not stop the result.                     *)
CommitFailedDelivered(c) ==
  /\ phase[c] = "committing"
  /\ pc[c] = "failed"
  /\ Return(c)
  /\ Enter(c, "delivered")
  /\ reply' = [reply EXCEPT ![c] = 200]
  /\ UNCHANGED <<ocr, cause, asked, faulty>>

CommitFailed(c) ==
  /\ phase[c] = "committing"
  /\ pc[c] = "failed"
  /\ Return(c)
  /\ Refuse(c, Wrapped(Sentinel("other")))
  /\ UNCHANGED <<ocr, cause, asked, faulty>>

(* MUTANT: the rollback is tried until it answers ok.                       *)
RolledBackOk(c) ==
  /\ phase[c] = "rolling_back"
  /\ pc[c] \in {"ok", "failed"}
  /\ Return(c)
  /\ IF pc[c] = "ok" THEN Refuse(c, Sentinel("other"))
     ELSE Enter(c, "recognizing") /\ UNCHANGED reply
  /\ UNCHANGED <<ocr, cause, asked, faulty>>

(* Whatever Rollback answers, the client gets the OCR's error.              *)
RolledBack(c) ==
  /\ phase[c] = "rolling_back"
  /\ pc[c] \in {"ok", "failed"}
  /\ Return(c)
  /\ Refuse(c, Sentinel("other"))
  /\ UNCHANGED <<ocr, cause, asked, faulty>>

-----------------------------------------------------------------------------
(* Faults.                                                                  *)

(* The attempt gives up the call it waits for: timeout, cancelled context,  *)
(* broken connection.  The service keeps the call, and nobody reads its     *)
(* answer; a call that never got there is one that then stops (CallStops).  *)
GiveUp(c) ==
  /\ Faults
  /\ phase[c] \in Waiting
  /\ Refuse(c, Wrapped(Sentinel("other")))
  /\ faulty' = [faulty EXCEPT ![c] = TRUE]
  /\ UNCHANGED <<vars, ocr, cause, asked>>

(* The orchestrator dies: no further step of the attempt, and no answer.    *)
Die(c) ==
  /\ Faults
  /\ phase[c] \in Waiting \union {"recognizing"}
  /\ Enter(c, "gone")
  /\ faulty' = [faulty EXCEPT ![c] = TRUE]
  /\ UNCHANGED <<vars, ocr, reply, cause, asked>>

(* The call stops inside the billing service.                               *)
CallStops(c) ==
  /\ Faults
  /\ Abort(c)
  /\ faulty' = [faulty EXCEPT ![c] = TRUE]
  /\ UNCHANGED <<phase, ocr, reply, cause, asked>>

(* The answer to a call that was given up.                                  *)
NobodyReads(c) ==
  /\ phase[c] \in Over
  /\ Return(c)
  /\ UNCHANGED attemptVars

-----------------------------------------------------------------------------
Process(c) ==
  \/ ReserveDone(c) \/ ReserveRefused(c)
  \/ OcrGood(c) \/ OcrBad(c)
  \/ Deliver(c) \/ CommitFailed(c) \/ RolledBack(c)

BillingWorks(c) == (Serve(c) /\ UNCHANGED attemptVars) \/ NobodyReads(c)

ONext ==
  \/ \E c \in Calls, a \in Accounts, r \in Requests : Recognize(c, a, r)
  \/ \E c \in Calls : \/ Process(c) \/ BillingWorks(c)
                      \/ GiveUp(c) \/ Die(c) \/ CallStops(c)
  \/ Environment /\ UNCHANGED attemptVars

(* The billing service goes on with its calls; the attempt reads the answer *)
(* when it is there, and the OCR providers' clients time out after 30 s.    *)
Fairness == \A c \in Calls : WF_allVars(Process(c)) /\ WF_allVars(BillingWorks(c))

OSpec == OInit /\ [][ONext]_allVars /\ Fairness

-----------------------------------------------------------------------------
(* Properties.                                                              *)

(* Every variable holds a value the program can have.                       *)
OTypeOK ==
  /\ TypeOK
  /\ phase \in [Calls -> Phases]
  /\ ocr \in [Calls -> {"good", "low", "failed", None}]
  /\ reply \in [Calls -> {200, 402, 500, 503, None}]
  /\ cause \in [Calls -> Errors \union {None}]
  /\ asked \in [Calls -> [account : Accounts, request : Requests] \union {None}]
  /\ faulty \in [Calls -> BOOLEAN]

AttemptsOn(r) == {c \in Calls : asked[c] # None /\ asked[c].request = r}
Bills(r) == {i \in DOMAIN events : events[i].request = r}

(* No result leaves without its own payment: at most as many attempts are   *)
(* answered with a result as events bill their request, and the account     *)
(* billed is one that asked.                                                *)
DeliveredIsPaid ==
  \A r \in Requests :
    /\ Cardinality({c \in AttemptsOn(r) : phase[c] = "delivered"}) <= Cardinality(Bills(r))
    /\ \A i \in Bills(r) : \E c \in AttemptsOn(r) : asked[c].account = events[i].account

(* A client never pays for a request no attempt of which gave a good result *)
(* - not even when calls are given up and go on in the service.             *)
BilledIsRecognized ==
  \A r \in Requests : Bills(r) # {} => \E c \in AttemptsOn(r) : ocr[c] = "good"

(* Once every attempt at a request is over, and none of them met a fault,   *)
(* nothing is left on hold for it, however they overlapped.                 *)
NoHoldLeftBehind ==
  \A r \in Requests :
    (\A c \in AttemptsOn(r) : phase[c] \in Over /\ ~faulty[c]) => reservations[r] = None

(* Every attempt ends: no failure of the billing service leaves Process     *)
(* waiting or going round.                                                  *)
AttemptsEnd == \A c \in Calls : (asked[c] # None) ~> (phase[c] \in Over)

(* A client whose balance does not cover the request is told so: 402.       *)
InsufficientGets402 ==
  \A c \in Calls : cause[c] # None =>
    (cause[c].kind = "insufficient" => reply[c] = 402)
=============================================================================
