-------------------------- MODULE OrchestratorProofs --------------------------
(***************************************************************************)
(* Proofs about Orchestrator, for any accounts, requests, prices, attempts *)
(* and faults.  The orchestrator makes no call that the engine of module   *)
(* Billing would not serve from another caller, so what is proved of the   *)
(* engine holds of the two together.  On top of that: a result is paid     *)
(* for, what is paid was recognized, and what is held is released.         *)
(***************************************************************************)
EXTENDS Orchestrator, BillingProofs, FiniteSetTheorems

Attempts == [account : Accounts, request : Requests]

(* The calls by which an attempt reserves, commits and rolls back.          *)
Reserving == Settling \union {"insert"} \union Answers
CommitCall == {"read"} \union Committing

(* What the phase of an attempt, and the step its call is at, say of it.    *)
AttemptOf(c) ==
  /\ phase[c] = "new" => asked[c] = None /\ pc[c] = "idle"
  /\ phase[c] # "new" => asked[c] \in Attempts
  /\ ocr[c] = "good" => phase[c] \in {"committing"} \union Over
  /\ pc[c] # "idle" => request[c] = asked[c].request
  /\ pc[c] \in Settling => account[c] = asked[c].account
  /\ pc[c] = "insert" => hold[c].account = asked[c].account
  /\ pc[c] \in CommitCall => ocr[c] = "good"
  /\ phase[c] = "reserving" => pc[c] \in Reserving
  /\ phase[c] = "recognizing" => pc[c] = "idle"
  /\ phase[c] = "committing" => ocr[c] = "good" /\ pc[c] \in CommitCall \union Answers
  /\ phase[c] = "rolling_back" => pc[c] \in {"rollback"} \union Answers
  /\ phase[c] \in Over /\ pc[c] # "idle" => faulty[c]

AttemptsInv == \A c \in Calls : AttemptOf(c)

OTypes ==
  /\ phase \in [Calls -> Phases]
  /\ ocr \in [Calls -> {"good", "low", "failed", None}]
  /\ reply \in [Calls -> {200, 402, 500, 503, None}]
  /\ cause \in [Calls -> Errors \union {None}]
  /\ asked \in [Calls -> Attempts \union {None}]
  /\ faulty \in [Calls -> BOOLEAN]

OIInv == IInv /\ OTypes /\ AttemptsInv

(* What an attempt asked, a good result and a fault stay.                   *)
Stays ==
  \A c \in Calls :
    /\ asked[c] # None => asked'[c] = asked[c]
    /\ ocr[c] = "good" => ocr'[c] = "good"
    /\ faulty[c] => faulty'[c]

(* A step touches no attempt and no call but c.                             *)
Only(c) ==
  \A d \in Calls \ {c} :
    /\ phase'[d] = phase[d] /\ ocr'[d] = ocr[d] /\ asked'[d] = asked[d]
    /\ faulty'[d] = faulty[d] /\ pc'[d] = pc[d] /\ request'[d] = request[d]
    /\ account'[d] = account[d] /\ hold'[d] = hold[d]

(* A step that leaves the other attempts alone, and its own in order.      *)
LEMMA OtherAttempts ==
  ASSUME AttemptsInv, NEW c \in Calls, AttemptOf(c)', Only(c)
  PROVE  AttemptsInv'
BY DEF AttemptsInv, AttemptOf, Only

-----------------------------------------------------------------------------
(* Every error is answered with one of three statuses.                      *)
LEMMA StatusType ==
  ASSUME NEW err
  PROVE  HttpStatus(err) \in {402, 500, 503}
BY DEF HttpStatus

(* A function on the calls changed at one of them, or not at all.           *)
LEMMA Updated ==
  ASSUME NEW T, NEW f \in [Calls -> T], NEW g, NEW c \in Calls, NEW v \in T,
         g = f \/ g = [f EXCEPT ![c] = v]
  PROVE  g \in [Calls -> T]
<1>1. CASE g = f
  BY <1>1
<1>2. CASE g = [f EXCEPT ![c] = v]
  BY <1>2
<1> QED
  BY <1>1, <1>2

(* The steps of a call in the billing service.                              *)
LEMMA ServeAttempt ==
  ASSUME OIInv, NEW c \in Calls, Serve(c) \/ Abort(c),
         UNCHANGED <<phase, ocr, asked>>,
         \/ UNCHANGED faulty
         \/ faulty' = [faulty EXCEPT ![c] = TRUE]
  PROVE  AttemptsInv' /\ Only(c) /\ Stays
<1> USE DEF OIInv, IInv, TypeOK, OTypes
<1>1. pc[c] \in Running
  BY DEF Serve, Running, Lookup, LookupError, ReadBalance, ReadReservations, Insert,
         CommitRead, CommitDelete, CommitBill, Rollback, Abort
<1>2. Stays
  <2>1. ASSUME NEW d \in Calls, faulty[d] PROVE faulty'[d]
    <3>1. CASE UNCHANGED faulty
      BY <2>1, <3>1
    <3>2. CASE faulty' = [faulty EXCEPT ![c] = TRUE]
      BY <2>1, <3>2
    <3> QED
      BY <3>1, <3>2
  <2> QED
    BY <2>1 DEF Stays
<1>3. /\ UNCHANGED <<account, request>>
      /\ \A d \in Calls \ {c} : pc'[d] = pc[d] /\ hold'[d] = hold[d]
      /\ \/ pc[c] \in Settling /\ pc'[c] \in Settling \union Answers /\ UNCHANGED hold
         \/ pc[c] \in Settling /\ pc'[c] \in Answers
         \/ pc[c] \in Settling /\ pc'[c] = "insert" /\ hold'[c].account = account[c]
         \/ pc[c] = "insert" /\ pc'[c] \in Answers
         \/ pc[c] \in CommitCall /\ pc'[c] \in Committing \union Answers
         \/ pc[c] = "rollback" /\ pc'[c] \in Answers
  <2> USE DEF Goto, Settling, Answers, CommitCall, Committing
  <2>1. CASE Lookup(c) \/ LookupError(c) \/ ReadBalance(c)
    BY <2>1 DEF Lookup, LookupError, ReadBalance
  <2>2. CASE ReadReservations(c)
    <3>1. /\ pc[c] = "reservations" /\ UNCHANGED <<account, request>>
          /\ \E priced \in BOOLEAN : Settle(c, Price(priced, AvailableAt(account[c], seen[c])))
      BY <2>2 DEF ReadReservations
    <3>2. PICK charge : Settle(c, charge)
      BY <3>1
    <3> QED
      BY <3>1, <3>2 DEF Settle
  <2>3. CASE Insert(c)
    BY <2>3 DEF Insert
  <2>4. CASE CommitRead(c) \/ CommitDelete(c) \/ CommitBill(c) \/ Rollback(c)
    BY <2>4 DEF CommitRead, CommitDelete, CommitBill, Rollback
  <2>5. CASE Abort(c)
    BY <2>5 DEF Abort, Running
  <2> QED
    BY <2>1, <2>2, <2>3, <2>4, <2>5 DEF Serve
<1>4. AttemptOf(c)
  BY DEF AttemptsInv
<1>5. Only(c)
  BY <1>3 DEF Only
<1>6. AttemptOf(c)'
  BY <1>1, <1>3, <1>4 DEF AttemptOf, Settling, Answers, CommitCall, Committing, Running, Reserving
<1> QED
  BY <1>2, <1>5, <1>6, OtherAttempts

(* A call that is over leaves nothing behind in its slot.                   *)
LEMMA ReturnsTo ==
  ASSUME OIInv, NEW c \in Calls, Return(c)
  PROVE  pc[c] \in Answers /\ pc' = [pc EXCEPT ![c] = "idle"] /\ pc'[c] = "idle"
BY DEF Return, Goto, OIInv, IInv, TypeOK

(* The steps of an attempt.                                                 *)
LEMMA ProcessAttempt ==
  ASSUME OIInv, NEW c \in Calls,
         \/ \E a \in Accounts, r \in Requests : Recognize(c, a, r)
         \/ Process(c) \/ NobodyReads(c) \/ GiveUp(c) \/ Die(c)
  PROVE  OTypes' /\ AttemptsInv' /\ Only(c) /\ Stays
<1> USE DEF OIInv, IInv, TypeOK, OTypes, Phases, Waiting, Over
<1>0. AttemptOf(c) /\ Attempts = [account : Accounts, request : Requests]
  BY DEF AttemptsInv, Attempts
<1>1. ASSUME NEW a \in Accounts, NEW r \in Requests, Recognize(c, a, r)
      PROVE  OTypes' /\ AttemptsInv' /\ Only(c) /\ Stays
  <2> DEFINE attempt == [account |-> a, request |-> r]
  <2>1. attempt \in Attempts
    BY <1>0
  <2>2. /\ phase[c] = "new" /\ phase' = [phase EXCEPT ![c] = "reserving"]
        /\ asked' = [asked EXCEPT ![c] = attempt]
        /\ pc[c] = "idle" /\ pc' = [pc EXCEPT ![c] = "lookup"]
        /\ account' = [account EXCEPT ![c] = a] /\ request' = [request EXCEPT ![c] = r]
        /\ UNCHANGED <<ocr, reply, cause, faulty, hold>>
    BY <1>1 DEF Recognize, Enter, StartReserve, Start, Goto
  <2>3. attempt.request = r /\ attempt.account = a /\ asked[c] = None
    BY <1>0, <2>2 DEF AttemptOf
  <2> HIDE DEF attempt
  <2>4. OTypes'
    BY <2>1, <2>2
  <2>5. Only(c) /\ Stays
    BY <2>2, <2>3 DEF Only, Stays
  <2>6. AttemptOf(c)'
    BY <1>0, <2>1, <2>2, <2>3
       DEF AttemptOf, Settling, Answers, CommitCall, Committing, Reserving
  <2> QED
    BY <2>4, <2>5, <2>6, OtherAttempts
<1>2. CASE ReserveDone(c) \/ ReserveRefused(c)
  <2>1. /\ phase[c] = "reserving" /\ pc[c] \in Answers /\ pc' = [pc EXCEPT ![c] = "idle"]
        /\ \/ phase' = [phase EXCEPT ![c] = "recognizing"] /\ UNCHANGED <<reply, cause>>
           \/ /\ phase' = [phase EXCEPT ![c] = "refused"]
              /\ reply' = [reply EXCEPT ![c] = HttpStatus(Wrapped(ReserveError(pc[c])))]
              /\ cause' = [cause EXCEPT ![c] = ReserveError(pc[c])]
        /\ account' = [account EXCEPT ![c] = None] /\ request' = [request EXCEPT ![c] = None]
        /\ hold' = [hold EXCEPT ![c] = None]
        /\ UNCHANGED <<ocr, asked, faulty>>
    BY <1>2 DEF ReserveDone, ReserveRefused, Refuse, Enter, Return, Goto
  <2>2. /\ HttpStatus(Wrapped(ReserveError(pc[c]))) \in {402, 500, 503}
        /\ ReserveError(pc[c]) \in Errors
    BY StatusType DEF ReserveError, Sentinel, Errors
  <2>3. OTypes'
    <3>1. phase' \in [Calls -> Phases]
      <4>1. PICK p \in Phases : phase' = phase \/ phase' = [phase EXCEPT ![c] = p]
        BY <2>1
      <4> QED
        BY <4>1, Updated
    <3>2. ocr' \in [Calls -> {"good", "low", "failed", None}]
      <4>1. PICK o \in {"good", "low", "failed", None} :
              ocr' = ocr \/ ocr' = [ocr EXCEPT ![c] = o]
        BY <2>1
      <4> QED
        BY <4>1, Updated
    <3>3. reply' \in [Calls -> {200, 402, 500, 503, None}]
      BY <2>1, <2>2
    <3>4. cause' \in [Calls -> Errors \union {None}]
      <4>1. PICK err \in Errors \union {None} :
              cause' = cause \/ cause' = [cause EXCEPT ![c] = err]
        BY <2>1, <2>2
      <4> QED
        BY <4>1, Updated
    <3>5. asked' \in [Calls -> Attempts \union {None}]
      BY <2>1
    <3>6. faulty' \in [Calls -> BOOLEAN]
      BY <2>1
    <3> QED
      BY <3>1, <3>2, <3>3, <3>4, <3>5, <3>6
  <2>5. Only(c) /\ Stays
    BY <2>1, <2>2 DEF Only, Stays
  <2>4. AttemptOf(c)'
    BY <1>0, <2>1 DEF AttemptOf, Settling, Answers, CommitCall, Committing, Reserving
  <2> QED
    BY <2>3, <2>4, <2>5, OtherAttempts
<1>3. CASE OcrGood(c) \/ OcrBad(c)
  <2>1. /\ phase[c] = "recognizing" /\ pc[c] = "idle"
        /\ \/ /\ ocr' = [ocr EXCEPT ![c] = "good"] /\ pc' = [pc EXCEPT ![c] = "read"]
              /\ phase' = [phase EXCEPT ![c] = "committing"]
           \/ /\ \E outcome \in {"low", "failed"} : ocr' = [ocr EXCEPT ![c] = outcome]
              /\ pc' = [pc EXCEPT ![c] = "rollback"]
              /\ phase' = [phase EXCEPT ![c] = "rolling_back"]
        /\ account' = [account EXCEPT ![c] = None]
        /\ request' = [request EXCEPT ![c] = asked[c].request]
        /\ UNCHANGED <<reply, cause, asked, faulty, hold>>
    BY <1>3 DEF OcrGood, OcrBad, Enter, StartCommit, StartRollback, Start, Goto
  <2>2. asked[c] \in Attempts /\ ocr[c] # "good"
    BY <1>0, <2>1 DEF AttemptOf
  <2>3. OTypes'
    <3>1. phase' \in [Calls -> Phases]
      <4>1. PICK p \in Phases : phase' = phase \/ phase' = [phase EXCEPT ![c] = p]
        BY <2>1
      <4> QED
        BY <4>1, Updated
    <3>2. ocr' \in [Calls -> {"good", "low", "failed", None}]
      <4>1. PICK o \in {"good", "low", "failed", None} :
              ocr' = ocr \/ ocr' = [ocr EXCEPT ![c] = o]
        BY <2>1
      <4> QED
        BY <4>1, Updated
    <3>3. reply' \in [Calls -> {200, 402, 500, 503, None}]
      BY <2>1, <2>2
    <3>4. cause' \in [Calls -> Errors \union {None}]
      <4>1. PICK err \in Errors \union {None} :
              cause' = cause \/ cause' = [cause EXCEPT ![c] = err]
        BY <2>1, <2>2
      <4> QED
        BY <4>1, Updated
    <3>5. asked' \in [Calls -> Attempts \union {None}]
      BY <2>1
    <3>6. faulty' \in [Calls -> BOOLEAN]
      BY <2>1
    <3> QED
      BY <3>1, <3>2, <3>3, <3>4, <3>5, <3>6
  <2>5. Only(c) /\ Stays
    BY <2>1, <2>2 DEF Only, Stays
  <2>4. AttemptOf(c)'
    BY <1>0, <2>1, <2>2 DEF AttemptOf, Settling, Answers, CommitCall, Committing, Reserving
  <2> QED
    BY <2>3, <2>4, <2>5, OtherAttempts
<1>4. CASE Deliver(c) \/ CommitFailed(c) \/ RolledBack(c) \/ NobodyReads(c)
  <2>1. /\ phase[c] \in {"committing", "rolling_back"} \union Over
        /\ pc[c] \in Answers /\ pc' = [pc EXCEPT ![c] = "idle"]
        /\ \/ phase' = [phase EXCEPT ![c] = "delivered"]
           \/ phase' = [phase EXCEPT ![c] = "refused"]
           \/ UNCHANGED phase /\ phase[c] \in Over
        /\ account' = [account EXCEPT ![c] = None] /\ request' = [request EXCEPT ![c] = None]
        /\ hold' = [hold EXCEPT ![c] = None]
        /\ UNCHANGED <<ocr, cause, asked, faulty>>
    BY <1>4 DEF Deliver, CommitFailed, RolledBack, NobodyReads, Refuse, Enter, Return, Goto,
                attemptVars
  <2>2. reply' \in [Calls -> {200, 402, 500, 503, None}]
    <3>1. PICK status \in {200, 402, 500, 503, None} :
            reply' = reply \/ reply' = [reply EXCEPT ![c] = status]
      BY <1>4, StatusType
         DEF Deliver, CommitFailed, RolledBack, NobodyReads, Refuse, attemptVars
    <3> QED
      BY <3>1, Updated
  <2>3. OTypes'
    <3>1. phase' \in [Calls -> Phases]
      <4>1. PICK p \in Phases : phase' = phase \/ phase' = [phase EXCEPT ![c] = p]
        BY <2>1
      <4> QED
        BY <4>1, Updated
    <3>2. ocr' \in [Calls -> {"good", "low", "failed", None}]
      <4>1. PICK o \in {"good", "low", "failed", None} :
              ocr' = ocr \/ ocr' = [ocr EXCEPT ![c] = o]
        BY <2>1
      <4> QED
        BY <4>1, Updated
    <3>3. reply' \in [Calls -> {200, 402, 500, 503, None}]
      BY <2>1, <2>2
    <3>4. cause' \in [Calls -> Errors \union {None}]
      <4>1. PICK err \in Errors \union {None} :
              cause' = cause \/ cause' = [cause EXCEPT ![c] = err]
        BY <2>1, <2>2
      <4> QED
        BY <4>1, Updated
    <3>5. asked' \in [Calls -> Attempts \union {None}]
      BY <2>1
    <3>6. faulty' \in [Calls -> BOOLEAN]
      BY <2>1
    <3> QED
      BY <3>1, <3>2, <3>3, <3>4, <3>5, <3>6
  <2>5. Only(c) /\ Stays
    BY <2>1, <2>2 DEF Only, Stays
  <2>4. AttemptOf(c)'
    BY <1>0, <2>1 DEF AttemptOf, Settling, Answers, CommitCall, Committing, Reserving
  <2> QED
    BY <2>3, <2>4, <2>5, OtherAttempts
<1>5. CASE GiveUp(c) \/ Die(c)
  <2>1. /\ phase[c] \in Waiting \union {"recognizing"}
        /\ \/ phase' = [phase EXCEPT ![c] = "refused"]
           \/ phase' = [phase EXCEPT ![c] = "gone"]
        /\ faulty' = [faulty EXCEPT ![c] = TRUE]
        /\ UNCHANGED <<vars, ocr, cause, asked>>
    BY <1>5 DEF GiveUp, Die, Refuse, Enter
  <2>2. reply' \in [Calls -> {200, 402, 500, 503, None}]
    BY <1>5, StatusType DEF GiveUp, Die, Refuse
  <2>3. OTypes'
    <3>1. phase' \in [Calls -> Phases]
      <4>1. PICK p \in Phases : phase' = phase \/ phase' = [phase EXCEPT ![c] = p]
        BY <2>1
      <4> QED
        BY <4>1, Updated
    <3>2. ocr' \in [Calls -> {"good", "low", "failed", None}]
      <4>1. PICK o \in {"good", "low", "failed", None} :
              ocr' = ocr \/ ocr' = [ocr EXCEPT ![c] = o]
        BY <2>1
      <4> QED
        BY <4>1, Updated
    <3>3. reply' \in [Calls -> {200, 402, 500, 503, None}]
      BY <2>1, <2>2
    <3>4. cause' \in [Calls -> Errors \union {None}]
      <4>1. PICK err \in Errors \union {None} :
              cause' = cause \/ cause' = [cause EXCEPT ![c] = err]
        BY <2>1, <2>2
      <4> QED
        BY <4>1, Updated
    <3>5. asked' \in [Calls -> Attempts \union {None}]
      BY <2>1
    <3>6. faulty' \in [Calls -> BOOLEAN]
      BY <2>1
    <3> QED
      BY <3>1, <3>2, <3>3, <3>4, <3>5, <3>6
  <2>5. Only(c) /\ Stays
    BY <2>1, <2>2 DEF Only, Stays, vars
  <2>4. AttemptOf(c)'
    BY <1>0, <2>1 DEF AttemptOf, Settling, Answers, CommitCall, Committing, Reserving, vars
  <2> QED
    BY <2>3, <2>4, <2>5, OtherAttempts
<1> QED
  BY <1>1, <1>2, <1>3, <1>4, <1>5 DEF Process

-----------------------------------------------------------------------------
(* The steps that are some attempt's, in the orchestrator or in its call.   *)
Moves(c) ==
  \/ \E a \in Accounts, r \in Requests : Recognize(c, a, r)
  \/ Process(c) \/ BillingWorks(c) \/ GiveUp(c) \/ Die(c) \/ CallStops(c)

(* Every other step is one of the clock and the top-ups, or none.           *)
Elsewhere ==
  /\ Environment \/ UNCHANGED vars
  /\ UNCHANGED <<attemptVars, pc, account, request, hold>>

(* Each step is one of the two.                                            *)
LEMMA StepOfOne ==
  ASSUME [ONext]_allVars
  PROVE  Elsewhere \/ \E c \in Calls : Moves(c)
BY DEF ONext, allVars, attemptVars, Elsewhere, Moves, vars, Environment, Topup, Expire

(* Whoever's step it is, the other attempts stay where they are.            *)
LEMMA MoveAttempt ==
  ASSUME OIInv, NEW c \in Calls, Moves(c)
  PROVE  OTypes' /\ AttemptsInv' /\ Only(c) /\ Stays
<1>1. CASE \/ \E a \in Accounts, r \in Requests : Recognize(c, a, r)
           \/ Process(c) \/ NobodyReads(c) \/ GiveUp(c) \/ Die(c)
  BY <1>1, ProcessAttempt
<1>2. CASE Serve(c) /\ UNCHANGED attemptVars
  <2>1. AttemptsInv' /\ Only(c) /\ Stays
    BY <1>2, ServeAttempt DEF attemptVars
  <2>2. OTypes'
    BY <1>2 DEF OIInv, OTypes, attemptVars
  <2> QED
    BY <2>1, <2>2
<1>3. CASE CallStops(c)
  <2>1. AttemptsInv' /\ Only(c) /\ Stays
    BY <1>3, ServeAttempt DEF CallStops
  <2>2. OTypes'
    BY <1>3 DEF OIInv, OTypes, CallStops
  <2> QED
    BY <2>1, <2>2
<1> QED
  BY <1>1, <1>2, <1>3 DEF Moves, BillingWorks

(* Top-ups and the clock move no attempt.                                  *)
LEMMA ElsewhereAttempts ==
  ASSUME OIInv, Elsewhere
  PROVE  OTypes' /\ AttemptsInv' /\ Stays
<1>1. OTypes' /\ Stays
  BY DEF OIInv, OTypes, Stays, Elsewhere, attemptVars
<1>2. AttemptsInv'
  BY DEF OIInv, AttemptsInv, AttemptOf, Elsewhere, attemptVars
<1> QED
  BY <1>1, <1>2

(* Every step of the two together is one of the engine, from some caller,   *)
(* or none of its.                                                          *)
LEMMA EngineStep ==
  ASSUME OIInv, [ONext]_allVars
  PROVE  [Next]_vars
<1>1. CASE Elsewhere
  BY <1>1 DEF Elsewhere, Next
<1>2. ASSUME NEW c \in Calls, Moves(c) PROVE [Next]_vars
  <2>1. ASSUME NEW a \in Accounts, NEW r \in Requests, Recognize(c, a, r) PROVE [Next]_vars
    BY <2>1 DEF Recognize, Next
  <2>2. CASE \/ ReserveDone(c) \/ ReserveRefused(c) \/ Deliver(c) \/ CommitFailed(c)
             \/ RolledBack(c) \/ NobodyReads(c)
    <3>1. Return(c)
      BY <2>2 DEF ReserveDone, ReserveRefused, Deliver, CommitFailed, RolledBack, NobodyReads
    <3> QED
      BY <3>1 DEF Next
  <2>3. CASE OcrGood(c) \/ OcrBad(c)
    <3>1. phase[c] = "recognizing" /\ AttemptOf(c)
      BY <2>3 DEF OcrGood, OcrBad, OIInv, AttemptsInv
    <3>2. asked[c].request \in Requests
      BY <3>1 DEF AttemptOf, Attempts
    <3>3. StartCommit(c, asked[c].request) \/ StartRollback(c, asked[c].request)
      BY <2>3 DEF OcrGood, OcrBad
    <3> QED
      BY <3>2, <3>3 DEF Next
  <2>4. CASE Serve(c) \/ CallStops(c)
    BY <2>4 DEF CallStops, Next
  <2>5. CASE GiveUp(c) \/ Die(c)
    BY <2>5 DEF GiveUp, Die
  <2> QED
    BY <1>2, <2>1, <2>2, <2>3, <2>4, <2>5 DEF Moves, Process, BillingWorks
<1> QED
  BY <1>1, <1>2, StepOfOne

(* No attempt has been made.                                               *)
LEMMA AttemptsInit == OInit => OIInv
<1> SUFFICES ASSUME OInit PROVE OIInv
  OBVIOUS
<1>1. TypeOK /\ ArgumentsInv /\ ChargedOnce
  BY DEF OInit, Init, TypeOK, ArgumentsInv, ChargedOnce, Running, Settling, Holding, Committing
<1>2. OTypes
  BY DEF OInit, OTypes, Phases
<1>3. AttemptsInv
  BY NoneIsNoAttempt
     DEF OInit, Init, AttemptsInv, AttemptOf, Over, CommitCall, Committing, Settling
<1> QED
  BY <1>1, <1>2, <1>3 DEF OIInv, IInv

(* The engine's invariant and that of the attempts hold each other up.     *)
LEMMA AttemptsStep == OIInv /\ [ONext]_allVars => OIInv'
<1> SUFFICES ASSUME OIInv, [ONext]_allVars PROVE OIInv'
  OBVIOUS
<1>1. IInv /\ [Next]_vars
  BY EngineStep DEF OIInv
<1>2. TypeOK' /\ ArgumentsInv' /\ ChargedOnce'
  BY <1>1, ServeStep, OtherStep, ChargedOnceStep DEF IInv, Next
<1>3. OTypes' /\ AttemptsInv'
  BY StepOfOne, MoveAttempt, ElsewhereAttempts
<1> QED
  BY <1>2, <1>3 DEF OIInv, IInv

(* What every attempt has asked, and where its call is, in every state.     *)
THEOREM AttemptsInvariant == OSpec => []OIInv
BY AttemptsInit, AttemptsStep, PTL DEF OSpec

(* The engine behind the orchestrator does nothing that it would not do for *)
(* another caller, so what is proved of Billing holds here too.             *)
THEOREM CallsTheEngine == OSpec => Spec
<1>1. OInit => Init
  BY DEF OInit
<1>2. OIInv /\ [ONext]_allVars => [Next]_vars
  BY EngineStep
<1> QED
  BY <1>1, <1>2, AttemptsInvariant, PTL DEF OSpec, Spec

(* It keeps the ledger's promises, whatever the attempts do: each request   *)
(* is billed once at most, on terms held for it at that moment.             *)
THEOREM EngineKeepsLedger == OSpec => ImplementsLedger
BY CallsTheEngine, BillingImplementsLedger, PTL

(* Every variable of the attempts and of the engine holds a value the       *)
(* program can have.                                                        *)
THEOREM AttemptTypes == OSpec => []OTypeOK
<1>1. OIInv => OTypeOK
  BY DEF OIInv, IInv, OTypes, OTypeOK, Attempts
<1> QED
  BY <1>1, AttemptsInvariant, PTL

-----------------------------------------------------------------------------
(* What a step may add to the billing events: one event, which is a top-up  *)
(* or bills, for the first time, the request of the attempt at CommitBill.  *)
BillsNow(c) ==
  /\ CommitBill(c)
  /\ ~Billed(request[c])
  /\ events' = Append(events, UsageEvent(request[c], hold[c]))
  /\ UNCHANGED attemptVars

(* Nothing else becomes of the events.                                     *)
LEMMA EventsStep ==
  ASSUME OIInv, [ONext]_allVars
  PROVE  \/ UNCHANGED events
         \/ \E e : events' = Append(events, e) /\ e.request = None
         \/ \E c \in Calls : BillsNow(c)
<1>1. CASE Elsewhere
  <2>1. ASSUME NEW a \in Accounts, NEW n \in Topups, Topup(a, n)
        PROVE  events' = Append(events, TopupEvent(a, n)) /\ TopupEvent(a, n).request = None
    BY <2>1 DEF Topup, TopupEvent
  <2> QED
    BY <1>1, <2>1 DEF Elsewhere, Environment, Expire, vars
<1>2. ASSUME NEW c \in Calls, Moves(c) PROVE UNCHANGED events \/ BillsNow(c)
  <2>1. CASE CommitBill(c) /\ UNCHANGED attemptVars
    BY <2>1 DEF CommitBill, BillsNow
  <2>2. CASE /\ UNCHANGED attemptVars
             /\ \/ Lookup(c) \/ LookupError(c) \/ ReadBalance(c) \/ ReadReservations(c)
                \/ Insert(c) \/ CommitRead(c) \/ CommitDelete(c) \/ Rollback(c)
    BY <2>2 DEF Lookup, LookupError, ReadBalance, ReadReservations, Insert, CommitRead,
                CommitDelete, Rollback, database
  <2>3. CASE Process(c) \/ NobodyReads(c)
    BY <2>3 DEF Process, ReserveDone, ReserveRefused, OcrGood, OcrBad, Deliver, CommitFailed,
                RolledBack, NobodyReads, Return, StartCommit, StartRollback, Start, database
  <2>4. CASE GiveUp(c) \/ Die(c) \/ CallStops(c)
    BY <2>4 DEF GiveUp, Die, CallStops, Abort, vars, database
  <2>5. CASE \E a \in Accounts, r \in Requests : Recognize(c, a, r)
    BY <2>5 DEF Recognize, StartReserve, Start, database
  <2> QED
    BY <1>2, <2>1, <2>2, <2>3, <2>4, <2>5 DEF Moves, BillingWorks, Serve
<1> QED
  BY <1>1, <1>2, StepOfOne

(* An event is added at the end, and the others stay where they are.       *)
LEMMA Appended ==
  ASSUME OIInv, NEW e, events' = Append(events, e)
  PROVE  /\ DOMAIN events' = DOMAIN events \union {Len(events) + 1}
         /\ \A i \in DOMAIN events : events'[i] = events[i]
         /\ events'[Len(events) + 1] = e
<1>1. events \in Seq(Events) /\ Len(events) \in Nat /\ DOMAIN events = 1..Len(events)
  BY LenProperties DEF OIInv, IInv, TypeOK
<1> QED
  BY <1>1

(* What is billed stays billed.                                             *)
LEMMA BilledStays ==
  ASSUME OIInv, [ONext]_allVars
  PROVE  \A r \in Requests : Billed(r) => Billed(r)'
<1>1. CASE UNCHANGED events
  BY <1>1 DEF Billed
<1>2. ASSUME NEW e, events' = Append(events, e) PROVE \A r \in Requests : Billed(r) => Billed(r)'
  BY <1>2, Appended DEF Billed
<1> QED
  BY <1>1, <1>2, EventsStep DEF BillsNow

(* The attempt at CommitBill, and what it asked for.                        *)
LEMMA BillsOwn ==
  ASSUME OIInv, NEW c \in Calls, BillsNow(c)
  PROVE  /\ pc[c] = "bill" /\ request[c] = asked[c].request /\ asked[c] \in Attempts
         /\ ocr[c] = "good" /\ hold[c] \in Rows
         /\ UsageEvent(request[c], hold[c]).request = request[c]
         /\ UsageEvent(request[c], hold[c]).account = hold[c].account
         /\ Billed(request[c])'
<1>1. pc[c] = "bill"
  BY DEF BillsNow, CommitBill
<1>2. request[c] = asked[c].request /\ asked[c] \in Attempts /\ ocr[c] = "good" /\ hold[c] \in Rows
  BY <1>1 DEF OIInv, AttemptsInv, AttemptOf, CommitCall, Committing, IInv, ArgumentsInv, Holding
<1>3. /\ UsageEvent(request[c], hold[c]).request = request[c]
      /\ UsageEvent(request[c], hold[c]).account = hold[c].account
  BY DEF UsageEvent
<1>4. Billed(request[c])'
  <2>1. events'[Len(events) + 1].request = request[c] /\ UNCHANGED request
    BY <1>3, Appended DEF BillsNow, CommitBill
  <2> QED
    BY <2>1, Appended DEF BillsNow, Billed
<1> QED
  BY <1>1, <1>2, <1>3, <1>4

-----------------------------------------------------------------------------
(* Results are paid for.  DeliveredIsPaid alone is not inductive: it needs  *)
(* that an attempt that may deliver, because its commit has answered ok,    *)
(* has its payment to itself.                                               *)
Paid(c) == phase[c] = "delivered" \/ (phase[c] = "committing" /\ pc[c] = "ok")

PaidInv ==
  /\ \A c \in Calls : Paid(c) => asked[c] \in Attempts /\ Billed(asked[c].request)
  /\ \A c, d \in Calls : Paid(c) /\ Paid(d) /\ asked[c].request = asked[d].request => c = d

(* The one way to become paid is to insert the event.                       *)
LEMMA PaidMove ==
  ASSUME OIInv, NEW c \in Calls, Moves(c), Paid(c)'
  PROVE  Paid(c) \/ BillsNow(c)
<1> USE DEF OIInv, IInv, TypeOK, OTypes
<1>0. AttemptOf(c)
  BY DEF AttemptsInv
<1>1. ASSUME NEW a \in Accounts, NEW r \in Requests, Recognize(c, a, r) PROVE FALSE
  BY <1>1 DEF Recognize, Enter, Paid
<1>2. CASE ReserveDone(c) \/ ReserveRefused(c) \/ CommitFailed(c) \/ RolledBack(c) \/ GiveUp(c)
           \/ Die(c)
  BY <1>2 DEF ReserveDone, ReserveRefused, CommitFailed, RolledBack, GiveUp, Die, Refuse, Enter,
              Paid
<1>3. CASE OcrGood(c) \/ OcrBad(c)
  BY <1>3 DEF OcrGood, OcrBad, Enter, StartCommit, StartRollback, Start, Goto, Paid
<1>4. CASE Deliver(c)
  BY <1>4 DEF Deliver, Paid
<1>5. CASE NobodyReads(c)
  BY <1>5 DEF NobodyReads, attemptVars, Paid, Over
<1>6. CASE CallStops(c)
  BY <1>6 DEF CallStops, Abort, Goto, Paid
<1>7. CASE Serve(c) /\ UNCHANGED attemptVars
  <2>1. CASE phase[c] = "delivered"
    BY <2>1 DEF Paid
  <2>2. CASE phase[c] = "committing" /\ pc'[c] = "ok"
    <3>1. pc[c] \in CommitCall \union Answers
      BY <1>0, <2>2 DEF AttemptOf
    <3> QED
      BY <1>7, <2>2, <3>1
         DEF Serve, Lookup, LookupError, ReadBalance, ReadReservations, Insert, CommitRead,
             CommitDelete, CommitBill, Rollback, Goto, CommitCall, Committing, Answers, BillsNow
  <2> QED
    BY <1>7, <2>1, <2>2 DEF Paid, attemptVars
<1> QED
  BY <1>1, <1>2, <1>3, <1>4, <1>5, <1>6, <1>7 DEF Moves, Process, BillingWorks

(* Two attempts at a request never both find it unbilled at CommitBill.    *)
LEMMA PaidStep ==
  ASSUME OIInv, PaidInv, [ONext]_allVars
  PROVE  PaidInv'
<1>1. Stays
  BY StepOfOne, MoveAttempt, ElsewhereAttempts
<1>2. ASSUME NEW c \in Calls, Paid(c)' PROVE Paid(c) \/ BillsNow(c)
  <2>1. CASE Elsewhere
    BY <1>2, <2>1 DEF Elsewhere, attemptVars, Paid
  <2>2. ASSUME NEW d \in Calls \ {c}, Moves(d) PROVE Paid(c)
    <3>1. Only(d)
      BY <2>2, MoveAttempt
    <3> QED
      BY <1>2, <3>1 DEF Only, Paid
  <2> QED
    BY <1>2, <2>1, <2>2, PaidMove, StepOfOne
<1>3. ASSUME NEW c \in Calls, Paid(c)'
      PROVE  /\ asked[c] \in Attempts /\ asked'[c] = asked[c]
             /\ Billed(asked[c].request)'
             /\ Paid(c) => Billed(asked[c].request)
             /\ ~Paid(c) => BillsNow(c) /\ ~Billed(asked[c].request)
  <2>1. CASE Paid(c)
    <3>1. asked[c] \in Attempts /\ asked[c].request \in Requests /\ Billed(asked[c].request)
      BY <2>1 DEF PaidInv, Attempts
    <3>2. asked'[c] = asked[c]
      BY <1>1, <3>1, NoneIsNoAttempt DEF Stays, Attempts
    <3>3. Billed(asked[c].request)'
      BY <3>1, <3>2, BilledStays DEF Billed
    <3> QED
      BY <2>1, <3>1, <3>2, <3>3
  <2>2. CASE ~Paid(c)
    <3>1. BillsNow(c)
      BY <1>2, <1>3, <2>2
    <3>2. UNCHANGED <<asked, request>> /\ ~Billed(request[c])
      BY <3>1 DEF BillsNow, CommitBill, attemptVars
    <3>3. request[c] = asked[c].request /\ asked[c] \in Attempts /\ Billed(request[c])'
      BY <3>1, BillsOwn
    <3>4. Billed(asked[c].request)'
      BY <3>2, <3>3 DEF Billed
    <3> QED
      BY <2>2, <3>1, <3>2, <3>3, <3>4
  <2> QED
    BY <2>1, <2>2
<1>4. ASSUME NEW c \in Calls, NEW d \in Calls, Paid(c)', Paid(d)',
             asked'[c].request = asked'[d].request
      PROVE  c = d
  <2>1. asked[c].request = asked[d].request
    BY <1>3, <1>4
  <2>2. CASE Paid(c) /\ Paid(d)
    BY <2>1, <2>2 DEF PaidInv
  <2>3. CASE Paid(c) /\ ~Paid(d)
    <3>1. Billed(asked[c].request) /\ ~Billed(asked[d].request)
      BY <1>3, <1>4, <2>3
    <3> QED
      BY <2>1, <3>1
  <2>5. CASE ~Paid(c) /\ Paid(d)
    <3>1. ~Billed(asked[c].request) /\ Billed(asked[d].request)
      BY <1>3, <1>4, <2>5
    <3> QED
      BY <2>1, <3>1
  <2>4. CASE ~Paid(c) /\ ~Paid(d)
    <3>1. BillsNow(c) /\ BillsNow(d)
      BY <1>3, <1>4, <2>4
    <3>2. /\ pc[d] = "bill" /\ pc' = [pc EXCEPT ![c] = "ok"] /\ pc' = [pc EXCEPT ![d] = "ok"]
          /\ pc \in [Calls -> {"idle"} \union Running \union Answers]
      BY <3>1 DEF BillsNow, CommitBill, Goto, OIInv, IInv, TypeOK
    <3> QED
      BY <3>2
  <2> QED
    BY <2>2, <2>3, <2>4, <2>5
<1>5. ASSUME NEW c \in Calls, Paid(c)'
      PROVE  asked'[c] \in Attempts /\ (Billed(asked[c].request))'
  BY <1>3, <1>5 DEF Billed
<1> QED
  BY <1>4, <1>5 DEF PaidInv, Attempts

-----------------------------------------------------------------------------
(* The account of a row, and of the event it becomes, is one that asked.    *)
Asked(r, a) == \E c \in Calls : asked[c] # None /\ asked[c].request = r /\ asked[c].account = a

AskedInv ==
  /\ \A r \in Requests : reservations[r] # None => Asked(r, reservations[r].account)
  /\ \A c \in Calls : pc[c] \in Committing => Asked(request[c], hold[c].account)
  /\ \A i \in DOMAIN events :
       events[i].request # None => Asked(events[i].request, events[i].account)

(* An attempt that asked has asked for good.                               *)
LEMMA AskedStays ==
  ASSUME OIInv, [ONext]_allVars, NEW r, NEW a, Asked(r, a)
  PROVE  Asked(r, a)'
<1>1. Stays
  BY StepOfOne, MoveAttempt, ElsewhereAttempts
<1> QED
  BY <1>1 DEF Stays, Asked

(* A step changes no row, or clears one, or expires one, or inserts what    *)
(* the call of an attempt holds.                                            *)
InsertsNow(c) ==
  /\ Insert(c)
  /\ reservations[request[c]] = None
  /\ reservations' = [reservations EXCEPT ![request[c]] = hold[c]]
  /\ UNCHANGED attemptVars

(* Nothing else becomes of the rows.                                       *)
LEMMA RowsStep ==
  ASSUME OIInv, [ONext]_allVars
  PROVE  \/ UNCHANGED reservations
         \/ \E r \in Requests : Expire(r) /\ UNCHANGED attemptVars
         \/ \E c \in Calls : /\ UNCHANGED attemptVars
                             /\ \/ CommitDelete(c) \/ Rollback(c)
                                \/ InsertsNow(c)
<1>1. CASE Elsewhere
  BY <1>1 DEF Elsewhere, Environment, Topup, vars
<1>2. ASSUME NEW c \in Calls, Moves(c)
      PROVE  \/ UNCHANGED reservations
             \/ UNCHANGED attemptVars /\ (CommitDelete(c) \/ Rollback(c) \/ InsertsNow(c))
  <2>1. CASE Insert(c) /\ UNCHANGED attemptVars
    BY <2>1 DEF Insert, InsertsNow
  <2>2. CASE /\ UNCHANGED attemptVars
             /\ \/ Lookup(c) \/ LookupError(c) \/ ReadBalance(c) \/ ReadReservations(c)
                \/ CommitRead(c) \/ CommitBill(c)
    BY <2>2 DEF Lookup, LookupError, ReadBalance, ReadReservations, CommitRead, CommitBill,
                database
  <2>3. CASE Process(c) \/ NobodyReads(c)
    BY <2>3 DEF Process, ReserveDone, ReserveRefused, OcrGood, OcrBad, Deliver, CommitFailed,
                RolledBack, NobodyReads, Return, StartCommit, StartRollback, Start, database
  <2>4. CASE GiveUp(c) \/ Die(c) \/ CallStops(c)
    BY <2>4 DEF GiveUp, Die, CallStops, Abort, vars, database
  <2>5. CASE \E a \in Accounts, r \in Requests : Recognize(c, a, r)
    BY <2>5 DEF Recognize, StartReserve, Start, database
  <2> QED
    BY <1>2, <2>1, <2>2, <2>3, <2>4, <2>5 DEF Moves, BillingWorks, Serve
<1> QED
  BY <1>1, <1>2, StepOfOne

(* The attempt at Insert, and what it asked for.                            *)
LEMMA InsertsOwn ==
  ASSUME OIInv, NEW c \in Calls, InsertsNow(c)
  PROVE  /\ pc[c] = "insert" /\ asked[c] \in Attempts /\ request[c] = asked[c].request
         /\ hold[c].account = asked[c].account /\ hold[c] \in Rows
         /\ pc' = [pc EXCEPT ![c] = "ok"]
<1>1. pc[c] = "insert" /\ pc' = [pc EXCEPT ![c] = "ok"]
  BY DEF InsertsNow, Insert, Goto
<1> QED
  BY <1>1 DEF OIInv, AttemptsInv, AttemptOf, IInv, ArgumentsInv, Holding

(* An account goes from attempt to row, to commit, and to the event.       *)
LEMMA AskedStep ==
  ASSUME OIInv, AskedInv, [ONext]_allVars
  PROVE  AskedInv'
<1> USE DEF OIInv, IInv, TypeOK
<1>1. ASSUME NEW r \in Requests, NEW a, reservations'[r] # None, a = reservations'[r].account
      PROVE  Asked(r, a)'
  <2>1. CASE reservations[r] # None /\ reservations'[r].account = reservations[r].account
    BY <1>1, <2>1, AskedStays DEF AskedInv
  <2>2. CASE UNCHANGED reservations
    BY <1>1, <2>1, <2>2
  <2>3. ASSUME NEW s \in Requests, Expire(s) PROVE Asked(r, a)'
    BY <1>1, <2>1, <2>3 DEF Expire, Rows
  <2>4. ASSUME NEW c \in Calls, CommitDelete(c) \/ Rollback(c)
        PROVE  Asked(r, a)'
    BY <1>1, <2>1, <2>4 DEF CommitDelete, Rollback
  <2>5. ASSUME NEW c \in Calls, InsertsNow(c) PROVE Asked(r, a)'
    <3>1. CASE request[c] = r
      <4>1. asked[c] \in Attempts /\ r = asked[c].request /\ hold[c].account = asked[c].account
        BY <2>5, <3>1, InsertsOwn
      <4>2. Asked(r, hold[c].account)
        BY <4>1, NoneIsNoAttempt DEF Asked, Attempts
      <4>3. reservations'[r] = hold[c]
        BY <2>5, <3>1 DEF InsertsNow
      <4> QED
        BY <1>1, <4>2, <4>3, AskedStays
    <3>2. CASE request[c] # r
      BY <1>1, <2>1, <2>5, <3>2 DEF InsertsNow
    <3> QED
      BY <3>1, <3>2
  <2> QED
    BY <2>2, <2>3, <2>4, <2>5, RowsStep
<1>2. ASSUME NEW c \in Calls, NEW r, NEW a, pc'[c] \in Committing,
             r = request'[c], a = hold'[c].account
      PROVE  Asked(r, a)'
  <2>1. CASE pc[c] \in Committing /\ request'[c] = request[c] /\ hold'[c] = hold[c]
    BY <1>2, <2>1, AskedStays DEF AskedInv
  <2>2. CASE CommitRead(c)
    <3>1. /\ pc[c] = "read" /\ UNCHANGED request
          /\ reservations[request[c]] # None
          /\ hold' = [hold EXCEPT ![c] = reservations[request[c]]]
      BY <1>2, <2>2 DEF CommitRead, Goto, Committing
    <3>2. request[c] \in Requests
      BY <3>1 DEF ArgumentsInv, Running
    <3>3. Asked(request[c], reservations[request[c]].account)
      BY <3>1, <3>2 DEF AskedInv
    <3>4. request'[c] = request[c] /\ hold'[c] = reservations[request[c]]
      BY <3>1
    <3> QED
      BY <1>2, <3>3, <3>4, AskedStays
  <2>3. CASE Elsewhere
    BY <1>2, <2>1, <2>3 DEF Elsewhere
  <2>4. ASSUME NEW d \in Calls \ {c}, Moves(d) PROVE Asked(r, a)'
    <3>1. Only(d)
      BY <2>4, MoveAttempt
    <3> QED
      BY <1>2, <2>1, <3>1 DEF Only
  <2>5. CASE Moves(c) /\ ~CommitRead(c)
    <3>1. CASE Serve(c)
      BY <1>2, <2>1, <2>5, <3>1
         DEF Serve, Lookup, LookupError, ReadBalance, ReadReservations, Settle, Insert,
             CommitDelete, CommitBill, Rollback, Goto, Committing
    <3>2. CASE Process(c) \/ NobodyReads(c)
      BY <1>2, <3>2 DEF Process, ReserveDone, ReserveRefused, OcrGood, OcrBad, Deliver,
         CommitFailed, RolledBack, NobodyReads, Return, StartCommit, StartRollback, Start, Goto,
         Committing
    <3>3. CASE CallStops(c) \/ \E b \in Accounts, q \in Requests : Recognize(c, b, q)
      BY <1>2, <3>3 DEF CallStops, Abort, Recognize, StartReserve, Start, Goto, Committing
    <3>4. CASE GiveUp(c) \/ Die(c)
      BY <1>2, <2>1, <3>4 DEF GiveUp, Die, vars
    <3> QED
      BY <2>5, <3>1, <3>2, <3>3, <3>4 DEF Moves, BillingWorks
  <2> QED
    BY <2>2, <2>3, <2>4, <2>5, StepOfOne
<1>3. ASSUME NEW i \in DOMAIN events', NEW r, NEW a, events'[i].request # None,
             r = events'[i].request, a = events'[i].account
      PROVE  Asked(r, a)'
  <2>1. CASE i \in DOMAIN events /\ events'[i] = events[i]
    BY <1>3, <2>1, AskedStays DEF AskedInv
  <2>2. CASE UNCHANGED events
    BY <2>1, <2>2
  <2>3. ASSUME NEW e, events' = Append(events, e), e.request = None
        PROVE  Asked(r, a)'
    BY <1>3, <2>1, <2>3, Appended
  <2>4. ASSUME NEW c \in Calls, BillsNow(c)
        PROVE  Asked(r, a)'
    <3> DEFINE e == UsageEvent(request[c], hold[c])
    <3>1. pc[c] = "bill" /\ e.request = request[c] /\ e.account = hold[c].account
      BY <2>4, BillsOwn
    <3>2. Asked(e.request, e.account)
      BY <3>1 DEF AskedInv, Committing
    <3>3. events' = Append(events, e)
      BY <2>4 DEF BillsNow
    <3> HIDE DEF e
    <3>4. (i \in DOMAIN events /\ events'[i] = events[i]) \/ events'[i] = e
      BY <3>3, Appended
    <3> QED
      BY <1>3, <2>1, <3>2, <3>4, AskedStays
  <2> QED
    BY <2>2, <2>3, <2>4, EventsStep
<1>4. ASSUME NEW r \in Requests, reservations'[r] # None
      PROVE  (Asked(r, reservations[r].account))'
  <2>1. PICK a : a = reservations'[r].account
    OBVIOUS
  <2>2. Asked(r, a)'
    BY <1>1, <1>4, <2>1
  <2> QED
    BY <2>1, <2>2 DEF Asked
<1>5. ASSUME NEW c \in Calls, pc'[c] \in Committing
      PROVE  (Asked(request[c], hold[c].account))'
  <2>1. PICK r, a : r = request'[c] /\ a = hold'[c].account
    OBVIOUS
  <2>2. Asked(r, a)'
    BY <1>2, <1>5, <2>1
  <2> QED
    BY <2>1, <2>2 DEF Asked
<1>6. ASSUME NEW i \in DOMAIN events', events'[i].request # None
      PROVE  (Asked(events[i].request, events[i].account))'
  <2>1. PICK r, a : r = events'[i].request /\ a = events'[i].account
    OBVIOUS
  <2>2. Asked(r, a)'
    BY <1>3, <1>6, <2>1
  <2> QED
    BY <2>1, <2>2 DEF Asked
<1> QED
  BY <1>4, <1>5, <1>6 DEF AskedInv

-----------------------------------------------------------------------------
(* A commit needs a good result, and its payment keeps it.                  *)
LEMMA RecognizedStep ==
  ASSUME OIInv, BilledIsRecognized, [ONext]_allVars
  PROVE  BilledIsRecognized'
<1>0. Stays
  BY StepOfOne, MoveAttempt, ElsewhereAttempts
<1>1. ASSUME NEW r \in Requests, NEW c \in Calls,
             asked[c] # None, asked[c].request = r, ocr[c] = "good"
      PROVE  (\E d \in AttemptsOn(r) : ocr[d] = "good")'
  BY <1>0, <1>1 DEF Stays, AttemptsOn
<1>2. ASSUME NEW r \in Requests, NEW i \in DOMAIN events', events'[i].request = r
      PROVE  (\E c \in AttemptsOn(r) : ocr[c] = "good")'
  <2>1. CASE i \in DOMAIN events /\ events'[i] = events[i]
    BY <1>1, <1>2, <2>1 DEF BilledIsRecognized, Bills, AttemptsOn
  <2>2. CASE UNCHANGED events
    BY <2>1, <2>2
  <2>3. ASSUME NEW e, events' = Append(events, e), e.request = None
        PROVE  (\E c \in AttemptsOn(r) : ocr[c] = "good")'
    BY <1>2, <2>1, <2>3, Appended, NoneIsNothing
  <2>4. ASSUME NEW d \in Calls, BillsNow(d)
        PROVE  (\E c \in AttemptsOn(r) : ocr[c] = "good")'
    <3> DEFINE e == UsageEvent(request[d], hold[d])
    <3>1. /\ e.request = asked[d].request /\ asked[d] \in Attempts /\ ocr[d] = "good"
          /\ asked[d] # None
      BY <2>4, BillsOwn, NoneIsNoAttempt DEF Attempts
    <3>2. events' = Append(events, e)
      BY <2>4 DEF BillsNow
    <3> HIDE DEF e
    <3>3. (i \in DOMAIN events /\ events'[i] = events[i]) \/ events'[i] = e
      BY <3>2, Appended
    <3> QED
      BY <1>1, <1>2, <2>1, <3>1, <3>3
  <2> QED
    BY <2>2, <2>3, <2>4, EventsStep
<1> QED
  BY <1>2 DEF BilledIsRecognized, Bills

-----------------------------------------------------------------------------
(* Whatever is held is still to be released: for some attempt the step that *)
(* commits it or rolls it back is ahead, or it met a fault.                 *)
Releases(c) ==
  \/ faulty[c]
  \/ phase[c] = "reserving" /\ pc[c] = "ok"
  \/ phase[c] = "recognizing"
  \/ phase[c] = "committing" /\ pc[c] \in {"read", "delete"}
  \/ phase[c] = "rolling_back" /\ pc[c] = "rollback"

ReleaseInv ==
  \A r \in Requests : reservations[r] # None => \E c \in AttemptsOn(r) : Releases(c)

(* An attempt that was to release a request's row is still to do so, unless *)
(* the row is gone.                                                         *)
LEMMA ReleaseMove ==
  ASSUME OIInv, NEW c \in Calls, Moves(c), asked[c] \in Attempts, Releases(c),
         reservations[asked[c].request] # None, reservations'[asked[c].request] # None
  PROVE  Releases(c)'
<1> USE DEF OIInv, IInv, TypeOK, OTypes
<1>0. AttemptOf(c)
  BY DEF AttemptsInv
<1>1. CASE faulty[c]
  <2>1. Stays
    BY MoveAttempt
  <2> QED
    BY <1>1, <2>1 DEF Stays, Releases
<1>2. CASE GiveUp(c) \/ Die(c) \/ CallStops(c)
  <2>1. faulty' = [faulty EXCEPT ![c] = TRUE]
    BY <1>2 DEF GiveUp, Die, CallStops
  <2>2. faulty'[c]
    BY <2>1
  <2> QED
    BY <2>2 DEF Releases
<1>3. ASSUME NEW a \in Accounts, NEW r \in Requests, Recognize(c, a, r) PROVE FALSE
  BY <1>0, <1>3, NoneIsNoAttempt DEF Recognize, AttemptOf, Attempts
<1>4. CASE ~faulty[c] /\ Process(c)
  <2>1. CASE ReserveDone(c)
    BY <2>1 DEF ReserveDone, Enter, Releases
  <2>2. CASE OcrGood(c) \/ OcrBad(c)
    BY <2>2 DEF OcrGood, OcrBad, Enter, StartCommit, StartRollback, Start, Goto, Releases
  <2>3. CASE ReserveRefused(c) \/ Deliver(c) \/ CommitFailed(c) \/ RolledBack(c)
    BY <1>4, <2>3 DEF ReserveRefused, Deliver, CommitFailed, RolledBack, Releases
  <2> QED
    BY <1>4, <2>1, <2>2, <2>3 DEF Process
<1>5. CASE ~faulty[c] /\ NobodyReads(c)
  BY <1>5 DEF NobodyReads, Releases, Over
<1>6. CASE ~faulty[c] /\ Serve(c) /\ UNCHANGED attemptVars
  <2>1. pc[c] \in Running
    BY <1>6 DEF Serve, Running, Lookup, LookupError, ReadBalance, ReadReservations, Insert,
                CommitRead, CommitDelete, CommitBill, Rollback
  <2>2. \/ phase[c] = "committing" /\ pc[c] \in {"read", "delete"}
        \/ phase[c] = "rolling_back" /\ pc[c] = "rollback"
    BY <1>0, <1>6, <2>1 DEF Releases, AttemptOf, Running
  <2>3. request[c] = asked[c].request /\ asked[c].request \in Requests
    BY <1>0, <2>2 DEF AttemptOf, Attempts
  <2>4. CASE pc[c] = "read"
    BY <1>6, <2>2, <2>3, <2>4
       DEF Serve, Lookup, LookupError, ReadBalance, ReadReservations, Insert,
           CommitRead, CommitDelete, CommitBill, Rollback, Goto, Releases, attemptVars
  <2>5. CASE pc[c] \in {"delete", "rollback"}
    BY <1>6, <2>3, <2>5
       DEF Serve, Lookup, LookupError, ReadBalance, ReadReservations, Insert,
           CommitRead, CommitDelete, CommitBill, Rollback
  <2> QED
    BY <2>2, <2>4, <2>5
<1> QED
  BY <1>1, <1>2, <1>3, <1>4, <1>5, <1>6 DEF Moves, BillingWorks

(* A row comes with an attempt to release it, and keeps one.               *)
LEMMA StillReleased ==
  ASSUME OIInv, ReleaseInv, [ONext]_allVars
  PROVE  ReleaseInv'
<1> USE DEF OIInv, IInv, TypeOK
<1>0. Stays
  BY StepOfOne, MoveAttempt, ElsewhereAttempts
<1>1. ASSUME NEW r \in Requests, reservations[r] # None, reservations'[r] # None
      PROVE  (\E c \in AttemptsOn(r) : Releases(c))'
  <2>1. PICK c \in Calls : asked[c] # None /\ asked[c].request = r /\ Releases(c)
    BY <1>1 DEF ReleaseInv, AttemptsOn
  <2>2. asked'[c] = asked[c] /\ asked[c] \in Attempts
    BY <1>0, <2>1 DEF Stays, OTypes
  <2>3. Releases(c)'
    <3>1. CASE Elsewhere
      BY <2>1, <3>1 DEF Elsewhere, attemptVars, Releases
    <3>2. CASE Moves(c)
      BY <1>1, <2>1, <2>2, <3>2, ReleaseMove
    <3>3. ASSUME NEW d \in Calls \ {c}, Moves(d) PROVE Releases(c)'
      <4>1. Only(d)
        BY <3>3, MoveAttempt
      <4> QED
        BY <2>1, <4>1 DEF Only, Releases
    <3> QED
      BY <3>1, <3>2, <3>3, StepOfOne
  <2> QED
    BY <2>1, <2>2, <2>3 DEF AttemptsOn
<1>2. ASSUME NEW r \in Requests, reservations[r] = None, reservations'[r] # None
      PROVE  (\E c \in AttemptsOn(r) : Releases(c))'
  <2>1. PICK c \in Calls : InsertsNow(c) /\ request[c] = r
    BY <1>2, RowsStep DEF Expire, CommitDelete, Rollback, InsertsNow
  <2>2. /\ pc[c] = "insert" /\ asked[c] \in Attempts /\ asked[c].request = r
        /\ pc'[c] = "ok" /\ UNCHANGED attemptVars
    BY <2>1, InsertsOwn DEF InsertsNow
  <2>3. phase[c] = "reserving" \/ faulty[c]
    <3>1. AttemptOf(c) /\ phase[c] \in Phases
      BY DEF AttemptsInv, OTypes
    <3> QED
      BY <2>2, <3>1 DEF AttemptOf, Phases, Waiting, Over, CommitCall, Committing, Answers
  <2> QED
    BY <2>2, <2>3, NoneIsNoAttempt DEF attemptVars, AttemptsOn, Releases, Attempts
<1> QED
  BY <1>1, <1>2 DEF ReleaseInv

-----------------------------------------------------------------------------
(* The invariants together.                                                 *)
PromisesInv == OIInv /\ PaidInv /\ AskedInv /\ BilledIsRecognized /\ ReleaseInv

(* All of them hold in every state.                                        *)
THEOREM PromisesInvariant == OSpec => []PromisesInv
<1>1. OInit => PromisesInv
  <2> SUFFICES ASSUME OInit PROVE PromisesInv
    OBVIOUS
  <2>0. OIInv
    BY AttemptsInit
  <2>1. PaidInv /\ ReleaseInv
    BY DEF OInit, Init, PaidInv, Paid, ReleaseInv
  <2>2. AskedInv
    BY DEF OInit, Init, AskedInv, Committing
  <2>3. BilledIsRecognized
    BY DEF OInit, Init, BilledIsRecognized, Bills
  <2> QED
    BY <2>0, <2>1, <2>2, <2>3 DEF PromisesInv
<1>2. PromisesInv /\ [ONext]_allVars => PromisesInv'
  BY AttemptsStep, PaidStep, AskedStep, RecognizedStep, StillReleased DEF PromisesInv
<1> QED
  BY <1>1, <1>2, PTL DEF OSpec

(* However attempts at one request overlap, are repeated, or go on in the   *)
(* billing service after they were given up, no more results leave than     *)
(* were paid for, and nobody pays but an account that asked.                *)
THEOREM EachDeliveredIsPaid == OSpec => []DeliveredIsPaid
<1>1. ASSUME PromisesInv, NEW r \in Requests
      PROVE  /\ Cardinality({c \in AttemptsOn(r) : phase[c] = "delivered"}) <= Cardinality(Bills(r))
             /\ \A i \in Bills(r) : \E c \in AttemptsOn(r) : asked[c].account = events[i].account
  <2> USE DEF PromisesInv, OIInv, IInv, TypeOK
  <2> DEFINE Delivered == {c \in AttemptsOn(r) : phase[c] = "delivered"}
  <2>1. IsFiniteSet(Bills(r)) /\ Cardinality(Bills(r)) \in Nat
    <3>1. Len(events) \in Nat /\ DOMAIN events = 1..Len(events)
      BY <1>1, LenProperties
    <3>2. IsFiniteSet(1..Len(events))
      BY <3>1, FS_Interval
    <3> QED
      BY <3>1, <3>2, FS_Subset, FS_CardinalityType DEF Bills
  <2>2. Cardinality(Delivered) <= Cardinality(Bills(r))
    <3>1. CASE Delivered = {}
      BY <2>1, <3>1, FS_EmptySet
    <3>2. CASE Delivered # {}
      <4>1. PICK c \in Calls : asked[c] # None /\ asked[c].request = r /\ phase[c] = "delivered"
        BY <3>2 DEF AttemptsOn
      <4>2. Delivered = {c}
        BY <1>1, <4>1 DEF PaidInv, Paid, AttemptsOn
      <4>3. Bills(r) # {}
        BY <1>1, <4>1 DEF PaidInv, Paid, Billed, Bills
      <4>4. Cardinality(Delivered) = 1
        BY <4>2, FS_Singleton
      <4>5. Cardinality(Bills(r)) # 0
        BY <2>1, <4>3, FS_EmptySet
      <4> QED
        BY <2>1, <4>4, <4>5
    <3> QED
      BY <3>1, <3>2
  <2>3. ASSUME NEW i \in Bills(r)
        PROVE  \E c \in AttemptsOn(r) : asked[c].account = events[i].account
    <3>1. i \in DOMAIN events /\ events[i].request = r /\ r # None
      BY <1>1, NoneIsNothing DEF Bills
    <3>2. Asked(r, events[i].account)
      BY <1>1, <3>1 DEF AskedInv
    <3> QED
      BY <3>2 DEF Asked, AttemptsOn
  <2> QED
    BY <2>2, <2>3
<1>2. PromisesInv => DeliveredIsPaid
  BY <1>1 DEF DeliveredIsPaid
<1> QED
  BY <1>2, PromisesInvariant, PTL

(* Nobody pays for a request no attempt of which recognized the document.   *)
THEOREM EachBilledIsRecognized == OSpec => []BilledIsRecognized
BY PromisesInvariant, PTL DEF PromisesInv

(* When every attempt at a request ended without a fault, its row is gone.  *)
THEOREM HoldsAreReleased == OSpec => []NoHoldLeftBehind
<1>1. PromisesInv => NoHoldLeftBehind
  BY DEF PromisesInv, ReleaseInv, Releases, NoHoldLeftBehind, Over
<1> QED
  BY <1>1, PromisesInvariant, PTL
=============================================================================
