-------------------------- MODULE OcrFallbackProofs --------------------------
(***************************************************************************)
(* Proofs about OcrFallback, for any number of requests and any thresholds. *)
(*                                                                          *)
(* The action properties are not inductive by themselves: they need what    *)
(* the counters of a breaker say in each of its states, IInv below.         *)
(***************************************************************************)
EXTENDS OcrFallback, TLAPS

(* What the counters count.  The last conjunct survives the blind write of  *)
(* Revive because successes are only ever counted on trial and forgotten    *)
(* when the trial ends.                                                     *)
CountersInv ==
  \A p \in Providers :
    /\ State(p) = "closed" => /\ breaker[p].failures = streak[p]
                              /\ breaker[p].failures < FailureThreshold
    /\ State(p) # "half-open" => breaker[p].successes = 0
    /\ breaker[p].successes < SuccessThreshold
    /\ breaker[p].successes <= good[p]

IInv == TypeOK /\ CountersInv

-----------------------------------------------------------------------------
(* A breaker stays a breaker whatever is recorded.                          *)
LEMMA RecordedType ==
  ASSUME NEW k \in Breakers
  PROVE  Succeeded(k) \in Breakers /\ Failed(k) \in Breakers
BY ThresholdsArePositive DEF Succeeded, Failed, Breakers, States

(* The history counters stay within their caps.                             *)
LEMMA CappedType ==
  ASSUME NEW cap \in Nat \ {0}, NEW n \in 0..cap
  PROVE  Capped(n + 1, cap) \in 0..cap
BY DEF Capped

(* The type invariant is inductive by itself.                               *)
LEMMA TypeStep == TypeOK /\ [Next]_vars => TypeOK'
<1> SUFFICES ASSUME TypeOK, [Next]_vars PROVE TypeOK'
  OBVIOUS
<1> USE ThresholdsArePositive DEF TypeOK
<1>1. CASE UNCHANGED vars
  BY <1>1 DEF vars
<1>2. ASSUME NEW t \in Threads, DoOCR(t) PROVE TypeOK'
  <2> target[t] \in Providers /\ breaker[target[t]] \in Breakers
    OBVIOUS
  <2>1. CASE AllowGranted(t)
    BY <2>1 DEF AllowGranted, Steps
  <2>2. CASE AllowDenied(t)
    BY <2>2 DEF AllowDenied, NextProvider, Steps, Providers
  <2>3. CASE AllowExpired(t)
    BY <2>3 DEF AllowExpired, Steps
  <2>4. CASE Revive(t)
    BY <2>4 DEF Revive, Steps, Breakers, States
  <2>5. CASE RecordSuccess(t)
    <3>1. Succeeded(breaker[target[t]]) \in Breakers
      BY RecordedType
    <3>2. Capped(good[target[t]] + 1, SuccessThreshold) \in 0..SuccessThreshold
      BY CappedType
    <3> QED
      BY <2>5, <3>1, <3>2 DEF RecordSuccess, Done, Steps, Providers
  <2>6. CASE RecordFailure(t)
    <3>1. Failed(breaker[target[t]]) \in Breakers
      BY RecordedType
    <3>2. Capped(streak[target[t]] + 1, FailureThreshold) \in 0..FailureThreshold
      BY CappedType
    <3> QED
      BY <2>6, <3>1, <3>2 DEF RecordFailure, NextProvider, Steps, Providers
  <2>7. CASE Uncounted(t)
    BY <2>7 DEF Uncounted, NextProvider, Steps, Providers
  <2> QED
    BY <1>2, <2>1, <2>2, <2>3, <2>4, <2>5, <2>6, <2>7 DEF DoOCR
<1>3. ASSUME NEW p \in Providers, Cool(p) PROVE TypeOK'
  BY <1>3 DEF Cool, Breakers
<1> QED
  BY <1>1, <1>2, <1>3 DEF Next

-----------------------------------------------------------------------------
(* Every behaviour keeps the types of the breakers and of the requests.     *)
THEOREM TypeCorrect == Spec => []TypeOK
<1>1. Init => TypeOK
  BY ThresholdsArePositive DEF Init, TypeOK, Closed, Breakers, States, Steps, Providers
<1> QED
  BY <1>1, TypeStep, PTL DEF Spec

(* What one recorded success does to the counters of a breaker.             *)
LEMMA SuccessCounts ==
  ASSUME NEW k \in Breakers, NEW n \in 0..SuccessThreshold,
         k.successes < SuccessThreshold, k.successes <= n,
         k.state # "half-open" => k.successes = 0,
         k.state = "closed" => k.failures < FailureThreshold
  PROVE  LET s == Succeeded(k) IN
         /\ s.state = "closed" => s.failures = 0
         /\ s.state # "half-open" => s.successes = 0
         /\ s.successes < SuccessThreshold
         /\ s.successes <= Capped(n + 1, SuccessThreshold)
         /\ k.state # "closed" /\ s.state = "closed" =>
              Capped(n + 1, SuccessThreshold) = SuccessThreshold
BY ThresholdsArePositive DEF Succeeded, Capped, Breakers, States

(* What one recorded failure does to them.                                  *)
LEMMA FailureCounts ==
  ASSUME NEW k \in Breakers, NEW n \in 0..FailureThreshold,
         k.state # "half-open" => k.successes = 0,
         k.state = "closed" => k.failures = n /\ k.failures < FailureThreshold
  PROVE  LET f == Failed(k) IN
         /\ f.state = "closed" => /\ f.failures = Capped(n + 1, FailureThreshold)
                                  /\ f.failures < FailureThreshold
                                  /\ k.state = "closed"
         /\ f.successes = 0
         /\ k.state = "closed" /\ f.state = "open" =>
              Capped(n + 1, FailureThreshold) = FailureThreshold
BY ThresholdsArePositive DEF Failed, Capped, Breakers, States

(* A step keeps the counters' meaning, and opens or closes a breaker only   *)
(* as the two action properties say.                                        *)
LEMMA CountersStep ==
  ASSUME IInv, [Next]_vars
  PROVE  /\ CountersInv'
         /\ \A p \in Providers :
              /\ State(p) = "closed" /\ State(p)' = "open" => streak'[p] = FailureThreshold
              /\ State(p) # "closed" /\ State(p)' = "closed" => good'[p] = SuccessThreshold
<1> DEFINE Moves == \A p \in Providers :
      /\ State(p) = "closed" /\ State(p)' = "open" => streak'[p] = FailureThreshold
      /\ State(p) # "closed" /\ State(p)' = "closed" => good'[p] = SuccessThreshold
<1> USE ThresholdsArePositive DEF IInv, TypeOK, State
<1>1. CASE UNCHANGED vars
  BY <1>1 DEF vars, CountersInv
<1>2. ASSUME NEW t \in Threads, DoOCR(t) PROVE CountersInv' /\ Moves
  <2> DEFINE q == target[t]
  <2> q \in Providers /\ breaker[q] \in Breakers
    OBVIOUS
  <2>1. CASE UNCHANGED <<breaker, streak, good>>
    BY <2>1 DEF CountersInv
  <2>2. CASE Revive(t)
    BY <2>2 DEF Revive, CountersInv, Breakers
  <2>3. CASE RecordSuccess(t)
    <3>1. /\ breaker' = [breaker EXCEPT ![q] = Succeeded(breaker[q])]
          /\ streak' = [streak EXCEPT ![q] = 0]
          /\ good' = [good EXCEPT ![q] = Capped(good[q] + 1, SuccessThreshold)]
      BY <2>3 DEF RecordSuccess
    <3>2. ASSUME NEW p \in Providers, p # q
          PROVE  breaker'[p] = breaker[p] /\ streak'[p] = streak[p] /\ good'[p] = good[p]
      BY <3>1, <3>2
    <3>3. /\ breaker'[q] = Succeeded(breaker[q])
          /\ streak'[q] = 0
          /\ good'[q] = Capped(good[q] + 1, SuccessThreshold)
      BY <3>1
    <3>4. /\ good[q] \in 0..SuccessThreshold
          /\ breaker[q].successes < SuccessThreshold
          /\ breaker[q].successes <= good[q]
          /\ breaker[q].state # "half-open" => breaker[q].successes = 0
          /\ breaker[q].state = "closed" => breaker[q].failures < FailureThreshold
      BY DEF CountersInv
    <3>5. Succeeded(breaker[q]) \in Breakers
      BY RecordedType
    <3>6. breaker[q].state = "closed" => Succeeded(breaker[q]).state # "open"
      BY DEF Succeeded, Breakers
    <3>7. /\ Succeeded(breaker[q]).state = "closed" => Succeeded(breaker[q]).failures = 0
          /\ Succeeded(breaker[q]).state # "half-open" => Succeeded(breaker[q]).successes = 0
          /\ Succeeded(breaker[q]).successes < SuccessThreshold
          /\ Succeeded(breaker[q]).successes <= Capped(good[q] + 1, SuccessThreshold)
          /\ breaker[q].state # "closed" /\ Succeeded(breaker[q]).state = "closed" =>
               Capped(good[q] + 1, SuccessThreshold) = SuccessThreshold
      BY <3>4, SuccessCounts
    <3>8. CountersInv'
      BY <3>2, <3>3, <3>5, <3>7 DEF CountersInv
    <3> QED
      BY <3>2, <3>3, <3>6, <3>7, <3>8
  <2>4. CASE RecordFailure(t)
    <3>1. /\ breaker' = [breaker EXCEPT ![q] = Failed(breaker[q])]
          /\ streak' = [streak EXCEPT ![q] = Capped(streak[q] + 1, FailureThreshold)]
          /\ good' = [good EXCEPT ![q] = 0]
      BY <2>4 DEF RecordFailure
    <3>2. ASSUME NEW p \in Providers, p # q
          PROVE  breaker'[p] = breaker[p] /\ streak'[p] = streak[p] /\ good'[p] = good[p]
      BY <3>1, <3>2
    <3>3. /\ breaker'[q] = Failed(breaker[q])
          /\ streak'[q] = Capped(streak[q] + 1, FailureThreshold)
          /\ good'[q] = 0
      BY <3>1
    <3>4. /\ streak[q] \in 0..FailureThreshold
          /\ breaker[q].state # "half-open" => breaker[q].successes = 0
          /\ breaker[q].state = "closed" => /\ breaker[q].failures = streak[q]
                                            /\ breaker[q].failures < FailureThreshold
      BY DEF CountersInv
    <3>5. /\ Failed(breaker[q]).state = "closed" =>
               /\ Failed(breaker[q]).failures = Capped(streak[q] + 1, FailureThreshold)
               /\ Failed(breaker[q]).failures < FailureThreshold
               /\ breaker[q].state = "closed"
          /\ Failed(breaker[q]).successes = 0
          /\ breaker[q].state = "closed" /\ Failed(breaker[q]).state = "open" =>
               Capped(streak[q] + 1, FailureThreshold) = FailureThreshold
      BY <3>4, FailureCounts
    <3>6. CountersInv'
      BY <3>2, <3>3, <3>5 DEF CountersInv
    <3> QED
      BY <3>2, <3>3, <3>5, <3>6
  <2> QED
    BY <1>2, <2>1, <2>2, <2>3, <2>4
    DEF DoOCR, AllowGranted, AllowDenied, AllowExpired, Uncounted
<1>3. ASSUME NEW p \in Providers, Cool(p) PROVE CountersInv' /\ Moves
  BY <1>3 DEF Cool, CountersInv, Breakers
<1> QED
  BY <1>1, <1>2, <1>3 DEF Next

(* In every reachable state the counters of a breaker mean what its state   *)
(* needs them to mean.                                                      *)
THEOREM Counters == Spec => []IInv
<1>1. Init => IInv
  BY ThresholdsArePositive
  DEF Init, IInv, TypeOK, CountersInv, State, Closed, Breakers, States, Steps, Providers
<1>2. IInv /\ [Next]_vars => IInv'
  BY TypeStep, CountersStep DEF IInv
<1> QED
  BY <1>1, <1>2, PTL DEF Spec

(* A breaker opens only after FailureThreshold failures in a row.           *)
THEOREM OpensOnlyAfterStreak == Spec => OpensAfterStreak
<1>1. IInv /\ [Next]_vars =>
        [\A p \in Providers :
           State(p) = "closed" /\ State(p)' = "open" => streak'[p] = FailureThreshold]_vars
  BY CountersStep
<1> QED
  BY <1>1, Counters, PTL DEF Spec, OpensAfterStreak

(* A breaker on trial closes only after SuccessThreshold successes in a row. *)
THEOREM ClosesOnlyAfterSuccesses == Spec => ClosesAfterSuccesses
<1>1. IInv /\ [Next]_vars =>
        [\A p \in Providers :
           State(p) # "closed" /\ State(p)' = "closed" => good'[p] = SuccessThreshold]_vars
  BY CountersStep
<1> QED
  BY <1>1, Counters, PTL DEF Spec, ClosesAfterSuccesses
=============================================================================
