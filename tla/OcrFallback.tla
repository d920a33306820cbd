----------------------------- MODULE OcrFallback -----------------------------
(***************************************************************************)
(* doOCR of services/orchestrator: the primary OCR provider, then the      *)
(* fallback, each behind a CircuitBreaker that all requests share.  Every  *)
(* mutex section of a breaker is a step.  Allow is two of them when it     *)
(* finds the timeout over: it drops the read lock before it takes the      *)
(* write lock, and writes without looking again.                           *)
(***************************************************************************)
EXTENDS Integers

CONSTANTS
  Threads,           \* requests being recognized at one time
  FailureThreshold,  \* failures in a row that open a breaker (5)
  SuccessThreshold,  \* successes that close it again (2)
  MaxFailures        \* bound: failureCount, which only closing resets

ASSUME ThresholdsArePositive ==
  FailureThreshold \in Nat \ {0} /\ SuccessThreshold \in Nat \ {0}
ASSUME BoundIsNat == MaxFailures \in Nat

VARIABLES
  breaker,  \* breaker[p]: state, failureCount, successCount, and whether the
            \* timeout has passed since lastFailureTime
  step,     \* step[t]: what request t does next about its provider
  target,   \* target[t]: the provider it is at
  streak,   \* failures recorded since the last success (history, capped)
  good      \* successes recorded since the last failure (history, capped)

vars == <<breaker, step, target, streak, good>>

Providers == {"primary", "fallback"}
States == {"closed", "open", "half-open"}
Breakers == [state : States, failures : Nat, successes : Nat, cooled : BOOLEAN]
(* Calling Allow; inside Allow, between its locks; calling the provider.   *)
Steps == {"asking", "reviving", "calling"}

-----------------------------------------------------------------------------
(* NewCircuitBreaker.                                                       *)
Closed == [state |-> "closed", failures |-> 0, successes |-> 0, cooled |-> TRUE]

(* RecordSuccess.                                                           *)
Succeeded(k) ==
  LET closes == k.state = "half-open" /\ k.successes + 1 >= SuccessThreshold
  IN [ state     |-> IF closes THEN "closed" ELSE k.state,
       failures  |-> IF closes \/ k.state = "closed" THEN 0 ELSE k.failures,
       successes |-> IF closes THEN 0
                     ELSE IF k.state = "half-open" THEN k.successes + 1 ELSE k.successes,
       cooled    |-> k.cooled ]

(* MUTANT: a failed probe keeps the successes counted so far.               *)
FailedKept(k) ==
  LET opens == k.state = "half-open" \/ k.failures + 1 >= FailureThreshold
  IN [ state     |-> IF opens THEN "open" ELSE k.state,
       failures  |-> IF k.state = "open" THEN k.failures ELSE k.failures + 1,
       successes |-> k.successes,
       cooled    |-> FALSE ]

(* RecordFailure.                                                           *)
Failed(k) ==
  LET opens == \/ k.state = "half-open"
               \/ k.state = "closed" /\ k.failures + 1 >= FailureThreshold
  IN [ state     |-> IF opens THEN "open" ELSE k.state,
       failures  |-> IF k.state = "open" THEN k.failures ELSE k.failures + 1,
       successes |-> IF k.state = "half-open" THEN 0 ELSE k.successes,
       cooled    |-> FALSE ]

Capped(n, cap) == IF n < cap THEN n ELSE cap

-----------------------------------------------------------------------------
Init ==
  /\ breaker = [p \in Providers |-> Closed]
  /\ step = [t \in Threads |-> "asking"]
  /\ target = [t \in Threads |-> "primary"]
  /\ streak = [p \in Providers |-> 0]
  /\ good = [p \in Providers |-> 0]

(* The request ends, and its thread is free for another one.                *)
Done(t) ==
  /\ step' = [step EXCEPT ![t] = "asking"]
  /\ target' = [target EXCEPT ![t] = "primary"]

(* MUTANT: the fallback's failure is not the end.                           *)
NextProviderMore(t) ==
  /\ step' = [step EXCEPT ![t] = "asking"]
  /\ target' = [target EXCEPT ![t] = IF @ = "primary" THEN "fallback" ELSE "none left"]

(* No result from this provider: the fallback is next, and after it no one. *)
NextProvider(t) ==
  /\ step' = [step EXCEPT ![t] = "asking"]
  /\ target' = [target EXCEPT ![t] = IF @ = "primary" THEN "fallback" ELSE "primary"]

AllowGranted(t) ==
  /\ step[t] = "asking"
  /\ breaker[target[t]].state # "open"
  /\ step' = [step EXCEPT ![t] = "calling"]
  /\ UNCHANGED <<breaker, target, streak, good>>

(* MUTANT: an open breaker is never tried again.                            *)
AllowDeniedAlways(t) ==
  /\ step[t] = "asking"
  /\ breaker[target[t]].state = "open"
  /\ NextProvider(t)
  /\ UNCHANGED <<breaker, streak, good>>

AllowDenied(t) ==
  /\ step[t] = "asking"
  /\ breaker[target[t]].state = "open"
  /\ ~breaker[target[t]].cooled
  /\ NextProvider(t)
  /\ UNCHANGED <<breaker, streak, good>>

(* The timeout is over: the read lock is dropped ...                        *)
AllowExpired(t) ==
  /\ step[t] = "asking"
  /\ breaker[target[t]].state = "open"
  /\ breaker[target[t]].cooled
  /\ step' = [step EXCEPT ![t] = "reviving"]
  /\ UNCHANGED <<breaker, target, streak, good>>

(* MUTANT: the trial period begins with the failures of the last one left.  *)
ReviveClosed(t) ==
  /\ step[t] = "reviving"
  /\ breaker' = [breaker EXCEPT ![target[t]].state = "closed"]
  /\ step' = [step EXCEPT ![t] = "calling"]
  /\ UNCHANGED <<target, streak, good>>

(* ... and the breaker is half-open, whatever it was meanwhile.             *)
Revive(t) ==
  /\ step[t] = "reviving"
  /\ breaker' = [breaker EXCEPT ![target[t]].state = "half-open"]
  /\ step' = [step EXCEPT ![t] = "calling"]
  /\ UNCHANGED <<target, streak, good>>

RecordSuccess(t) ==
  LET p == target[t] IN
  /\ step[t] = "calling"
  /\ breaker' = [breaker EXCEPT ![p] = Succeeded(@)]
  /\ streak' = [streak EXCEPT ![p] = 0]
  /\ good' = [good EXCEPT ![p] = Capped(@ + 1, SuccessThreshold)]
  /\ Done(t)

(* A retryable error of the provider.                                       *)
RecordFailure(t) ==
  LET p == target[t] IN
  /\ step[t] = "calling"
  /\ breaker[p].failures < MaxFailures
  /\ breaker' = [breaker EXCEPT ![p] = Failed(@)]
  /\ streak' = [streak EXCEPT ![p] = Capped(@ + 1, FailureThreshold)]
  /\ good' = [good EXCEPT ![p] = 0]
  /\ NextProvider(t)

(* Any other error is not recorded, and the fallback is asked all the same. *)
Uncounted(t) ==
  /\ step[t] = "calling"
  /\ NextProvider(t)
  /\ UNCHANGED <<breaker, streak, good>>

(* 30 seconds without a failure have passed.                                *)
Cool(p) ==
  /\ ~breaker[p].cooled
  /\ breaker' = [breaker EXCEPT ![p].cooled = TRUE]
  /\ UNCHANGED <<step, target, streak, good>>

DoOCR(t) ==
  \/ AllowGranted(t) \/ AllowDenied(t) \/ AllowExpired(t) \/ Revive(t)
  \/ RecordSuccess(t) \/ RecordFailure(t) \/ Uncounted(t)

Next == (\E t \in Threads : DoOCR(t)) \/ (\E p \in Providers : Cool(p))

(* Providers answer (their clients time out after 30 s), requests keep      *)
(* coming, time passes.                                                     *)
Fairness ==
  /\ \A t \in Threads : WF_vars(DoOCR(t))
  /\ \A p \in Providers : WF_vars(Cool(p))

Spec == Init /\ [][Next]_vars
FairSpec == Spec /\ Fairness

-----------------------------------------------------------------------------
(* Properties.                                                              *)

(* Every variable holds a value the program can have.                       *)
TypeOK ==
  /\ breaker \in [Providers -> Breakers]
  /\ step \in [Threads -> Steps]
  /\ target \in [Threads -> Providers]
  /\ streak \in [Providers -> 0..FailureThreshold]
  /\ good \in [Providers -> 0..SuccessThreshold]

State(p) == breaker[p].state

(* A breaker that lets calls through only opens after FailureThreshold      *)
(* failures with no success between them, however late answers and revivals *)
(* of other requests fall in.                                               *)
OpensAfterStreak ==
  [][\A p \in Providers :
       State(p) = "closed" /\ State(p)' = "open" => streak'[p] = FailureThreshold]_vars

(* A breaker on trial only closes after SuccessThreshold successes with no  *)
(* failure between them.                                                    *)
ClosesAfterSuccesses ==
  [][\A p \in Providers :
       State(p) # "closed" /\ State(p)' = "closed" => good'[p] = SuccessThreshold]_vars

(* While requests keep coming, the primary provider does not stay shut out. *)
PrimaryComesBack == (State("primary") = "open") ~> (State("primary") # "open")
=============================================================================
