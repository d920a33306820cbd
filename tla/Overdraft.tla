------------------------------ MODULE Overdraft ------------------------------
(***************************************************************************)
(* What overdraws an account.  Billing's checks do not hold against every  *)
(* interleaving (NeverOverdrawn is violated); this module says which ones  *)
(* they fail against.  It is Billing with a history variable beside it:    *)
(* the service runs as it does there, its calls as concurrent as they come *)
(* and its reservations expiring, and every account that has met one of    *)
(* the two hazards is noted.                                               *)
(***************************************************************************)
EXTENDS Billing

VARIABLE strained  \* the accounts that have met a hazard so far

notedVars == <<vars, strained>>

(* Call c of Reserve has read a's balance and not yet inserted its row.     *)
Deciding(c, a) == pc[c] \in {"reservations", "insert"} /\ account[c] = a

(* Call c of Commit has read a row of a and not yet inserted its event.     *)
Holds(c, a) == pc[c] \in Committing /\ hold[c].account = a

(* While a Reserve of a decides, another one does, or a Commit of a is      *)
(* between its statements.                                                  *)
Overlapped(a) ==
  \E c, d \in Calls : c # d /\ Deciding(c, a) /\ (Deciding(d, a) \/ Holds(d, a))

(* A Commit has in hand a row of a that it read after its expires_at.       *)
CommitsLate(a) == \E c \in Calls : Holds(c, a) /\ hold[c].expired

Meets(a) == Overlapped(a) \/ CommitsLate(a)

NotedInit == Init /\ strained = {}

NotedNext == Next /\ strained' = strained \union {a \in Accounts : Meets(a)'}

NotedSpec == NotedInit /\ [][NotedNext]_notedVars

-----------------------------------------------------------------------------
(* No interleaving overdraws an account but those two hazards, met by that  *)
(* account itself: not a call that stops half way, a retry, a rollback of a *)
(* request whose commit is under way, an answer built on a failed query, a  *)
(* reservation that runs out, nor whatever the calls of the other accounts  *)
(* do at the same time.                                                     *)
OnlyStrainedOverdrawn == \A a \in Accounts \ strained : NotOverdrawn(a)
=============================================================================
