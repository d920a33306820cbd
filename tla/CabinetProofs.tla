---------------------------- MODULE CabinetProofs ----------------------------
(***************************************************************************)
(* Proofs about Cabinet and Gateway, for any addresses, calls, limits,     *)
(* requests and paths: types, the accounts of organizations, API keys,     *)
(* mock payments and what the gateway lets through.                        *)
(***************************************************************************)
EXTENDS Gateway, SequenceTheorems, TLAPS

Registering == {"find", "insert_org", "insert_user", "open", "link"}
BehindSession == {"session", "identity", "handle", "insert_key", "hash", "topup", "complete"}

(* What the step of a call says of its job and of the rows in its hands.    *)
CallOf(c) ==
  /\ pc[c] # "idle" => job[c] \in Jobs
  /\ pc[c] \in Registering => job[c].op = "register" /\ job[c].email \in Emails
  /\ pc[c] \in {"insert_user", "open", "link"} => row[c] \in DOMAIN organizations
  /\ pc[c] = "link" => /\ context[c].account \in DOMAIN accounts
                       /\ accounts[context[c].account] = row[c]
  /\ pc[c] \in LoggingIn => job[c].op = "login"
  /\ pc[c] \in {"read_user", "insert_session", "handle", "insert_key", "hash"}
     => context[c].org \in DOMAIN organizations
  /\ pc[c] \in BehindSession => job[c].op \in Protected /\ job[c].session \in DOMAIN sessions
  /\ pc[c] \in {"insert_key", "hash"} => job[c].op = "create_key"
  /\ pc[c] = "hash" => row[c] \in DOMAIN keys
  /\ pc[c] \in {"topup", "complete"} => job[c].op = "confirm"
  /\ pc[c] \in BehindSession /\ job[c].op = "confirm" => job[c].target \in DOMAIN payments
  /\ pc[c] = "complete" => payments[job[c].target].topups > 0
  /\ pc[c] = "ok" /\ job[c].op = "create_key"
     => row[c] \in DOMAIN keys /\ keys[row[c]].hash = "final"

CallsInv == \A c \in Calls : CallOf(c)

(* Sessions and keys belong to organizations.                               *)
RowsInv ==
  /\ \A s \in DOMAIN sessions : sessions[s].org \in DOMAIN organizations
  /\ \A k \in DOMAIN keys : keys[k].org \in DOMAIN organizations

CInv == CabinetTypeOK /\ CallsInv /\ RowsInv /\ HandedKeyWorks

(* No step deletes a row or makes it another's, and a hash that is final, a *)
(* revocation, a confirmation and a top-up are not taken back.              *)
Kept ==
  /\ DOMAIN organizations \subseteq DOMAIN organizations' /\ users \subseteq users'
  /\ \A i \in DOMAIN accounts : i \in DOMAIN accounts' /\ accounts'[i] = accounts[i]
  /\ \A s \in DOMAIN sessions : s \in DOMAIN sessions' /\ sessions'[s].org = sessions[s].org
  /\ \A k \in DOMAIN keys :
       /\ k \in DOMAIN keys' /\ keys'[k].org = keys[k].org
       /\ keys[k].hash = "final" => keys'[k].hash = "final"
       /\ keys[k].status = "revoked" => keys'[k].status = "revoked"
  /\ \A p \in DOMAIN payments :
       /\ p \in DOMAIN payments'
       /\ payments[p].status = "completed" => payments'[p].status = "completed"
       /\ payments[p].topups > 0 => payments'[p].topups > 0

(* Nor touches a call other than c.                                         *)
Only(c) ==
  \A d \in Calls \ {c} :
    pc'[d] = pc[d] /\ job'[d] = job[d] /\ row'[d] = row[d] /\ context'[d] = context[d]

LEMMA CallKept ==
  ASSUME NEW d \in Calls, CallOf(d), Kept,
         pc'[d] = pc[d], job'[d] = job[d], row'[d] = row[d], context'[d] = context[d]
  PROVE  CallOf(d)'
<1> USE DEF Kept
<1>1. pc'[d] \in {"link"} => /\ context'[d].account \in DOMAIN accounts'
                           /\ accounts'[context'[d].account] = row'[d]
  BY DEF CallOf
<1>2. /\ pc'[d] \in {"topup", "complete"} => job'[d].op = "confirm"
      /\ pc'[d] \in BehindSession /\ job'[d].op = "confirm" => job'[d].target \in DOMAIN payments'
      /\ pc'[d] = "complete" => payments'[job'[d].target].topups > 0
  BY DEF CallOf, BehindSession
<1>3. pc'[d] = "ok" /\ job'[d].op = "create_key"
      => row'[d] \in DOMAIN keys' /\ keys'[row'[d]].hash = "final"
  BY DEF CallOf
<1>4. /\ pc'[d] # "idle" => job'[d] \in Jobs
      /\ pc'[d] \in Registering => job'[d].op = "register" /\ job'[d].email \in Emails
      /\ pc'[d] \in {"insert_user", "open", "link"} => row'[d] \in DOMAIN organizations'
      /\ pc'[d] \in LoggingIn => job'[d].op = "login"
      /\ pc'[d] \in {"read_user", "insert_session", "handle", "insert_key", "hash"}
         => context'[d].org \in DOMAIN organizations'
      /\ pc'[d] \in BehindSession => job'[d].op \in Protected /\ job'[d].session \in DOMAIN sessions'
      /\ pc'[d] \in {"insert_key", "hash"} => job'[d].op = "create_key"
      /\ pc'[d] = "hash" => row'[d] \in DOMAIN keys'
  BY DEF CallOf
<1> QED
  BY <1>1, <1>2, <1>3, <1>4 DEF CallOf

LEMMA OtherCalls ==
  ASSUME CallsInv, NEW c \in Calls, CallOf(c)', Kept, Only(c)
  PROVE  CallsInv'
BY CallKept DEF CallsInv, Only

LEMMA SameCalls ==
  ASSUME CallsInv, Kept, UNCHANGED calls
  PROVE  CallsInv'
BY CallKept DEF CallsInv, calls

LEMMA SameTables ==
  ASSUME UNCHANGED tables
  PROVE  Kept /\ (RowsInv => RowsInv') /\ (HandedKeyWorks => HandedKeyWorks')
BY DEF tables, Kept, RowsInv, HandedKeyWorks

(* A row of a table that is set to another one of its kind.                 *)
LEMMA RowSet ==
  ASSUME NEW S, NEW t \in Seq(S), NEW i \in DOMAIN t, NEW e \in S
  PROVE  /\ [t EXCEPT ![i] = e] \in Seq(S) /\ DOMAIN [t EXCEPT ![i] = e] = DOMAIN t
         /\ [t EXCEPT ![i] = e][i] = e
         /\ \A j \in DOMAIN t \ {i} : [t EXCEPT ![i] = e][j] = t[j]
<1>1. /\ DOMAIN t = 1 .. Len(t) /\ Len(t) \in Nat
      /\ \A j \in 1 .. Len(t) : t[j] \in S
  OBVIOUS
<1>2. [t EXCEPT ![i] = e] \in [1 .. Len(t) -> S]
  BY <1>1
<1> QED
  BY <1>1, <1>2

(* A row that is inserted gets the next id.                                 *)
LEMMA RowAdded ==
  ASSUME NEW S, NEW t \in Seq(S), NEW e \in S
  PROVE  /\ Append(t, e) \in Seq(S) /\ Len(t) + 1 \in Nat /\ Len(t) + 1 \notin DOMAIN t
         /\ DOMAIN Append(t, e) = DOMAIN t \union {Len(t) + 1}
         /\ Append(t, e)[Len(t) + 1] = e
         /\ \A j \in DOMAIN t : Append(t, e)[j] = t[j]
BY AppendProperties

(* A session whose end is set stays of its organization and account.        *)
LEMMA LiveSet ==
  ASSUME NEW t \in Seq(Session), NEW s \in DOMAIN t
  PROVE  /\ [t EXCEPT ![s].live = FALSE] \in Seq(Session)
         /\ DOMAIN [t EXCEPT ![s].live = FALSE] = DOMAIN t
         /\ \A i \in DOMAIN t : [t EXCEPT ![s].live = FALSE][i].org = t[i].org
<1>1. t[s] \in Session
  OBVIOUS
<1>2. [t[s] EXCEPT !.live = FALSE] \in Session /\ [t[s] EXCEPT !.live = FALSE].org = t[s].org
  BY <1>1 DEF Session
<1>3. [t EXCEPT ![s].live = FALSE] = [t EXCEPT ![s] = [t[s] EXCEPT !.live = FALSE]]
  OBVIOUS
<1> QED
  BY <1>2, <1>3, RowSet

(* The account that an organization names, 0 if none.                       *)
LEMMA AccountTypes ==
  ASSUME CInv, NEW o \in DOMAIN organizations
  PROVE  o \in Nat /\ AccountOf(o) \in Nat
<1>1. organizations[o] \in Organization /\ o \in Nat
  BY DEF CInv, CabinetTypeOK
<1> QED
  BY <1>1 DEF AccountOf, Organization

-----------------------------------------------------------------------------
(* The steps that change no table: those that begin a call,                 *)
LEMMA BeginStep ==
  ASSUME CInv, NEW c \in Calls,
         \/ \E e \in Emails : StartRegister(c, e) \/ StartLogin(c, e)
         \/ \E s \in DOMAIN sessions, op \in Protected,
               t \in {0} \union DOMAIN keys \union DOMAIN payments : StartProtected(c, s, op, t)
  PROVE  /\ CInv' /\ Only(c) /\ UNCHANGED <<tables, context, unsure>>
         /\ pc[c] = "idle" /\ pc'[c] \in {"find", "read_org", "session"}
<1>1. PICK j \in Jobs, step \in {"find", "read_org", "session"} :
        /\ Begin(c, step, j)
        /\ step = "find" => j.op = "register" /\ j.email \in Emails
        /\ step = "read_org" => j.op = "login"
        /\ step = "session" => j.op \in Protected /\ j.session \in DOMAIN sessions
        /\ step = "session" /\ j.op = "confirm" => j.target \in DOMAIN payments
  <2>1. CASE \E e \in Emails : StartRegister(c, e)
    <3>1. PICK e \in Emails : StartRegister(c, e)
      BY <2>1
    <3> DEFINE j == [op |-> "register", email |-> e, session |-> 0, target |-> 0]
    <3>2. j \in Jobs /\ Begin(c, "find", j)
      BY <3>1 DEF StartRegister, Jobs, Public
    <3> QED
      BY <3>2
  <2>2. CASE \E e \in Emails : StartLogin(c, e)
    <3>1. PICK e \in Emails : StartLogin(c, e)
      BY <2>2
    <3> DEFINE j == [op |-> "login", email |-> e, session |-> 0, target |-> 0]
    <3>2. j \in Jobs /\ Begin(c, "read_org", j)
      BY <3>1 DEF StartLogin, Jobs, Public
    <3> QED
      BY <3>2
  <2>3. ASSUME NEW s \in DOMAIN sessions, NEW op \in Protected,
               NEW t \in {0} \union DOMAIN keys \union DOMAIN payments, StartProtected(c, s, op, t)
        PROVE  \E j \in Jobs : /\ Begin(c, "session", j)
                               /\ j.op \in Protected /\ j.session \in DOMAIN sessions
                               /\ j.op = "confirm" => j.target \in DOMAIN payments
    <3> DEFINE j == [op |-> op, email |-> None, session |-> s, target |-> t]
    <3>1. s \in Nat /\ t \in Nat
      BY DEF CInv, CabinetTypeOK
    <3>2. Begin(c, "session", j) /\ (op = "confirm" => t \in DOMAIN payments)
      BY <2>3 DEF StartProtected
    <3>3. j \in Jobs
      BY <3>1 DEF Jobs
    <3> QED
      BY <3>2, <3>3
  <2> QED
    BY <2>1, <2>2, <2>3
<1>2. CabinetTypeOK' /\ Only(c) /\ UNCHANGED <<tables, context, unsure>>
  BY <1>1 DEF CInv, CabinetTypeOK, Begin, Goto, Running, tables, Only
<1>3. CallOf(c)'
  BY <1>1 DEF CInv, CabinetTypeOK, Begin, Goto, CallOf, tables, Registering, LoggingIn, BehindSession
<1>4. CInv'
  BY <1>2, <1>3, OtherCalls, SameTables DEF CInv
<1> QED
  BY <1>1, <1>2, <1>4 DEF Begin, Goto, CInv, CabinetTypeOK

(* The variables of the calls keep their types.                             *)
CallTypes ==
  /\ pc' \in [Calls -> Running \union {"idle", "ok"}]
  /\ job' \in [Calls -> Jobs \union {None}]
  /\ row' \in [Calls -> Nat]
  /\ context' \in [Calls -> [org : Nat, account : Nat]]
  /\ started' \in Nat

(* those that end it,                                                       *)
LEMMA EndCall ==
  ASSUME CInv, NEW c \in Calls, End(c)
  PROVE  CallTypes /\ CallOf(c)' /\ Only(c) /\ pc'[c] = "idle" /\ context'[c] = Nobody
<1> USE DEF CInv, CabinetTypeOK, End, Goto
<1>1. CallTypes
  BY DEF CallTypes, Nobody
<1>2. pc'[c] = "idle" /\ Only(c) /\ context'[c] = Nobody
  BY DEF Only
<1> QED
  BY <1>1, <1>2 DEF CallOf, Registering, LoggingIn, BehindSession

(* and those that look up a row or go on.                                   *)
QuietWork(c) ==
  \/ FindEmail(c) \/ ReadOrganization(c) \/ ReadUser(c) \/ ReadSession(c)
  \/ ReadIdentity(c) \/ Verify(c) \/ GetBalance(c) \/ GetSubscription(c)
  \/ GetHistory(c) \/ CreateSubscription(c) \/ ListAPIKeys(c) \/ CountKeys(c)
  \/ FindPendingPayment(c) \/ Abort(c)

LEMMA QuietStep ==
  ASSUME CInv, NEW c \in Calls, QuietWork(c)
  PROVE  CInv' /\ Only(c) /\ UNCHANGED tables
<1>0. CallOf(c) /\ UNCHANGED tables
  BY DEF CInv, CallsInv, FindEmail, ReadOrganization, ReadUser, ReadSession, ReadIdentity,
         Verify, GetBalance, GetSubscription, GetHistory, CreateSubscription, ListAPIKeys,
         CountKeys, FindPendingPayment, Abort, QuietWork
<1>1. CASE End(c) /\ unsure' \subseteq DOMAIN payments
  BY <1>0, <1>1, EndCall, OtherCalls, SameTables DEF CInv, CabinetTypeOK, CallTypes, tables
<1>2. CASE FindEmail(c) /\ Step(c, "insert_org")
  <2>1. CabinetTypeOK' /\ Only(c)
    BY <1>2, <1>0 DEF FindEmail, Step, Goto, CInv, CabinetTypeOK, Running, tables, Only
  <2>2. CallOf(c)'
    BY <1>2, <1>0 DEF FindEmail, Step, Goto, CInv, CabinetTypeOK, CallOf, tables, Registering, LoggingIn, BehindSession
  <2> QED
    BY <1>0, <2>1, <2>2, OtherCalls, SameTables DEF CInv
<1>3. CASE ReadOrganization(c) /\ pc'[c] = "read_user"
  <2> DEFINE found == {o \in OrganizationOf(job[c].email) : organizations[o].verified}
             o == CHOOSE o \in found : TRUE
  <2>1. /\ found # {} /\ pc[c] = "read_org" /\ pc' = [pc EXCEPT ![c] = "read_user"]
        /\ context' = [context EXCEPT ![c] = [org |-> o, account |-> AccountOf(o)]]
        /\ UNCHANGED <<job, row, started, unsure>>
    BY <1>3 DEF ReadOrganization, End, Goto, CInv, CabinetTypeOK
  <2>2. o \in DOMAIN organizations
    BY <2>1 DEF OrganizationOf
  <2>3. o \in Nat /\ AccountOf(o) \in Nat
    BY <2>2, AccountTypes
  <2> HIDE DEF found, o
  <2>4. CabinetTypeOK' /\ Only(c)
    BY <2>1, <2>3, <1>0 DEF CInv, CabinetTypeOK, Running, tables, Only
  <2>5. CallOf(c)'
    BY <2>1, <2>2, <1>0 DEF CInv, CabinetTypeOK, CallOf, tables, Registering, LoggingIn, BehindSession
  <2> QED
    BY <1>0, <2>4, <2>5, OtherCalls, SameTables DEF CInv
<1>4. CASE ReadUser(c) /\ Step(c, "insert_session")
  <2>1. CabinetTypeOK' /\ Only(c)
    BY <1>4, <1>0 DEF ReadUser, Step, Goto, CInv, CabinetTypeOK, Running, tables, Only
  <2>2. CallOf(c)'
    BY <1>4, <1>0 DEF ReadUser, Step, Goto, CInv, CabinetTypeOK, CallOf, tables, Registering, LoggingIn, BehindSession
  <2> QED
    BY <1>0, <2>1, <2>2, OtherCalls, SameTables DEF CInv
<1>5. CASE ReadSession(c) /\ Step(c, "identity")
  <2>1. CabinetTypeOK' /\ Only(c)
    BY <1>5, <1>0 DEF ReadSession, Step, Goto, CInv, CabinetTypeOK, Running, tables, Only
  <2>2. CallOf(c)'
    BY <1>5, <1>0 DEF ReadSession, Step, Goto, CInv, CabinetTypeOK, CallOf, tables, Registering, LoggingIn, BehindSession
  <2> QED
    BY <1>0, <2>1, <2>2, OtherCalls, SameTables DEF CInv
<1>6. CASE ReadIdentity(c)
  <2> DEFINE s == sessions[job[c].session]
             account == IF AccountOf(s.org) # 0 THEN AccountOf(s.org) ELSE s.account
  <2>1. /\ pc[c] = "identity" /\ pc' = [pc EXCEPT ![c] = "handle"]
        /\ context' = [context EXCEPT ![c] = [org |-> s.org, account |-> account]]
        /\ UNCHANGED <<job, row, started, unsure>>
    BY <1>6 DEF ReadIdentity, Goto
  <2>2. job[c].session \in DOMAIN sessions
    BY <1>0, <2>1 DEF CallOf, BehindSession
  <2>3. s.org \in DOMAIN organizations /\ s \in Session
    BY <2>2 DEF CInv, RowsInv, CabinetTypeOK
  <2>4. s.org \in Nat /\ account \in Nat
    BY <2>3, AccountTypes DEF Session
  <2> HIDE DEF s, account
  <2>5. CabinetTypeOK' /\ Only(c)
    BY <2>1, <2>4, <1>0 DEF CInv, CabinetTypeOK, Running, tables, Only
  <2>6. CallOf(c)'
    BY <2>1, <2>2, <2>3, <1>0 DEF CInv, CabinetTypeOK, CallOf, tables, Registering, LoggingIn, BehindSession
  <2> QED
    BY <1>0, <2>5, <2>6, OtherCalls, SameTables DEF CInv
<1>7. CASE CountKeys(c) /\ Step(c, "insert_key")
  <2>1. CabinetTypeOK' /\ Only(c)
    BY <1>7, <1>0 DEF CountKeys, Step, Goto, CInv, CabinetTypeOK, Running, tables, Only
  <2>2. CallOf(c)'
    BY <1>7, <1>0 DEF CountKeys, Handles, Step, Goto, CInv, CabinetTypeOK, CallOf, tables, Registering, LoggingIn, BehindSession
  <2> QED
    BY <1>0, <2>1, <2>2, OtherCalls, SameTables DEF CInv
<1>8. CASE Handles(c, "confirm") /\ Found(c)
  <2>1. /\ pc[c] = "handle" /\ job[c].op = "confirm" /\ job[c].target \in DOMAIN payments
        /\ pc' = [pc EXCEPT ![c] = "topup"] /\ UNCHANGED <<job, row, context, started>>
        /\ unsure' \subseteq unsure \union {job[c].target}
    BY <1>0, <1>8 DEF Handles, Found, Step, Goto, CallOf, BehindSession
  <2>2. CabinetTypeOK' /\ Only(c)
    BY <2>1, <1>0 DEF CInv, CabinetTypeOK, Running, tables, Only
  <2>3. CallOf(c)'
    BY <2>1, <1>0 DEF CInv, CabinetTypeOK, CallOf, tables, Registering, LoggingIn, BehindSession
  <2> QED
    BY <1>0, <2>2, <2>3, OtherCalls, SameTables DEF CInv
<1>9. CASE Abort(c)
  <2>1. End(c) /\ unsure' \subseteq DOMAIN payments
    BY <1>0, <1>9 DEF Abort, CallOf, BehindSession, CInv, CabinetTypeOK
  <2> QED
    BY <1>1, <2>1
<1>10. unsure \subseteq DOMAIN payments
  BY DEF CInv, CabinetTypeOK
<1>11. CASE ReadOrganization(c)
  <2>1. \/ End(c) /\ UNCHANGED unsure
        \/ pc'[c] = "read_user"
    BY <1>11 DEF ReadOrganization, Goto, CInv, CabinetTypeOK
  <2> QED
    BY <1>0, <1>1, <1>3, <1>10, <1>11, <2>1 DEF tables
<1>12. CASE FindPendingPayment(c)
  BY <1>0, <1>1, <1>8, <1>10, <1>12 DEF FindPendingPayment, tables
<1> QED
  BY <1>0, <1>1, <1>2, <1>4, <1>5, <1>6, <1>7, <1>9, <1>10, <1>11, <1>12
     DEF QuietWork, FindEmail, ReadUser, ReadSession, Verify, GetBalance, GetSubscription, GetHistory,
         CreateSubscription, ListAPIKeys, CountKeys, tables

(* The steps that write: of a registration,                                 *)
LEMMA RegisterStep ==
  ASSUME CInv, NEW c \in Calls,
         \/ InsertOrganization(c) \/ InsertUser(c) \/ OpenAccount(c)
         \/ GoWithoutAccount(c) \/ LinkAccount(c)
  PROVE  CInv' /\ Kept /\ Only(c)
<1>0. CallOf(c)
  BY DEF CInv, CallsInv
<1>1. CASE InsertOrganization(c) /\ ~End(c)
  <2> DEFINE new == [email |-> job[c].email, verified |-> FALSE, account |-> 0]
             n == Len(organizations) + 1
  <2>1. /\ pc[c] = "insert_org" /\ pc' = [pc EXCEPT ![c] = "insert_user"]
        /\ organizations' = Append(organizations, new) /\ row' = [row EXCEPT ![c] = n]
        /\ UNCHANGED <<users, accounts, sessions, keys, handed, payments, unsure,
                       job, context, started>>
    BY <1>1 DEF InsertOrganization, StepWith, Goto
  <2>2. new \in Organization
    BY <1>0, <2>1 DEF CallOf, Registering, Organization
  <2>3. /\ organizations' \in Seq(Organization) /\ n \in Nat
        /\ DOMAIN organizations' = DOMAIN organizations \union {n}
    BY <2>1, <2>2, RowAdded DEF CInv, CabinetTypeOK
  <2>4. accounts' \in Seq(DOMAIN organizations')
    BY <2>1, <2>3 DEF CInv, CabinetTypeOK
  <2> HIDE DEF new, n
  <2>5. Only(c) /\ Kept
    BY <2>1, <2>3 DEF CInv, CabinetTypeOK, Only, Kept
  <2>6. CabinetTypeOK'
    BY <2>1, <2>3, <2>4 DEF CInv, CabinetTypeOK, Running
  <2>7. CallOf(c)'
    BY <1>0, <2>1, <2>3 DEF CInv, CabinetTypeOK, CallOf, Registering, LoggingIn, BehindSession
  <2>8. RowsInv' /\ HandedKeyWorks'
    BY <2>1, <2>3 DEF CInv, RowsInv, HandedKeyWorks
  <2> QED
    BY <2>5, <2>6, <2>7, <2>8, OtherCalls DEF CInv
<1>2. CASE InsertOrganization(c) /\ End(c)
  <2>1. CASE UNCHANGED tables
    BY <1>2, <2>1, EndCall, OtherCalls, SameTables
       DEF InsertOrganization, CInv, CabinetTypeOK, CallTypes, tables
  <2> QED
    BY <1>2, <2>1 DEF InsertOrganization, StepWith, Goto, End, CInv, CabinetTypeOK, tables
<1>3. CASE InsertUser(c)
  <2>1. /\ pc[c] = "insert_user" /\ pc' = [pc EXCEPT ![c] = "open"]
        /\ users' = users \union {row[c]} /\ row[c] \in DOMAIN organizations
        /\ UNCHANGED <<organizations, accounts, sessions, keys, handed, payments, unsure,
                       job, row, context, started>>
    BY <1>0, <1>3 DEF InsertUser, Step, Goto, CallOf
  <2>2. CabinetTypeOK' /\ Only(c) /\ Kept
    BY <2>1 DEF CInv, CabinetTypeOK, Running, Only, Kept
  <2>3. CallOf(c)'
    BY <1>0, <2>1 DEF CInv, CabinetTypeOK, CallOf, Registering, LoggingIn, BehindSession
  <2>4. RowsInv' /\ HandedKeyWorks'
    BY <2>1 DEF CInv, RowsInv, HandedKeyWorks
  <2> QED
    BY <2>2, <2>3, <2>4, OtherCalls DEF CInv
<1>4. ASSUME pc[c] = "open", accounts' = Append(accounts, row[c])
      PROVE  /\ accounts' \in Seq(DOMAIN organizations) /\ Len(accounts) + 1 \in Nat
             /\ DOMAIN accounts' = DOMAIN accounts \union {Len(accounts) + 1}
             /\ accounts'[Len(accounts) + 1] = row[c]
             /\ \A i \in DOMAIN accounts : accounts'[i] = accounts[i]
  <2>1. row[c] \in DOMAIN organizations
    BY <1>0, <1>4 DEF CallOf
  <2> QED
    BY <1>4, <2>1, RowAdded DEF CInv, CabinetTypeOK
<1>5. CASE OpenAccount(c)
  <2> DEFINE n == Len(accounts) + 1
  <2>1. /\ pc[c] = "open" /\ pc' = [pc EXCEPT ![c] = "link"]
        /\ accounts' = Append(accounts, row[c])
        /\ context' = [context EXCEPT ![c] = [org |-> row[c], account |-> n]]
        /\ UNCHANGED <<organizations, users, sessions, keys, handed, payments, unsure,
                       job, row, started>>
    BY <1>5 DEF OpenAccount, Goto
  <2>2. /\ accounts' \in Seq(DOMAIN organizations) /\ n \in Nat
        /\ DOMAIN accounts' = DOMAIN accounts \union {n} /\ accounts'[n] = row[c]
        /\ \A i \in DOMAIN accounts : accounts'[i] = accounts[i]
    BY <1>4, <2>1
  <2> HIDE DEF n
  <2>3. CabinetTypeOK' /\ Only(c) /\ Kept
    BY <2>1, <2>2 DEF CInv, CabinetTypeOK, Running, Only, Kept
  <2>4. CallOf(c)'
    BY <1>0, <2>1, <2>2 DEF CInv, CabinetTypeOK, CallOf, Registering, LoggingIn, BehindSession
  <2>5. RowsInv' /\ HandedKeyWorks'
    BY <2>1 DEF CInv, RowsInv, HandedKeyWorks
  <2> QED
    BY <2>3, <2>4, <2>5, OtherCalls DEF CInv
<1>6. CASE GoWithoutAccount(c)
  <2>1. /\ pc[c] \in {"open", "link"} /\ pc' = [pc EXCEPT ![c] = "ok"]
        /\ UNCHANGED <<organizations, users, sessions, keys, handed, payments, unsure,
                       job, row, context, started>>
    BY <1>6 DEF GoWithoutAccount, Step, Goto
  <2>2. accounts' \in Seq(DOMAIN organizations) /\
        \A i \in DOMAIN accounts : i \in DOMAIN accounts' /\ accounts'[i] = accounts[i]
    <3>1. CASE UNCHANGED accounts
      BY <3>1 DEF CInv, CabinetTypeOK
    <3> QED
      BY <1>4, <1>6, <3>1 DEF GoWithoutAccount
  <2>3. CabinetTypeOK' /\ Only(c) /\ Kept
    BY <2>1, <2>2 DEF CInv, CabinetTypeOK, Running, Only, Kept
  <2>4. CallOf(c)'
    BY <1>0, <2>1, <2>2 DEF CInv, CabinetTypeOK, CallOf, Registering, LoggingIn, BehindSession
  <2>5. RowsInv' /\ HandedKeyWorks'
    BY <2>1 DEF CInv, RowsInv, HandedKeyWorks
  <2> QED
    BY <2>3, <2>4, <2>5, OtherCalls DEF CInv
<1>7. CASE LinkAccount(c)
  <2> DEFINE o == row[c]
             new == [organizations[o] EXCEPT !.account = context[c].account]
  <2>1. /\ pc[c] = "link" /\ pc' = [pc EXCEPT ![c] = "ok"]
        /\ organizations' = [organizations EXCEPT ![o] = new]
        /\ UNCHANGED <<users, accounts, sessions, keys, handed, payments, unsure,
                       job, row, context, started>>
    BY <1>7 DEF LinkAccount, Step, Goto
  <2>2. o \in DOMAIN organizations /\ organizations[o] \in Organization /\ context[c].account \in Nat
    BY <1>0, <2>1 DEF CallOf, CInv, CabinetTypeOK
  <2>3. new \in Organization
    BY <2>2 DEF Organization
  <2>4. organizations' \in Seq(Organization) /\ DOMAIN organizations' = DOMAIN organizations
    BY <2>1, <2>2, <2>3, RowSet DEF CInv, CabinetTypeOK
  <2> HIDE DEF new
  <2>5. CabinetTypeOK' /\ Only(c) /\ Kept
    BY <2>1, <2>4 DEF CInv, CabinetTypeOK, Running, Only, Kept
  <2>6. CallOf(c)'
    BY <1>0, <2>1, <2>4 DEF CInv, CabinetTypeOK, CallOf, Registering, LoggingIn, BehindSession
  <2>7. RowsInv' /\ HandedKeyWorks'
    BY <2>1, <2>4 DEF CInv, RowsInv, HandedKeyWorks
  <2> QED
    BY <2>5, <2>6, <2>7, OtherCalls DEF CInv
<1> QED
  BY <1>1, <1>2, <1>3, <1>5, <1>6, <1>7

(* of a login and a logout, and those of an operator and of the clock,      *)
LEMMA SessionStep ==
  ASSUME CInv, NEW c \in Calls, InsertSession(c) \/ Logout(c)
  PROVE  CInv' /\ Kept /\ Only(c)
<1>0. CallOf(c)
  BY DEF CInv, CallsInv
<1>1. CASE InsertSession(c)
  <2> DEFINE n == Len(sessions) + 1
             new == [org |-> context[c].org, account |-> context[c].account, live |-> TRUE]
  <2>1. /\ pc[c] = "insert_session" /\ pc' = [pc EXCEPT ![c] = "ok"]
        /\ sessions' = Append(sessions, new) /\ row' = [row EXCEPT ![c] = n]
        /\ UNCHANGED <<organizations, users, accounts, keys, handed, payments, unsure,
                       job, context, started>>
    BY <1>1 DEF InsertSession, StepWith, Goto
  <2>2. new \in Session /\ new.org \in DOMAIN organizations
    BY <1>0, <2>1 DEF CallOf, CInv, CabinetTypeOK, Session
  <2>3. /\ sessions' \in Seq(Session) /\ n \in Nat /\ sessions'[n] = new
        /\ DOMAIN sessions' = DOMAIN sessions \union {n}
        /\ \A s \in DOMAIN sessions : sessions'[s] = sessions[s]
    BY <2>1, <2>2, RowAdded DEF CInv, CabinetTypeOK
  <2> HIDE DEF new, n
  <2>4. CabinetTypeOK' /\ Only(c) /\ Kept
    BY <2>1, <2>3 DEF CInv, CabinetTypeOK, Running, Only, Kept
  <2>5. CallOf(c)'
    BY <1>0, <2>1 DEF CInv, CabinetTypeOK, CallOf, Registering, LoggingIn, BehindSession
  <2>6. RowsInv' /\ HandedKeyWorks'
    BY <2>1, <2>2, <2>3 DEF CInv, RowsInv, HandedKeyWorks
  <2> QED
    BY <2>4, <2>5, <2>6, OtherCalls DEF CInv
<1>2. CASE Logout(c)
  <2> DEFINE s == job[c].session
  <2>1. /\ pc[c] = "handle" /\ job[c].op = "logout" /\ pc' = [pc EXCEPT ![c] = "ok"]
        /\ sessions' = [sessions EXCEPT ![s].live = FALSE] \/ UNCHANGED sessions
        /\ UNCHANGED <<organizations, users, accounts, keys, handed, payments, unsure,
                       job, row, context, started>>
    BY <1>2 DEF Logout, Handles, Step, Goto
  <2>2. s \in DOMAIN sessions
    BY <1>0, <2>1 DEF CallOf, BehindSession
  <2>3. /\ sessions' \in Seq(Session) /\ DOMAIN sessions' = DOMAIN sessions
        /\ \A i \in DOMAIN sessions : sessions'[i].org = sessions[i].org
    <3>1. sessions \in Seq(Session)
      BY DEF CInv, CabinetTypeOK
    <3>2. CASE UNCHANGED sessions
      BY <3>1, <3>2
    <3>3. CASE sessions' = [sessions EXCEPT ![s].live = FALSE]
      BY <2>2, <3>1, <3>3, LiveSet
    <3> QED
      BY <2>1, <3>2, <3>3
  <2>4. CabinetTypeOK' /\ Only(c) /\ Kept
    BY <2>1, <2>3 DEF CInv, CabinetTypeOK, Running, Only, Kept
  <2>5. CallOf(c)'
    BY <1>0, <2>1 DEF CInv, CabinetTypeOK, CallOf, Registering, LoggingIn, BehindSession
  <2>6. RowsInv' /\ HandedKeyWorks'
    BY <2>1, <2>3 DEF CInv, RowsInv, HandedKeyWorks
  <2> QED
    BY <2>4, <2>5, <2>6, OtherCalls DEF CInv
<1> QED
  BY <1>1, <1>2

LEMMA OutsideStep ==
  ASSUME CInv,
         \/ \E o \in DOMAIN organizations : OperatorVerifies(o)
         \/ \E s \in DOMAIN sessions : SessionExpires(s)
  PROVE  CInv' /\ Kept /\ UNCHANGED calls
<1>1. CASE \E o \in DOMAIN organizations : OperatorVerifies(o)
  <2>1. PICK o \in DOMAIN organizations : OperatorVerifies(o)
    BY <1>1
  <2> DEFINE new == [organizations[o] EXCEPT !.verified = TRUE]
  <2>2. organizations[o] \in Organization
    BY DEF CInv, CabinetTypeOK
  <2>3. new \in Organization
    BY <2>2 DEF Organization
  <2>4. organizations' \in Seq(Organization) /\ DOMAIN organizations' = DOMAIN organizations
    BY <2>1, <2>3, RowSet DEF CInv, CabinetTypeOK, OperatorVerifies
  <2>5. CabinetTypeOK' /\ Kept /\ RowsInv' /\ HandedKeyWorks'
    BY <2>1, <2>4 DEF OperatorVerifies, calls, CInv, CabinetTypeOK, Kept, RowsInv, HandedKeyWorks
  <2> QED
    BY <2>1, <2>5, SameCalls DEF OperatorVerifies, CInv
<1>2. CASE \E s \in DOMAIN sessions : SessionExpires(s)
  <2>1. PICK s \in DOMAIN sessions : SessionExpires(s)
    BY <1>2
  <2>2. /\ sessions' \in Seq(Session) /\ DOMAIN sessions' = DOMAIN sessions
        /\ \A i \in DOMAIN sessions : sessions'[i].org = sessions[i].org
    BY <2>1, LiveSet DEF SessionExpires, CInv, CabinetTypeOK
  <2>3. CabinetTypeOK' /\ Kept /\ RowsInv' /\ HandedKeyWorks'
    BY <2>1, <2>2 DEF SessionExpires, calls, CInv, CabinetTypeOK, Kept, RowsInv, HandedKeyWorks
  <2> QED
    BY <2>1, <2>3, SameCalls DEF SessionExpires, CInv
<1> QED
  BY <1>1, <1>2

(* of the API keys,                                                         *)
KeyWork(c) == InsertKey(c) \/ WriteHash(c) \/ RevokeAPIKey(c)

LEMMA KeyStep ==
  ASSUME CInv, NEW c \in Calls, KeyWork(c)
  PROVE  CInv' /\ Kept /\ Only(c)
<1>0. CallOf(c)
  BY DEF CInv, CallsInv
<1>1. CASE InsertKey(c)
  <2> DEFINE n == Len(keys) + 1
             new == [org |-> context[c].org, status |-> "active", hash |-> "temporary"]
  <2>1. /\ pc[c] = "insert_key" /\ pc' = [pc EXCEPT ![c] = "hash"]
        /\ keys' = Append(keys, new) /\ row' = [row EXCEPT ![c] = n]
        /\ UNCHANGED <<organizations, users, accounts, sessions, handed, payments, unsure,
                       job, context, started>>
    BY <1>1 DEF InsertKey, StepWith, Goto
  <2>2. new \in APIKey /\ new.org \in DOMAIN organizations
    BY <1>0, <2>1 DEF CallOf, CInv, CabinetTypeOK, APIKey
  <2>3. /\ keys' \in Seq(APIKey) /\ n \in Nat /\ keys'[n] = new
        /\ DOMAIN keys' = DOMAIN keys \union {n}
        /\ \A k \in DOMAIN keys : keys'[k] = keys[k]
    BY <2>1, <2>2, RowAdded DEF CInv, CabinetTypeOK
  <2> HIDE DEF new, n
  <2>4. CabinetTypeOK' /\ Only(c) /\ Kept
    BY <2>1, <2>3 DEF CInv, CabinetTypeOK, Running, Only, Kept
  <2>5. CallOf(c)'
    BY <1>0, <2>1, <2>3 DEF CInv, CabinetTypeOK, CallOf, Registering, LoggingIn, BehindSession
  <2>6. RowsInv' /\ HandedKeyWorks'
    BY <2>1, <2>2, <2>3 DEF CInv, CabinetTypeOK, RowsInv, HandedKeyWorks
  <2> QED
    BY <2>4, <2>5, <2>6, OtherCalls DEF CInv
<1>2. ASSUME NEW k \in DOMAIN keys, NEW new \in APIKey, keys' = [keys EXCEPT ![k] = new],
             new.org = keys[k].org
      PROVE  /\ keys' \in Seq(APIKey) /\ DOMAIN keys' = DOMAIN keys /\ keys'[k] = new
             /\ \A i \in DOMAIN keys \ {k} : keys'[i] = keys[i]
             /\ \A i \in DOMAIN keys : keys'[i].org = keys[i].org
  BY <1>2, RowSet DEF CInv, CabinetTypeOK
<1>3. CASE WriteHash(c)
  <2> DEFINE k == row[c]
             new == [keys[k] EXCEPT !.hash = "final"]
  <2>1. /\ pc[c] = "hash" /\ pc' = [pc EXCEPT ![c] = "ok"]
        /\ keys' = [keys EXCEPT ![k] = new]
        /\ UNCHANGED <<organizations, users, accounts, sessions, handed, payments, unsure,
                       job, row, context, started>>
    BY <1>3 DEF WriteHash, Step, Goto
  <2>2. k \in DOMAIN keys /\ keys[k] \in APIKey /\ job[c].op = "create_key"
    BY <1>0, <2>1 DEF CallOf, CInv, CabinetTypeOK
  <2>3. new \in APIKey /\ new.org = keys[k].org /\ new.hash = "final" /\ new.status = keys[k].status
    BY <2>2 DEF APIKey
  <2>4. /\ keys' \in Seq(APIKey) /\ DOMAIN keys' = DOMAIN keys /\ keys'[k] = new
        /\ \A i \in DOMAIN keys \ {k} : keys'[i] = keys[i]
        /\ \A i \in DOMAIN keys : keys'[i].org = keys[i].org
    BY <1>2, <2>1, <2>2, <2>3
  <2> HIDE DEF new
  <2>5. CabinetTypeOK' /\ Only(c) /\ Kept
    BY <2>1, <2>2, <2>3, <2>4 DEF CInv, CabinetTypeOK, Running, Only, Kept
  <2>6. CallOf(c)'
    BY <1>0, <2>1, <2>2, <2>3, <2>4 DEF CInv, CabinetTypeOK, CallOf, Registering, LoggingIn, BehindSession
  <2>7. RowsInv' /\ HandedKeyWorks'
    BY <2>1, <2>3, <2>4 DEF CInv, CabinetTypeOK, RowsInv, HandedKeyWorks
  <2> QED
    BY <2>5, <2>6, <2>7, OtherCalls DEF CInv
<1>4. CASE RevokeAPIKey(c) /\ job[c].target \in ActiveKeys(context[c].org)
  <2> DEFINE k == job[c].target
             new == [keys[k] EXCEPT !.status = "revoked"]
  <2>1. /\ pc[c] = "handle" /\ job[c].op = "revoke" /\ pc' = [pc EXCEPT ![c] = "ok"]
        /\ keys' = [keys EXCEPT ![k] = new]
        /\ UNCHANGED <<organizations, users, accounts, sessions, handed, payments, unsure,
                       job, row, context, started>>
    BY <1>4 DEF RevokeAPIKey, Handles, Step, Goto
  <2>2. k \in DOMAIN keys /\ keys[k] \in APIKey
    BY <1>4 DEF ActiveKeys, CInv, CabinetTypeOK
  <2>3. new \in APIKey /\ new.org = keys[k].org /\ new.hash = keys[k].hash /\ new.status = "revoked"
    BY <2>2 DEF APIKey
  <2>4. /\ keys' \in Seq(APIKey) /\ DOMAIN keys' = DOMAIN keys /\ keys'[k] = new
        /\ \A i \in DOMAIN keys \ {k} : keys'[i] = keys[i]
        /\ \A i \in DOMAIN keys : keys'[i].org = keys[i].org
    BY <1>2, <2>1, <2>2, <2>3
  <2> HIDE DEF new
  <2>5. CabinetTypeOK' /\ Only(c) /\ Kept
    BY <2>1, <2>2, <2>3, <2>4 DEF CInv, CabinetTypeOK, Running, Only, Kept
  <2>6. CallOf(c)'
    BY <1>0, <2>1, <2>4 DEF CInv, CabinetTypeOK, CallOf, Registering, LoggingIn, BehindSession
  <2>7. RowsInv' /\ HandedKeyWorks'
    BY <2>1, <2>3, <2>4 DEF CInv, CabinetTypeOK, RowsInv, HandedKeyWorks
  <2> QED
    BY <2>5, <2>6, <2>7, OtherCalls DEF CInv
<1>5. CASE RevokeAPIKey(c) /\ job[c].target \notin ActiveKeys(context[c].org)
  <2>1. End(c) /\ UNCHANGED <<tables, unsure>>
    BY <1>5 DEF RevokeAPIKey, tables
  <2> QED
    BY <2>1, EndCall, OtherCalls, SameTables DEF CInv, CabinetTypeOK, CallTypes, tables
<1> QED
  BY <1>1, <1>3, <1>4, <1>5 DEF KeyWork

(* of the mock payments,                                                    *)
PaymentWork(c) == CreateMockPayment(c) \/ Topup(c) \/ CompletePayment(c)

LEMMA PaymentStep ==
  ASSUME CInv, NEW c \in Calls, PaymentWork(c)
  PROVE  CInv' /\ Kept /\ Only(c)
<1>0. CallOf(c)
  BY DEF CInv, CallsInv
<1>1. CASE CreateMockPayment(c)
  <2> DEFINE n == Len(payments) + 1
             new == [org |-> context[c].org, account |-> context[c].account,
                     status |-> "pending", topups |-> 0]
  <2>1. /\ pc[c] = "handle" /\ job[c].op = "create_payment" /\ pc' = [pc EXCEPT ![c] = "ok"]
        /\ payments' = Append(payments, new) /\ row' = [row EXCEPT ![c] = n]
        /\ UNCHANGED <<organizations, users, accounts, sessions, keys, handed, unsure,
                       job, context, started>>
    BY <1>1 DEF CreateMockPayment, Handles, StepWith, Goto
  <2>2. new \in MockPayment
    BY DEF CInv, CabinetTypeOK, MockPayment
  <2>3. /\ payments' \in Seq(MockPayment) /\ n \in Nat
        /\ DOMAIN payments' = DOMAIN payments \union {n}
        /\ \A p \in DOMAIN payments : payments'[p] = payments[p]
    BY <2>1, <2>2, RowAdded DEF CInv, CabinetTypeOK
  <2> HIDE DEF new, n
  <2>4. CabinetTypeOK' /\ Only(c) /\ Kept
    BY <2>1, <2>3 DEF CInv, CabinetTypeOK, Running, Only, Kept
  <2>5. CallOf(c)'
    BY <1>0, <2>1 DEF CInv, CabinetTypeOK, CallOf, Registering, LoggingIn, BehindSession
  <2>6. RowsInv' /\ HandedKeyWorks'
    BY <2>1 DEF CInv, RowsInv, HandedKeyWorks
  <2> QED
    BY <2>4, <2>5, <2>6, OtherCalls DEF CInv
<1>2. CASE Topup(c)
  <2> DEFINE p == job[c].target
             new == [payments[p] EXCEPT !.topups = @ + 1]
  <2>1. /\ pc[c] = "topup" /\ payments' = [payments EXCEPT ![p] = new]
        /\ \/ Step(c, "complete") /\ UNCHANGED unsure
           \/ End(c) /\ unsure' = unsure \union {p}
        /\ UNCHANGED <<organizations, users, accounts, sessions, keys, handed>>
    BY <1>2 DEF Topup
  <2>2. p \in DOMAIN payments /\ payments[p] \in MockPayment
    BY <1>0, <2>1 DEF CallOf, BehindSession, CInv, CabinetTypeOK
  <2>3. new \in MockPayment /\ new.status = payments[p].status /\ new.topups > 0
    BY <2>2 DEF MockPayment
  <2>4. /\ payments' \in Seq(MockPayment) /\ DOMAIN payments' = DOMAIN payments
        /\ payments'[p] = new
        /\ \A i \in DOMAIN payments \ {p} : payments'[i] = payments[i]
    BY <2>1, <2>2, <2>3, RowSet DEF CInv, CabinetTypeOK
  <2> HIDE DEF new
  <2>5. Kept /\ RowsInv' /\ HandedKeyWorks'
    BY <2>1, <2>3, <2>4 DEF Kept, CInv, RowsInv, HandedKeyWorks
  <2>6. CallTypes /\ Only(c) /\ CallOf(c)' /\ unsure' \subseteq DOMAIN payments
    <3>1. CASE End(c)
      BY <2>1, <2>2, <3>1, EndCall DEF CInv, CabinetTypeOK
    <3>2. CASE Step(c, "complete") /\ UNCHANGED unsure
      <4>1. pc' = [pc EXCEPT ![c] = "complete"] /\ UNCHANGED <<job, row, context, started>>
        BY <3>2 DEF Step, Goto
      <4>2. CallTypes /\ Only(c) /\ unsure' \subseteq DOMAIN payments
        BY <3>2, <4>1 DEF CallTypes, Only, Running, CInv, CabinetTypeOK
      <4>3. CallOf(c)'
        BY <1>0, <2>1, <2>3, <2>4, <4>1
           DEF CInv, CabinetTypeOK, CallOf, Registering, LoggingIn, BehindSession
      <4> QED
        BY <4>2, <4>3
    <3> QED
      BY <2>1, <3>1, <3>2
  <2>7. CabinetTypeOK'
    BY <2>1, <2>4, <2>6 DEF CInv, CabinetTypeOK, CallTypes
  <2> QED
    BY <2>5, <2>6, <2>7, OtherCalls DEF CInv
<1>3. CASE CompletePayment(c)
  <2> DEFINE p == job[c].target
             new == [payments[p] EXCEPT !.status = "completed"]
  <2>1. /\ pc[c] = "complete" /\ pc' = [pc EXCEPT ![c] = "ok"]
        /\ payments' = [payments EXCEPT ![p] = new]
        /\ UNCHANGED <<organizations, users, accounts, sessions, keys, handed, unsure,
                       job, row, context, started>>
    BY <1>3 DEF CompletePayment, Step, Goto
  <2>2. p \in DOMAIN payments /\ payments[p] \in MockPayment /\ payments[p].topups > 0
        /\ job[c].op = "confirm"
    BY <1>0, <2>1 DEF CallOf, BehindSession, CInv, CabinetTypeOK
  <2>3. new \in MockPayment /\ new.status = "completed" /\ new.topups = payments[p].topups
    BY <2>2 DEF MockPayment
  <2>4. /\ payments' \in Seq(MockPayment) /\ DOMAIN payments' = DOMAIN payments
        /\ payments'[p] = new
        /\ \A i \in DOMAIN payments \ {p} : payments'[i] = payments[i]
    BY <2>1, <2>2, <2>3, RowSet DEF CInv, CabinetTypeOK
  <2> HIDE DEF new
  <2>5. CabinetTypeOK' /\ Only(c) /\ Kept
    BY <2>1, <2>2, <2>3, <2>4 DEF CInv, CabinetTypeOK, Running, Only, Kept
  <2>6. CallOf(c)'
    BY <1>0, <2>1, <2>2, <2>3, <2>4
       DEF CInv, CabinetTypeOK, CallOf, Registering, LoggingIn, BehindSession
  <2>7. RowsInv' /\ HandedKeyWorks'
    BY <2>1 DEF CInv, RowsInv, HandedKeyWorks
  <2> QED
    BY <2>5, <2>6, <2>7, OtherCalls DEF CInv
<1> QED
  BY <1>1, <1>2, <1>3 DEF PaymentWork

(* and the answer.                                                          *)
LEMMA ReturnStep ==
  ASSUME CInv, NEW c \in Calls, Return(c)
  PROVE  CInv' /\ Kept /\ Only(c)
<1>0. CallOf(c)
  BY DEF CInv, CallsInv
<1>1. /\ pc[c] = "ok" /\ End(c)
      /\ \/ handed' = handed
         \/ job[c].op = "create_key" /\ handed' = handed \union {row[c]}
      /\ UNCHANGED <<organizations, users, accounts, sessions, keys, payments, unsure>>
  BY DEF Return
<1>2. CallTypes /\ CallOf(c)' /\ Only(c)
  BY <1>1, EndCall
<1>3. Kept /\ RowsInv'
  BY <1>1 DEF Kept, CInv, RowsInv
<1>4. handed' \subseteq DOMAIN keys /\ HandedKeyWorks'
  BY <1>0, <1>1 DEF CallOf, CInv, CabinetTypeOK, HandedKeyWorks
<1>5. CabinetTypeOK'
  BY <1>1, <1>2, <1>4 DEF CInv, CabinetTypeOK, CallTypes
<1> QED
  BY <1>2, <1>3, <1>4, <1>5, OtherCalls DEF CInv

LEMMA CabinetStep ==
  ASSUME CInv, CabinetNext
  PROVE  CInv' /\ Kept
<1>1. CASE \E c \in Calls, e \in Emails : StartRegister(c, e) \/ StartLogin(c, e)
  BY <1>1, BeginStep, SameTables
<1>2. CASE \E c \in Calls, s \in DOMAIN sessions, op \in Protected,
              t \in {0} \union DOMAIN keys \union DOMAIN payments : StartProtected(c, s, op, t)
  BY <1>2, BeginStep, SameTables
<1>3. ASSUME NEW c \in Calls, Serve(c) \/ Abort(c) \/ Return(c)
      PROVE  CInv' /\ Kept
  BY <1>3, QuietStep, RegisterStep, SessionStep, KeyStep, PaymentStep, ReturnStep, SameTables
     DEF Serve, QuietWork, KeyWork, PaymentWork
<1> QED
  BY <1>1, <1>2, <1>3, OutsideStep DEF CabinetNext

-----------------------------------------------------------------------------
(* What the phase of a request says of its path, its key and its owner.     *)
RequestOf(q) ==
  /\ phase[q] = "key" => ~ExemptPath(asked[q].path) /\ asked[q].key \in DOMAIN keys
  /\ phase[q] \in {"limit", "me", "send", "sent"} /\ ~ExemptPath(asked[q].path)
     => values[q].org \in DOMAIN organizations
  /\ phase[q] = "me" => asked[q].path \in MyPaths
  /\ dead[q] => phase[q] = "key" /\ keys[asked[q].key].status = "revoked"

RequestsInv == \A q \in Requests : RequestOf(q)

IInv == TypeOK /\ CInv /\ RequestsInv

LEMMA GatewayStep ==
  ASSUME IInv, GatewayNext
  PROVE  IInv' /\ UNCHANGED cabinet
<1> USE DEF IInv
<1>1. ASSUME NEW q \in Requests, UNCHANGED cabinet, RequestOf(q)',
             \A r \in Requests \ {q} : /\ phase'[r] = phase[r] /\ asked'[r] = asked[r]
                                       /\ values'[r] = values[r] /\ dead'[r] = dead[r]
      PROVE  RequestsInv' /\ CInv' /\ CabinetTypeOK'
  <2>1. UNCHANGED <<organizations, users, accounts, sessions, keys, handed, payments,
                    pc, job, row, context, started, unsure>>
    BY <1>1 DEF cabinet, tables, calls
  <2>2. CInv' /\ CabinetTypeOK'
    BY <2>1 DEF CInv, CabinetTypeOK, CallsInv, CallOf, RowsInv, HandedKeyWorks
  <2> QED
    BY <1>1, <2>1, <2>2 DEF RequestsInv, RequestOf
<1>2. ASSUME NEW q \in Requests, Finish(q)
      PROVE  IInv' /\ UNCHANGED cabinet
  <2>1. TypeOK' \/ ~CabinetTypeOK'
    BY <1>2 DEF Finish, Move, TypeOK, Nothing, Nowhere, Unasked, cabinet
  <2>2. RequestOf(q)'
    BY <1>2 DEF Finish, Move, TypeOK, RequestOf, Unasked
  <2> QED
    BY <1>1, <1>2, <2>1, <2>2 DEF Finish, Move, TypeOK
<1>3. ASSUME NEW q \in Requests, NEW path \in Paths, NEW k \in {0} \union handed,
             NEW id \in {0} \union DOMAIN accounts, Arrive(q, path, k, id)
      PROVE  IInv' /\ UNCHANGED cabinet
  <2>1. UNCHANGED <<cabinet, keys, organizations>> /\ k \in Nat /\ 0 \notin DOMAIN keys
        /\ id \in Nat
    <3>1. UNCHANGED <<cabinet, keys, organizations>>
      BY <1>3 DEF Arrive, cabinet, tables
    <3>2. handed \subseteq Nat /\ DOMAIN keys \subseteq Nat \ {0}
          /\ DOMAIN accounts \subseteq Nat
      BY DEF TypeOK, CabinetTypeOK
    <3> QED
      BY <3>1, <3>2
  <2>2. k # 0 => k \in DOMAIN keys /\ keys[k] \in APIKey
    BY DEF TypeOK, CabinetTypeOK
  <2>3. TypeOK' \/ ~CabinetTypeOK'
    BY <1>3, <2>1 DEF Arrive, Move, TypeOK
  <2>4. dead'[q] => k # 0 /\ keys[k].status = "revoked"
    BY <1>3, <2>2 DEF Arrive, TypeOK, ActiveKeys, APIKey
  <2>5. /\ phase'[q] = IF k = 0 THEN "limit" ELSE "key"
        /\ asked'[q].path = path /\ asked'[q].key = k
        /\ k = 0 <=> ExemptPath(path)
    BY <1>3 DEF Arrive, Move, TypeOK
  <2>6. RequestOf(q)'
    BY <2>1, <2>2, <2>4, <2>5 DEF RequestOf, ExemptPath
  <2> QED
    BY <1>1, <1>3, <2>1, <2>3, <2>6 DEF Arrive, Move, TypeOK
<1>4. ASSUME NEW q \in Requests, ReadKey(q)
      PROVE  IInv' /\ UNCHANGED cabinet
  <2>1. CASE Finish(q)
    BY <1>2, <2>1
  <2>2. CASE ~Finish(q)
    <3>1. /\ phase[q] = "key" /\ phase' = [phase EXCEPT ![q] = "limit"]
          /\ ValidKey(asked[q].key)
          /\ values' = [values EXCEPT ![q].org = keys[asked[q].key].org]
          /\ UNCHANGED <<cabinet, asked, sent, requested, dead>>
      BY <1>4, <2>2 DEF ReadKey, Move
    <3>2. ~dead[q] /\ keys[asked[q].key].org \in DOMAIN organizations
      BY <3>1 DEF ValidKey, CInv, RowsInv, RequestsInv, RequestOf
    <3>3. /\ keys[asked[q].key].org \in Nat
          /\ UNCHANGED <<keys, organizations>>
      BY <3>1, <3>2 DEF TypeOK, CabinetTypeOK, cabinet, tables
    <3>4. TypeOK' \/ ~CabinetTypeOK'
      BY <3>1, <3>3 DEF TypeOK
    <3>5. RequestOf(q)'
      BY <3>1, <3>2, <3>3 DEF RequestOf, TypeOK
    <3> QED
      BY <1>1, <3>1, <3>4, <3>5 DEF TypeOK
  <2> QED
    BY <2>1, <2>2
<1>5. ASSUME NEW q \in Requests, NEW step \in {"me", "send", "sent"},
             phase[q] \in {"limit", "me", "send"}, Move(q, step),
             step = "me" => asked[q].path \in MyPaths,
             sent' \in [Requests -> [service : {"orchestrator", "billing", "cabinet", None},
                                     account : Nat]],
             UNCHANGED <<cabinet, asked, values, requested, dead>>
      PROVE  IInv' /\ UNCHANGED cabinet
  <2>1. TypeOK' \/ ~CabinetTypeOK'
    BY <1>5 DEF Move, TypeOK
  <2>2. RequestOf(q)'
    BY <1>5 DEF Move, TypeOK, RequestsInv, RequestOf, ExemptPath, cabinet, tables
  <2> QED
    BY <1>1, <1>5, <2>1, <2>2 DEF Move, TypeOK
<1>6. ASSUME NEW q \in Requests, RateLimit(q)
      PROVE  IInv' /\ UNCHANGED cabinet
  BY <1>5, <1>6 DEF RateLimit, TypeOK
<1>7. ASSUME NEW q \in Requests, ResolveMe(q)
      PROVE  IInv' /\ UNCHANGED cabinet
  <2>1. CASE Finish(q)
    BY <1>2, <2>1
  <2>2. CASE ~Finish(q)
    <3>1. /\ phase[q] = "me" /\ Move(q, "send")
          /\ sent' = [sent EXCEPT ![q].account = AccountOf(values[q].org)]
          /\ UNCHANGED <<cabinet, asked, values, requested, dead>>
      BY <1>7, <2>2 DEF ResolveMe
    <3>2. values[q].org \in DOMAIN organizations
      BY <3>1 DEF RequestsInv, RequestOf, ExemptPath, MyPaths, Exempted
    <3>3. AccountOf(values[q].org) \in Nat
      BY <3>2, AccountTypes
    <3>4. sent' \in [Requests -> [service : {"orchestrator", "billing", "cabinet", None},
                                  account : Nat]]
      BY <3>1, <3>3 DEF TypeOK
    <3> QED
      BY <1>5, <3>1, <3>4
  <2> QED
    BY <2>1, <2>2
<1>8. ASSUME NEW q \in Requests, Forward(q)
      PROVE  IInv' /\ UNCHANGED cabinet
  <2>1. CASE Finish(q)
    BY <1>2, <2>1
  <2>2. CASE ~Finish(q)
    <3> DEFINE service == ResolveTarget(asked[q].path)
    <3>1. /\ phase[q] = "send" /\ Move(q, "sent")
          /\ sent' = [sent EXCEPT ![q] = [service |-> service, account |-> AccountSeen(q)]]
          /\ UNCHANGED <<cabinet, asked, values, requested, dead>>
      BY <1>8, <2>2 DEF Forward
    <3>2. service \in {"orchestrator", "billing", "cabinet", None} /\ AccountSeen(q) \in Nat
      BY DEF ResolveTarget, AccountSeen, TypeOK
    <3> HIDE DEF service
    <3>3. sent' \in [Requests -> [service : {"orchestrator", "billing", "cabinet", None},
                                  account : Nat]]
      BY <3>1, <3>2 DEF TypeOK
    <3> QED
      BY <1>5, <3>1, <3>3
  <2> QED
    BY <2>1, <2>2
<1> QED
  BY <1>2, <1>3, <1>4, <1>6, <1>7, <1>8 DEF GatewayNext, Answer

LEMMA InitInv == Init => IInv
<1> SUFFICES ASSUME Init PROVE IInv
  OBVIOUS
<1>1. CabinetTypeOK
  BY DEF Init, CabinetInit, CabinetTypeOK, Nobody
<1>2. CallsInv /\ RowsInv /\ HandedKeyWorks
  BY DEF Init, CabinetInit, CallsInv, CallOf, RowsInv, HandedKeyWorks,
         Registering, LoggingIn, BehindSession
<1>3. TypeOK /\ RequestsInv
  BY <1>1 DEF Init, GatewayInit, TypeOK, Nothing, Nowhere, Unasked, RequestsInv, RequestOf
<1> QED
  BY <1>1, <1>2, <1>3 DEF IInv, CInv

LEMMA NextInv == IInv /\ [Next]_vars => IInv' /\ Kept
<1> SUFFICES ASSUME IInv, [Next]_vars PROVE IInv' /\ Kept
  OBVIOUS
<1>1. CASE CabinetNext /\ UNCHANGED gateway
  <2>1. CInv' /\ Kept
    BY <1>1, CabinetStep DEF IInv
  <2>2. TypeOK'
    BY <1>1, <2>1 DEF IInv, CInv, TypeOK, gateway
  <2>3. ASSUME NEW q \in Requests PROVE RequestOf(q)'
    BY <1>1, <2>1 DEF IInv, RequestsInv, RequestOf, gateway, Kept
  <2> QED
    BY <2>1, <2>2, <2>3 DEF IInv, RequestsInv
<1>2. CASE GatewayNext
  BY <1>2, GatewayStep, SameTables DEF cabinet
<1>3. CASE UNCHANGED vars
  BY <1>3, SameTables
     DEF IInv, CInv, TypeOK, CabinetTypeOK, CallsInv, CallOf, RequestsInv, RequestOf,
         vars, cabinet, tables, calls, gateway
<1> QED
  BY <1>1, <1>2, <1>3 DEF Next

LEMMA Invariance == Spec => []IInv
BY InitInv, NextInv, PTL DEF Spec

(* Every variable of both services keeps its type.                          *)
THEOREM TypeCorrect == Spec => []TypeOK
BY Invariance, PTL DEF IInv

(* However calls to create, revoke and look at keys overlap or stop, a key  *)
(* that was answered has the hash of the full key (CreateAPIKey).           *)
THEOREM HandedKeyCorrect == Spec => []HandedKeyWorks
BY Invariance, PTL DEF IInv, CInv

(* No UPDATE of a key, that of its hash included, undoes a revocation.      *)
THEOREM RevocationCorrect == Spec => RevokedForGood
<1>1. IInv /\ [Next]_vars
      => [\A k \in DOMAIN keys :
            keys[k].status = "revoked" => keys'[k].status = "revoked"]_cabinet
  BY NextInv DEF Kept
<1> QED
  BY <1>1, Invariance, PTL DEF Spec, RevokedForGood

(* A payment is marked completed by a call that had it topped up before.    *)
LEMMA CompletedStep ==
  ASSUME IInv, CompletedIsToppedUp, [Next]_vars
  PROVE  CompletedIsToppedUp'
<1> USE DEF IInv
<1>1. CASE UNCHANGED payments
  BY <1>1 DEF CompletedIsToppedUp
<1>2. ASSUME NEW c \in Calls, CreateMockPayment(c) PROVE CompletedIsToppedUp'
  <2> DEFINE new == [org |-> context[c].org, account |-> context[c].account,
                     status |-> "pending", topups |-> 0]
  <2>1. payments' = Append(payments, new) /\ new \in MockPayment /\ new.status = "pending"
    BY <1>2 DEF CreateMockPayment, CInv, CabinetTypeOK, MockPayment
  <2> HIDE DEF new
  <2>2. /\ DOMAIN payments' = DOMAIN payments \union {Len(payments) + 1}
        /\ payments'[Len(payments) + 1] = new
        /\ \A p \in DOMAIN payments : payments'[p] = payments[p]
    BY <2>1, RowAdded DEF CInv, CabinetTypeOK
  <2> QED
    BY <2>1, <2>2 DEF CompletedIsToppedUp
<1>3. ASSUME NEW c \in Calls, Topup(c) \/ CompletePayment(c) PROVE CompletedIsToppedUp'
  <2> DEFINE p == job[c].target
  <2>1. /\ p \in DOMAIN payments /\ payments[p] \in MockPayment
        /\ pc[c] = "complete" => payments[p].topups > 0
    BY <1>3 DEF Topup, CompletePayment, CInv, CallsInv, CallOf, BehindSession, CabinetTypeOK
  <2>2. \/ payments' = [payments EXCEPT ![p] = [payments[p] EXCEPT !.topups = @ + 1]]
        \/ /\ pc[c] = "complete"
           /\ payments' = [payments EXCEPT ![p] = [payments[p] EXCEPT !.status = "completed"]]
    BY <1>3 DEF Topup, CompletePayment
  <2>3. DOMAIN payments' = DOMAIN payments /\ payments'[p].topups > 0
    BY <2>1, <2>2 DEF MockPayment
  <2>4. \A i \in DOMAIN payments \ {p} : payments'[i] = payments[i]
    BY <2>2
  <2> QED
    BY <2>3, <2>4 DEF CompletedIsToppedUp
<1>4. CASE GatewayNext
  BY <1>1, <1>4, GatewayStep DEF cabinet, tables
<1>5. CASE CabinetNext
  <2>1. ASSUME NEW c \in Calls, Serve(c), ~CreateMockPayment(c), ~Topup(c), ~CompletePayment(c)
        PROVE  UNCHANGED payments
    BY <2>1 DEF Serve, FindEmail, InsertOrganization, InsertUser, OpenAccount,
       GoWithoutAccount, LinkAccount, ReadOrganization, ReadUser, InsertSession, ReadSession,
       ReadIdentity, Logout, Verify, GetBalance, GetSubscription, GetHistory,
       CreateSubscription, ListAPIKeys, CountKeys, InsertKey, WriteHash, RevokeAPIKey,
       FindPendingPayment, tables
  <2>2. ASSUME NEW c \in Calls, Serve(c) PROVE CompletedIsToppedUp'
    BY <1>1, <1>2, <1>3, <2>1, <2>2
  <2>3. ASSUME NEW c \in Calls, Abort(c) \/ Return(c) PROVE UNCHANGED payments
    BY <2>3 DEF Abort, Return, tables
  <2>4. ASSUME NEW c \in Calls, NEW e \in Emails, StartRegister(c, e) \/ StartLogin(c, e)
        PROVE  UNCHANGED payments
    BY <2>4 DEF StartRegister, StartLogin, Begin, tables
  <2>5. ASSUME NEW c, NEW s, NEW op, NEW t, StartProtected(c, s, op, t)
        PROVE  UNCHANGED payments
    BY <2>5 DEF StartProtected, Begin, tables
  <2>6. ASSUME NEW o, OperatorVerifies(o) \/ SessionExpires(o) PROVE UNCHANGED payments
    BY <2>6 DEF OperatorVerifies, SessionExpires
  <2> QED
    BY <1>1, <1>5, <2>2, <2>3, <2>4, <2>5, <2>6 DEF CabinetNext
<1> QED
  BY <1>1, <1>4, <1>5 DEF Next, vars, cabinet, tables

(* However confirmations overlap and stop, and whatever the billing service *)
(* answers, a mock payment that is completed was topped up.                 *)
THEOREM CompletedCorrect == Spec => []CompletedIsToppedUp
<1>1. Init => CompletedIsToppedUp
  BY DEF Init, CabinetInit, CompletedIsToppedUp
<1> QED
  BY <1>1, CompletedStep, Invariance, PTL DEF Spec

(* No request goes on whose key was revoked before it came (ReadKey).       *)
THEOREM GatewayRefusesDeadKeys == Spec => []NothingAfterRevocation
<1>1. IInv => NothingAfterRevocation
  BY DEF IInv, RequestsInv, RequestOf, NothingAfterRevocation
<1> QED
  BY <1>1, Invariance, PTL

-----------------------------------------------------------------------------
(* One account for an organization: the one call that registers it has not  *)
(* opened it yet, and no other call will.                                   *)
Opening(c) == pc[c] \in {"insert_user", "open"}

OpeningInv ==
  \A c \in Calls : Opening(c) =>
    /\ \A i \in DOMAIN accounts : accounts[i] # row[c]
    /\ \A d \in Calls : Opening(d) /\ row[d] = row[c] => d = c

LEMMA QuietOpening ==
  ASSUME OpeningInv, OneAccountEach, UNCHANGED accounts,
         \A c \in Calls : Opening(c)' => Opening(c) /\ row'[c] = row[c]
  PROVE  OpeningInv' /\ OneAccountEach'
BY DEF OpeningInv, OneAccountEach, Opening

LEMMA OpeningStep ==
  ASSUME IInv, OpeningInv, OneAccountEach, [Next]_vars
  PROVE  OpeningInv' /\ OneAccountEach'
<1> USE DEF IInv, CInv, CabinetTypeOK
<1>1. ASSUME NEW c \in Calls, InsertOrganization(c), Only(c) PROVE OpeningInv' /\ OneAccountEach'
  <2>1. CASE pc'[c] = "insert_user"
    <3>1. row'[c] = Len(organizations) + 1 /\ UNCHANGED accounts
      BY <1>1, <2>1 DEF InsertOrganization, StepWith, End, Goto
    <3>2. row'[c] \notin DOMAIN organizations
      BY <3>1
    <3>3. \A i \in DOMAIN accounts : accounts[i] \in DOMAIN organizations
      OBVIOUS
    <3>4. \A d \in Calls : Opening(d) => row[d] \in DOMAIN organizations
      BY DEF Opening, CallsInv, CallOf
    <3>5. \A d \in Calls \ {c} : /\ Opening(d)' = Opening(d) /\ row'[d] = row[d]
                                 /\ Opening(d)' => row'[d] # row'[c]
      BY <1>1, <3>2, <3>4 DEF Only, Opening
    <3> QED
      BY <3>1, <3>2, <3>3, <3>5 DEF OpeningInv, OneAccountEach
  <2>2. CASE pc'[c] # "insert_user"
    <3>1. pc'[c] = "idle" /\ UNCHANGED accounts
      BY <1>1, <2>2 DEF InsertOrganization, StepWith, End, Goto
    <3> QED
      BY <1>1, <3>1, QuietOpening DEF Only, Opening
  <2> QED
    BY <2>1, <2>2
<1>2. ASSUME NEW c \in Calls, pc[c] = "open", accounts' = Append(accounts, row[c]),
             pc'[c] \in {"link", "ok"}, Only(c)
      PROVE  OpeningInv' /\ OneAccountEach'
  <2> DEFINE n == Len(accounts) + 1
  <2>1. row[c] \in DOMAIN organizations
    BY <1>2 DEF CallsInv, CallOf
  <2>2. /\ DOMAIN accounts' = DOMAIN accounts \union {n} /\ accounts'[n] = row[c]
        /\ \A i \in DOMAIN accounts : accounts'[i] = accounts[i]
    BY <1>2, <2>1, RowAdded
  <2> HIDE DEF n
  <2>3. \A i \in DOMAIN accounts : accounts[i] # row[c]
    BY <1>2 DEF OpeningInv, Opening
  <2>4. OneAccountEach'
    BY <2>2, <2>3 DEF OneAccountEach
  <2>5. ASSUME NEW d \in Calls, Opening(d)'
        PROVE  d # c /\ Opening(d) /\ row'[d] = row[d] /\ row[d] # row[c]
    BY <1>2, <2>5 DEF Opening, Only, OpeningInv
  <2> QED
    BY <2>2, <2>4, <2>5 DEF OpeningInv
<1>3. ASSUME NEW c \in Calls, UNCHANGED accounts, Only(c),
             ~Opening(c)' \/ (InsertUser(c) /\ UNCHANGED row)
      PROVE  OpeningInv' /\ OneAccountEach'
  BY <1>3, QuietOpening DEF Only, Opening, InsertUser
<1>4. ASSUME NEW c \in Calls, Serve(c) \/ Abort(c) \/ Return(c)
      PROVE  OpeningInv' /\ OneAccountEach'
  <2>1. Only(c)
    BY <1>4, QuietStep, RegisterStep, SessionStep, KeyStep, PaymentStep, ReturnStep
       DEF Serve, QuietWork, KeyWork, PaymentWork
  <2>2. CASE InsertOrganization(c)
    BY <1>1, <2>1, <2>2
  <2>3. CASE OpenAccount(c) \/ GoWithoutAccount(c)
    <3>1. pc'[c] \in {"link", "ok"}
      BY <2>3 DEF OpenAccount, GoWithoutAccount, Step, Goto
    <3>2. \/ UNCHANGED accounts
          \/ pc[c] = "open" /\ accounts' = Append(accounts, row[c])
      BY <2>3 DEF OpenAccount, GoWithoutAccount
    <3> QED
      BY <1>2, <1>3, <2>1, <3>1, <3>2 DEF Opening
  <2>4. CASE InsertUser(c)
    BY <1>3, <2>1, <2>4 DEF InsertUser, Step
  <2>5. CASE LinkAccount(c) \/ InsertSession(c) \/ Logout(c) \/ KeyWork(c) \/ PaymentWork(c)
    <3>1. UNCHANGED accounts /\ ~Opening(c)'
      BY <2>5 DEF LinkAccount, InsertSession, Logout, InsertKey, WriteHash, RevokeAPIKey,
                  CreateMockPayment, Topup, CompletePayment, KeyWork, PaymentWork,
                  Step, StepWith, End, Goto, Opening
    <3> QED
      BY <1>3, <2>1, <3>1
  <2>6. CASE QuietWork(c) \/ Return(c)
    <3>1. UNCHANGED accounts
      BY <2>6, QuietStep DEF QuietWork, Return, tables
    <3>2. ~Opening(c)'
      BY <2>6 DEF QuietWork, FindEmail, ReadOrganization, ReadUser, ReadSession, ReadIdentity,
                  Verify, GetBalance, GetSubscription, GetHistory, CreateSubscription,
                  ListAPIKeys, CountKeys, FindPendingPayment, Found, Abort, Return,
                  Step, End, Goto, Opening
    <3> QED
      BY <1>3, <2>1, <3>1, <3>2
  <2> QED
    BY <1>4, <2>2, <2>3, <2>4, <2>5, <2>6 DEF Serve, QuietWork, KeyWork, PaymentWork
<1>5. CASE UNCHANGED <<accounts, pc, row>>
  BY <1>5, QuietOpening DEF Opening
<1>6. ASSUME NEW c \in Calls,
             \/ \E e \in Emails : StartRegister(c, e) \/ StartLogin(c, e)
             \/ \E s \in DOMAIN sessions, op \in Protected,
                   t \in {0} \union DOMAIN keys \union DOMAIN payments : StartProtected(c, s, op, t)
      PROVE  OpeningInv' /\ OneAccountEach'
  BY <1>3, <1>6, BeginStep DEF Opening, tables
<1>7. CASE CabinetNext
  BY <1>4, <1>5, <1>6, <1>7 DEF CabinetNext, OperatorVerifies, SessionExpires, calls
<1>8. CASE GatewayNext \/ UNCHANGED vars
  BY <1>5, <1>8, GatewayStep DEF vars, cabinet, tables, calls
<1> QED
  BY <1>7, <1>8 DEF Next

(* No registration, however it overlaps or stops, opens a second account    *)
(* for an organization.                                                     *)
THEOREM OneAccountCorrect == Spec => []OneAccountEach
<1>1. Init => OpeningInv /\ OneAccountEach
  BY DEF Init, CabinetInit, OpeningInv, Opening, OneAccountEach
<1>2. IInv /\ (OpeningInv /\ OneAccountEach) /\ [Next]_vars => (OpeningInv /\ OneAccountEach)'
  BY OpeningStep
<1> QED
  BY <1>1, <1>2, Invariance, PTL DEF Spec

-----------------------------------------------------------------------------
(* Where each account that a row or a call names comes from.                *)
LEMMA OrganizationRows ==
  ASSUME CInv, CabinetNext, NEW o \in DOMAIN organizations'
  PROVE  \/ organizations'[o].account = 0
         \/ o \in DOMAIN organizations /\ organizations'[o].account = organizations[o].account
         \/ \E c \in Calls : /\ pc[c] = "link" /\ row[c] = o
                             /\ organizations'[o].account = context[c].account
<1> USE DEF CInv, CabinetTypeOK
<1>1. CASE UNCHANGED organizations
  BY <1>1
<1>2. ASSUME NEW c \in Calls, InsertOrganization(c)
      PROVE  \/ o \in DOMAIN organizations /\ organizations'[o] = organizations[o]
             \/ organizations'[o].account = 0
  <2> DEFINE new == [email |-> job[c].email, verified |-> FALSE, account |-> 0]
  <2>1. CASE UNCHANGED organizations
    BY <2>1
  <2>2. CASE organizations' = Append(organizations, new) /\ pc[c] = "insert_org"
    <3>1. job[c].email \in Emails
      BY <2>2 DEF CallsInv, CallOf, Registering
    <3>2. new \in Organization
      BY <3>1 DEF Organization
    <3> QED
      BY <2>2, <3>2, RowAdded
  <2> QED
    BY <1>2, <2>1, <2>2 DEF InsertOrganization
<1>3. ASSUME NEW c \in Calls, LinkAccount(c)
      PROVE  \/ o \in DOMAIN organizations /\ organizations'[o] = organizations[o]
             \/ /\ pc[c] = "link" /\ row[c] = o
                /\ organizations'[o].account = context[c].account
  <2>1. row[c] \in DOMAIN organizations
    BY <1>3 DEF LinkAccount, CallsInv, CallOf
  <2>2. organizations[row[c]] \in Organization
    BY <2>1
  <2> QED
    BY <1>3, <2>1, <2>2 DEF LinkAccount, Organization
<1>4. ASSUME NEW v \in DOMAIN organizations, OperatorVerifies(v)
      PROVE  o \in DOMAIN organizations /\ organizations'[o].account = organizations[o].account
  <2>1. organizations[v] \in Organization
    OBVIOUS
  <2> QED
    BY <1>4, <2>1 DEF OperatorVerifies, Organization
<1>5. ASSUME NEW c \in Calls, Serve(c) \/ Abort(c) \/ Return(c)
      PROVE  UNCHANGED organizations \/ InsertOrganization(c) \/ LinkAccount(c)
  BY <1>5, QuietStep
     DEF Serve, QuietWork, tables, InsertUser, OpenAccount, GoWithoutAccount, InsertSession,
         Logout, InsertKey, WriteHash, RevokeAPIKey, CreateMockPayment, Topup, CompletePayment,
         Return
<1>6. ASSUME NEW c \in Calls, NEW e \in Emails, StartRegister(c, e) \/ StartLogin(c, e)
      PROVE  UNCHANGED organizations
  BY <1>6 DEF StartRegister, StartLogin, Begin, tables
<1>7. ASSUME NEW c \in Calls, NEW s, NEW op, NEW t, StartProtected(c, s, op, t)
      PROVE  UNCHANGED organizations
  BY <1>7 DEF StartProtected, Begin, tables
<1>8. ASSUME NEW s, SessionExpires(s) PROVE UNCHANGED organizations
  BY <1>8 DEF SessionExpires
<1> QED
  BY <1>1, <1>2, <1>3, <1>4, <1>5, <1>6, <1>7, <1>8 DEF CabinetNext

LEMMA SessionRows ==
  ASSUME CInv, CabinetNext, NEW s \in DOMAIN sessions'
  PROVE  \/ /\ s \in DOMAIN sessions /\ sessions'[s].org = sessions[s].org
            /\ sessions'[s].account = sessions[s].account
         \/ \E c \in Calls : /\ sessions'[s].org = context[c].org
                             /\ sessions'[s].account = context[c].account
<1> USE DEF CInv, CabinetTypeOK
<1>1. CASE UNCHANGED sessions
  BY <1>1
<1>2. ASSUME NEW c \in Calls, InsertSession(c)
      PROVE  \/ s \in DOMAIN sessions /\ sessions'[s] = sessions[s]
             \/ /\ sessions'[s].org = context[c].org
                /\ sessions'[s].account = context[c].account
  <2> DEFINE new == [org |-> context[c].org, account |-> context[c].account, live |-> TRUE]
  <2>1. new \in Session
    BY DEF Session
  <2> QED
    BY <1>2, <2>1, RowAdded DEF InsertSession
<1>3. ASSUME NEW i \in DOMAIN sessions, sessions' = [sessions EXCEPT ![i].live = FALSE]
      PROVE  /\ s \in DOMAIN sessions /\ sessions'[s].org = sessions[s].org
             /\ sessions'[s].account = sessions[s].account
  <2>1. sessions[i] \in Session
    OBVIOUS
  <2> QED
    BY <1>3, <2>1 DEF Session
<1>4. ASSUME NEW c \in Calls, Logout(c)
      PROVE  \/ UNCHANGED sessions
             \/ \E i \in DOMAIN sessions : sessions' = [sessions EXCEPT ![i].live = FALSE]
  BY <1>4 DEF Logout, Handles, CallsInv, CallOf, BehindSession
<1>5. ASSUME NEW c \in Calls, Serve(c) \/ Abort(c) \/ Return(c)
      PROVE  UNCHANGED sessions \/ InsertSession(c) \/ Logout(c)
  BY <1>5, QuietStep
     DEF Serve, QuietWork, tables, InsertOrganization, InsertUser, OpenAccount,
         GoWithoutAccount, LinkAccount, InsertKey, WriteHash, RevokeAPIKey,
         CreateMockPayment, Topup, CompletePayment, Return
<1>6. ASSUME NEW c \in Calls, NEW e \in Emails, StartRegister(c, e) \/ StartLogin(c, e)
      PROVE  UNCHANGED sessions
  BY <1>6 DEF StartRegister, StartLogin, Begin, tables
<1>7. ASSUME NEW c \in Calls, NEW i, NEW op, NEW t, StartProtected(c, i, op, t)
      PROVE  UNCHANGED sessions
  BY <1>7 DEF StartProtected, Begin, tables
<1>8. ASSUME NEW o, OperatorVerifies(o) PROVE UNCHANGED sessions
  BY <1>8 DEF OperatorVerifies
<1>9. ASSUME NEW i \in DOMAIN sessions, SessionExpires(i)
      PROVE  sessions' = [sessions EXCEPT ![i].live = FALSE]
  BY <1>9 DEF SessionExpires
<1> QED
  BY <1>1, <1>2, <1>3, <1>4, <1>5, <1>6, <1>7, <1>8, <1>9 DEF CabinetNext

LEMMA PaymentRows ==
  ASSUME CInv, CabinetNext, NEW p \in DOMAIN payments'
  PROVE  \/ /\ p \in DOMAIN payments /\ payments'[p].org = payments[p].org
            /\ payments'[p].account = payments[p].account
         \/ \E c \in Calls : /\ payments'[p].org = context[c].org
                             /\ payments'[p].account = context[c].account
<1> USE DEF CInv, CabinetTypeOK
<1>1. CASE UNCHANGED payments
  BY <1>1
<1>2. ASSUME NEW c \in Calls, CreateMockPayment(c)
      PROVE  \/ p \in DOMAIN payments /\ payments'[p] = payments[p]
             \/ /\ payments'[p].org = context[c].org
                /\ payments'[p].account = context[c].account
  <2> DEFINE new == [org |-> context[c].org, account |-> context[c].account,
                     status |-> "pending", topups |-> 0]
  <2>1. new \in MockPayment
    BY DEF MockPayment
  <2> QED
    BY <1>2, <2>1, RowAdded DEF CreateMockPayment
<1>3. ASSUME NEW c \in Calls, Topup(c) \/ CompletePayment(c)
      PROVE  /\ p \in DOMAIN payments /\ payments'[p].org = payments[p].org
             /\ payments'[p].account = payments[p].account
  <2>1. job[c].target \in DOMAIN payments
    BY <1>3 DEF Topup, CompletePayment, CallsInv, CallOf, BehindSession
  <2>2. payments[job[c].target] \in MockPayment
    BY <2>1
  <2>3. CASE Topup(c)
    BY <2>1, <2>2, <2>3 DEF Topup, MockPayment
  <2>4. CASE CompletePayment(c)
    BY <2>1, <2>2, <2>4 DEF CompletePayment, MockPayment
  <2> QED
    BY <1>3, <2>3, <2>4
<1>4. ASSUME NEW c \in Calls, Serve(c) \/ Abort(c) \/ Return(c)
      PROVE  UNCHANGED payments \/ CreateMockPayment(c) \/ Topup(c) \/ CompletePayment(c)
  BY <1>4, QuietStep
     DEF Serve, QuietWork, tables, InsertOrganization, InsertUser, OpenAccount,
         GoWithoutAccount, LinkAccount, InsertSession, Logout, InsertKey, WriteHash,
         RevokeAPIKey, Return
<1>5. ASSUME NEW c \in Calls, NEW e \in Emails, StartRegister(c, e) \/ StartLogin(c, e)
      PROVE  UNCHANGED payments
  BY <1>5 DEF StartRegister, StartLogin, Begin, tables
<1>6. ASSUME NEW c \in Calls, NEW i, NEW op, NEW t, StartProtected(c, i, op, t)
      PROVE  UNCHANGED payments
  BY <1>6 DEF StartProtected, Begin, tables
<1>7. ASSUME NEW o, OperatorVerifies(o) \/ SessionExpires(o) PROVE UNCHANGED payments
  BY <1>7 DEF OperatorVerifies, SessionExpires
<1> QED
  BY <1>1, <1>2, <1>3, <1>4, <1>5, <1>6, <1>7 DEF CabinetNext

LEMMA Contexts ==
  ASSUME CInv, CabinetNext, NEW c \in Calls
  PROVE  \/ context'[c] = context[c] \/ context'[c] = Nobody
         \/ \E o \in DOMAIN organizations :
              context'[c] = [org |-> o, account |-> AccountOf(o)]
         \/ \E s \in DOMAIN sessions :
              context'[c] = [org |-> sessions[s].org, account |-> sessions[s].account]
         \/ \E i \in DOMAIN accounts' :
              context'[c] = [org |-> accounts'[i], account |-> i]
<1> USE DEF CInv, CabinetTypeOK
<1>1. ASSUME End(c) PROVE context'[c] = Nobody
  BY <1>1 DEF End
<1>2. ASSUME ReadOrganization(c)
      PROVE  \/ context'[c] = Nobody
             \/ \E o \in DOMAIN organizations :
                  context'[c] = [org |-> o, account |-> AccountOf(o)]
  <2> DEFINE found == {o \in OrganizationOf(job[c].email) : organizations[o].verified}
             o == CHOOSE o \in found : TRUE
  <2>1. CASE found # {}
    <3>1. o \in DOMAIN organizations
      BY <2>1 DEF OrganizationOf
    <3>2. context' = [context EXCEPT ![c] = [org |-> o, account |-> AccountOf(o)]]
      BY <1>2, <2>1 DEF ReadOrganization
    <3> QED
      BY <3>1, <3>2
  <2>2. CASE found = {}
    BY <1>1, <1>2, <2>2 DEF ReadOrganization
  <2> QED
    BY <2>1, <2>2
<1>3. ASSUME ReadIdentity(c)
      PROVE  \/ \E o \in DOMAIN organizations :
                  context'[c] = [org |-> o, account |-> AccountOf(o)]
             \/ \E s \in DOMAIN sessions :
                  context'[c] = [org |-> sessions[s].org, account |-> sessions[s].account]
  <2> DEFINE i == job[c].session
             s == sessions[i]
  <2>1. i \in DOMAIN sessions
    BY <1>3 DEF ReadIdentity, CallsInv, CallOf, BehindSession
  <2>2. s.org \in DOMAIN organizations
    BY <2>1 DEF RowsInv
  <2>3. context'[c] = [org |-> s.org,
           account |-> IF AccountOf(s.org) # 0 THEN AccountOf(s.org) ELSE s.account]
    BY <1>3 DEF ReadIdentity
  <2> QED
    BY <2>1, <2>2, <2>3
<1>4. ASSUME OpenAccount(c)
      PROVE  \E i \in DOMAIN accounts' : context'[c] = [org |-> accounts'[i], account |-> i]
  <2>1. row[c] \in DOMAIN organizations
    BY <1>4 DEF OpenAccount, CallsInv, CallOf
  <2>2. /\ Len(accounts) + 1 \in DOMAIN accounts' /\ accounts'[Len(accounts) + 1] = row[c]
        /\ context'[c] = [org |-> row[c], account |-> Len(accounts) + 1]
    BY <1>4, <2>1, RowAdded DEF OpenAccount
  <2> QED
    BY <2>2
<1>5. ASSUME Serve(c) \/ Abort(c) \/ Return(c)
      PROVE  UNCHANGED context \/ End(c) \/ ReadOrganization(c) \/ ReadIdentity(c) \/ OpenAccount(c)
  BY <1>5
     DEF Serve, FindEmail, InsertOrganization, InsertUser, GoWithoutAccount, LinkAccount,
         ReadUser, InsertSession, ReadSession, Logout, Verify, GetBalance, GetSubscription,
         GetHistory, CreateSubscription, ListAPIKeys, CountKeys, InsertKey, WriteHash,
         RevokeAPIKey, CreateMockPayment, FindPendingPayment, Found, Topup, CompletePayment,
         Abort, Return, Step, StepWith
<1>6. ASSUME NEW d \in Calls, d # c, Serve(d) \/ Abort(d) \/ Return(d)
      PROVE  context'[c] = context[c]
  BY <1>6, QuietStep, RegisterStep, SessionStep, KeyStep, PaymentStep, ReturnStep
     DEF Serve, QuietWork, KeyWork, PaymentWork, Only
<1>7. ASSUME NEW d \in Calls, NEW e \in Emails, StartRegister(d, e) \/ StartLogin(d, e)
      PROVE  UNCHANGED context
  BY <1>7 DEF StartRegister, StartLogin, Begin
<1>8. ASSUME NEW d \in Calls, NEW i, NEW op, NEW t, StartProtected(d, i, op, t)
      PROVE  UNCHANGED context
  BY <1>8 DEF StartProtected, Begin
<1>9. ASSUME NEW o, OperatorVerifies(o) \/ SessionExpires(o) PROVE UNCHANGED context
  BY <1>9 DEF OperatorVerifies, SessionExpires, calls
<1>10. ASSUME Serve(c) \/ Abort(c) \/ Return(c)
       PROVE  \/ context'[c] = context[c] \/ context'[c] = Nobody
              \/ ReadOrganization(c) \/ ReadIdentity(c) \/ OpenAccount(c)
  BY <1>1, <1>5, <1>10
<1>11. CASE Serve(c) \/ Abort(c) \/ Return(c)
  BY <1>2, <1>3, <1>4, <1>10, <1>11
<1>12. CASE ~(Serve(c) \/ Abort(c) \/ Return(c))
  BY <1>6, <1>7, <1>8, <1>9, <1>12 DEF CabinetNext
<1> QED
  BY <1>11, <1>12

-----------------------------------------------------------------------------
(* An organization keeps the account that is its own.                       *)
LEMMA OwnStep ==
  ASSUME IInv, OwnAccount, [Next]_vars
  PROVE  OwnAccount'
<1> USE DEF IInv, CInv
<1>1. CASE CabinetNext
  <2>1. Kept
    BY <1>1, CabinetStep
  <2>2. ASSUME NEW o, NEW i, Owns(o, i) PROVE Owns(o, i)'
    BY <2>1, <2>2 DEF Owns, Kept
  <2>3. \A c \in Calls : Owns(context[c].org, context[c].account)'
    <3>1. ASSUME NEW c \in Calls PROVE Owns(context[c].org, context[c].account)'
      <4>1. CASE context'[c] = context[c]
        BY <2>2, <4>1 DEF OwnAccount
      <4>2. CASE context'[c] = Nobody
        BY <4>2 DEF Nobody, Owns
      <4>3. ASSUME NEW o \in DOMAIN organizations,
                   context'[c] = [org |-> o, account |-> AccountOf(o)]
            PROVE  Owns(context[c].org, context[c].account)'
        <5>1. Owns(o, AccountOf(o))
          BY DEF OwnAccount
        <5> QED
          BY <2>1, <4>3, <5>1 DEF Owns, Kept
      <4>4. ASSUME NEW s \in DOMAIN sessions,
                   context'[c] = [org |-> sessions[s].org, account |-> sessions[s].account]
            PROVE  Owns(context[c].org, context[c].account)'
        <5>1. Owns(sessions[s].org, sessions[s].account)
          BY DEF OwnAccount
        <5> QED
          BY <2>1, <4>4, <5>1 DEF Owns, Kept
      <4>5. ASSUME NEW i \in DOMAIN accounts',
                   context'[c] = [org |-> accounts'[i], account |-> i]
            PROVE  Owns(context[c].org, context[c].account)'
        BY <4>5 DEF Owns
      <4> QED
        BY <1>1, <4>1, <4>2, <4>3, <4>4, <4>5, Contexts
    <3> QED
      BY <3>1
  <2>4. \A o \in DOMAIN organizations' : Owns(o, AccountOf(o))'
    <3>1. ASSUME NEW o \in DOMAIN organizations' PROVE Owns(o, AccountOf(o))'
      <4>1. CASE organizations'[o].account = 0
        BY <4>1 DEF AccountOf, Owns
      <4>2. CASE /\ o \in DOMAIN organizations
                 /\ organizations'[o].account = organizations[o].account
        BY <2>1, <4>2 DEF OwnAccount, AccountOf, Owns, Kept
      <4>3. ASSUME NEW c \in Calls, pc[c] = "link", row[c] = o,
                   organizations'[o].account = context[c].account
            PROVE  Owns(o, AccountOf(o))'
        BY <2>1, <4>3 DEF CallsInv, CallOf, AccountOf, Owns, Kept
      <4> QED
        BY <1>1, <4>1, <4>2, <4>3, OrganizationRows
    <3> QED
      BY <3>1
  <2>5. \A s \in DOMAIN sessions' : Owns(sessions[s].org, sessions[s].account)'
    BY <1>1, <2>1, SessionRows DEF OwnAccount, Owns, Kept
  <2>6. \A p \in DOMAIN payments' : Owns(payments[p].org, payments[p].account)'
    BY <1>1, <2>1, PaymentRows DEF OwnAccount, Owns, Kept
  <2> QED
    BY <2>3, <2>4, <2>5, <2>6 DEF OwnAccount
<1>2. CASE UNCHANGED cabinet
  BY <1>2 DEF OwnAccount, Owns, AccountOf, cabinet, tables, calls
<1> QED
  BY <1>1, <1>2, GatewayStep DEF Next, vars

LEMMA OwnInvariance == Spec => []OwnAccount
<1>1. Init => OwnAccount
  BY DEF Init, CabinetInit, OwnAccount, Owns, Nobody
<1> QED
  BY <1>1, OwnStep, Invariance, PTL DEF Spec

(* Whatever fails or overlaps in Register, an organization, its sessions,   *)
(* its calls and its payments name no account but the one opened for it.    *)
THEOREM OwnAccountCorrect == Spec => []OwnAccount
BY OwnInvariance

(* What the gateway has put into a request for /accounts/me/.               *)
Mine(q) == /\ sent[q].account \in DOMAIN accounts
           /\ accounts[sent[q].account] = values[q].org

MeInv ==
  \A q \in Requests :
    asked[q].path \in MyPaths =>
      /\ phase[q] \in {"send", "sent"} => Mine(q)
      /\ phase[q] = "sent" => sent[q].service = "billing"

LEMMA MeStep ==
  ASSUME IInv, OwnAccount, MeInv, [Next]_vars
  PROVE  MeInv'
<1> USE DEF IInv, TypeOK
<1>1. CASE UNCHANGED gateway /\ Kept
  <2>1. ASSUME NEW q \in Requests, Mine(q) PROVE Mine(q)'
    BY <1>1, <2>1 DEF Mine, Kept, gateway
  <2> QED
    BY <1>1, <2>1 DEF MeInv, gateway
<1>2. ASSUME NEW q \in Requests, UNCHANGED accounts,
             \/ phase'[q] \notin {"send", "sent"}
             \/ asked'[q].path \notin MyPaths
             \/ Mine(q)' /\ (phase'[q] = "sent" => sent'[q].service = "billing"),
             \A r \in Requests \ {q} : /\ phase'[r] = phase[r] /\ asked'[r] = asked[r]
                                       /\ values'[r] = values[r] /\ sent'[r] = sent[r]
      PROVE  MeInv'
  BY <1>2 DEF MeInv, Mine
<1>3. ASSUME NEW q \in Requests, Finish(q) PROVE MeInv'
  BY <1>2, <1>3 DEF Finish, Move, cabinet, tables
<1>4. ASSUME NEW q \in Requests, NEW path \in Paths, NEW k, NEW id, Arrive(q, path, k, id) PROVE MeInv'
  BY <1>2, <1>4 DEF Arrive, Move, cabinet, tables
<1>5. ASSUME NEW q \in Requests, ReadKey(q) PROVE MeInv'
  BY <1>2, <1>3, <1>5 DEF ReadKey, Move, cabinet, tables
<1>6. ASSUME NEW q \in Requests, RateLimit(q) PROVE MeInv'
  BY <1>2, <1>6 DEF RateLimit, Move, cabinet, tables
<1>7. ASSUME NEW q \in Requests, ResolveMe(q) PROVE MeInv'
  <2>1. CASE ~Finish(q)
    <3>1. /\ phase[q] = "me" /\ phase'[q] = "send" /\ AccountOf(values[q].org) # 0
          /\ sent'[q].account = AccountOf(values[q].org)
          /\ UNCHANGED <<accounts, values, asked>>
      BY <1>7, <2>1 DEF ResolveMe, Move, cabinet, tables
    <3>2. values[q].org \in DOMAIN organizations
      BY <3>1 DEF RequestsInv, RequestOf, ExemptPath, MyPaths, Exempted
    <3>3. Mine(q)'
      BY <3>1, <3>2 DEF OwnAccount, Mine, Owns
    <3> QED
      BY <1>2, <1>7, <2>1, <3>1, <3>3 DEF ResolveMe, Move
  <2> QED
    BY <1>3, <2>1
<1>8. ASSUME NEW q \in Requests, Forward(q) PROVE MeInv'
  <2>1. CASE ~Finish(q)
    <3> DEFINE service == ResolveTarget(asked[q].path)
    <3>1. /\ phase[q] = "send" /\ phase'[q] = "sent" /\ service # None
          /\ sent' = [sent EXCEPT ![q] = [service |-> service, account |-> AccountSeen(q)]]
          /\ UNCHANGED <<accounts, values, asked>>
      BY <1>8, <2>1 DEF Forward, Move, cabinet, tables
    <3>2. asked[q].path \in MyPaths => service = "billing" /\ AccountSeen(q) = sent[q].account
      BY DEF ResolveTarget, AccountSeen, MyPaths, BillingPaths, Recognize
    <3> HIDE DEF service
    <3>3. sent'[q].service = service /\ sent'[q].account = AccountSeen(q)
      BY <3>1
    <3>4. \/ asked'[q].path \notin MyPaths
          \/ Mine(q)' /\ (phase'[q] = "sent" => sent'[q].service = "billing")
      BY <3>1, <3>2, <3>3 DEF MeInv, Mine
    <3> QED
      BY <1>2, <1>8, <2>1, <3>1, <3>4 DEF Forward, Move
  <2> QED
    BY <1>3, <2>1
<1>9. CASE GatewayNext
  BY <1>3, <1>4, <1>5, <1>6, <1>7, <1>8, <1>9 DEF GatewayNext, Answer
<1> QED
  BY <1>1, <1>9, NextInv DEF Next, vars

(* A request for /accounts/me/ reaches the billing service with the account *)
(* of the organization whose key it has (resolveMePath).                    *)
THEOREM MeIsOwnCorrect == Spec => []MeIsOwn
<1>1. Init => MeInv
  BY DEF Init, GatewayInit, MeInv
<1>2. MeInv => MeIsOwn
  BY DEF MeInv, Mine, MeIsOwn
<1> QED
  BY <1>1, <1>2, MeStep, Invariance, OwnInvariance, PTL DEF Spec

-----------------------------------------------------------------------------
(* A payment that no race has touched is in the hands of one call at most,  *)
(* which found it pending, and is credited only by a call that will mark it.*)
OneHand(p) ==
  /\ \A c, d \in Calls : InHand(c, p) /\ InHand(d, p) => c = d
  /\ \A c \in Calls : InHand(c, p) => payments[p].status = "pending"
  /\ payments[p].topups <= 1
  /\ payments[p].status = "pending" /\ payments[p].topups # 0
     => \E c \in Calls : InHand(c, p) /\ pc[c] = "complete"

MockInv == \A p \in DOMAIN payments \ unsure : OneHand(p)

(* It stays so while its row and the calls that have it in hand do.         *)
LEMMA HandKept ==
  ASSUME NEW p, OneHand(p), payments'[p] = payments[p],
         \A c \in Calls : InHand(c, p)' => InHand(c, p),
         \A c \in Calls : InHand(c, p) /\ pc[c] = "complete" => InHand(c, p)' /\ pc'[c] = "complete"
  PROVE  OneHand(p)'
BY DEF OneHand

LEMMA QuietMock ==
  ASSUME MockInv, NEW c \in Calls, Only(c), UNCHANGED <<payments, unsure>>,
         pc[c] \notin {"topup", "complete"}, pc'[c] \notin {"topup", "complete"}
  PROVE  MockInv'
<1>1. \A d \in Calls, p \in DOMAIN payments :
        InHand(d, p)' = InHand(d, p) /\ (InHand(d, p) => pc'[d] = pc[d])
  BY DEF Only, InHand
<1> QED
  BY <1>1, HandKept DEF MockInv

LEMMA ConfirmStep ==
  ASSUME IInv, MockInv, NEW c \in Calls, PaymentWork(c) \/ FindPendingPayment(c) \/ Abort(c)
  PROVE  MockInv'
<1> SUFFICES ASSUME NEW q, q = job[c].target
             PROVE  MockInv'
  OBVIOUS
<1> USE DEF IInv, CInv, CabinetTypeOK
<1>0. CallOf(c) /\ Only(c)
  BY QuietStep, PaymentStep DEF CallsInv, QuietWork
<1>1. ASSUME NEW p \in DOMAIN payments, p # q, payments'[p] = payments[p], OneHand(p),
             UNCHANGED job \/ End(c)
      PROVE  OneHand(p)'
  <2>1. \A d \in Calls : /\ InHand(d, p)' => InHand(d, p)
                         /\ InHand(d, p) => InHand(d, p)' /\ pc'[d] = pc[d]
    BY <1>0, <1>1 DEF Only, InHand, End, Goto
  <2> QED
    BY <1>1, <2>1, HandKept
<1>2. CASE CreateMockPayment(c)
  <2>0. PICK n : n = Len(payments) + 1
    OBVIOUS
  <2> DEFINE new == [org |-> context[c].org, account |-> context[c].account,
                     status |-> "pending", topups |-> 0]
  <2>1. /\ pc[c] = "handle" /\ pc'[c] = "ok" /\ payments' = Append(payments, new)
        /\ UNCHANGED <<job, unsure>>
    BY <1>2 DEF CreateMockPayment, Handles, StepWith, Goto
  <2>2. new \in MockPayment /\ new.status = "pending" /\ new.topups = 0
    BY DEF MockPayment
  <2>3. /\ DOMAIN payments' = DOMAIN payments \union {n} /\ n \notin DOMAIN payments
        /\ payments'[n] = new
        /\ \A p \in DOMAIN payments : payments'[p] = payments[p]
    BY <2>0, <2>1, <2>2, RowAdded
  <2> HIDE DEF new
  <2>4. \A d \in Calls : pc[d] \in {"topup", "complete"} => job[d].target \in DOMAIN payments
    BY DEF CallsInv, CallOf, BehindSession
  <2>5. \A d \in Calls : pc'[d] \in {"topup", "complete"} => job'[d].target \in DOMAIN payments
    BY <1>0, <2>1, <2>4 DEF Only
  <2>6. OneHand(n)'
    <3>1. \A d \in Calls : ~InHand(d, n)'
      BY <2>3, <2>5 DEF InHand
    <3>2. payments'[n].topups = 0
      BY <2>2, <2>3
    <3> QED
      BY <3>1, <3>2 DEF OneHand
  <2>7. ASSUME NEW p \in DOMAIN payments, p \notin unsure PROVE OneHand(p)'
    <3>1. \A d \in Calls : InHand(d, p)' = InHand(d, p) /\ (InHand(d, p) => pc'[d] = pc[d])
      BY <1>0, <2>1 DEF Only, InHand
    <3> QED
      BY <2>3, <2>7, <3>1, HandKept DEF MockInv
  <2> QED
    BY <2>1, <2>3, <2>6, <2>7 DEF MockInv
<1>3. CASE FindPendingPayment(c) /\ Found(c)
  <2>1. /\ pc[c] = "handle" /\ pc'[c] = "topup" /\ UNCHANGED <<job, payments>>
        /\ payments[q].status = "pending" /\ q \in DOMAIN payments
        /\ unsure \subseteq unsure'
        /\ q \notin unsure' => \A d \in Calls : ~InHand(d, q)
    <3>1. pc[c] = "handle" /\ job[c].op = "confirm" /\ Step(c, "topup") /\ UNCHANGED tables
      BY <1>3 DEF FindPendingPayment, Handles, Found
    <3>2. q \in DOMAIN payments
      BY <1>0, <3>1 DEF CallOf, BehindSession
    <3>3. payments[q].status = "pending"
      BY <1>3, <3>1 DEF FindPendingPayment, End, Step, Goto
    <3>4. unsure \subseteq unsure' /\ (q \notin unsure' => \A d \in Calls : ~InHand(d, q))
      BY <1>3 DEF Found
    <3> QED
      BY <3>1, <3>2, <3>3, <3>4 DEF Step, Goto, tables
  <2>2. ASSUME q \notin unsure' PROVE OneHand(q)'
    <3>1. \A d \in Calls : InHand(d, q)' <=> d = c
      BY <1>0, <2>1, <2>2 DEF Only, InHand
    <3>2. payments[q].topups <= 1 /\ payments[q].topups = 0
      <4>1. OneHand(q) /\ payments[q] \in MockPayment
        BY <2>1, <2>2 DEF MockInv
      <4> QED
        BY <2>1, <2>2, <4>1 DEF OneHand
    <3> QED
      BY <2>1, <3>1, <3>2 DEF OneHand
  <2>3. ASSUME NEW p \in DOMAIN payments', p \notin unsure' PROVE OneHand(p)'
    BY <1>1, <2>1, <2>2, <2>3 DEF MockInv
  <2> QED
    BY <2>3 DEF MockInv
<1>4. CASE Topup(c)
  <2> DEFINE new == [payments[q] EXCEPT !.topups = @ + 1]
  <2>1. /\ pc[c] = "topup" /\ payments' = [payments EXCEPT ![q] = new]
        /\ \/ Step(c, "complete") /\ UNCHANGED unsure
           \/ End(c) /\ unsure' = unsure \union {q}
    BY <1>4 DEF Topup
  <2>2. q \in DOMAIN payments /\ payments[q] \in MockPayment
    BY <1>0, <2>1 DEF CallOf, BehindSession
  <2>3. new \in MockPayment /\ new.status = payments[q].status /\ new.topups = payments[q].topups + 1
    <3>1. payments[q].topups + 1 \in Nat
      <4>1. payments[q].topups \in Nat
        BY <2>2, Zenon DEF MockPayment
      <4> QED
        BY <4>1
    <3> QED
      BY <2>2, <3>1 DEF MockPayment
  <2>4. /\ DOMAIN payments' = DOMAIN payments /\ payments'[q] = new
        /\ \A p \in DOMAIN payments \ {q} : payments'[p] = payments[p]
    BY <2>1, <2>2, <2>3, RowSet
  <2> HIDE DEF new
  <2>5. ASSUME q \notin unsure' PROVE OneHand(q)'
    <3>1. /\ Step(c, "complete") /\ UNCHANGED unsure /\ OneHand(q) /\ InHand(c, q)
          /\ pc'[c] = "complete" /\ UNCHANGED job
      BY <2>1, <2>2, <2>5 DEF MockInv, InHand, Step, Goto
    <3>2. \A d \in Calls : InHand(d, q) => d = c
      BY <3>1 DEF OneHand
    <3>3. payments[q].status = "pending" /\ payments[q].topups = 0
      BY <2>1, <3>1, <3>2 DEF OneHand
    <3>4. InHand(c, q)' /\ \A d \in Calls : InHand(d, q)' => d = c
      BY <1>0, <3>1, <3>2 DEF Only, InHand
    <3>5. payments'[q].status = "pending" /\ payments'[q].topups <= 1
      BY <2>3, <2>4, <3>3
    <3> QED
      BY <3>1, <3>4, <3>5 DEF OneHand
  <2>6. ASSUME NEW p \in DOMAIN payments', p \notin unsure' PROVE OneHand(p)'
    BY <1>1, <2>1, <2>4, <2>5, <2>6 DEF MockInv, Step
  <2> QED
    BY <2>6 DEF MockInv
<1>5. CASE CompletePayment(c)
  <2> DEFINE new == [payments[q] EXCEPT !.status = "completed"]
  <2>1. /\ pc[c] = "complete" /\ pc'[c] = "ok" /\ payments' = [payments EXCEPT ![q] = new]
        /\ UNCHANGED <<job, unsure>>
    BY <1>5 DEF CompletePayment, Step, Goto
  <2>2. q \in DOMAIN payments /\ payments[q] \in MockPayment
    BY <1>0, <2>1 DEF CallOf, BehindSession
  <2>3. new \in MockPayment /\ new.status = "completed" /\ new.topups = payments[q].topups
    BY <2>2 DEF MockPayment
  <2>4. /\ DOMAIN payments' = DOMAIN payments /\ payments'[q] = new
        /\ \A p \in DOMAIN payments \ {q} : payments'[p] = payments[p]
    BY <2>1, <2>2, <2>3, RowSet
  <2> HIDE DEF new
  <2>5. ASSUME q \notin unsure PROVE OneHand(q)'
    <3>1. OneHand(q) /\ InHand(c, q)
      BY <2>1, <2>2, <2>5 DEF MockInv, InHand
    <3>2. \A d \in Calls : InHand(d, q) => d = c
      BY <3>1 DEF OneHand
    <3>3. \A d \in Calls : ~InHand(d, q)'
      BY <1>0, <2>1, <3>2 DEF Only, InHand
    <3>4. payments'[q].status = "completed" /\ payments'[q].topups <= 1
      BY <2>3, <2>4, <3>1 DEF OneHand
    <3> QED
      BY <3>3, <3>4 DEF OneHand
  <2>6. ASSUME NEW p \in DOMAIN payments', p \notin unsure' PROVE OneHand(p)'
    BY <1>1, <2>1, <2>4, <2>5, <2>6 DEF MockInv
  <2> QED
    BY <2>6 DEF MockInv
<1>6. ASSUME End(c), UNCHANGED payments,
             unsure' = IF pc[c] = "complete" THEN unsure \union {q} ELSE unsure
      PROVE  MockInv'
  <2>1. ASSUME NEW p \in DOMAIN payments, p \notin unsure' PROVE OneHand(p)'
    <3>1. \A d \in Calls : InHand(d, p)' => InHand(d, p)
      BY <1>0, <1>6 DEF Only, InHand, End, Goto
    <3>2. \A d \in Calls :
            InHand(d, p) /\ pc[d] = "complete" => InHand(d, p)' /\ pc'[d] = "complete"
      BY <1>0, <1>6, <2>1 DEF Only, InHand
    <3>3. OneHand(p)
      BY <1>6, <2>1 DEF MockInv
    <3> QED
      BY <1>6, <3>1, <3>2, <3>3, HandKept
  <2> QED
    BY <1>6, <2>1 DEF MockInv
<1>7. CASE Abort(c)
  BY <1>6, <1>7 DEF Abort, tables
<1>8. CASE FindPendingPayment(c) /\ ~Found(c)
  <2>1. End(c) /\ UNCHANGED <<payments, unsure>> /\ pc[c] = "handle"
    BY <1>8 DEF FindPendingPayment, Handles, tables
  <2> QED
    BY <1>6, <2>1
<1> QED
  BY <1>2, <1>3, <1>4, <1>5, <1>7, <1>8 DEF PaymentWork

LEMMA MockStep ==
  ASSUME IInv, MockInv, [Next]_vars
  PROVE  MockInv'
<1> USE DEF IInv, CInv, CabinetTypeOK
<1>1. ASSUME NEW c \in Calls, Serve(c) \/ Abort(c) \/ Return(c) PROVE MockInv'
  <2>1. CASE PaymentWork(c) \/ FindPendingPayment(c) \/ Abort(c)
    BY <2>1, ConfirmStep
  <2>2. CASE ~(PaymentWork(c) \/ FindPendingPayment(c) \/ Abort(c))
    <3>1. Only(c)
      BY <1>1, QuietStep, RegisterStep, SessionStep, KeyStep, PaymentStep, ReturnStep
         DEF Serve, QuietWork, KeyWork, PaymentWork
    <3>2. /\ UNCHANGED <<payments, unsure>>
          /\ pc[c] \notin {"topup", "complete"} /\ pc'[c] \notin {"topup", "complete"}
      BY <1>1, <2>2
         DEF Serve, PaymentWork, FindEmail, InsertOrganization, InsertUser, OpenAccount,
             GoWithoutAccount, LinkAccount, ReadOrganization, ReadUser, InsertSession,
             ReadSession, ReadIdentity, Logout, Verify, GetBalance, GetSubscription,
             GetHistory, CreateSubscription, ListAPIKeys, CountKeys, InsertKey, WriteHash,
             RevokeAPIKey, Return, Handles, Step, StepWith, End, Goto, tables
    <3> QED
      BY <3>1, <3>2, QuietMock
  <2> QED
    BY <2>1, <2>2
<1>2. ASSUME NEW c \in Calls,
             \/ \E e \in Emails : StartRegister(c, e) \/ StartLogin(c, e)
             \/ \E s \in DOMAIN sessions, op \in Protected,
                   t \in {0} \union DOMAIN keys \union DOMAIN payments : StartProtected(c, s, op, t)
      PROVE  MockInv'
  BY <1>2, BeginStep, QuietMock DEF tables
<1>3. CASE UNCHANGED <<payments, pc, job, unsure>>
  BY <1>3 DEF MockInv, OneHand, InHand
<1>4. CASE CabinetNext
  BY <1>1, <1>2, <1>3, <1>4 DEF CabinetNext, OperatorVerifies, SessionExpires, calls
<1>5. CASE GatewayNext \/ UNCHANGED vars
  BY <1>3, <1>5, GatewayStep DEF vars, cabinet, tables, calls
<1> QED
  BY <1>4, <1>5 DEF Next

(* A confirmed mock payment is credited once, unless two calls confirm it   *)
(* at one time or one stops between the top-up and the UPDATE.              *)
THEOREM MockCorrect == Spec => []MockCreditedOnce
<1>1. Init => MockInv
  BY DEF Init, CabinetInit, MockInv
<1>2. IInv /\ MockInv => MockCreditedOnce
  <2>1. ASSUME IInv, MockInv, NEW p \in DOMAIN payments, p \notin unsure
        PROVE  ~(payments[p].topups > 1)
    <3>1. payments[p] \in MockPayment /\ payments[p].topups <= 1
      BY <2>1 DEF IInv, CInv, CabinetTypeOK, MockInv, OneHand
    <3> QED
      BY <3>1 DEF MockPayment
  <2> QED
    BY <2>1 DEF MockCreditedOnce
<1> QED
  BY <1>1, <1>2, MockStep, Invariance, PTL DEF Spec

=============================================================================
