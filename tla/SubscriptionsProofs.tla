------------------------- MODULE SubscriptionsProofs -------------------------
(***************************************************************************)
(* Proofs about Subscriptions, for any accounts, calls, tariffs and        *)
(* prices: its type invariant, that the balance is the sum of the events,  *)
(* that no account spends more than it has, that a package is paid for,    *)
(* and that a downgrade stands unless a late call wrote its row again.      *)
(***************************************************************************)
EXTENDS Subscriptions, WellFoundedInduction, SequenceTheorems, TLAPS

(* What the step of a call says of the operation it is a part of.           *)
JobOf(c) ==
  /\ pc[c] # "idle" => job[c] \in Jobs
  /\ pc[c] \in {"insert", "charge", "bonus", "ok"} => job[c].op = "create"
  /\ pc[c] \in {"charge", "bonus"} => job[c].method = "balance"
  /\ pc[c] \in {"current", "update", "surcharge"} => job[c].op = "upgrade"
  /\ pc[c] # "idle" /\ job[c].op # "snapshot" => job[c].tariff \in Tariffs
  /\ \/ pc[c] = "update"
     \/ pc[c] \in {"read", "events"} /\ job[c].op = "upgrade"
     => sub[c] \in DOMAIN subscriptions

JobsInv == \A c \in Calls : JobOf(c)

IInv == TypeOK /\ JobsInv

(* A step that does not touch the calls other than c leaves their jobs so.  *)
LEMMA OtherJobs ==
  ASSUME JobsInv, NEW c \in Calls, JobOf(c)',
         DOMAIN subscriptions \subseteq DOMAIN subscriptions',
         \A d \in Calls \ {c} : /\ pc'[d] = pc[d] /\ job'[d] = job[d] /\ sub'[d] = sub[d]
  PROVE  JobsInv'
BY DEF JobsInv, JobOf

LEMMA SameJobs ==
  ASSUME JobsInv, UNCHANGED <<pc, job, sub, subscriptions>>
  PROVE  JobsInv'
BY DEF JobsInv, JobOf

(* A set of numbers that has an upper bound has a greatest one.             *)
LEMMA Greatest ==
  ASSUME NEW n \in Nat, NEW S \in SUBSET (1 .. n), S # {}
  PROVE  \E s \in S : \A z \in S : z <= s
<1> DEFINE T == {n - s : s \in S}
           R == OpToRel(<, Nat)
<1>1. T \subseteq Nat /\ T # {}
  <2>1. T \subseteq Nat
    OBVIOUS
  <2>2. PICK s \in S : TRUE
    OBVIOUS
  <2>3. n - s \in T
    OBVIOUS
  <2> QED
    BY <2>1, <2>3
<1>2. PICK t \in T : \A u \in T : ~(<<u, t>> \in R)
  BY <1>1, NatLessThanWellFounded, WFMin
<1>3. \A u \in T : ~(u < t)
  BY <1>1, <1>2 DEF OpToRel
<1>4. PICK s \in S : t = n - s
  OBVIOUS
<1>5. \A z \in S : z <= s
  BY <1>3, <1>4
<1> QED
  BY <1>5

(* The active subscription is a row of the table.                           *)
LEMMA CurrentIsRow ==
  ASSUME TypeOK, NEW a \in Accounts, Current(a) # 0
  PROVE  Current(a) \in DOMAIN subscriptions
<1> DEFINE mine == {s \in DOMAIN subscriptions : subscriptions[s].account = a}
<1>1. mine # {}
  BY DEF Current
<1>2. Len(subscriptions) \in Nat /\ mine \in SUBSET (1 .. Len(subscriptions))
  BY DEF TypeOK
<1>3. \E s \in mine : \A z \in mine : z <= s
  BY <1>1, <1>2, Greatest
<1>4. Current(a) \in mine
  BY <1>1, <1>3 DEF Current
<1> QED
  BY <1>4

-----------------------------------------------------------------------------
(* Recorded amounts keep the types of what they are added to.               *)
LEMMA RecordTypes ==
  ASSUME TypeOK, NEW a \in Accounts, NEW amounts \in Amounts, Record(a, amounts)
  PROVE  /\ total' \in [Accounts -> Amounts] /\ since' \in [Accounts -> Amounts]
         /\ read' \in [Calls -> Amounts] /\ late' \in [Calls -> BOOLEAN]
<1>1. \A x, y \in Amounts : Plus(x, y) \in Amounts
  BY DEF Plus, Amounts
<1> QED
  BY <1>1 DEF Record, TypeOK

(* So does the end of a call.                                               *)
LEMMA EndCallTypes ==
  ASSUME TypeOK, NEW c \in Calls, EndCall(c)
  PROVE  /\ pc' \in [Calls -> {"idle", "ok"} \union Running]
         /\ job' \in [Calls -> Jobs \union {None}]
         /\ read' \in [Calls -> Amounts] /\ sub' \in [Calls -> Nat]
         /\ plan' \in [Calls -> Tariffs \union {None}]
BY DEF TypeOK, EndCall, Goto, Zero, Amounts

LEMMA EndTypes ==
  ASSUME TypeOK, NEW c \in Calls, End(c)
  PROVE  /\ pc' \in [Calls -> {"idle", "ok"} \union Running]
         /\ job' \in [Calls -> Jobs \union {None}]
         /\ read' \in [Calls -> Amounts] /\ sub' \in [Calls -> Nat]
         /\ plan' \in [Calls -> Tariffs \union {None}]
         /\ late' \in [Calls -> BOOLEAN]
BY EndCallTypes DEF TypeOK, End

(* A call that is over has no job.                                          *)
LEMMA EndJobs ==
  ASSUME IInv, NEW c \in Calls, EndCall(c) \/ End(c),
         DOMAIN subscriptions \subseteq DOMAIN subscriptions'
  PROVE  JobsInv'
<1>1. EndCall(c)
  BY DEF End
<1>2. JobOf(c)'
  BY <1>1 DEF IInv, TypeOK, EndCall, Goto, JobOf
<1> QED
  BY <1>1, <1>2, OtherJobs DEF IInv, TypeOK, EndCall, Goto

(* A sequence keeps its members' type when one of them changes.             *)
LEMMA ExceptAnySeq ==
  ASSUME NEW S, NEW q \in Seq(S), NEW i, NEW x \in S
  PROVE  [q EXCEPT ![i] = x] \in Seq(S)
<1>1. CASE i \in 1 .. Len(q)
  BY <1>1, ExceptSeq
<1>2. CASE i \notin 1 .. Len(q)
  <2>1. q = [k \in 1 .. Len(q) |-> q[k]]
    BY SeqDef
  <2>2. [q EXCEPT ![i] = x] = q
    BY <1>2, <2>1
  <2> QED
    BY <2>2
<1> QED
  BY <1>1, <1>2

LEMMA InitInv == Init => IInv
BY NoneIsNothing DEF Init, IInv, TypeOK, JobsInv, JobOf, Zero, Amounts, Running

(* Every call begins with a job of its own kind.                            *)
Begins(c, step, j) ==
  /\ Start(c, step, j)
  /\ step = "read" => j.op # "upgrade"
  /\ step = "current" => j.op = "upgrade"
  /\ j.op # "snapshot" => j.tariff \in Tariffs

LEMMA BeginsAJob ==
  ASSUME NEW c \in Calls, NEW a \in Accounts,
         \/ StartSnapshot(c, a)
         \/ \E t \in Tariffs, m \in Methods : StartCreate(c, a, t, m) \/ StartUpgrade(c, a, t, m)
  PROVE  \E j \in Jobs, step \in {"read", "current"} : Begins(c, step, j)
<1>1. CASE StartSnapshot(c, a)
  <2> DEFINE j == [op |-> "snapshot", account |-> a, tariff |-> None, method |-> "card"]
  <2>1. j \in Jobs /\ Begins(c, "read", j)
    BY <1>1 DEF StartSnapshot, Jobs, Operations, Methods, Begins
  <2> QED
    BY <2>1
<1>2. ASSUME NEW t \in Tariffs, NEW m \in Methods, StartCreate(c, a, t, m)
      PROVE \E j \in Jobs, step \in {"read", "current"} : Begins(c, step, j)
  <2> DEFINE j == [op |-> "create", account |-> a, tariff |-> t, method |-> m]
  <2>1. j \in Jobs /\ Begins(c, "read", j)
    BY <1>2 DEF StartCreate, Jobs, Operations, Begins
  <2> QED
    BY <2>1
<1>3. ASSUME NEW t \in Tariffs, NEW m \in Methods, StartUpgrade(c, a, t, m)
      PROVE \E j \in Jobs, step \in {"read", "current"} : Begins(c, step, j)
  <2> DEFINE j == [op |-> "upgrade", account |-> a, tariff |-> t, method |-> m]
  <2>1. j \in Jobs /\ Begins(c, "current", j)
    BY <1>3 DEF StartUpgrade, Jobs, Operations, Begins
  <2> QED
    BY <2>1
<1> QED
  BY <1>1, <1>2, <1>3

(* The steps that begin a call.                                             *)
LEMMA StartInv ==
  ASSUME IInv, NEW c \in Calls, NEW a \in Accounts,
         \/ StartSnapshot(c, a)
         \/ \E t \in Tariffs, m \in Methods : StartCreate(c, a, t, m) \/ StartUpgrade(c, a, t, m)
  PROVE  IInv'
<1>1. PICK j \in Jobs, step \in {"read", "current"} : Begins(c, step, j)
  BY BeginsAJob
<1> USE DEF Begins, downgrades
<1>2. TypeOK'
  BY <1>1 DEF IInv, TypeOK, Start, Goto, Running, tables, engine, history
<1>3. JobOf(c)'
  BY <1>1 DEF IInv, TypeOK, Start, Goto, JobOf, Jobs, tables
<1>4. JobsInv'
  BY <1>1, <1>3, OtherJobs DEF IInv, TypeOK, Start, Goto, tables
<1> QED
  BY <1>2, <1>4 DEF IInv

(* The steps of a call that change none of the tables.                      *)
LEMMA ReadInv ==
  ASSUME IInv, NEW c \in Calls,
         \/ ReadSnapshot(c) \/ CheckPrice(c) \/ ReadCurrent(c) \/ CheckDifference(c)
         \/ Surcharge(c) \/ ReadEvents(c) \/ Abort(c) \/ Return(c)
  PROVE  IInv'
<1> USE DEF IInv, downgrades
<1>1. CASE ReadSnapshot(c)
  <2>1. job[c] \in Jobs /\ job[c].account \in Accounts
    BY <1>1 DEF ReadSnapshot, JobsInv, JobOf, Jobs
  <2>2. Balance(job[c].account) \in Amounts
    BY <2>1 DEF Balance, Plus, Amounts, TypeOK
  <2>3. TypeOK'
    <3>1. read' = [read EXCEPT ![c] = Balance(job[c].account)]
      BY <1>1 DEF ReadSnapshot
    <3>2. read' \in [Calls -> Amounts]
      BY <2>2, <3>1 DEF TypeOK
    <3> QED
      BY <1>1, <3>2 DEF ReadSnapshot, Goto, TypeOK, Running, tables, engine, history
  <2>4. JobOf(c)'
    BY <1>1 DEF ReadSnapshot, Goto, TypeOK, JobsInv, JobOf, tables
  <2> QED
    BY <1>1, <2>3, <2>4, OtherJobs DEF ReadSnapshot, Goto, TypeOK, tables
<1>2. CASE CheckPrice(c) /\ Affords(c)
  <2>1. TypeOK'
    <3>1. /\ pc' = [pc EXCEPT ![c] = "insert"] /\ read' = [read EXCEPT ![c] = Zero]
          /\ raced' = [raced EXCEPT ![job[c].account] = @ \/ held[job[c].account] > 0]
          /\ UNCHANGED <<job, sub, plan, late, tables, engine, clean, downgrades>>
      BY <1>2 DEF CheckPrice, Goto
    <3>2. raced' \in [Accounts -> BOOLEAN]
      BY <3>1, Zenon DEF TypeOK
    <3>3. pc' \in [Calls -> {"idle", "ok"} \union Running] /\ read' \in [Calls -> Amounts]
      BY <3>1 DEF TypeOK, Running, Zero, Amounts
    <3> QED
      BY <3>1, <3>2, <3>3 DEF TypeOK, tables, engine
  <2>2. JobOf(c)'
    BY <1>2 DEF CheckPrice, Goto, TypeOK, JobsInv, JobOf, tables
  <2> QED
    BY <1>2, <2>1, <2>2, OtherJobs DEF CheckPrice, Goto, TypeOK, tables
<1>3. CASE ReadCurrent(c) /\ Current(job[c].account) # 0
  <2> DEFINE s == Current(job[c].account)
  <2>1. job[c] \in Jobs /\ job[c].account \in Accounts /\ job[c].op = "upgrade"
        /\ job[c].tariff \in Tariffs /\ pc[c] = "current"
    BY <1>3 DEF ReadCurrent, JobsInv, JobOf, Jobs
  <2>2. s \in DOMAIN subscriptions /\ s \in Nat /\ subscriptions[s] \in Subscription
    BY <1>3, <2>1, CurrentIsRow DEF TypeOK
  <2>3. /\ sub' = [sub EXCEPT ![c] = s]
        /\ \/ plan' = [plan EXCEPT ![c] = job[c].tariff] /\ Goto(c, "update")
           \/ plan' = [plan EXCEPT ![c] = subscriptions[s].next] /\ Goto(c, "read")
        /\ UNCHANGED <<job, read, late, tables, engine, clean, raced, downgrades>>
    BY <1>3 DEF ReadCurrent
  <2>4. subscriptions[s].next \in Tariffs \union {None}
    BY <2>2 DEF Subscription
  <2>5. TypeOK'
    BY <2>1, <2>2, <2>3, <2>4 DEF Goto, TypeOK, Running, tables, engine
  <2>6. JobOf(c)'
    BY <2>1, <2>2, <2>3 DEF Goto, TypeOK, JobsInv, JobOf, tables
  <2> QED
    BY <2>3, <2>5, <2>6, OtherJobs DEF Goto, TypeOK, tables
<1>4. CASE CheckDifference(c) /\ pc'[c] = "update"
  <2>1. /\ pc[c] = "events" /\ job[c].op = "upgrade" /\ Goto(c, "update")
        /\ read' = [read EXCEPT ![c] = Zero]
        /\ UNCHANGED <<job, sub, plan, late, tables, engine, clean, raced, downgrades>>
    BY <1>4 DEF CheckDifference, End, EndCall, Goto, TypeOK
  <2>2. TypeOK'
    BY <2>1 DEF Goto, TypeOK, Running, Zero, Amounts, tables, engine
  <2>3. JobOf(c)'
    BY <2>1 DEF Goto, TypeOK, JobsInv, JobOf, tables
  <2> QED
    BY <2>1, <2>2, <2>3, OtherJobs DEF Goto, TypeOK, tables
<1>5. CASE ReadEvents(c)
  <2>1. TypeOK'
    BY <1>5 DEF ReadEvents, Goto, TypeOK, Running, tables, engine, history
  <2>2. JobOf(c)'
    BY <1>5 DEF ReadEvents, Goto, TypeOK, JobsInv, JobOf, tables
  <2> QED
    BY <1>5, <2>1, <2>2, OtherJobs DEF ReadEvents, Goto, TypeOK, tables
<1>6. CASE End(c) /\ UNCHANGED <<tables, engine, clean, raced, downgrades>>
  <2>1. TypeOK'
    BY <1>6, EndTypes DEF TypeOK, tables, engine
  <2> QED
    BY <1>6, <2>1, EndJobs DEF tables
<1> QED
  BY <1>1, <1>2, <1>3, <1>4, <1>5, <1>6
     DEF CheckPrice, ReadCurrent, CheckDifference, Surcharge, Abort, Return, Goto, TypeOK

(* The steps of a call that write.                                          *)
LEMMA WriteInv ==
  ASSUME IInv, NEW c \in Calls,
         \/ InsertSubscription(c) \/ Charge(c) \/ CreditPackage(c)
         \/ UpdateSubscription(c) \/ WriteSnapshot(c)
  PROVE  IInv'
<1> USE DEF IInv, downgrades
<1>1. CASE InsertSubscription(c)
  <2> DEFINE row == [account |-> job[c].account, tariff |-> job[c].tariff, next |-> None]
  <2>1. pc[c] = "insert" /\ job[c] \in Jobs /\ job[c].op = "create" /\ row \in Subscription
    BY <1>1 DEF InsertSubscription, JobsInv, JobOf, Jobs, Subscription
  <2>2. /\ subscriptions' = Append(subscriptions, row)
        /\ subscriptions' \in Seq(Subscription)
        /\ DOMAIN subscriptions \subseteq DOMAIN subscriptions'
        /\ Len(subscriptions) + 1 \in DOMAIN subscriptions'
        /\ Len(subscriptions) + 1 \in Nat
    BY <1>1, <2>1 DEF InsertSubscription, TypeOK
  <2>3. /\ sub' = [sub EXCEPT ![c] = Len(subscriptions) + 1]
        /\ (Goto(c, "charge") /\ job[c].method = "balance") \/ Goto(c, "ok")
        /\ announced' = Append(announced, None)
        /\ UNCHANGED <<opened, snapshot, since, total, entries, engine, job, read, plan,
                       late, clean, raced, overtaken>>
    BY <1>1 DEF InsertSubscription
  <2>4. TypeOK'
    <3>1. announced' \in Seq(Tariffs \union {None})
      BY <2>3 DEF TypeOK
    <3> QED
      BY <2>2, <2>3, <3>1 DEF Goto, TypeOK, Running, engine
  <2>5. JobOf(c)'
    BY <2>1, <2>2, <2>3 DEF Goto, TypeOK, JobsInv, JobOf
  <2> QED
    BY <2>2, <2>3, <2>4, <2>5, OtherJobs DEF Goto, TypeOK
<1>2. CASE Charge(c)
  <2> DEFINE a == job[c].account
             amounts == [real |-> -BasePrice[job[c].tariff], prepaid |-> 0]
  <2>1. pc[c] = "charge" /\ job[c] \in Jobs /\ job[c].op = "create" /\ a \in Accounts
        /\ job[c].tariff \in Tariffs
    BY <1>2 DEF Charge, JobsInv, JobOf, Jobs
  <2>2. amounts \in Amounts
    BY <2>1, TariffsHavePrices DEF Amounts
  <2>3. /\ Record(a, amounts)
        /\ entries' = entries \union {[type |-> "subscription_charge", sub |-> sub[c]]}
        /\ Goto(c, "bonus") \/ Goto(c, "ok")
        /\ raced' = [raced EXCEPT ![a] = @ \/ \E d \in Calls \ {c} : Checked(d, a)]
        /\ UNCHANGED <<opened, snapshot, subscriptions, engine, job, sub, plan, clean, downgrades>>
    BY <1>2 DEF Charge
  <2>4. entries' \subseteq Entries
    BY <2>3 DEF TypeOK, Entries
  <2>5. raced' \in [Accounts -> BOOLEAN]
    BY <2>3, Zenon DEF TypeOK
  <2>6. pc' \in [Calls -> {"idle", "ok"} \union Running]
    BY <2>3 DEF Goto, TypeOK, Running
  <2>7. TypeOK'
    BY <2>1, <2>2, <2>3, <2>4, <2>5, <2>6, RecordTypes DEF TypeOK, engine
  <2>8. JobOf(c)'
    BY <1>2, <2>1, <2>3 DEF Goto, TypeOK, JobsInv, JobOf
  <2> QED
    BY <2>3, <2>7, <2>8, OtherJobs DEF Goto, TypeOK
<1>3. CASE CreditPackage(c)
  <2> DEFINE a == job[c].account
             amounts == [real |-> 0, prepaid |-> Package[job[c].tariff]]
  <2>1. pc[c] = "bonus" /\ job[c] \in Jobs /\ job[c].op = "create" /\ a \in Accounts
        /\ job[c].tariff \in Tariffs
    BY <1>3 DEF CreditPackage, JobsInv, JobOf, Jobs
  <2>2. amounts \in Amounts
    BY <2>1, TariffsHavePrices DEF Amounts
  <2>3. /\ Record(a, amounts)
        /\ entries' = entries \union {[type |-> "upgrade_bonus", sub |-> sub[c]]}
        /\ Goto(c, "ok")
        /\ UNCHANGED <<opened, snapshot, subscriptions, engine, job, sub, plan, clean, raced, downgrades>>
    BY <1>3 DEF CreditPackage
  <2>4. entries' \subseteq Entries
    BY <2>3 DEF TypeOK, Entries
  <2>5. pc' \in [Calls -> {"idle", "ok"} \union Running]
    BY <2>3 DEF Goto, TypeOK, Running
  <2>6. TypeOK'
    BY <2>1, <2>2, <2>3, <2>4, <2>5, RecordTypes DEF TypeOK, engine
  <2>7. JobOf(c)'
    BY <2>1, <2>3 DEF Goto, TypeOK, JobsInv, JobOf
  <2> QED
    BY <2>3, <2>6, <2>7, OtherJobs DEF Goto, TypeOK
<1>4. CASE UpdateSubscription(c)
  <2>1. /\ pc[c] = "update" /\ sub[c] \in DOMAIN subscriptions
        /\ job[c] \in Jobs /\ job[c].op = "upgrade"
    BY <1>4 DEF UpdateSubscription, JobsInv, JobOf
  <2>2. RowWritten(c) \in Subscription
    <3>1. subscriptions[sub[c]] \in Subscription /\ plan[c] \in Tariffs \union {None}
      BY <2>1 DEF TypeOK
    <3> QED
      BY <3>1 DEF RowWritten, Subscription
  <2>3. /\ subscriptions' = [subscriptions EXCEPT ![sub[c]] = RowWritten(c)]
        /\ \/ Announce(c, sub[c]) /\ EndCall(c)
           \/ /\ overtaken' \subseteq overtaken \union {sub[c]} /\ UNCHANGED announced
              /\ \/ Goto(c, "surcharge") /\ UNCHANGED <<job, read, sub, plan, late>>
                 \/ End(c)
        /\ UNCHANGED <<opened, snapshot, since, total, entries, engine, clean, raced>>
    BY <1>4 DEF UpdateSubscription
  <2>4. subscriptions' \in Seq(Subscription) /\ DOMAIN subscriptions' = DOMAIN subscriptions
    <3>1. subscriptions \in Seq(Subscription) /\ sub[c] \in 1 .. Len(subscriptions)
      BY <2>1 DEF TypeOK
    <3>2. DOMAIN subscriptions' = DOMAIN subscriptions
      BY <2>3
    <3>3. subscriptions' \in Seq(Subscription)
      BY <2>2, <2>3, <3>1, ExceptSeq
    <3> QED
      BY <3>2, <3>3
  <2>5. CASE /\ Goto(c, "surcharge") /\ UNCHANGED <<job, read, sub, plan, late>>
             /\ overtaken' \subseteq overtaken \union {sub[c]} /\ UNCHANGED announced
    <3>1. overtaken' \subseteq Nat
      BY <2>5 DEF TypeOK
    <3>2. TypeOK'
      BY <2>3, <2>4, <2>5, <3>1 DEF Goto, TypeOK, Running, engine
    <3>3. JobOf(c)'
      BY <2>1, <2>4, <2>5 DEF Goto, TypeOK, JobsInv, JobOf
    <3> QED
      BY <2>4, <2>5, <3>2, <3>3, OtherJobs DEF Goto, TypeOK
  <2>6. CASE /\ End(c)
             /\ overtaken' \subseteq overtaken \union {sub[c]} /\ UNCHANGED announced
    <3>1. overtaken' \subseteq Nat
      BY <2>6 DEF TypeOK
    <3>2. TypeOK'
      BY <2>3, <2>4, <2>6, <3>1, EndTypes DEF TypeOK, engine
    <3> QED
      BY <2>4, <2>6, <3>2, EndJobs
  <2>7. CASE Announce(c, sub[c]) /\ EndCall(c)
    <3>1. job[c].tariff \in Tariffs
      BY <2>1 DEF JobsInv, JobOf
    <3>2. announced' \in Seq(Tariffs \union {None})
      BY <2>7, <3>1, ExceptAnySeq DEF Announce, TypeOK
    <3>3. late' \in [Calls -> BOOLEAN] /\ overtaken' \subseteq Nat
      BY <2>7 DEF Announce, TypeOK
    <3>4. TypeOK'
      BY <2>3, <2>4, <2>7, <3>2, <3>3, EndCallTypes DEF TypeOK, engine
    <3> QED
      BY <2>4, <2>7, <3>4, EndJobs
  <2> QED
    BY <2>3, <2>5, <2>6, <2>7
<1>5. CASE WriteSnapshot(c)
  <2> DEFINE a == job[c].account
  <2>1. /\ snapshot' = [snapshot EXCEPT ![a] = read[c]] /\ since' = [since EXCEPT ![a] = Zero]
        /\ clean' = [clean EXCEPT ![a] = @ /\ ~late[c]]
        /\ raced' = [raced EXCEPT ![a] = @ \/ late[c]]
        /\ End(c)
        /\ UNCHANGED <<opened, total, subscriptions, entries, engine, downgrades>>
    BY <1>5 DEF WriteSnapshot
  <2>2. snapshot' \in [Accounts -> Amounts] /\ since' \in [Accounts -> Amounts]
    <3>1. read[c] \in Amounts /\ Zero \in Amounts
      BY DEF TypeOK, Zero, Amounts
    <3> QED
      BY <2>1, <3>1 DEF TypeOK
  <2>3. clean' \in [Accounts -> BOOLEAN] /\ raced' \in [Accounts -> BOOLEAN]
    BY <2>1, Zenon DEF TypeOK
  <2>4. TypeOK'
    BY <2>1, <2>2, <2>3, EndTypes DEF TypeOK, engine
  <2> QED
    BY <2>1, <2>4, EndJobs
<1> QED
  BY <1>1, <1>2, <1>3, <1>4, <1>5

(* The steps of others: accounts, top-ups and the engine.                   *)
LEMMA AccountInv ==
  ASSUME IInv, NEW a \in Accounts,
         \/ OpenAccount(a) \/ OpenSnapshot(a) \/ Hold(a) \/ Use(a) \/ Unhold(a)
         \/ \E n \in Topups : Topup(a, n)
  PROVE  IInv'
<1> USE DEF IInv, downgrades
<1>1. JobsInv'
  BY SameJobs DEF OpenAccount, OpenSnapshot, Hold, Use, Unhold, Topup, calls, tables
<1>2. CASE OpenAccount(a) \/ OpenSnapshot(a)
  BY <1>1, <1>2 DEF OpenAccount, OpenSnapshot, TypeOK, calls, engine, history
<1>3. CASE Hold(a)
  <2>1. raced' = [raced EXCEPT ![a] = @ \/ \E d \in Calls : Checked(d, a)]
    BY <1>3 DEF Hold
  <2>2. raced' \in [Accounts -> BOOLEAN]
    BY <2>1, Zenon DEF TypeOK
  <2> QED
    BY <1>1, <1>3, <2>2, PositiveAmounts DEF Hold, TypeOK, calls, tables
<1>4. CASE Use(a)
  <2>1. [real |-> -UsagePrice, prepaid |-> 0] \in Amounts
    BY PositiveAmounts DEF Amounts
  <2>2. held' \in [Accounts -> Nat]
    BY <1>4, PositiveAmounts DEF Use, TypeOK
  <2> QED
    BY <1>1, <1>4, <2>1, <2>2, RecordTypes DEF Use, TypeOK
<1>5. CASE Unhold(a)
  BY <1>1, <1>5, PositiveAmounts DEF Unhold, TypeOK, calls, tables, history
<1>6. ASSUME NEW n \in Topups, Topup(a, n) PROVE IInv'
  <2>1. [real |-> n, prepaid |-> 0] \in Amounts
    BY PositiveAmounts DEF Amounts
  <2> QED
    BY <1>1, <1>6, <2>1, RecordTypes DEF Topup, TypeOK
<1> QED
  BY <1>2, <1>3, <1>4, <1>5, <1>6

LEMMA NextInv == IInv /\ [Next]_vars => IInv'
<1> SUFFICES ASSUME IInv, [Next]_vars PROVE IInv'
  OBVIOUS
<1>1. CASE UNCHANGED vars
  BY <1>1, SameJobs DEF IInv, TypeOK, vars, tables, engine, calls, history, downgrades
<1>2. CASE Next
  BY <1>2, StartInv, ReadInv, WriteInv, AccountInv DEF Next, Serve
<1> QED
  BY <1>1, <1>2

LEMMA Invariance == Spec => []IInv
BY InitInv, NextInv, PTL DEF Spec

(* Every variable of the service keeps its type: a reservation is never     *)
(* used up twice, and no call runs on a job or a row that it does not have. *)
THEOREM TypeCorrect == Spec => []TypeOK
BY Invariance, PTL DEF IInv

-----------------------------------------------------------------------------
(* What was announced.  A call that holds a row to write it back as it was  *)
(* carries the announcement, unless one came after it read the row or a     *)
(* late call has written the row since.                                     *)
Upgrades(c) == ~IsDowngrade(job[c].tariff, subscriptions[sub[c]])

Carries(c) ==
  HoldsRow(c, sub[c]) =>
    IF Upgrades(c)
    THEN ~late[c] /\ sub[c] \notin overtaken => plan[c] = announced[sub[c]]
    ELSE pc[c] = "update" /\ plan[c] = job[c].tariff

AnnouncedInv ==
  /\ Len(announced) = Len(subscriptions)
  /\ LastDowngradeStands
  /\ \A c \in Calls : Carries(c)

(* Steps that write no row, and let no call take one in hand.               *)
LEMMA QuietRows ==
  ASSUME AnnouncedInv, UNCHANGED <<subscriptions, downgrades>>,
         \A d \in Calls : HoldsRow(d, sub[d])' =>
           /\ HoldsRow(d, sub[d])
           /\ pc'[d] = pc[d] \/ pc[d] \in {"read", "events"}
           /\ job'[d] = job[d] /\ sub'[d] = sub[d] /\ plan'[d] = plan[d] /\ late'[d] = late[d]
  PROVE  AnnouncedInv'
<1>1. ASSUME NEW d \in Calls PROVE Carries(d)'
  <2>1. CASE ~HoldsRow(d, sub[d])'
    BY <2>1 DEF HoldsRow, Carries
  <2>2. CASE HoldsRow(d, sub[d])'
    BY <2>2 DEF HoldsRow, Carries, AnnouncedInv, Upgrades, IsDowngrade, downgrades
  <2> QED
    BY <2>1, <2>2
<1> QED
  BY <1>1 DEF AnnouncedInv, LastDowngradeStands, downgrades

LEMMA InsertRow ==
  ASSUME IInv, AnnouncedInv, NEW c \in Calls, InsertSubscription(c)
  PROVE  AnnouncedInv'
<1> USE DEF IInv
<1> DEFINE row == [account |-> job[c].account, tariff |-> job[c].tariff, next |-> None]
<1>1. /\ subscriptions' = Append(subscriptions, row) /\ announced' = Append(announced, None)
      /\ pc'[c] \in {"charge", "ok"}
      /\ \A d \in Calls \ {c} : pc'[d] = pc[d] /\ sub'[d] = sub[d]
      /\ UNCHANGED <<job, plan, late, overtaken>>
  BY DEF InsertSubscription, Goto, TypeOK
<1>2. /\ Len(announced') = Len(subscriptions')
      /\ \A s \in DOMAIN subscriptions :
           subscriptions'[s] = subscriptions[s] /\ announced'[s] = announced[s]
      /\ DOMAIN subscriptions' = DOMAIN subscriptions \union {Len(subscriptions) + 1}
      /\ subscriptions'[Len(subscriptions) + 1] = row
      /\ announced'[Len(subscriptions) + 1] = None
  BY <1>1 DEF AnnouncedInv, TypeOK
<1>3. LastDowngradeStands'
  <2>1. ASSUME NEW s \in DOMAIN subscriptions', s \notin overtaken
        PROVE  subscriptions'[s].next = announced'[s]
    <3>1. CASE s \in DOMAIN subscriptions
      BY <1>2, <2>1, <3>1 DEF AnnouncedInv, LastDowngradeStands
    <3>2. CASE s = Len(subscriptions) + 1
      BY <1>2, <3>2
    <3> QED
      BY <1>2, <3>1, <3>2
  <2> QED
    BY <1>1, <2>1 DEF LastDowngradeStands
<1>4. ASSUME NEW d \in Calls PROVE Carries(d)'
  <2>1. CASE ~HoldsRow(d, sub[d])'
    BY <2>1 DEF HoldsRow, Carries
  <2>2. CASE HoldsRow(d, sub[d])'
    <3>1. d # c /\ HoldsRow(d, sub[d]) /\ pc'[d] = pc[d] /\ sub'[d] = sub[d]
      BY <1>1, <2>2 DEF HoldsRow
    <3>2. sub[d] \in DOMAIN subscriptions
      BY <3>1 DEF HoldsRow, JobsInv, JobOf
    <3> QED
      BY <1>1, <1>2, <3>1, <3>2 DEF HoldsRow, Carries, AnnouncedInv, Upgrades, IsDowngrade
  <2> QED
    BY <2>1, <2>2
<1> QED
  BY <1>2, <1>3, <1>4 DEF AnnouncedInv

(* The current row is read: as a downgrade it is written with the new       *)
(* tariff, and else written back with what is announced.                    *)
LEMMA ReadRow ==
  ASSUME IInv, AnnouncedInv, NEW c \in Calls, ReadCurrent(c)
  PROVE  AnnouncedInv'
<1> USE DEF IInv
<1> DEFINE s == Current(job[c].account)
<1>1. job[c].account \in Accounts /\ pc[c] = "current"
  BY DEF ReadCurrent, JobsInv, JobOf, Jobs
<1>2. CASE s = 0
  <2>1. /\ pc'[c] = "idle" /\ UNCHANGED <<subscriptions, downgrades>>
        /\ \A d \in Calls \ {c} : /\ pc'[d] = pc[d] /\ job'[d] = job[d] /\ sub'[d] = sub[d]
                                  /\ plan'[d] = plan[d] /\ late'[d] = late[d]
    BY <1>2 DEF ReadCurrent, End, EndCall, Goto, TypeOK, tables
  <2> QED
    BY <2>1, QuietRows DEF HoldsRow
<1>3. CASE s # 0
  <2>1. s \in DOMAIN subscriptions
    BY <1>1, <1>3, CurrentIsRow
  <2>2. /\ sub'[c] = s
        /\ \/ /\ IsDowngrade(job[c].tariff, subscriptions[s])
              /\ plan'[c] = job[c].tariff /\ pc'[c] = "update"
           \/ /\ ~IsDowngrade(job[c].tariff, subscriptions[s])
              /\ plan'[c] = subscriptions[s].next /\ pc'[c] = "read"
        /\ \A d \in Calls \ {c} : pc'[d] = pc[d] /\ sub'[d] = sub[d] /\ plan'[d] = plan[d]
        /\ UNCHANGED <<job, late, subscriptions, announced, overtaken>>
    BY <1>3 DEF ReadCurrent, Goto, TypeOK, tables, downgrades
  <2>3. ASSUME NEW d \in Calls PROVE Carries(d)'
    <3>1. CASE d = c
      BY <2>1, <2>2, <3>1 DEF Carries, Upgrades, IsDowngrade, HoldsRow, AnnouncedInv,
         LastDowngradeStands
    <3>2. CASE d # c
      BY <2>2, <3>2 DEF Carries, Upgrades, IsDowngrade, HoldsRow, AnnouncedInv
    <3> QED
      BY <3>1, <3>2
  <2> QED
    BY <2>2, <2>3 DEF AnnouncedInv, LastDowngradeStands
<1> QED
  BY <1>2, <1>3

(* The row is written.                                                      *)
LEMMA WriteRow ==
  ASSUME IInv, AnnouncedInv, NEW c \in Calls, UpdateSubscription(c)
  PROVE  AnnouncedInv'
<1> USE DEF IInv
<1> DEFINE s == sub[c]
<1>1. /\ pc[c] = "update" /\ s \in DOMAIN subscriptions /\ job[c].op = "upgrade"
      /\ subscriptions' = [subscriptions EXCEPT ![s] = RowWritten(c)]
  BY DEF UpdateSubscription, JobsInv, JobOf
<1>2. /\ DOMAIN subscriptions' = DOMAIN subscriptions /\ Len(subscriptions') = Len(subscriptions)
      /\ \A k \in DOMAIN subscriptions : subscriptions'[k].tariff = subscriptions[k].tariff
      /\ subscriptions'[s].next = plan[c]
      /\ \A k \in DOMAIN subscriptions \ {s} : subscriptions'[k] = subscriptions[k]
  BY <1>1 DEF RowWritten, TypeOK
<1>3. \A d \in Calls : HoldsRow(d, sub[d]) => sub[d] \in DOMAIN subscriptions
  BY DEF HoldsRow, JobsInv, JobOf
<1>4. CASE Announce(c, s) /\ EndCall(c) /\ IsDowngrade(job[c].tariff, subscriptions[s])
  <2>1. /\ announced' = [announced EXCEPT ![s] = job[c].tariff]
        /\ overtaken' = overtaken \ {s}
        /\ pc'[c] = "idle"
        /\ \A d \in Calls \ {c} : /\ pc'[d] = pc[d] /\ job'[d] = job[d] /\ sub'[d] = sub[d]
                                  /\ plan'[d] = plan[d]
                                  /\ late'[d] = (late[d] \/ HoldsRow(d, s))
    BY <1>4 DEF Announce, EndCall, Goto, TypeOK
  <2>2. plan[c] = job[c].tariff
    BY <1>1, <1>4 DEF AnnouncedInv, Carries, Upgrades, HoldsRow
  <2>3. /\ Len(announced') = Len(subscriptions')
        /\ announced'[s] = plan[c]
        /\ \A k \in DOMAIN subscriptions \ {s} : announced'[k] = announced[k]
    BY <1>1, <1>2, <2>1, <2>2 DEF AnnouncedInv, TypeOK
  <2>4. LastDowngradeStands'
    BY <1>2, <2>1, <2>3 DEF AnnouncedInv, LastDowngradeStands
  <2>5. ASSUME NEW d \in Calls PROVE Carries(d)'
    <3>1. CASE ~HoldsRow(d, sub[d])'
      BY <3>1 DEF HoldsRow, Carries
    <3>2. CASE HoldsRow(d, sub[d])'
      <4>1. d # c /\ HoldsRow(d, sub[d])
        BY <2>1, <3>2 DEF HoldsRow
      <4>2. sub[d] \in DOMAIN subscriptions
        BY <1>3, <4>1
      <4>3. Upgrades(d)' = Upgrades(d)
        BY <1>2, <2>1, <4>1, <4>2 DEF Upgrades, IsDowngrade
      <4>4. Carries(d)
        BY DEF AnnouncedInv
      <4>5. CASE sub[d] = s
        BY <2>1, <4>1, <4>3, <4>4, <4>5 DEF Carries, HoldsRow
      <4>6. CASE sub[d] # s
        <5>1. announced'[sub[d]] = announced[sub[d]]
          BY <2>3, <4>2, <4>6
        <5>2. sub[d] \notin overtaken' => sub[d] \notin overtaken
          BY <2>1, <4>6
        <5> QED
          BY <2>1, <4>1, <4>3, <4>4, <5>1, <5>2 DEF Carries, HoldsRow
      <4> QED
        BY <4>5, <4>6
    <3> QED
      BY <3>1, <3>2
  <2> QED
    BY <2>3, <2>4, <2>5 DEF AnnouncedInv
<1>5. CASE /\ Upgrades(c) /\ UNCHANGED announced
           /\ overtaken' = IF late[c] THEN overtaken \union {s} ELSE overtaken
           /\ \/ Goto(c, "surcharge") /\ UNCHANGED <<job, read, sub, plan, late>>
              \/ End(c)
  <2>1. /\ pc'[c] \in {"surcharge", "idle"}
        /\ \A d \in Calls \ {c} : /\ pc'[d] = pc[d] /\ job'[d] = job[d] /\ sub'[d] = sub[d]
                                  /\ plan'[d] = plan[d] /\ late'[d] = late[d]
    BY <1>5 DEF End, EndCall, Goto, TypeOK
  <2>2. s \notin overtaken' => plan[c] = announced[s]
    BY <1>1, <1>5 DEF AnnouncedInv, Carries, HoldsRow
  <2>3. \A k \in Nat : k \notin overtaken' => k \notin overtaken
    BY <1>5
  <2>4. LastDowngradeStands'
    <3>1. ASSUME NEW k \in DOMAIN subscriptions, k \notin overtaken'
          PROVE  subscriptions'[k].next = announced[k]
      <4>1. k \notin overtaken
        BY <1>5, <3>1
      <4>2. CASE k = s
        BY <1>2, <2>2, <3>1, <4>2
      <4>3. CASE k # s
        BY <1>2, <4>1, <4>3 DEF AnnouncedInv, LastDowngradeStands
      <4> QED
        BY <4>2, <4>3
    <3> QED
      BY <1>2, <1>5, <3>1 DEF LastDowngradeStands
  <2>5. ASSUME NEW d \in Calls PROVE Carries(d)'
    <3>1. CASE ~HoldsRow(d, sub[d])'
      BY <3>1 DEF HoldsRow, Carries
    <3>2. CASE HoldsRow(d, sub[d])'
      <4>1. d # c /\ HoldsRow(d, sub[d])
        BY <2>1, <3>2 DEF HoldsRow
      <4>2. sub[d] \in DOMAIN subscriptions
        BY <1>3, <4>1
      <4>3. Upgrades(d)' = Upgrades(d)
        BY <1>2, <2>1, <4>1, <4>2 DEF Upgrades, IsDowngrade
      <4>4. Carries(d) /\ (sub[d] \notin overtaken' => sub[d] \notin overtaken)
        BY <1>5 DEF AnnouncedInv
      <4> QED
        BY <1>5, <2>1, <4>1, <4>3, <4>4 DEF Carries, HoldsRow
    <3> QED
      BY <3>1, <3>2
  <2> QED
    BY <1>2, <1>5, <2>4, <2>5 DEF AnnouncedInv
<1> QED
  BY <1>4, <1>5 DEF UpdateSubscription, Upgrades

LEMMA AnnouncedStep ==
  ASSUME IInv, AnnouncedInv, [Next]_vars
  PROVE  AnnouncedInv'
<1> USE DEF IInv
<1>1. CASE UNCHANGED vars
  BY <1>1, QuietRows DEF vars, tables, calls, history, HoldsRow
<1>2. ASSUME NEW c \in Calls, NEW a \in Accounts,
             \/ StartSnapshot(c, a)
             \/ \E t \in Tariffs, m \in Methods : StartCreate(c, a, t, m) \/ StartUpgrade(c, a, t, m)
      PROVE  AnnouncedInv'
  <2>1. PICK j \in Jobs, step \in {"read", "current"} : Begins(c, step, j)
    BY <1>2, BeginsAJob
  <2>2. /\ pc' = [pc EXCEPT ![c] = step] /\ job' = [job EXCEPT ![c] = j]
        /\ step = "read" => j.op # "upgrade"
        /\ UNCHANGED <<subscriptions, downgrades, sub, plan, late>>
    BY <2>1 DEF Begins, Start, Goto, tables, history
  <2>3. ASSUME NEW d \in Calls, HoldsRow(d, sub[d])' PROVE d # c
    BY <2>2, <2>3 DEF HoldsRow, TypeOK
  <2> QED
    BY <2>2, <2>3, QuietRows DEF HoldsRow, TypeOK
<1>3. ASSUME NEW c \in Calls,
             \/ ReadSnapshot(c) \/ CheckPrice(c) \/ CheckDifference(c) \/ Surcharge(c)
             \/ ReadEvents(c) \/ Abort(c) \/ Return(c) \/ WriteSnapshot(c)
      PROVE  AnnouncedInv'
  <2>1. /\ UNCHANGED <<subscriptions, downgrades>>
        /\ \A d \in Calls \ {c} : /\ pc'[d] = pc[d] /\ job'[d] = job[d] /\ sub'[d] = sub[d]
                                  /\ plan'[d] = plan[d] /\ late'[d] = late[d]
        /\ \/ pc'[c] \notin {"read", "events", "update"}
           \/ /\ pc[c] \in {"read", "events"} /\ job'[c] = job[c] /\ sub'[c] = sub[c]
              /\ plan'[c] = plan[c] /\ late'[c] = late[c]
    BY <1>3 DEF ReadSnapshot, CheckPrice, CheckDifference, Surcharge, ReadEvents, Abort,
       Return, WriteSnapshot, End, EndCall, Goto, TypeOK, tables, history
  <2> QED
    BY <2>1, QuietRows DEF HoldsRow
<1>4. ASSUME NEW c \in Calls, Charge(c) \/ CreditPackage(c) PROVE AnnouncedInv'
  <2>1. /\ UNCHANGED <<subscriptions, downgrades, job, sub, plan>>
        /\ pc'[c] \in {"bonus", "ok"} /\ \A d \in Calls \ {c} : pc'[d] = pc[d]
        /\ \A d \in Calls : pc[d] # "write" => late'[d] = late[d]
    BY <1>4 DEF Charge, CreditPackage, Record, Goto, TypeOK
  <2> QED
    BY <2>1, QuietRows DEF HoldsRow
<1>5. ASSUME NEW a \in Accounts, OpenAccount(a) \/ OpenSnapshot(a) \/ Hold(a) \/ Unhold(a)
      PROVE  AnnouncedInv'
  BY <1>5, QuietRows DEF OpenAccount, OpenSnapshot, Hold, Unhold, tables, calls, history, HoldsRow
<1>6. ASSUME NEW a \in Accounts, Use(a) \/ \E n \in Topups : Topup(a, n) PROVE AnnouncedInv'
  <2>1. /\ UNCHANGED <<subscriptions, downgrades, pc, job, sub, plan>>
        /\ \A d \in Calls : pc[d] # "write" => late'[d] = late[d]
    BY <1>6 DEF Use, Topup, Record, TypeOK
  <2> QED
    BY <2>1, QuietRows DEF HoldsRow
<1> QED
  BY <1>1, <1>2, <1>3, <1>4, <1>5, <1>6, InsertRow, ReadRow, WriteRow DEF Next, Serve

LEMMA AnnouncedInvariance == Spec => []AnnouncedInv
<1>1. Init => AnnouncedInv
  BY DEF Init, AnnouncedInv, LastDowngradeStands, Carries, HoldsRow
<1> QED
  BY <1>1, AnnouncedStep, Invariance, PTL DEF Spec

(* The last downgrade announced for a subscription stands, however upgrades *)
(* of it overlap and stop, until one that read the row before it writes.    *)
THEOREM LastDowngradeCorrect == Spec => []LastDowngradeStands
BY AnnouncedInvariance, PTL DEF AnnouncedInv

-----------------------------------------------------------------------------
(* The balance.  A call that has the amounts to write, or is reading them,  *)
(* knows the sum of all events while no one wrote a snapshot late.          *)
Knows(c) == pc[c] = "events" \/ (pc[c] = "write" /\ ~late[c])

KnowsTotal ==
  \A c \in Calls : Knows(c) /\ clean[job[c].account] => read[c] = total[job[c].account]

BalanceInv == BalanceIsSumOfEvents /\ KnowsTotal

LEMMA PlusAssociative ==
  ASSUME NEW x \in Amounts, NEW y \in Amounts, NEW z \in Amounts
  PROVE  Plus(x, Plus(y, z)) = Plus(Plus(x, y), z)
BY DEF Plus, Amounts

(* Steps that no snapshot and no event is written by.                       *)
LEMMA QuietBalance ==
  ASSUME BalanceInv, UNCHANGED <<snapshot, since, total, clean>>,
         \A d \in Calls : Knows(d)' => Knows(d) /\ read'[d] = read[d] /\ job'[d] = job[d]
  PROVE  BalanceInv'
BY DEF BalanceInv, BalanceIsSumOfEvents, KnowsTotal, Balance, Recalculated

(* An event is added to both sums and to what is being read.                *)
LEMMA RecordBalance ==
  ASSUME IInv, BalanceInv, NEW a \in Accounts, NEW amounts \in Amounts,
         Record(a, amounts), UNCHANGED <<snapshot, clean, job>>,
         \A d \in Calls : pc'[d] = pc[d] \/ pc'[d] \notin {"events", "write"}
  PROVE  BalanceInv'
<1> USE DEF IInv
<1>1. /\ total' = [total EXCEPT ![a] = Plus(total[a], amounts)]
      /\ since' = [since EXCEPT ![a] = Plus(since[a], amounts)]
      /\ \A d \in Calls : /\ read'[d] = IF pc[d] = "events" /\ job[d].account = a
                                        THEN Plus(read[d], amounts) ELSE read[d]
                          /\ late'[d] = (late[d] \/ (pc[d] = "write" /\ job[d].account = a))
  BY DEF Record
<1>2. BalanceIsSumOfEvents'
  <2>1. ASSUME NEW b \in Accounts, clean[b] PROVE (Balance(b) = Recalculated(b))'
    <3>1. snapshot[b] \in Amounts /\ since[b] \in Amounts /\ Plus(snapshot[b], since[b]) = total[b]
      BY <2>1 DEF TypeOK, BalanceInv, BalanceIsSumOfEvents, Balance, Recalculated
    <3>2. CASE b = a
      BY <1>1, <3>1, <3>2, PlusAssociative DEF Balance, Recalculated, TypeOK
    <3>3. CASE b # a
      BY <1>1, <3>1, <3>3 DEF Balance, Recalculated, TypeOK
    <3> QED
      BY <3>2, <3>3
  <2> QED
    BY <2>1 DEF BalanceIsSumOfEvents
<1>3. KnowsTotal'
  <2>1. ASSUME NEW d \in Calls, Knows(d)', clean[job[d].account]
        PROVE  read'[d] = total'[job[d].account]
    <3>1. pc'[d] = pc[d] /\ Knows(d) /\ (pc[d] = "write" => job[d].account # a)
      BY <1>1, <2>1 DEF Knows
    <3>2. read[d] = total[job[d].account] /\ job[d] \in Jobs /\ job[d].account \in Accounts
      BY <2>1, <3>1 DEF BalanceInv, KnowsTotal, Knows, JobsInv, JobOf, Jobs
    <3>3. CASE job[d].account = a
      BY <1>1, <3>1, <3>2, <3>3 DEF Knows, TypeOK
    <3>4. CASE job[d].account # a
      BY <1>1, <3>2, <3>4 DEF TypeOK
    <3> QED
      BY <3>3, <3>4
  <2> QED
    BY <2>1 DEF KnowsTotal
<1> QED
  BY <1>2, <1>3 DEF BalanceInv

(* A call that is over knows nothing.                                       *)
LEMMA EndBalance ==
  ASSUME IInv, BalanceInv, NEW c \in Calls, End(c), UNCHANGED <<snapshot, since, total, clean>>
  PROVE  BalanceInv'
BY QuietBalance DEF IInv, TypeOK, End, EndCall, Goto, Knows

LEMMA BalanceStep ==
  ASSUME IInv, BalanceInv, [Next]_vars
  PROVE  BalanceInv'
<1> USE DEF IInv
<1>1. CASE UNCHANGED vars
  BY <1>1, QuietBalance DEF vars, tables, calls, history, Knows
<1>2. ASSUME NEW c \in Calls, NEW step \in {"read", "current"}, NEW j \in Jobs, Start(c, step, j)
      PROVE  BalanceInv'
  <2>1. /\ pc' = [pc EXCEPT ![c] = step]
        /\ \A d \in Calls \ {c} : job'[d] = job[d]
        /\ UNCHANGED <<snapshot, since, total, clean, read, late>>
    BY <1>2 DEF Start, Goto, TypeOK, tables, history
  <2>2. \A d \in Calls : Knows(d)' => Knows(d) /\ job'[d] = job[d]
    BY <2>1 DEF Knows, TypeOK
  <2> QED
    BY <2>1, <2>2, QuietBalance DEF Knows, TypeOK
<1>3. ASSUME NEW c \in Calls, ReadSnapshot(c) PROVE BalanceInv'
  <2>1. /\ pc[c] = "read" /\ pc' = [pc EXCEPT ![c] = "events"]
        /\ read' = [read EXCEPT ![c] = Balance(job[c].account)]
        /\ UNCHANGED <<snapshot, since, total, clean, job, late>>
    BY <1>3 DEF ReadSnapshot, Goto, tables, history
  <2>2. job[c].account \in Accounts
    BY <2>1 DEF JobsInv, JobOf, Jobs
  <2>3. BalanceIsSumOfEvents'
    BY <2>1 DEF BalanceInv, BalanceIsSumOfEvents, Balance, Recalculated
  <2>4. clean[job[c].account] => read'[c] = total[job[c].account]
    BY <2>1, <2>2 DEF TypeOK, BalanceInv, BalanceIsSumOfEvents, Recalculated
  <2>5. \A d \in Calls \ {c} : (Knows(d)' <=> Knows(d)) /\ read'[d] = read[d]
    BY <2>1 DEF Knows, TypeOK
  <2>6. KnowsTotal'
    BY <2>1, <2>4, <2>5 DEF BalanceInv, KnowsTotal
  <2> QED
    BY <2>3, <2>6 DEF BalanceInv
<1>4. ASSUME NEW c \in Calls,
             \/ CheckPrice(c) /\ Affords(c)
             \/ InsertSubscription(c) \/ ReadEvents(c)
             \/ ReadCurrent(c) /\ Current(job[c].account) # 0
             \/ CheckDifference(c) /\ pc'[c] = "update"
             \/ UpdateSubscription(c) /\ pc'[c] = "surcharge"
      PROVE  BalanceInv'
  <2>1. /\ UNCHANGED <<snapshot, since, total, clean, job, late>>
        /\ \A d \in Calls \ {c} : pc'[d] = pc[d] /\ read'[d] = read[d]
        /\ \/ pc'[c] \notin {"events", "write"}
           \/ pc[c] = "events" /\ pc'[c] = "write" /\ read'[c] = read[c]
    BY <1>4 DEF CheckPrice, InsertSubscription, ReadEvents, ReadCurrent, CheckDifference,
       UpdateSubscription, End, EndCall, Goto, TypeOK, tables, history
  <2> QED
    BY <2>1, QuietBalance DEF Knows
<1>5. ASSUME NEW c \in Calls, End(c), UNCHANGED <<snapshot, since, total, clean>>
      PROVE  BalanceInv'
  BY <1>5, EndBalance
<1>6. ASSUME NEW c \in Calls, Charge(c) PROVE BalanceInv'
  <2>1. /\ Record(job[c].account, [real |-> -BasePrice[job[c].tariff], prepaid |-> 0])
        /\ Goto(c, "bonus") \/ Goto(c, "ok")
        /\ UNCHANGED <<snapshot, clean, job>>
    BY <1>6 DEF Charge
  <2>2. job[c].account \in Accounts /\ [real |-> -BasePrice[job[c].tariff], prepaid |-> 0] \in Amounts
    BY <1>6, TariffsHavePrices DEF Charge, JobsInv, JobOf, Jobs, Amounts
  <2> QED
    BY <2>1, <2>2, RecordBalance DEF Goto, TypeOK
<1>7. ASSUME NEW c \in Calls, CreditPackage(c) PROVE BalanceInv'
  <2>1. /\ Record(job[c].account, [real |-> 0, prepaid |-> Package[job[c].tariff]])
        /\ Goto(c, "ok")
        /\ UNCHANGED <<snapshot, clean, job>>
    BY <1>7 DEF CreditPackage
  <2>2. job[c].account \in Accounts /\ [real |-> 0, prepaid |-> Package[job[c].tariff]] \in Amounts
    BY <1>7, TariffsHavePrices DEF CreditPackage, JobsInv, JobOf, Jobs, Amounts
  <2> QED
    BY <2>1, <2>2, RecordBalance DEF Goto, TypeOK
<1>8. ASSUME NEW c \in Calls, WriteSnapshot(c) PROVE BalanceInv'
  <2> DEFINE a == job[c].account
  <2>1. /\ pc[c] = "write" /\ snapshot' = [snapshot EXCEPT ![a] = read[c]]
        /\ since' = [since EXCEPT ![a] = Zero]
        /\ clean' = [clean EXCEPT ![a] = clean[a] /\ ~late[c]]
        /\ End(c) /\ UNCHANGED total
    BY <1>8 DEF WriteSnapshot
  <2>2. a \in Accounts
    BY <2>1 DEF JobsInv, JobOf, Jobs
  <2>3. ASSUME NEW b \in Accounts, clean'[b] PROVE Balance(b)' = total[b]
    <3>1. CASE b = a
      <4>1. clean[a] /\ ~late[c]
        BY <2>1, <2>3, <3>1, Zenon DEF TypeOK
      <4>2. read[c] = total[a] /\ read[c] \in Amounts
        BY <2>1, <4>1 DEF BalanceInv, KnowsTotal, Knows, TypeOK
      <4> QED
        BY <2>1, <2>2, <3>1, <4>2 DEF TypeOK, Balance, Plus, Zero, Amounts
    <3>2. CASE b # a
      <4>1. clean[b]
        BY <2>1, <2>3, <3>2, Zenon DEF TypeOK
      <4> QED
        BY <2>1, <3>2, <4>1 DEF TypeOK, Balance, BalanceInv, BalanceIsSumOfEvents, Recalculated
    <3> QED
      BY <3>1, <3>2
  <2>4. ASSUME NEW d \in Calls, Knows(d)', clean'[job'[d].account]
        PROVE  read'[d] = total[job'[d].account]
    <3>1. d # c /\ pc'[d] = pc[d] /\ job'[d] = job[d] /\ read'[d] = read[d] /\ late'[d] = late[d]
      BY <2>1, <2>4 DEF End, EndCall, Goto, Knows, TypeOK
    <3>2. Knows(d) /\ job[d].account \in Accounts
      BY <2>4, <3>1 DEF Knows, JobsInv, JobOf, Jobs
    <3>3. clean[job[d].account]
      BY <2>1, <2>4, <3>1, <3>2, Zenon DEF TypeOK
    <3> QED
      BY <3>1, <3>2, <3>3 DEF BalanceInv, KnowsTotal
  <2> QED
    BY <2>1, <2>3, <2>4 DEF BalanceInv, BalanceIsSumOfEvents, KnowsTotal, Recalculated
<1>9. ASSUME NEW a \in Accounts, OpenAccount(a) \/ OpenSnapshot(a) \/ Hold(a) \/ Unhold(a)
      PROVE  BalanceInv'
  BY <1>9, QuietBalance DEF OpenAccount, OpenSnapshot, Hold, Unhold, tables, calls, history, Knows
<1>10. ASSUME NEW a \in Accounts, NEW n \in Topups, Topup(a, n) PROVE BalanceInv'
  <2>1. [real |-> n, prepaid |-> 0] \in Amounts
    BY PositiveAmounts DEF Amounts
  <2> QED
    BY <1>10, <2>1, RecordBalance DEF Topup
<1>11. ASSUME NEW a \in Accounts, Use(a) PROVE BalanceInv'
  <2>1. [real |-> -UsagePrice, prepaid |-> 0] \in Amounts
    BY PositiveAmounts DEF Amounts
  <2> QED
    BY <1>11, <2>1, RecordBalance DEF Use
<1>12. ASSUME NEW c \in Calls, EndCall(c), Announce(c, sub[c]),
              UNCHANGED <<snapshot, since, total, clean>>
       PROVE  BalanceInv'
  <2>1. /\ pc'[c] = "idle"
        /\ \A d \in Calls \ {c} : /\ pc'[d] = pc[d] /\ read'[d] = read[d] /\ job'[d] = job[d]
                                  /\ ~late'[d] => ~late[d]
    BY <1>12 DEF EndCall, Goto, Announce, TypeOK
  <2> QED
    BY <1>12, <2>1, QuietBalance DEF Knows
<1>13. ASSUME NEW c \in Calls, Serve(c) \/ Abort(c) \/ Return(c) PROVE BalanceInv'
  BY <1>3, <1>4, <1>5, <1>6, <1>7, <1>8, <1>12, <1>13
     DEF Serve, CheckPrice, ReadCurrent, CheckDifference, UpdateSubscription, Surcharge,
         Abort, Return, Goto, TypeOK, tables
<1>14. ASSUME NEW c \in Calls, NEW a \in Accounts,
              \/ StartSnapshot(c, a)
              \/ \E t \in Tariffs, m \in Methods : StartCreate(c, a, t, m) \/ StartUpgrade(c, a, t, m)
       PROVE  BalanceInv'
  BY <1>2, <1>14, BeginsAJob DEF Begins
<1> QED
  BY <1>1, <1>9, <1>10, <1>11, <1>13, <1>14 DEF Next

LEMMA BalanceInvariance == Spec => []BalanceInv
<1>1. Init => BalanceInv
  BY DEF Init, BalanceInv, BalanceIsSumOfEvents, KnowsTotal, Knows, Balance, Recalculated,
     Plus, Zero
<1> QED
  BY <1>1, BalanceStep, Invariance, PTL DEF Spec

(* GetBalance answers the sum of the events of the account, unless an event *)
(* came between the read and the write of one SnapshotBalance.              *)
THEOREM BalanceCorrect == Spec => []BalanceIsSumOfEvents
BY BalanceInvariance, PTL DEF BalanceInv

-----------------------------------------------------------------------------
(* What an account has.  Where nothing raced, every call that has checked   *)
(* the money for a subscription could still take it alone.                  *)
Free(a) == Balance(a).real - held[a]

Covered(a) ==
  ~raced[a] =>
    /\ clean[a]
    /\ Free(a) >= 0
    /\ \A c \in Calls : Checked(c, a) => Free(a) >= BasePrice[job[c].tariff]

SpendInv == \A a \in Accounts : Covered(a)

(* What every account has is a number.                                      *)
LEMMA FreeIsInt ==
  ASSUME TypeOK, NEW a \in Accounts
  PROVE  /\ Balance(a).real = snapshot[a].real + since[a].real
         /\ Balance(a).real \in Int /\ held[a] \in Int /\ Free(a) \in Int
BY DEF TypeOK, Balance, Free, Plus, Amounts

(* An event changes the balance of its account by its real amount.          *)
LEMMA RecordFree ==
  ASSUME TypeOK, NEW a \in Accounts, NEW amounts \in Amounts, Record(a, amounts),
         UNCHANGED snapshot, NEW b \in Accounts
  PROVE  Balance(b)'.real = Balance(b).real + (IF b = a THEN amounts.real ELSE 0)
<1>1. since'[b] = IF b = a THEN Plus(since[a], amounts) ELSE since[b]
  BY DEF Record, TypeOK
<1>2. since[b] \in Amounts /\ snapshot[b] \in Amounts
  BY DEF TypeOK
<1> QED
  BY <1>1, <1>2 DEF Balance, Plus, Amounts

(* Steps that leave the money and its checks as they are, or end a check.   *)
LEMMA QuietFunds ==
  ASSUME SpendInv, UNCHANGED <<snapshot, since, held, clean, raced>>,
         \A d \in Calls, a \in Accounts :
           Checked(d, a)' => Checked(d, a) /\ job'[d] = job[d]
  PROVE  SpendInv'
BY DEF SpendInv, Covered, Free, Balance

LEMMA SpendStep ==
  ASSUME IInv, BalanceInv, SpendInv, [Next]_vars
  PROVE  SpendInv'
<1> USE DEF IInv
<1>1. CASE UNCHANGED vars
  BY <1>1, QuietFunds DEF vars, tables, engine, calls, history, Checked
<1>2. ASSUME NEW c \in Calls, NEW a \in Accounts,
             \/ StartSnapshot(c, a)
             \/ \E t \in Tariffs, m \in Methods : StartCreate(c, a, t, m) \/ StartUpgrade(c, a, t, m)
      PROVE  SpendInv'
  <2>1. PICK j \in Jobs, step \in {"read", "current"} : Begins(c, step, j)
    BY <1>2, BeginsAJob
  <2>2. /\ pc' = [pc EXCEPT ![c] = step] /\ job' = [job EXCEPT ![c] = j]
        /\ UNCHANGED <<snapshot, since, held, clean, raced>>
    BY <2>1 DEF Begins, Start, Goto, tables, engine, history
  <2> QED
    BY <2>2, QuietFunds DEF Checked, TypeOK
<1>3. ASSUME NEW c \in Calls,
             \/ ReadSnapshot(c) \/ InsertSubscription(c) \/ ReadCurrent(c) \/ CheckDifference(c)
             \/ UpdateSubscription(c) \/ Surcharge(c) \/ ReadEvents(c) \/ Abort(c) \/ Return(c)
      PROVE  SpendInv'
  <2>1. /\ UNCHANGED <<snapshot, since, held, clean, raced>>
        /\ \A d \in Calls \ {c} : pc'[d] = pc[d] /\ job'[d] = job[d]
        /\ \/ pc'[c] \notin {"insert", "charge"}
           \/ pc[c] = "insert" /\ job'[c] = job[c]
    BY <1>3 DEF ReadSnapshot, InsertSubscription, ReadCurrent, CheckDifference,
       UpdateSubscription, Surcharge, ReadEvents, Abort, Return, End, EndCall, Goto, TypeOK,
       tables, engine, history
  <2> QED
    BY <2>1, QuietFunds DEF Checked
<1>4. ASSUME NEW c \in Calls, CheckPrice(c) PROVE SpendInv'
  <2>1. CASE ~Affords(c)
    <3>1. /\ UNCHANGED <<snapshot, since, held, clean, raced>>
          /\ \A d \in Calls \ {c} : pc'[d] = pc[d] /\ job'[d] = job[d]
          /\ pc'[c] = "idle"
      BY <1>4, <2>1 DEF CheckPrice, End, EndCall, Goto, TypeOK, tables, engine
    <3> QED
      BY <3>1, QuietFunds DEF Checked
  <2>2. CASE Affords(c)
    <3> DEFINE a == job[c].account
    <3>1. /\ pc[c] = "events" /\ pc' = [pc EXCEPT ![c] = "insert"]
          /\ raced' = [raced EXCEPT ![a] = raced[a] \/ held[a] > 0]
          /\ UNCHANGED <<snapshot, since, held, clean, job>>
      BY <1>4, <2>2 DEF CheckPrice, Goto, tables, engine
    <3>3. a \in Accounts
      BY <3>1 DEF JobsInv, JobOf, Jobs
    <3>4. ASSUME NEW b \in Accounts, ~raced'[b] PROVE Covered(b)'
      <4>1. ~raced[b] /\ (b = a => ~(held[a] > 0))
        BY <3>1, <3>3, <3>4, Zenon DEF TypeOK
      <4>2. Covered(b) /\ clean[b] /\ Free(b) >= 0 /\ Free(b)' = Free(b)
        BY <3>1, <4>1 DEF SpendInv, Covered, Free, Balance
      <4>3. ASSUME NEW d \in Calls, Checked(d, b)' PROVE Free(b) >= BasePrice[job[d].tariff]
        <5>1. CASE d # c
          BY <3>1, <4>1, <4>2, <4>3, <5>1 DEF Checked, Covered, TypeOK
        <5>2. CASE d = c
          <6>1. b = a /\ job[c].method = "balance"
            BY <3>1, <4>3, <5>2 DEF Checked
          <6>2. read[c].real >= BasePrice[job[c].tariff] /\ read[c] = Balance(b)
            BY <2>2, <3>1, <4>2, <6>1 DEF Affords, BalanceInv, KnowsTotal, Knows,
               BalanceIsSumOfEvents, Recalculated
          <6>3. held[b] = 0
            BY <4>1, <6>1 DEF TypeOK
          <6> QED
            BY <5>2, <6>2, <6>3, FreeIsInt DEF Free
        <5> QED
          BY <5>1, <5>2
      <4> QED
        BY <3>1, <4>2, <4>3 DEF Covered
    <3> QED
      BY <3>4 DEF SpendInv, Covered
  <2> QED
    BY <2>1, <2>2
<1>5. ASSUME NEW c \in Calls, Charge(c) PROVE SpendInv'
  <2> DEFINE a == job[c].account
             amounts == [real |-> -BasePrice[job[c].tariff], prepaid |-> 0]
  <2>1. /\ pc[c] = "charge" /\ Record(a, amounts)
        /\ Goto(c, "bonus") \/ Goto(c, "ok")
        /\ raced' = [raced EXCEPT ![a] = raced[a] \/ \E d \in Calls \ {c} : Checked(d, a)]
        /\ UNCHANGED <<snapshot, clean, job, held>>
    BY <1>5 DEF Charge, engine
  <2>2. /\ pc'[c] \notin {"insert", "charge"}
        /\ \A d \in Calls \ {c} : pc'[d] = pc[d]
    BY <2>1 DEF Goto, TypeOK
  <2>3. a \in Accounts /\ BasePrice[job[c].tariff] \in Nat /\ amounts \in Amounts
    BY <2>1, TariffsHavePrices DEF JobsInv, JobOf, Jobs, Amounts
  <2>4. ASSUME NEW b \in Accounts, ~raced'[b] PROVE Covered(b)'
    <3>1. ~raced[b] /\ (b = a => ~\E d \in Calls \ {c} : Checked(d, a))
      BY <2>1, <2>3, <2>4, Zenon DEF TypeOK
    <3>2. clean[b] /\ Free(b) >= 0
          /\ \A d \in Calls : Checked(d, b) => Free(b) >= BasePrice[job[d].tariff]
      BY <3>1 DEF SpendInv, Covered
    <3>3. \A d \in Calls : Checked(d, b)' => d # c /\ Checked(d, b)
      BY <2>1, <2>2 DEF Checked
    <3>4. CASE b = a
      <4>1. Checked(c, a)
        BY <2>1 DEF Checked, JobsInv, JobOf
      <4>2. Balance(b)'.real = Balance(b).real - BasePrice[job[c].tariff]
        BY <2>1, <2>3, <3>4, RecordFree, FreeIsInt
      <4>3. Free(b)' = Free(b) - BasePrice[job[c].tariff]
        BY <2>1, <2>3, <4>2, FreeIsInt DEF Free
      <4>4. Free(b)' >= 0
        BY <2>3, <3>2, <3>4, <4>1, <4>3, FreeIsInt
      <4> QED
        BY <2>1, <3>1, <3>2, <3>3, <3>4, <4>4 DEF Covered
    <3>5. CASE b # a
      <4>1. Free(b)' = Free(b)
        BY <2>1, <2>3, <3>5, RecordFree, FreeIsInt DEF Free
      <4> QED
        BY <2>1, <3>2, <3>3, <4>1 DEF Covered
    <3> QED
      BY <3>4, <3>5
  <2> QED
    BY <2>4 DEF SpendInv, Covered
<1>6. ASSUME NEW c \in Calls, CreditPackage(c) PROVE SpendInv'
  <2> DEFINE a == job[c].account
             amounts == [real |-> 0, prepaid |-> Package[job[c].tariff]]
  <2>1. /\ pc[c] = "bonus" /\ Record(a, amounts) /\ pc' = [pc EXCEPT ![c] = "ok"]
        /\ UNCHANGED <<snapshot, clean, job, held, raced>>
    BY <1>6 DEF CreditPackage, Goto, engine
  <2>2. a \in Accounts /\ amounts \in Amounts
    BY <2>1, TariffsHavePrices DEF JobsInv, JobOf, Jobs, Amounts
  <2>3. \A b \in Accounts : Free(b)' = Free(b)
    BY <2>1, <2>2, RecordFree, FreeIsInt DEF Free
  <2>4. \A d \in Calls, b \in Accounts : Checked(d, b)' => Checked(d, b)
    BY <2>1 DEF Checked, TypeOK
  <2> QED
    BY <2>1, <2>3, <2>4 DEF SpendInv, Covered
<1>7. ASSUME NEW c \in Calls, WriteSnapshot(c) PROVE SpendInv'
  <2> DEFINE a == job[c].account
  <2>1. /\ pc[c] = "write" /\ snapshot' = [snapshot EXCEPT ![a] = read[c]]
        /\ since' = [since EXCEPT ![a] = Zero]
        /\ clean' = [clean EXCEPT ![a] = clean[a] /\ ~late[c]]
        /\ raced' = [raced EXCEPT ![a] = raced[a] \/ late[c]]
        /\ UNCHANGED held
        /\ \A d \in Calls : pc'[d] = "idle" \/ (pc'[d] = pc[d] /\ job'[d] = job[d])
    BY <1>7 DEF WriteSnapshot, End, EndCall, Goto, engine, TypeOK
  <2>2. a \in Accounts
    BY <2>1 DEF JobsInv, JobOf, Jobs
  <2>3. ASSUME NEW b \in Accounts, ~raced'[b] PROVE Covered(b)'
    <3>1. ~raced[b] /\ (b = a => ~late[c])
      BY <2>1, <2>2, <2>3, Zenon DEF TypeOK
    <3>2. clean[b] /\ Covered(b)
      BY <3>1 DEF SpendInv, Covered
    <3>3. clean'[b]
      BY <2>1, <2>2, <3>1, <3>2, Zenon DEF TypeOK
    <3>4. Free(b)' = Free(b)
      <4>1. CASE b = a
        <5>1. read[c] = Balance(b) /\ read[c] \in Amounts
          BY <2>1, <2>2, <3>1, <3>2, <4>1 DEF BalanceInv, KnowsTotal, Knows,
             BalanceIsSumOfEvents, Recalculated, TypeOK
        <5>2. snapshot'[b] = read[c] /\ since'[b] = Zero
          BY <2>1, <2>2, <4>1 DEF TypeOK
        <5>3. Balance(b)'.real = Balance(b).real
          BY <5>1, <5>2 DEF Balance, Plus, Zero, Amounts
        <5> QED
          BY <2>1, <4>1, <5>3 DEF Free
      <4>2. CASE b # a
        BY <2>1, <4>2 DEF Free, Balance, TypeOK
      <4> QED
        BY <4>1, <4>2
    <3> QED
      BY <2>1, <3>1, <3>2, <3>3, <3>4 DEF Covered, Checked
  <2> QED
    BY <2>3 DEF SpendInv, Covered
<1>8. ASSUME NEW a \in Accounts, OpenAccount(a) \/ OpenSnapshot(a) PROVE SpendInv'
  BY <1>8, QuietFunds DEF OpenAccount, OpenSnapshot, engine, calls, history, Checked
<1>9. ASSUME NEW a \in Accounts, Hold(a) PROVE SpendInv'
  <2>1. /\ Free(a) >= UsagePrice /\ held' = [held EXCEPT ![a] = held[a] + UsagePrice]
        /\ raced' = [raced EXCEPT ![a] = raced[a] \/ \E d \in Calls : Checked(d, a)]
        /\ UNCHANGED <<snapshot, since, clean, pc, job>>
    BY <1>9 DEF Hold, Free, tables, calls
  <2>2. ASSUME NEW b \in Accounts, ~raced'[b] PROVE Covered(b)'
    <3>1. ~raced[b] /\ (b = a => ~\E d \in Calls : Checked(d, a))
      BY <2>1, <2>2, Zenon DEF TypeOK
    <3>2. Covered(b) /\ \A d \in Calls : Checked(d, b)' <=> Checked(d, b)
      BY <2>1 DEF SpendInv, Checked
    <3>3. CASE b = a
      <4>1. Free(b)' = Free(b) - UsagePrice
        BY <2>1, <3>3, FreeIsInt, PositiveAmounts DEF Free, Balance, TypeOK
      <4>2. Free(b)' >= 0
        BY <2>1, <3>3, <4>1, FreeIsInt, PositiveAmounts
      <4> QED
        BY <2>1, <3>1, <3>2, <3>3, <4>2 DEF Covered
    <3>4. CASE b # a
      <4>1. Free(b)' = Free(b)
        BY <2>1, <3>4 DEF Free, Balance, TypeOK
      <4> QED
        BY <2>1, <3>1, <3>2, <4>1 DEF Covered
    <3> QED
      BY <3>3, <3>4
  <2> QED
    BY <2>2 DEF SpendInv, Covered
<1>10. ASSUME NEW a \in Accounts, Unhold(a) PROVE SpendInv'
  <2>1. /\ held' = [held EXCEPT ![a] = held[a] - UsagePrice]
        /\ UNCHANGED <<snapshot, since, clean, raced, pc, job>>
    BY <1>10 DEF Unhold, tables, calls, history
  <2>2. ASSUME NEW b \in Accounts PROVE Free(b)' \in Int /\ Free(b)' >= Free(b)
    BY <2>1, FreeIsInt, PositiveAmounts DEF Free, Balance, TypeOK
  <2>3. \A b \in Accounts, d \in Calls :
          Checked(d, b) => BasePrice[job[d].tariff] \in Int
    BY TariffsHavePrices DEF Checked, JobsInv, JobOf
  <2>4. \A b \in Accounts, d \in Calls : Checked(d, b)' <=> Checked(d, b)
    BY <2>1 DEF Checked
  <2> QED
    BY <2>1, <2>2, <2>3, <2>4, FreeIsInt DEF SpendInv, Covered
<1>11. ASSUME NEW a \in Accounts, NEW n \in Topups, Topup(a, n) PROVE SpendInv'
  <2> DEFINE amounts == [real |-> n, prepaid |-> 0]
  <2>1. /\ Record(a, amounts) /\ amounts \in Amounts /\ n \in Nat
        /\ UNCHANGED <<snapshot, held, clean, raced, pc, job>>
    BY <1>11, PositiveAmounts DEF Topup, Amounts
  <2>2. ASSUME NEW b \in Accounts PROVE Free(b)' \in Int /\ Free(b)' >= Free(b)
    <3>1. Balance(b)'.real = Balance(b).real + (IF b = a THEN n ELSE 0)
      BY <2>1, RecordFree
    <3> QED
      BY <2>1, <3>1, FreeIsInt DEF Free
  <2>3. \A b \in Accounts, d \in Calls :
          Checked(d, b) => BasePrice[job[d].tariff] \in Int
    BY TariffsHavePrices DEF Checked, JobsInv, JobOf
  <2>4. \A b \in Accounts, d \in Calls : Checked(d, b)' <=> Checked(d, b)
    BY <2>1 DEF Checked
  <2> QED
    BY <2>1, <2>2, <2>3, <2>4, FreeIsInt DEF SpendInv, Covered
<1>12. ASSUME NEW a \in Accounts, Use(a) PROVE SpendInv'
  <2> DEFINE amounts == [real |-> -UsagePrice, prepaid |-> 0]
  <2>1. /\ Record(a, amounts) /\ amounts \in Amounts
        /\ held' = [held EXCEPT ![a] = held[a] - UsagePrice]
        /\ UNCHANGED <<snapshot, clean, raced, pc, job>>
    BY <1>12, PositiveAmounts DEF Use, Amounts
  <2>2. ASSUME NEW b \in Accounts PROVE Free(b)' = Free(b)
    <3>1. Balance(b)'.real = Balance(b).real + (IF b = a THEN -UsagePrice ELSE 0)
      BY <2>1, RecordFree
    <3>2. held'[b] = IF b = a THEN held[b] - UsagePrice ELSE held[b]
      BY <2>1 DEF TypeOK
    <3> QED
      BY <3>1, <3>2, FreeIsInt, PositiveAmounts DEF Free
  <2>3. \A b \in Accounts, d \in Calls : Checked(d, b)' <=> Checked(d, b)
    BY <2>1 DEF Checked
  <2> QED
    BY <2>1, <2>2, <2>3 DEF SpendInv, Covered
<1> QED
  BY <1>1, <1>2, <1>3, <1>4, <1>5, <1>6, <1>7, <1>8, <1>9, <1>10, <1>11, <1>12 DEF Next, Serve

LEMMA SpendInvariance == Spec => []SpendInv
<1>1. Init => SpendInv
  BY DEF Init, SpendInv, Covered, Free, Balance, Plus, Zero, Checked
<1> QED
  BY <1>1, SpendStep, Invariance, BalanceInvariance, PTL DEF Spec

(* An account where nothing raced has at least what is on hold of it.       *)
THEOREM SpendsCorrect == Spec => []SpendsWhatItHas
<1>1. IInv /\ SpendInv => SpendsWhatItHas
  BY FreeIsInt DEF IInv, SpendInv, Covered, Free, SpendsWhatItHas
<1> QED
  BY <1>1, Invariance, SpendInvariance, PTL

-----------------------------------------------------------------------------
(* The package.  A call that is to credit it has charged the price.         *)
PaidInv ==
  /\ \A s \in Nat : Entered("upgrade_bonus", s) => Entered("subscription_charge", s)
  /\ \A c \in Calls : pc[c] = "bonus" => Entered("subscription_charge", sub[c])
  /\ \A c \in Calls :
       pc[c] = "ok" /\ job[c].op = "create" /\ job[c].method = "balance" =>
         /\ Entered("subscription_charge", sub[c])
         /\ Package[job[c].tariff] > 0 => Entered("upgrade_bonus", sub[c])

(* Steps that enter nothing, and take no call to its bonus or its answer.   *)
LEMMA QuietEntries ==
  ASSUME PaidInv, UNCHANGED entries,
         \A d \in Calls : pc'[d] \in {"bonus", "ok"} =>
           \/ pc'[d] = pc[d] /\ job'[d] = job[d] /\ sub'[d] = sub[d]
           \/ pc'[d] = "ok" /\ job'[d].method # "balance"
  PROVE  PaidInv'
BY DEF PaidInv, Entered

LEMMA PaidStep ==
  ASSUME IInv, PaidInv, [Next]_vars
  PROVE  PaidInv'
<1> USE DEF IInv
<1>1. CASE UNCHANGED vars
  BY <1>1, QuietEntries DEF vars, tables, calls
<1>2. ASSUME NEW c \in Calls, NEW a \in Accounts,
             \/ StartSnapshot(c, a)
             \/ \E t \in Tariffs, m \in Methods : StartCreate(c, a, t, m) \/ StartUpgrade(c, a, t, m)
      PROVE  PaidInv'
  <2>1. PICK j \in Jobs, step \in {"read", "current"} : Begins(c, step, j)
    BY <1>2, BeginsAJob
  <2>2. /\ pc' = [pc EXCEPT ![c] = step] /\ job' = [job EXCEPT ![c] = j]
        /\ UNCHANGED <<entries, sub>>
    BY <2>1 DEF Begins, Start, Goto, tables
  <2> QED
    BY <2>2, QuietEntries DEF TypeOK
<1>3. ASSUME NEW c \in Calls,
             \/ ReadSnapshot(c) \/ CheckPrice(c) \/ ReadCurrent(c) \/ CheckDifference(c)
             \/ UpdateSubscription(c) \/ Surcharge(c) \/ ReadEvents(c) \/ WriteSnapshot(c)
             \/ Abort(c) \/ Return(c)
      PROVE  PaidInv'
  <2>1. /\ UNCHANGED entries /\ pc'[c] \notin {"bonus", "ok"}
        /\ \A d \in Calls \ {c} : pc'[d] = pc[d] /\ job'[d] = job[d] /\ sub'[d] = sub[d]
    BY <1>3 DEF ReadSnapshot, CheckPrice, ReadCurrent, CheckDifference, UpdateSubscription,
       Surcharge, ReadEvents, WriteSnapshot, Abort, Return, End, EndCall, Goto, TypeOK, tables
  <2> QED
    BY <2>1, QuietEntries
<1>4. ASSUME NEW c \in Calls, InsertSubscription(c) PROVE PaidInv'
  <2>1. /\ pc' = [pc EXCEPT ![c] = IF job[c].method = "balance" THEN "charge" ELSE "ok"]
        /\ \A d \in Calls \ {c} : sub'[d] = sub[d]
        /\ UNCHANGED <<entries, job>>
    BY <1>4 DEF InsertSubscription, Goto, TypeOK
  <2> QED
    BY <2>1, QuietEntries DEF TypeOK
<1>5. ASSUME NEW c \in Calls, Charge(c) PROVE PaidInv'
  <2>1. /\ entries' = entries \union {[type |-> "subscription_charge", sub |-> sub[c]]}
        /\ pc' = [pc EXCEPT ![c] = IF Package[job[c].tariff] > 0 THEN "bonus" ELSE "ok"]
        /\ UNCHANGED <<job, sub>>
    BY <1>5 DEF Charge, Goto
  <2> QED
    BY <2>1 DEF PaidInv, Entered, TypeOK
<1>6. ASSUME NEW c \in Calls, CreditPackage(c) PROVE PaidInv'
  <2>1. /\ pc[c] = "bonus" /\ pc' = [pc EXCEPT ![c] = "ok"]
        /\ entries' = entries \union {[type |-> "upgrade_bonus", sub |-> sub[c]]}
        /\ UNCHANGED <<job, sub>>
    BY <1>6 DEF CreditPackage, Goto
  <2> QED
    BY <2>1 DEF PaidInv, Entered, TypeOK
<1>7. ASSUME NEW a \in Accounts,
             \/ OpenAccount(a) \/ OpenSnapshot(a) \/ Hold(a) \/ Use(a) \/ Unhold(a)
             \/ \E n \in Topups : Topup(a, n)
      PROVE  PaidInv'
  <2>1. UNCHANGED <<entries, pc, job, sub>>
    BY <1>7 DEF OpenAccount, OpenSnapshot, Hold, Use, Unhold, Topup, tables, calls
  <2> QED
    BY <2>1, QuietEntries
<1> QED
  BY <1>1, <1>2, <1>3, <1>4, <1>5, <1>6, <1>7 DEF Next, Serve

LEMMA PaidInvariance == Spec => []PaidInv
<1>1. Init => PaidInv
  BY DEF Init, PaidInv, Entered
<1> QED
  BY <1>1, PaidStep, Invariance, PTL DEF Spec

(* No failure between its statements lets CreateSubscription credit a       *)
(* package that was not paid, or answer before it has done both.            *)
THEOREM PackageCorrect == Spec => []PackageIsPaidFor
<1>1. IInv /\ PaidInv => PackageIsPaidFor
  BY DEF IInv, TypeOK, PaidInv, PackageIsPaidFor
<1> QED
  BY <1>1, Invariance, PaidInvariance, PTL

=============================================================================
