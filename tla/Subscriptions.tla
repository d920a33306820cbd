---------------------------- MODULE Subscriptions ----------------------------
(***************************************************************************)
(* Accounts, subscriptions and balance snapshots of the billing service    *)
(* (subscription_service.go and the handlers in front of it).  As in       *)
(* Billing every SQL statement is a step and nothing runs in a             *)
(* transaction.  The rows of billing_events are kept as their sums: of all *)
(* of them, and of those created after the snapshot's updated_at.  The     *)
(* charging engine, module Billing, is here only what holds and spends     *)
(* money of the same accounts.                                             *)
(***************************************************************************)
EXTENDS Integers, Sequences, FiniteSets

CONSTANTS
  Accounts,    \* billing accounts
  Calls,       \* the calls the service can be handling at one time
  Tariffs,     \* the rows of tariff_versions in force
  BasePrice,   \* BasePrice[t]: tariff_versions.base_price_rub
  Package,     \* Package[t]: prepaid_amount_rub
  UsagePrice,  \* what the engine takes for one recognition
  Topups,      \* amounts of a top-up
  MaxArrivals, \* bound: top-ups and holds in a behaviour
  MaxRows,     \* bound: subscriptions when a call to create one comes
  None

ASSUME TariffsHavePrices ==
  BasePrice \in [Tariffs -> Nat] /\ Package \in [Tariffs -> Nat]
ASSUME PositiveAmounts == UsagePrice \in Nat \ {0} /\ Topups \subseteq Nat \ {0}
ASSUME BoundsAreNat == MaxArrivals \in Nat /\ MaxRows \in Nat
ASSUME NoneIsNothing == None \notin Accounts /\ None \notin Tariffs

VARIABLES
  opened,         \* opened[a]: "absent", "bare" (no snapshot row yet), "ready"
  snapshot,       \* snapshot[a]: the amounts of its row of balance_snapshots
  since,          \* since[a]: the sum of its events after updated_at
  total,          \* total[a]: the sum of all its events
  held,           \* held[a]: what the engine's reservations hold of it
  arrivals,       \* top-ups and holds so far
  subscriptions,  \* the table, oldest first
  entries,        \* [type, sub]: events that name a subscription
  pc,             \* pc[c]: the statement call c runs next; "ok": it succeeded
  job,            \* job[c]: what it was called for
  read,           \* read[c]: the balance it has read; the events it has still
                  \* to read are in it from the moment they are inserted
  sub,            \* sub[c]: the subscription it has in hand
  plan,           \* plan[c]: the next_tariff_version_id it will write
  late,           \* late[c]: an event, or a downgrade of its subscription, came
                  \* after it read them (history)
  clean,          \* clean[a]: no snapshot of a was written by a late call (history)
  raced,          \* raced[a]: its money shrank after a check of it, or a late
                  \* call wrote its snapshot (history)
  announced,      \* announced[s]: the tariff of the last downgrade of it (history)
  overtaken       \* subscriptions a late call has written since (history)

tables == <<opened, snapshot, since, total, subscriptions, entries>>
engine == <<held, arrivals>>
calls == <<pc, job, read, sub, plan>>
downgrades == <<announced, overtaken>>
history == <<late, clean, raced, downgrades>>
vars == <<tables, engine, calls, history>>

Operations == {"create", "upgrade", "snapshot"}
(* payment_method: "card" stands for all that are not "balance".            *)
Methods == {"balance", "card"}
Running == {"current", "read", "events", "insert", "charge", "bonus",
            "update", "surcharge", "write"}

Amounts == [real : Int, prepaid : Int]
Jobs == [op : Operations, account : Accounts, tariff : Tariffs \union {None},
         method : Methods]

(* models.Subscription: the columns that are not constant.                  *)
Subscription == [account : Accounts, tariff : Tariffs, next : Tariffs \union {None}]

(* models.BillingEvent: the types CreateSubscription writes.                *)
Entries == [type : {"subscription_charge", "upgrade_bonus"}, sub : Nat]

Zero == [real |-> 0, prepaid |-> 0]
Plus(x, y) == [real |-> x.real + y.real, prepaid |-> x.prepaid + y.prepaid]

-----------------------------------------------------------------------------
(* Reads.                                                                   *)

(* GetBalance: the snapshot and the events after it.                        *)
Balance(a) == Plus(snapshot[a], since[a])

(* RecalculateBalance: every event, and nothing is written.                 *)
Recalculated(a) == total[a]

(* GetActiveSubscription: the one that expires last.  All tariffs last 30   *)
(* days and no code ends a subscription, so it is the newest row.           *)
Current(a) ==
  LET mine == {s \in DOMAIN subscriptions : subscriptions[s].account = a}
  IN IF mine = {} THEN 0 ELSE CHOOSE s \in mine : \A z \in mine : z <= s

Init ==
  /\ opened = [a \in Accounts |-> "absent"]
  /\ snapshot = [a \in Accounts |-> Zero]
  /\ since = [a \in Accounts |-> Zero]
  /\ total = [a \in Accounts |-> Zero]
  /\ held = [a \in Accounts |-> 0]
  /\ arrivals = 0
  /\ subscriptions = << >>
  /\ entries = {}
  /\ pc = [c \in Calls |-> "idle"]
  /\ job = [c \in Calls |-> None]
  /\ read = [c \in Calls |-> Zero]
  /\ sub = [c \in Calls |-> 0]
  /\ plan = [c \in Calls |-> None]
  /\ late = [c \in Calls |-> FALSE]
  /\ clean = [a \in Accounts |-> TRUE]
  /\ raced = [a \in Accounts |-> FALSE]
  /\ announced = << >>
  /\ overtaken = {}

Goto(c, step) == pc' = [pc EXCEPT ![c] = step]

(* The call is over: its answer, or its error, is the caller's.             *)
EndCall(c) ==
  /\ Goto(c, "idle")
  /\ job' = [job EXCEPT ![c] = None]
  /\ read' = [read EXCEPT ![c] = Zero]
  /\ sub' = [sub EXCEPT ![c] = 0]
  /\ plan' = [plan EXCEPT ![c] = None]

End(c) == EndCall(c) /\ late' = [late EXCEPT ![c] = FALSE]

(* Call c has found the money for a subscription and not taken it yet.      *)
Checked(c, a) ==
  pc[c] \in {"insert", "charge"} /\ job[c].account = a /\ job[c].method = "balance"

(* CreateBillingEvent: one INSERT.                                          *)
Record(a, amounts) ==
  /\ total' = [total EXCEPT ![a] = Plus(@, amounts)]
  /\ since' = [since EXCEPT ![a] = Plus(@, amounts)]
  /\ read' = [c \in Calls |-> IF pc[c] = "events" /\ job[c].account = a
                              THEN Plus(read[c], amounts) ELSE read[c]]
  /\ late' = [c \in Calls |-> late[c] \/ (pc[c] = "write" /\ job[c].account = a)]

-----------------------------------------------------------------------------
(* CreateAccount: two INSERTs; the answer, and with it the id, comes after. *)
OpenAccount(a) ==
  /\ opened[a] = "absent"
  /\ opened' = [opened EXCEPT ![a] = "bare"]
  /\ UNCHANGED <<snapshot, since, total, subscriptions, entries, engine, calls, history>>

(* If it stops in between, the account stays without its snapshot.          *)
OpenSnapshot(a) ==
  /\ opened[a] = "bare"
  /\ opened' = [opened EXCEPT ![a] = "ready"]
  /\ UNCHANGED <<snapshot, since, total, subscriptions, entries, engine, calls, history>>

(* The billing handlers: a call for an account the caller knows.            *)
Start(c, step, j) ==
  /\ pc[c] = "idle"
  /\ opened[j.account] = "ready"
  /\ Goto(c, step)
  /\ job' = [job EXCEPT ![c] = j]
  /\ UNCHANGED <<tables, engine, read, sub, plan, history>>

(* CreateSubscription of the handler; an empty payment_method is "balance", *)
(* and one that is neither that nor "card" is refused.                      *)
StartCreate(c, a, t, m) ==
  /\ Len(subscriptions) < MaxRows
  /\ Start(c, "read", [op |-> "create", account |-> a, tariff |-> t, method |-> m])

(* Upgrade of the handler: an empty or unknown payment_method stays as it is. *)
StartUpgrade(c, a, t, m) ==
  Start(c, "current", [op |-> "upgrade", account |-> a, tariff |-> t, method |-> m])

StartSnapshot(c, a) ==
  Start(c, "read", [op |-> "snapshot", account |-> a, tariff |-> None, method |-> "card"])

(* GetAccountBalance: the snapshot, and updated_at with it.                 *)
ReadSnapshot(c) ==
  /\ pc[c] = "read"
  /\ read' = [read EXCEPT ![c] = Balance(job[c].account)]
  /\ Goto(c, "events")
  /\ UNCHANGED <<tables, engine, job, sub, plan, history>>

-----------------------------------------------------------------------------
(* CreateSubscription.                                                      *)

(* MUTANT: the balance is not compared with the price. *)
AffordsAnything(c) == TRUE

Affords(c) ==
  job[c].method = "balance" => read[c].real >= BasePrice[job[c].tariff]

(* The events are read and the price is compared with the balance, of which *)
(* the engine's reservations are no part.                                   *)
CheckPrice(c) ==
  /\ pc[c] = "events"
  /\ job[c].op = "create"
  /\ IF Affords(c)
     THEN /\ Goto(c, "insert")
          /\ raced' = [raced EXCEPT ![job[c].account] = @ \/ held[job[c].account] > 0]
          /\ read' = [read EXCEPT ![c] = Zero]
          /\ UNCHANGED <<job, sub, plan, late>>
     ELSE End(c) /\ UNCHANGED raced
  /\ UNCHANGED <<tables, engine, clean, downgrades>>

(* A row is inserted whatever subscriptions the account has already.        *)
InsertSubscription(c) ==
  /\ pc[c] = "insert"
  /\ subscriptions' = Append(subscriptions,
       [account |-> job[c].account, tariff |-> job[c].tariff, next |-> None])
  /\ sub' = [sub EXCEPT ![c] = Len(subscriptions) + 1]
  /\ Goto(c, IF job[c].method = "balance" THEN "charge" ELSE "ok")
  /\ announced' = Append(announced, None)
  /\ UNCHANGED <<opened, snapshot, since, total, entries, engine,
                 job, read, plan, late, clean, raced, overtaken>>

(* MUTANT: the package is credited before the price is charged. *)
ChargeAfterBonus(c) ==
  /\ pc[c] = "charge"
  /\ Record(job[c].account, [real |-> 0, prepaid |-> Package[job[c].tariff]])
  /\ entries' = entries \union {[type |-> "upgrade_bonus", sub |-> sub[c]]}
  /\ Goto(c, "bonus")
  /\ UNCHANGED <<opened, snapshot, subscriptions, engine, job, sub, plan, clean, raced, downgrades>>

(* subscription_charge.                                                     *)
Charge(c) ==
  LET a == job[c].account IN
  /\ pc[c] = "charge"
  /\ Record(a, [real |-> -BasePrice[job[c].tariff], prepaid |-> 0])
  /\ entries' = entries \union {[type |-> "subscription_charge", sub |-> sub[c]]}
  /\ Goto(c, IF Package[job[c].tariff] > 0 THEN "bonus" ELSE "ok")
  /\ raced' = [raced EXCEPT ![a] = @ \/ \E d \in Calls \ {c} : Checked(d, a)]
  /\ UNCHANGED <<opened, snapshot, subscriptions, engine, job, sub, plan, clean, downgrades>>

(* upgrade_bonus.                                                           *)
CreditPackage(c) ==
  /\ pc[c] = "bonus"
  /\ Record(job[c].account, [real |-> 0, prepaid |-> Package[job[c].tariff]])
  /\ entries' = entries \union {[type |-> "upgrade_bonus", sub |-> sub[c]]}
  /\ Goto(c, "ok")
  /\ UNCHANGED <<opened, snapshot, subscriptions, engine, job, sub, plan, clean, raced, downgrades>>

-----------------------------------------------------------------------------
(* UpgradeSubscription.                                                     *)

(* A tariff cheaper than the package of the current one is put off to the   *)
(* end of the period.                                                       *)
IsDowngrade(t, row) == BasePrice[t] < Package[row.tariff]

(* The row is read.  Without one the code dereferences nil: the call dies   *)
(* with no answer.                                                          *)
ReadCurrent(c) ==
  LET s == Current(job[c].account) IN
  /\ pc[c] = "current"
  /\ IF s = 0
     THEN End(c)
     ELSE /\ sub' = [sub EXCEPT ![c] = s]
          /\ IF IsDowngrade(job[c].tariff, subscriptions[s])
             THEN /\ plan' = [plan EXCEPT ![c] = job[c].tariff]
                  /\ Goto(c, "update")
             ELSE /\ plan' = [plan EXCEPT ![c] = subscriptions[s].next]
                  /\ Goto(c, "read")
          /\ UNCHANGED <<job, read, late>>
  /\ UNCHANGED <<tables, engine, clean, raced, downgrades>>

(* The difference is compared with the balance when that is to pay it.      *)
CheckDifference(c) ==
  /\ pc[c] = "events"
  /\ job[c].op = "upgrade"
  /\ LET diff == BasePrice[job[c].tariff] - Package[subscriptions[sub[c]].tariff]
     IN IF job[c].method = "balance" /\ read[c].real < diff
        THEN End(c)
        ELSE /\ Goto(c, "update")
             /\ read' = [read EXCEPT ![c] = Zero]
             /\ UNCHANGED <<job, sub, plan, late>>
  /\ UNCHANGED <<tables, engine, clean, raced, downgrades>>

(* MUTANT: an upgrade clears the tariff announced for the next period. *)
RowClearing(c) ==
  LET row == subscriptions[sub[c]]
  IN [ account |-> row.account, tariff |-> row.tariff,
       next |-> IF IsDowngrade(job[c].tariff, row) THEN plan[c] ELSE None ]

(* UpdateSubscription of the repository writes the row as it was read, but  *)
(* for its tariff and its package, which it does not write at all.          *)
RowWritten(c) ==
  LET row == subscriptions[sub[c]]
  IN [ account |-> row.account, tariff |-> row.tariff, next |-> plan[c] ]

(* Call d has read the row of subscription s to write it back as it was.    *)
HoldsRow(d, s) ==
  /\ pc[d] \in {"read", "events", "update"}
  /\ job[d].op = "upgrade"
  /\ sub[d] = s

(* The last announcement of subscription s, and who comes late for it.      *)
Announce(c, s) ==
  /\ announced' = [announced EXCEPT ![s] = job[c].tariff]
  /\ overtaken' = overtaken \ {s}
  /\ late' = [d \in Calls |-> d # c /\ (late[d] \/ HoldsRow(d, s))]

UpdateSubscription(c) ==
  LET s == sub[c] IN
  /\ pc[c] = "update"
  /\ subscriptions' = [subscriptions EXCEPT ![s] = RowWritten(c)]
  /\ \/ /\ IsDowngrade(job[c].tariff, subscriptions[s])
        /\ Announce(c, s)
        /\ EndCall(c)
     \/ /\ ~IsDowngrade(job[c].tariff, subscriptions[s])
        /\ overtaken' = IF late[c] THEN overtaken \union {s} ELSE overtaken
        /\ IF job[c].method = "balance"
           THEN Goto(c, "surcharge") /\ UNCHANGED <<job, read, sub, plan, late>>
           ELSE End(c)
        /\ UNCHANGED announced
  /\ UNCHANGED <<opened, snapshot, since, total, entries, engine, clean, raced>>

(* 'subscription_upgrade' is no value of billing_event_type: the INSERT of  *)
(* the event is refused, and the call with it.                              *)
Surcharge(c) ==
  /\ pc[c] = "surcharge"
  /\ End(c)
  /\ UNCHANGED <<tables, engine, clean, raced, downgrades>>

-----------------------------------------------------------------------------
(* SnapshotBalance.                                                         *)
ReadEvents(c) ==
  /\ pc[c] = "events"
  /\ job[c].op = "snapshot"
  /\ Goto(c, "write")
  /\ UNCHANGED <<tables, engine, job, read, sub, plan, history>>

(* MUTANT: updated_at is left as it was. *)
WriteSnapshotOldTime(c) ==
  /\ pc[c] = "write"
  /\ snapshot' = [snapshot EXCEPT ![job[c].account] = read[c]]
  /\ clean' = [clean EXCEPT ![job[c].account] = @ /\ ~late[c]]
  /\ raced' = [raced EXCEPT ![job[c].account] = @ \/ late[c]]
  /\ End(c)
  /\ UNCHANGED <<opened, since, total, subscriptions, entries, engine, downgrades>>

(* UpdateBalanceSnapshot: updated_at becomes the time of the UPDATE, less a *)
(* microsecond; every event that is in the table is older.                  *)
WriteSnapshot(c) ==
  /\ pc[c] = "write"
  /\ snapshot' = [snapshot EXCEPT ![job[c].account] = read[c]]
  /\ since' = [since EXCEPT ![job[c].account] = Zero]
  /\ clean' = [clean EXCEPT ![job[c].account] = @ /\ ~late[c]]
  /\ raced' = [raced EXCEPT ![job[c].account] = @ \/ late[c]]
  /\ End(c)
  /\ UNCHANGED <<opened, total, subscriptions, entries, engine, downgrades>>

-----------------------------------------------------------------------------
(* A statement fails; what the call has written stays.                      *)
Abort(c) ==
  /\ pc[c] \in Running
  /\ End(c)
  /\ UNCHANGED <<tables, engine, clean, raced, downgrades>>

(* The caller has its 200 or 201.                                           *)
Return(c) ==
  /\ pc[c] = "ok"
  /\ End(c)
  /\ UNCHANGED <<tables, engine, clean, raced, downgrades>>

(* TopupBalance: the amount is positive; CreateTopupEvent.                  *)
Topup(a, n) ==
  /\ opened[a] = "ready"
  /\ arrivals < MaxArrivals
  /\ arrivals' = arrivals + 1
  /\ Record(a, [real |-> n, prepaid |-> 0])
  /\ UNCHANGED <<opened, snapshot, subscriptions, entries, held,
                 pc, job, sub, plan, clean, raced, downgrades>>

(* Reserve of the engine: it subtracts what is held already.                *)
Hold(a) ==
  /\ opened[a] = "ready"
  /\ arrivals < MaxArrivals
  /\ arrivals' = arrivals + 1
  /\ Balance(a).real - held[a] >= UsagePrice
  /\ held' = [held EXCEPT ![a] = @ + UsagePrice]
  /\ raced' = [raced EXCEPT ![a] = @ \/ \E d \in Calls : Checked(d, a)]
  /\ UNCHANGED <<tables, calls, late, clean, downgrades>>

(* MUTANT: a commit for which nothing is held. *)
UseUnheld(a) ==
  /\ held' = [held EXCEPT ![a] = @ - UsagePrice]
  /\ Record(a, [real |-> -UsagePrice, prepaid |-> 0])
  /\ UNCHANGED <<opened, snapshot, subscriptions, entries, arrivals,
                 pc, job, sub, plan, clean, raced, downgrades>>

(* Commit of the engine, and Rollback.                                      *)
Use(a) ==
  /\ held[a] >= UsagePrice
  /\ held' = [held EXCEPT ![a] = @ - UsagePrice]
  /\ Record(a, [real |-> -UsagePrice, prepaid |-> 0])
  /\ UNCHANGED <<opened, snapshot, subscriptions, entries, arrivals,
                 pc, job, sub, plan, clean, raced, downgrades>>

Unhold(a) ==
  /\ held[a] >= UsagePrice
  /\ held' = [held EXCEPT ![a] = @ - UsagePrice]
  /\ UNCHANGED <<tables, arrivals, calls, history>>

Serve(c) ==
  \/ ReadSnapshot(c) \/ CheckPrice(c) \/ InsertSubscription(c) \/ Charge(c)
  \/ CreditPackage(c) \/ ReadCurrent(c) \/ CheckDifference(c)
  \/ UpdateSubscription(c) \/ Surcharge(c) \/ ReadEvents(c) \/ WriteSnapshot(c)

Next ==
  \/ \E a \in Accounts : \/ OpenAccount(a) \/ OpenSnapshot(a)
                         \/ Hold(a) \/ Use(a) \/ Unhold(a)
  \/ \E a \in Accounts, n \in Topups : Topup(a, n)
  \/ \E c \in Calls, a \in Accounts : StartSnapshot(c, a)
  \/ \E c \in Calls, a \in Accounts, t \in Tariffs, m \in Methods :
       StartCreate(c, a, t, m) \/ StartUpgrade(c, a, t, m)
  \/ \E c \in Calls : Serve(c) \/ Abort(c) \/ Return(c)

Spec == Init /\ [][Next]_vars

-----------------------------------------------------------------------------
(* Properties.                                                              *)

(* Every variable holds a value the service or its tables can hold.         *)
TypeOK ==
  /\ opened \in [Accounts -> {"absent", "bare", "ready"}]
  /\ snapshot \in [Accounts -> Amounts]
  /\ since \in [Accounts -> Amounts]
  /\ total \in [Accounts -> Amounts]
  /\ held \in [Accounts -> Nat]
  /\ arrivals \in Nat
  /\ subscriptions \in Seq(Subscription)
  /\ entries \subseteq Entries
  /\ pc \in [Calls -> {"idle", "ok"} \union Running]
  /\ job \in [Calls -> Jobs \union {None}]
  /\ read \in [Calls -> Amounts]
  /\ sub \in [Calls -> Nat]
  /\ plan \in [Calls -> Tariffs \union {None}]
  /\ late \in [Calls -> BOOLEAN]
  /\ clean \in [Accounts -> BOOLEAN]
  /\ raced \in [Accounts -> BOOLEAN]
  /\ announced \in Seq(Tariffs \union {None})
  /\ overtaken \subseteq Nat

(* What GetBalance answers is what RecalculateBalance finds, whatever calls *)
(* overlap or stop, unless an event was inserted between the read and the   *)
(* write of one SnapshotBalance.                                            *)
BalanceIsSumOfEvents == \A a \in Accounts : clean[a] => Balance(a) = Recalculated(a)

(* An account spends no more on subscriptions and recognitions than it has, *)
(* unless its money shrank between a check of CreateSubscription and the    *)
(* charge, the check counted money that was on hold, or a snapshot that     *)
(* misses an event misled it.                                               *)
SpendsWhatItHas ==
  \A a \in Accounts : ~raced[a] => Balance(a).real >= held[a]

Entered(type, s) == [type |-> type, sub |-> s] \in entries

(* No failure between the statements of CreateSubscription gives a package  *)
(* away: it is credited only to a subscription that was charged; and a call *)
(* that was answered with success did all it was to do.                     *)
PackageIsPaidFor ==
  /\ \A s \in DOMAIN subscriptions :
       Entered("upgrade_bonus", s) => Entered("subscription_charge", s)
  /\ \A c \in Calls :
       pc[c] = "ok" /\ job[c].op = "create" /\ job[c].method = "balance" =>
         /\ Entered("subscription_charge", sub[c])
         /\ Package[job[c].tariff] > 0 => Entered("upgrade_bonus", sub[c])

(* A downgrade that was announced stands: no upgrade, whatever it reads,    *)
(* pays or is refused and wherever it stops, takes the announcement back    *)
(* or puts an older one in its place, unless it read the row before the     *)
(* announcement and wrote it back after.  Whatever such a late call did,    *)
(* the next announcement stands again.                                      *)
LastDowngradeStands ==
  \A s \in DOMAIN subscriptions :
    s \notin overtaken => subscriptions[s].next = announced[s]
=============================================================================
