# Verification of the OCR service

TLA+ models of the paid recognition service in this repository: the billing
engine, the recognition request that reserves, recognizes and commits, the
circuit breakers in front of the OCR providers, the clients of those providers
and the parser behind them, subscriptions and balance snapshots, top-ups through
YooKassa and the cabinet's mock payments, the cabinet and the API gateway. TLC
checks them on small instances; TLAPS proves the main results for every value
of the constants.

    tlc -config billing.cfg MCBilling.tla     # one model-checking run
    tlapm BillingProofs.tla                   # one module of proofs

`PROJECT.json` lists the runs, the source lines behind every definition, the
hazards of the code with the properties that cover them, and the theorems.

## The system

Go services that talk HTTP, each with PostgreSQL (and Redis for the gateway).

| Part | State it keeps | Operations | Talks to | Correct when |
|---|---|---|---|---|
| Charging engine (`services/billing`, `billing_service.go`, `repository.go`) | `reservations`, `billing_events` (append-only), `balance_snapshots`, `accounts` | Reserve, Commit, Rollback, top-up, CreateAccount | called by the orchestrator and the cabinet | a request is billed at most once, on the terms reserved for it; nobody spends more than he has |
| Recognition request (`services/orchestrator`, `orchestrator_full.go`, `billing_client.go`, `handler.go`) | none between requests: each request is a sequence of calls | Process: Reserve, doOCR, Commit or Rollback; error replies | charging engine over HTTP, OCR providers | no result without payment, no payment without a result, nothing left on hold, every request answered |
| OCR fallback (`doOCR`, `circuit_breaker.go`, `pkg/ocr/provider.go`) | two breakers shared by all requests | Allow, RecordSuccess, RecordFailure | providers | opens and closes on the streaks its thresholds name; the primary provider comes back |
| Subscriptions and snapshots (`subscription_service.go`) | `accounts`, `subscriptions`, `balance_snapshots`, events | CreateAccount, CreateSubscription, UpgradeSubscription, SnapshotBalance, RecalculateBalance | charging engine's tables | no package without its price, nobody spends more than he has, a snapshot loses no event, an announced downgrade stands |
| YooKassa payments (`payment_service.go`, `services/billing-webhook-yookassa`) | `payment_orders`, events | CreatePayment, webhook success/cancel, ProcessExpiredPayments | YooKassa, the engine's tables | a paid order is credited exactly once |
| Mock payments (`services/cabinet/.../payment_service.go`) | `mock_payments` | create, confirm | top-up over HTTP | a confirmed payment is credited, and once |
| Cabinet (`services/cabinet`) | organizations, users, sessions, API keys | Register, Login, Logout, keys, balance and history | creates billing accounts over HTTP | an organization has one account and works on no other; at most ten active keys; an answered key works; a revoked key is dead |
| API gateway (`services/api-gateway`) | none that its requests reach (a Redis window per key) | authenticate, rate limit, `/accounts/me/`, proxy | cabinet's database, services | nothing goes on with a revoked key; `/accounts/me/` is the account of the key's organization |
| Provider clients, response parser, normalizer (`pkg`), simple orchestrator | none | image to text to fields | OCR providers | each value in its field, whatever order the lines or blocks come in |

Hard behaviour, and where it comes from:

* **No transactions.** `BillingService` calls one SQL statement after another
  on the pool. Two calls interleave between any two statements, and a call
  that stops keeps what it wrote. What protects the data are the `UNIQUE`
  constraints on `reservations.request_id` and `billing_events.request_id`.
* **Timeouts.** The billing client gives up after 10 s while the billing
  service goes on with the call. A cancelled request cancels its rollback.
* **Retries.** The request id is the client's idempotency key; a client can
  repeat a request at any time, also while the first one runs, and nothing
  keys the reservation by account.
* **Expiry.** A reservation has a five-minute life: an expired one is left out
  of the sums, but it still answers Reserve and can be committed.
* **Locks.** `CircuitBreaker.Allow` upgrades its read lock by dropping it.
* **Two services.** Registration opens an account in another service and goes on
  when that fails; a mock payment is credited there before it is marked here.
* **Read and write back.** SnapshotBalance and UpgradeSubscription write what
  they have computed from rows read some statements ago.
* **Heuristics.** The parser decides by the distance of lines from labels, and
  by what is left: fields compete for the same text.

## Modules

| Module | What it is | Extends |
|---|---|---|
| `ChargeLedger` | abstract: what the billing service promises about paid requests | |
| `Billing` | the charging engine, one SQL statement a step | |
| `Overdraft` | the engine with a history of the two hazards that overdraw an account | `Billing` |
| `Orchestrator` | `Process` composed with the engine | `Billing` |
| `OcrFallback` | `doOCR` and both breakers, one mutex section a step | |
| `Payments` | payment orders, webhooks and their expiry, one SQL statement a step | |
| `Subscriptions` | accounts, subscriptions, snapshots, one SQL statement a step | |
| `Cabinet` | registration, sessions, API keys, mock payments, one statement or call a step | |
| `Gateway` | the gateway over the cabinet's tables | `Cabinet` |
| `PassportText` | the parser and the normalisation, as operators | |
| `Passport` | one image through clients, parser, normalisation and fallback | `PassportText` |
| `MCBilling`, `MCOrchestrator`, `MCSubscriptions`, `MCGateway`, `MCPassport` | values of the constants for TLC | |
| `BillingProofs`, `OverdraftProofs`, `OrchestratorProofs`, `OcrFallbackProofs`, `PaymentsProofs`, `SubscriptionsProofs`, `CabinetProofs`, `PassportProofs` | theorems | |

Each module keeps, besides what it needs, a few `MUTANT` operators: plausible
bugs, each of which makes one of the properties fail. They stand before the
definition they would replace and nothing uses them.

### Billing

`reservations[r]` is the row with `request_id = r` (the column is UNIQUE, so a
function), `events` the table `billing_events` oldest first. Call `c` is one HTTP
call: `pc[c]` names its next statement or its answer, `account`/`request` its
arguments, `seen[c]` the prefix of the events it has read, `hold[c]` the
reservation it read or is about to insert.

| Action | Statement |
|---|---|
| `Lookup`, `LookupError` | `GetAccount`, then `GetReservation` for idempotency; its error is ignored |
| `ReadBalance` | `GetAccountBalance` and `GetBillingEventsSince` |
| `ReadReservations` | `GetActiveReservations`, `GetActiveSubscription`, `GetServicePrice`; the choice of charge |
| `Insert` | `CreateReservation` |
| `CommitRead`, `CommitDelete`, `CommitBill` | the three statements of Commit |
| `Rollback` | one `DELETE` |
| `Abort` | any statement fails: cancelled context, database error, crash |
| `Topup`, `Expire` | `CreateTopupEvent`; five minutes pass |

Reads that nothing in the module can change between them are one step: an
account's status, the snapshot, the subscription and the price list. A price is
a whole number; `Price` keeps the three comparisons of Reserve, with the
default price of 7 roubles as `DefaultPrice`. The rows keep what the properties
tell apart: account, charge type, amount, whether expired. A price query that
fails counts as "no price", as in the code.

`ChargeLedger` has four actions: terms are put on hold, released, billed once,
and money is credited. `Billing` refines it with `TermsOnHold`: the terms of the
row of a request plus those in the hands of commits that have read the row but
not billed yet.

`Overdraft` leaves the engine as it is and notes in `strained` the accounts that
have met a hazard: while a Reserve of the account was between its read of the
balance and its INSERT, another one was, or a Commit of it was between its
statements (`Overlapped`); or a Commit had in hand a row past its `expires_at`
(`CommitsLate`). It names what the code leaves open; the service is as concurrent
as it is in `Billing`, and its reservations expire.

### Orchestrator

`phase[c]` is where attempt `c` is in `Process`. The attempt uses call slot `c`
of `Billing` for one call after the other, so the engine's interleavings and the
attempt's are in one state space. `OcrGood`/`OcrBad` stand for `doOCR` and the
confidence check; `OcrFallback` models `doOCR` itself. Faults: `GiveUp` (client
timeout, cancelled request, lost call or answer; the call goes on and
`NobodyReads` its answer), `Die` (the orchestrator stops), `CallStops` (the
billing service stops in the call). `HttpStatus` models the `switch err` of the
handler: a wrapped error equals no sentinel.

### OcrFallback

`breaker[p]` has the breaker's fields; `lastFailureTime` is kept as `cooled`,
whether the timeout since it has passed. `AllowExpired` and `Revive` are the two
mutex sections of `Allow` when the timeout is over. `streak` and `good` are
history: failures since the last success and successes since the last failure.

### Payments

`status[o]` and `named[o]` are the columns of `payment_orders` that matter: the
status and whether `yookassa_payment_id` is set. `payment[o]` is what became of
the payment at YooKassa, which is outside the repository: it ends once, succeeded
or canceled, and is reported up to `MaxNotices` times, at any moment. `step[d]` is
the next statement of webhook delivery `d` (`Find`, `Update`, `Credit`); `batch` and
`checking` are the loop of `ProcessExpiredPayments`, which lists rows, looks at
each again and writes the listed row back. `credits[o]` counts the `balance_topup`
events of an order. `faulty` and `raced` are history. `Admitted` is the CHECK on
`payment_orders.status`: the migrations do not admit `completed`, the status the
webhook writes; the repository its tests use admits everything. `Update` models
both outcomes of that UPDATE. `ExpiryRuns` switches the expiry on: nothing in the
servers calls it yet.

### Subscriptions

The rows of `billing_events` are kept as two sums per account: `total` of all of
them and `since` of those after the snapshot's `updated_at`, so that GetBalance is
`snapshot + since` and RecalculateBalance is `total`. The events a call has still
to read after the snapshot are in `read[c]` from the moment they are inserted,
because its query comes after them. Each amount is two whole numbers, the
rouble and the prepaid balance. The charging engine is here the three things it
does to the same money: `Hold`, `Use`, `Unhold`.

| Action | Statement |
|---|---|
| `OpenAccount`, `OpenSnapshot` | the two INSERTs of CreateAccount |
| `StartCreate`, `StartUpgrade`, `StartSnapshot` | a handler calls the service |
| `ReadSnapshot` | `GetAccountBalance` |
| `CheckPrice`, `CheckDifference`, `ReadEvents` | `GetBillingEventsSince`, and what the call decides on it |
| `InsertSubscription`, `Charge`, `CreditPackage` | the three writes of CreateSubscription |
| `ReadCurrent`, `UpdateSubscription`, `Surcharge` | UpgradeSubscription; the last INSERT is always refused: its type is not in the enum |
| `WriteSnapshot` | `UpdateBalanceSnapshot` |
| `Abort`, `Return` | a statement fails; the answer |

`late`, `clean`, `raced`, `announced` and `overtaken` are history: the last two are the
tariff of the last downgrade of a subscription, and which subscriptions a call
has written back that had read them before it. The others say
which calls an event or a downgrade has overtaken, and which accounts such a race
has touched. The properties are about the others,
and the races are what the code does not exclude.

### Cabinet and Gateway

Rows are numbered as they are inserted. `accounts` are the billing service's, each
with the organization it was opened for: that is what ownership is measured
against. Call `c` runs `pc[c]` next for `job[c]`; `context[c]` is what the session
middleware put into the request, or what Login found. A protected call is
`StartProtected`, `ReadSession`, `ReadIdentity` and then its handler; the handlers
that only read or pass a request on to the billing service have an action each
that ends the call. `GoWithoutAccount` is a registration whose account could
not be opened or linked; `Topup` succeeds with or without its answer arriving.
`unsure` is history: the payments that two calls confirmed at one time, or whose
top-up was not followed by the UPDATE. The billing URL is taken to be configured.

`Gateway` adds requests with a path, a key that its owner was given and, on the
paths that name one, the number of an account: `ReadKey`,
`RateLimit`, `ResolveMe`, `Forward`. `RateLimit` lets everything pass, as the code
does: it looks for the string `"api_key_id"` where the authentication has stored
a key of another type. `Routes` are the paths
that main passes on, by what the code tells apart; `ResolveTarget` sends those below
`/v1/billing/` and `/api/v1/billing/` to the billing service. `AccountSeen` is the account
that the service behind will work on: for the orchestrator the id of the
organization, for the billing service the number in the path. That number is the
key's own account on `/accounts/me/` only; a number or a transaction that the client
has put there itself is forwarded with any valid key, and no property says otherwise.
No code sets `email_verified`, without which nobody can log in: `OperatorVerifies`
stands for the SQL that does.

### PassportText and Passport

A line of text is what the parser's regular expressions see of it: the name it
consists of, its keywords, its dates, its division code, and what is printed in
digits from left to right: years of dates, words of four and of six digits, four
digits in two words. `Beside` are the places at which the expression for series and
number matches; it has no word boundary, so a year, or the end of another number,
right before six digits is one. Words of five, or of more than six, digits are left
out. On such lines `NamesRead`, `NumbersRead`, `DatesRead`, `CodeRead` and
`IssuedByRead` are the five parts of `ExtractPassportFields`, in its order: labels
first, then the windows of lines, then what is left. `NormalPassport` is the
normalisation. Case, spacing, stop words and confidences are left out; they do
not decide between fields.

`Passport` runs an image through a client (Yandex v2 with or without the
structured model, Yandex v1, and VK as fallback), the parts of the parser one
step each, and the normalisation. `AskStructured` takes the entities of the
passport model only when they are complete and otherwise asks for the text,
as `Recognize` of `yandex_v2.go` does. `Orders` are the orders in which Yandex v1
answers its blocks (each has a position of its own; that a block without a box counts
as being at the top is left out), and `SortBlocksByY` is the exchange sort of the code: `Pass` is
its inner loop. The loops are recursive functions, so that they can be proved about.

## Runs

| Run | Instance | Distinct states | Shows |
|---|---|---|---|
| `billing` | 1 account, 2 request ids, 2 calls, expiry, 1 top-up | 525 thousand | `ChargedOnce`, `ImplementsLedger`, `OnlyStrainedOverdrawn` |
| `billing_overdraw` | 1 account, 2 ids, 2 calls | | `NeverOverdrawn` violated |
| `orchestrator` | 3 accounts (priced, unpriced, blocked), 1 id, 2 attempts, all faults, expiry | 148 thousand | `DeliveredIsPaid`, `BilledIsRecognized`, `NoHoldLeftBehind`, `AttemptsEnd` |
| `orchestrator_402` | 1 account, 2 ids, 2 attempts | | `InsufficientGets402` violated |
| `ocr_fallback` | 2 requests, thresholds 2 and 2, 4 failures counted | 110 thousand | `OpensAfterStreak`, `ClosesAfterSuccesses`, `PrimaryComesBack` |
| `payments` | 2 orders, 2 deliveries, 2 reports each, expiry, faults, every status admitted | 113 thousand | `CreditedOnce`, `CompletedStays`, `PaidIsCredited` |
| `payments_schema` | 1 order, the CHECK of the migrations, no faults, no expiry | | `PaidIsCredited` violated |
| `subscriptions` | 1 account, 2 calls, 2 tariffs (with and without a package), 2 arrivals | 3.79 million | `BalanceIsSumOfEvents`, `SpendsWhatItHas`, `PackageIsPaidFor`, `LastDowngradeStands` |
| `cabinet` | 2 addresses, 2 calls at a time and 5 in all, 1 session, key limit 1, 1 gateway request | 1.02 million | `OneAccountEach`, `OwnAccount`, `HandedKeyWorks`, `RevokedForGood`, `MockCreditedOnce`, `CompletedIsToppedUp`, `NothingAfterRevocation`, `MeIsOwn` |
| `cabinet_keys` | 1 address, 2 calls at a time and 4 in all, key limit 1 | | `KeyLimitHolds` violated |
| `gateway_account` | 2 addresses, 1 call at a time, 1 gateway request | | `RecognitionChargesOwner` violated |
| `passport` | every page of up to 5 lines of names and labels, 4 lines of numbers, 4 lines of dates; standard pages in any order | 1.40 million | `StandardPageRead`, `UnlabelledNamesRead`, `PairStaysTogether`, `DatesInOrder`, `TwoDatesFound` |

Why the bounds are enough:

* Two calls on two request ids in `billing` contain every overlap of a commit with
  another commit, a rollback, a re-reservation or the reservation of another id,
  one billed and one held; a third call only repeats one of these, since calls
  meet in the rows and sums alone. Accounts meet nowhere in the engine, so one is
  enough there; `orchestrator` has one of each kind, and the theorems are about
  any number. The prices 1, 2, 3 and the opening balances reach each branch of
  `Price`: package, overage, default price, refusal, and the default price below
  the balance. `VIEW` and symmetry leave out which answer a call gave and the names
  of ids and calls; the run checks safety only.
* Two attempts in `orchestrator` are the smallest overlap of repeats, by one
  account or by two. An attempt uses its slot for the whole of `Process`.
* Thresholds of 2 separate "one" from "enough" (the code has 5 and 2). With two
  requests one is always able to bring a late answer to a breaker the other has
  moved. `MaxFailures` caps `failureCount`, which the code only resets on
  closing; twice the threshold leaves room for a second opening.
* Two deliveries and two reports are the least for a repeat, overlapping or
  not; two orders make the expiry's list go stale for one while it works on the
  other.
* Two overlapping calls in `subscriptions` are every pair of create, upgrade and
  snapshot, each stopped anywhere; `MaxArrivals` top-ups and holds come at any
  point between their statements. The properties are about one account at a
  time, and accounts share no row.
* Five calls in `cabinet` are a registration, a login and three protected calls
  (create, create or revoke, confirm twice), or two registrations and their
  logins. One gateway request suffices, since requests share nothing but the
  tables. It has a path of each kind that is treated apart: the orchestrator's,
  `/accounts/me/`, an account by its number, one without a route. The cabinet's own
  paths, which ask for no key and are only passed on, and the transactions', which
  name no account, are left out of this instance.
* A key limit of 1 in `cabinet_keys` is passed by the least overlap, as 10 is.
* The pages of `passport` are built from three vocabularies because each part of
  the parser looks at one kind of line only; lines of the other kinds are blank
  to it. The numbers have a pair, a pair in three
  words that looks like a day, a number of zeros, a number before its series, two
  numbers in a row, and a date with and without six digits after it. Five lines
  hold two labels with their values or three names and two
  gaps; the standard pages have up to nine, for the distances of labels.
* `CHECK_DEADLOCK FALSE` where attempts, orders, calls or the image are used up
  (orchestrator, payments, cabinet, passport) or the model only ends when nobody
  calls (billing): the system rests there.

### Fairness

* `Orchestrator`: weak fairness of each attempt's own steps and of the billing
  service's work on each call. Both are goroutines the Go runtime schedules; the
  OCR clients have a 30 s timeout, so `doOCR` returns. No fairness of faults, of
  expiry or of new requests.
* `OcrFallback`: weak fairness of each request's steps (requests keep coming; a
  provider's client returns) and of the passing of the timeout.
* `Payments`: weak fairness of the first report of each outcome (YooKassa
  reports until it gets an answer) and of the webhook's own steps. No fairness of
  repeats, faults, or the expiry.
* `Subscriptions`, `Cabinet`, `Gateway` and `Passport` state safety only and assume
  no fairness: any call may stop for good at any statement.

### What the violated runs show

* `billing_overdraw`: Reserve reads balance, events and reservations, then
  inserts, without a transaction or a lock; two overlapping calls both pass the
  check. `docs/api-scan-plan.md:304` says Reserve is atomic with `SELECT FOR
  UPDATE`. `OnlyStrainedOverdrawn` says that nothing else overdraws an account, but for
  the commit of an expired reservation.
* `orchestrator_402`: a client without money gets 500, not 402, because
  `Process` wraps the error the handler compares by identity.
* `payments_schema`: the UPDATE that completes an order violates the table's
  CHECK, the webhook returns before it credits the account, and answers 200.
* `cabinet_keys`: two calls count the active keys before either inserts its own.
  `docs/api-scan-plan.md:456` allows an organization ten at a time.
* `gateway_account`: the gateway sends the id of the organization as
  `X-Organization-ID`, and `getAccountID` of the orchestrator takes it for the id of
  a billing account. `docs/billing-architecture.md:849` says operations use
  `billing_account_id`. Two registrations that overlap, or one that opens no
  account, make the two numberings part; from then on an organization's
  recognitions are charged to another one's account. `/accounts/me/` resolves the
  id properly (`MeIsOwn`).

### What the properties leave out, and why

Some properties hold only for what no race has touched. The exemption is in
each case history kept for that purpose, and names what the code permits:

* `CreditedOnce`: two overlapping reports of a payment both read the order before
  either writes it, and both credit it; or the expiry writes a stale row back.
* `MockCreditedOnce`: two calls confirm a payment at one time, or one stops after
  the top-up, and the payment stays pending.
* `BalanceIsSumOfEvents`: an event inserted between the read and the write of one
  SnapshotBalance is older than the new `updated_at` and in no balance any more.
* `SpendsWhatItHas`: the check of CreateSubscription and its charge are apart, and
  reservations are no part of the check.
* `OnlyStrainedOverdrawn`: an account is exempt once it has met an overlap of a
  Reserve with another Reserve or a Commit, or the commit of an expired
  reservation. Each of the three is needed: without it TLC finds an account
  overdrawn.
* `LastDowngradeStands`: an upgrade that read the row before the announcement and
  writes it back after takes it away. The next announcement counts again.
* `MeIsOwn` is about `/accounts/me/`: a path that names an account or a transaction by
  its number goes on with any valid key.
* A registration is answered 201 without an account, and a logout 200 with the
  session alive, when the call behind fails; no property says more of a success
  than the code does.
* `PairStaysTogether`: a date directly before six digits of its line is taken for a
  series and a number, and then no later line is asked.
* `ImplementsLedger` and `NoHoldLeftBehind` do not promise that a reservation left
  behind is ever removed: `DeleteExpiredReservations` has no caller.
* `OpensAfterStreak`, `ClosesAfterSuccesses`: between the two locks of `Allow` another
  request can close the breaker or fail its probe; the stale request then makes
  it half-open all the same. The streaks are counted across such revivals.

## Proofs

All theorems hold for any values of the constants that satisfy the named
assumptions: prices are natural numbers, opening balances are integers,
request ids are finitely many (a `VARCHAR(100)`), `Priced` and `Status` describe accounts, top-ups are positive, `None` is no
account, request, row or attempt, no OCR result, name, number or date; breaker thresholds are positive; tariff prices are
natural numbers, and a recognition costs something; the limit of keys is
positive and the calls are finitely many.

**`BillingProofs`.** `TypeCorrect` and `EachChargedOnce` (`Spec => []ChargedOnce`).
`TypeOK` is not inductive: an event is well formed because the row in the hand
of its commit is, and a new row because the call knows its account. The
invariant is `IInv == TypeOK /\ ArgumentsInv /\ ChargedOnce`; `ArgumentsInv` says
what a call has at each statement. `AppendOnce` carries the argument: appending
an event whose request no event bears keeps every request billed once.
`BillingImplementsLedger` (`Spec => ImplementsLedger`): each step
maps to a step of `ChargeLedger` or a stutter. Reads are stutters (`UnseenStep`);
a commit's read adds nothing, since the row is on hold already; Insert and Expire
change one request's terms (`InsertStep`, `ExpireStep`); deletes and stopped
calls release (`ReleaseStep`); `CommitBill` charges terms held in its own hand
(`BillStep`).

**`OverdraftProofs`.** `OnlyStrainedAreOverdrawn` (`NotedSpec => []OnlyStrainedOverdrawn`),
for any number of calls at once, with expiry, for accounts that open with no debt
(one in debt is overdrawn before any call). What an account has met is noted as it
happens, so the theorem assumes nothing about callers: it says which steps of the
code overdraw an account. They are needed: two overlapping Reserve calls are
counted in neither's check; a Commit that moves its amount from the rows to the
events between the two reads of a Reserve is counted in neither; a reservation past
its `expires_at` is not counted but can still be committed.
`OnlyStrainedOverdrawn` itself is not inductive, because a
Commit that has deleted its row, and a Reserve that has settled on its charge,
have their INSERT still to come. The invariant counts what an account is exposed
to (`Exposure`: for each unbilled request its row, else what a commit has in hand)
against its balance (`Solvent`, `Covered`, `SeenBehind`; `HoldsInv` makes the exposure
of a request one row), and each kind of step is shown to leave at least as much
free (`QuietKeeps`, `BillKeeps`, `InsertKeeps`) or to insert what was covered
(`InsertSolvent`). Sums over finite sets are reasoned about from the definition of
the community modules by least counterexamples (`SumRemove`, `SumUpdate`, `SumAtMost`),
since the library's induction rules cannot be instantiated here.

**`OrchestratorProofs`** proves every safety property of `Orchestrator` that holds.
`AttemptsInv` ties the phase of an attempt to the step its call is at: while the
attempt waits, the call is the one it made; a call whose attempt is over belongs
to one that met a fault; nobody commits without a good result. From it follow
`AttemptTypes` and `CallsTheEngine` (`OSpec => Spec`), which carries the engine's
theorems over to the composed system, `EngineKeepsLedger` among them.
`DeliveredIsPaid` is not inductive: `PaidInv` adds that an attempt whose commit has
answered ok has its request's event to itself, because `CommitBill` finds the
request unbilled only once, and `AskedInv` follows the account from the attempt to
the row, the commit and the event. `NoHoldLeftBehind` follows from `ReleaseInv`: for
every row some attempt at its request still has the commit or the rollback ahead,
or met a fault. `MoveAttempt` disposes of the attempts a step is not about.

**`OcrFallbackProofs`.** `TypeCorrect`; `Counters`, the inductive invariant that ties
`failureCount` to the streak while closed and `successCount` to the successes
while on trial, whatever late answers and blind revivals do; from it the action
properties `OpensOnlyAfterStreak` and `ClosesOnlyAfterSuccesses`.

**`PaymentsProofs`.** `TypeCorrect`, `EachCreditedOnce`, `CompletedForGood`. The
inductive invariant adds to `TypeOK` that a delivery at work knows its order and,
for every order nobody raced for, `OneHand`: one at a time has it in hand,
whoever is about to write it has seen it neither completed nor credited, and a
credited order is completed. `HandKept` disposes of the steps that do not touch
an order.

**`SubscriptionsProofs`.** `TypeCorrect` rests on `IInv == TypeOK /\ JobsInv`: a call at
work has a job whose operation and tariff fit its statement, and a row in hand
where it needs one. `LastDowngradeCorrect` adds `AnnouncedInv`: every call that has read
the row of a subscription and was not overtaken has in hand the downgrade that
was announced last, and so writes it back. `BalanceCorrect` adds
`KnowsTotal`: for an account no late call has written, snapshot and later events
sum to `total`, and so does what each call has read, up to the events that have
overtaken it. `SpendsCorrect` adds that what a checked call is about to take is
free (`Free`, `Covered`) as long as nothing raced for it. `PackageCorrect` adds what
each statement of CreateSubscription has written before it.

**`CabinetProofs`** proves every property of `Cabinet` and `Gateway` but the violated
ones. `TypeCorrect` rests on `IInv == TypeOK /\ CInv /\ RequestsInv`: a call at work
has a job that fits its statement, and rows in hand that exist (`CallOf`); sessions
and keys belong to organizations; a request past authentication has an owner.
`Kept` carries most of the argument: no step deletes a row, moves it to another
owner or takes back a hash, a revocation, a confirmation or a top-up, so what one
call knows survives the steps of the others (`CallKept`). From it follow
`HandedKeyCorrect`, `RevocationCorrect`, `CompletedCorrect` and
`GatewayRefusesDeadKeys`. `OneAccountCorrect` adds that an organization whose
registration has not opened its account has none, and that one call at most is
about to; `OwnAccountCorrect` says where every account in a row or a context comes
from (`OrganizationRows`, `SessionRows`, `PaymentRows`, `Contexts`), and
`MeIsOwnCorrect` carries it on to the gateway. `MockCorrect` adds `OneHand`.

**`PassportProofs`** proves every property of `Passport`, for pages of any length. The
properties relate the printed page to the response, which is six steps away.
The invariant `ReadInv` says what holds in between: the parser has the lines of
the page in their order, and from its step on each field is what that step's
operator reads from the page, up to the normalisation. That the lines are in order
is, for Yandex v1, the correctness of `sortBlocksByY` (`SortRestores`): after pass i
the blocks up to place i are the topmost ones in their order, whatever order they
came in (`Settled`, `ExchangeSettles`, `PassSettles`). With the invariant a
property is a statement about the operators of `PassportText`. `StandardPageIsRead`: a
label that is on one line only gives the name above it (`ByOnlyLabel`), so nothing is
left to complete or to look for in windows. `UnlabelledPageIsRead`: no label gives
anything, and the first window has all names of a short page (`FirstWindow`,
`ThreeNames`, `TwoNames`). `PairIsKept`: the pair comes from one place of the page
(`KeptHasPair`), and the single lines are asked for what is missing only. `BirthIsFirst`: an accepted date stays as it is or is
dropped, so the order the parser made survives the normalisation. `BothDatesAreFound`:
the context may give one of the dates, both or none, but never one place twice
(`ContextType`), and what it does not give is the other one. `TypeCorrect` needs that
`None` is no number and no date, and that the passport model answers values of
the kinds its entities are named for (`EntitiesAreAnswers`).

Two properties of recursive functions are proved here: that the functions which
the two loops of the sort are written as exist, and what they compute. The
library's induction rules cannot be instantiated, so both are by a least
counterexample, as the sums of `OverdraftProofs` are.

Only model-checked: all liveness (`AttemptsEnd`, `PrimaryComesBack`, `PaidIsCredited`),
since fairness and `ENABLED` are out of the provers' reach.

## Plan

In this order, the most important behaviour first:

1. *done* `Billing`, `ChargeLedger`: the engine and its promise, proved.
2. *done* `Orchestrator` over `Billing`, and `OcrFallback`, both proved.
3. *done* `Payments`: orders, repeated webhooks, expiry, the schema's CHECK, proved.
4. *done* `Subscriptions`: create, upgrade, snapshot, recalculation, proved.
5. *done* `Cabinet` with mock payments, and `Gateway` over its tables, proved.
6. *done* `PassportText`, `Passport`: clients, parser, normalisation, proved.
7. Open: `Subscriptions` composed with `Billing` statement by statement, in place of
   `Hold`, `Use` and `Unhold`.

## Not modelled

* The sliding window in Redis (`RedisRateLimiter.Allow`): no request reaches it.
* `pkg/normalizer/normalizer.go` and `ValidatePassportFields`: a second text parser and
  a validation that no service calls. Letter case, spaces and stop words of
  names; confidences, except that a low one fails a recognition (`Orchestrator`).
* The mock OCR provider, which fails at random.
* The audit log `account_events`, `last_login` and `last_used_at`: written, their
  errors ignored, read by no handler.
* HTTP parsing, headers and routing beyond what the gateway decides on; logging,
  generated API docs, deployment, static and legal pages, the landing page, the
  administration script: no state of the protocols.
