# Formal model of digital_store

TLA+ specifications of `digital_store`, a shop for digital goods written in Go
on PostgreSQL, with the TLC runs that check them on small instances and the
theorems TLAPS proves for all. It is kept beside the code: every definition
names, in `PROJECT.json`, the lines it stands for.

## The system

| Component | State | Operations |
|---|---|---|
| Order intake (`order/repository.go`) | `orders`, `payment_events` | `create` (with `applyPendingPayments`), `ProcessPayment` |
| Delivery queue (`delivery/repository.go`) | `delivery_attempts`, `orders`, `ledger_entries` | `ClaimNextJob`, `MarkDelivered`, `MarkOutOfStock`, `MarkFailed`, `RecoverStaleJobs` |
| Worker and service (`delivery/worker.go`, `delivery/service.go`) | one job in memory | poll loop, `Process`: supplier A, then perhaps B, with retries |
| HTTP client (`delivery/http_provider.go`) | a call under way | `Issue`: turns an answer or its absence into one of four errors |
| Suppliers (`providermock/server.go`) | `provider_issues`, `provider_keys` | `issueCode`, idempotent by `request_id` |
| Reconciliation (`reconciliation/service.go`) | none of its own | `RetryDelivery`, `Repair` (in a loop), `BuildReport` |
| Catalogue (`catalog/repository.go`, `httpapi/catalog.go`) | `products`, read only | keyset pagination |
| HTTP server (`httpapi/server.go`, `httpapi/operations.go`) | open requests | runs the transactions above and answers |
| Process (`cmd/api/main.go`) | HTTP server, worker, repair loop | start, graceful stop |

The components share no memory. They meet in the tables: intake creates the job
row of a paid order, workers in any number of processes claim job rows (`FOR
UPDATE ... SKIP LOCKED`), call the suppliers outside any transaction and store
the result, reconciliation requeues or recreates rows. What makes this hard:

* webhooks arrive twice, concurrently, out of order, and before their order;
* transactions lock `orders` and `delivery_attempts` in two different orders,
  and act on what they have read without a lock;
* between a claim and its result a worker may die, or be so slow that its lease
  expires and a second worker takes the same row (rows carry no lease number);
* a supplier may have issued a code although the caller saw a timeout, a broken
  connection or garbage, and may handle a request after its caller gave up;
* stock runs out while several orders compete for the last key;
* the process stops, or is killed, between any two steps, and answers get lost;
* every transaction must leave the order, its job and the ledger in agreement.

## The modules

| Module | What it is |
|---|---|
| `OrderLifecycle` | abstract specification of an order: the status graph, and a code handed over once, with the delivery |
| `Store` | the tables, one action per committed transaction of intake, delivery queue and reconciliation; `Lifecycle` maps it to `OrderLifecycle` |
| `Transactions` | the same transactions statement by statement at READ COMMITTED, with row locks, waits and aborts, on the tables of `Store` |
| `Delivery` | workers, calls and suppliers, composed with `Store`: workers run its transactions |
| `Issuing` | abstract specification of a supplier: one code for an order, no code for two |
| `Supplier` | `issueCode` statement by statement: pool, advisory lock, SKIP LOCKED, rollback; implements `Issuing` |
| `Catalog` | a client reading page after page while products come and go |
| `Application` | one process and its clients, composed with `Store`: start, stop, kill, the repair loop, what clients are told |
| `MC...` | symmetry sets, key tables and products for TLC |
| `StoreProofs` | the inductive invariants of `Store` and the theorems that follow from them |
| `LifecycleProofs` | proof that `Store` implements `OrderLifecycle` |
| `TransactionsProofs` | proof that the statements of `Transactions`, however interleaved, commit what `Store` does in one step |
| `DeliveryProofs` | proof that `Delivery` runs `Store`'s transactions and nothing else, and that a job that keeps within its lease has one worker |
| `SupplyProofs` | proof that codes are genuine, issued once and sold once, and without faults never in vain |
| `SupplierProofs` | proof that `Supplier` implements `Issuing`, keeps its tables in agreement, and is out of stock only when it is |
| `ApplicationProofs` | proof that `Application` runs `Store`'s transactions, and that answers stay true |
| `CatalogProofs` | proof that pagination shows nothing twice and skips nothing |

### State and code

`Store`:

* `order[o]`: `status`, `amount` (amount and currency together: the code only
  compares them) and `paid` (`paid_at IS NOT NULL`). An order without a row is
  `"absent"`.
* `attempt[o]`: the only `delivery_attempts` row of an order (unique
  constraint). `next` and `lease` are what queries can tell of
  `next_attempt_at` and `locked_at`: null, past or future; null, fresh or older
  than two minutes. `error`, `attempts` and the timestamps nothing reads are
  left out.
* `event[e]`: `payment_events` by `event_id`; `at` is the rank of `received_at`.
* `ledger[o]`: how many entries of each type there are. The partial unique
  indexes are the conditions in `LedgerAfter` and `MarkDelivered`.

`applyPendingPayments` is a loop; `CreateOrder` states its outcome (the first
event of the right amount decides). `CreationIsAtomic` of `Transactions`, which
has the loop, says that the two agree. `RowLoss` says whether job rows may be
deleted behind the program's back, the damage `Repair` is there to undo.

`Transactions`: `call[c]` is a transaction under way: where it is, what it has
read and what it will write. `todo` and `done` are the events that the loop of
`applyPendingPayments` has before and behind it; it takes the earliest of `todo`
each time, the order its select gives them. Its `pc`, and the sets `held` and
`taken`, tell which locks it holds (`HoldsOrder`, `HoldsJob`, ...); the tables
hold what is committed. `RecoverStaleJobs` and `Repair` take the rows of several
orders in one statement and in no particular order: `left` and `seen` are what
their snapshot showed, `held` the job rows they have locked or inserted so far,
`taken` the `orders` rows, and each of their locks is a step of its own
(`LockStale`, `RecoverOrder`, `InsertMissing`, `ShareOrder`). A statement that
waits for a lock is an action that is not enabled. The last lock of a
transaction and its commit are one step, since nothing it does in between can be
seen. Any transaction may abort at any point, which also is how PostgreSQL
breaks a deadlock: a webhook or a retry and a worker lock `orders` and
`delivery_attempts` in opposite orders, and two recoveries, or two repairs, may
lock the rows of two orders in opposite orders. Rows are lost only while no
transaction works on their order.

`Delivery`: `worker[w]`: where a worker is in `Run`, `Process`,
`issueWithRetry`; `issued[p][o]`: the code in `provider_issues` (`request_id` is
`req-<order>-1`, so the order stands for the request); `late`: requests whose
caller has given up and that a supplier may still handle. A supplier is one step
here: `Issue` is the action `Give` of `Issuing`, word for word, which is sound
because the code keeps to it (`ImplementsIssuing` of `Supplier`, statement by
statement). A late request that could only repeat a known code changes nothing
and is not kept. `Slow` are the orders whose jobs may take longer than a lease;
those of the others do not.

`Supplier`: `owner` and `issued` are `provider_keys` and `provider_issues`,
`advisory` the advisory locks, `req` the requests. A key is locked by the
request that is about to write it. The scan for a free key goes key by key, as
SKIP LOCKED does, each tested when the scan gets to it.

`Catalog`: SKUs are ranks in the order the database compares them; blanks that
the handler trims from a cursor and collation are left out.

`Application`: `app`, `loop`, `job` and `open` are the process, `notice` what
the payment system has to tell, `told` the answers clients got. The worker's
claim and result are the two steps that matter here; `Delivery` has what is
between them. `rest` says that a poll found nothing and the worker waits in its
`select`: only there does it see the recovery ticker, and after a job it polls
again.

### One transaction, one step

In `Store` a transaction is one step. `Transactions` shows why: what commits is
what the atomic action would do in the state of the commit (`CreationIsAtomic`,
`PaymentIsAtomic`, `DeliverySideIsAtomic`, checked by TLC and proved). A recovery
or a repair does it to the rows it got (`RecoverRows`, `RepairRows`): one that
became stale, or went missing, behind its snapshot is left to the next. The
exception is `create` against an early webhook of the same order, where there is
no row to lock; `Store` takes them one after the other, and `Transactions` shows
what happens when they overlap. `received_at` is the time a transaction began; of
webhooks that overlap the row lock decides which is applied first, so
`FirstMatchWins` speaks of webhooks that do not overlap.

## Runs

Bounds are constants of the `.cfg` files. `MaxClock` bounds the webhooks of
`Transactions`, `MaxOpen` the requests of `Application`; other counters are
bounded by the number of events, keys and `RetryCount`.

| Run | Instance | Checks |
|---|---|---|
| `store` | 2 orders, 3 events, 2 amounts, 2 codes, job rows may vanish | types, agreement of tables, audit, payment order, jobs, finality, refinement |
| `transactions` | 2 orders, 2 events, 2 amounts, 2 callers, 3 webhooks, rows may vanish | statement-level transactions do what atomic ones do, on one order or several; statuses agree; delivered rows stay |
| `delivery` | 2 orders, 2 workers, 1 code per supplier, all faults, one order slow | codes are genuine and unique, a job in time has one worker, the first result stands |
| `delivery_reliable` | 2 orders, 2 workers, 2 attempts, no faults | no code is issued in vain, no order has two |
| `delivery_live` | 1 order, 2 workers, all faults, no slow job | a paid order is delivered in the end |
| `supplier` | 3 orders, 3 requests, 2 keys, 2 connections | refinement, tables, stock, every request ends |
| `catalog` | 5 products, pages of 1 or 2 | nothing twice, nothing skipped, the end is reached |
| `application` | 1 order, 1 event, 2 amounts, 2 open requests, rows may vanish | answers are true; service, lost rows and payments recover, and so do left jobs if the worker rests |

`StatusAgreement` and `PaidOrderHasJob` allow for missing rows where rows may
vanish (`RowLoss`). For `Delivery` they are not checked again but proved, with
`StatusesUnderWorkers` and `JobsUnderWorkers`, from what holds of `Store`; so is
`RunningJobIsLeftAlone` for `Transactions`.

Two orders are enough to compete for a worker and a code and for an action on
one order to disturb another; all transactions but `RecoverStaleJobs` and
`Repair` touch one order. Three events are enough for a duplicate, a first match
and a later contradiction. Two workers are enough for a job with two owners.
`delivery` has one attempt at each supplier, as a second one adds states but no
new outcome of a call; the violations below and `delivery_reliable` have two.

`transactions` has two orders, so that two statements that take several rows
meet at one row with another in hand and wait for each other, and a result, a
payment or a lost row comes between the snapshot and a lock. Two callers are two
of these, or one and any transaction after another; two events in three webhooks
bring a duplicate, a contradiction and an event for each order; 2.2 million
states up to symmetry. The proofs are for any number of each.

`application` has one order. What others do to it is in two places: a worker
busy with their jobs (no fairness on its polls, below), and a repair loop that
fails again and again.

`supplier` has more orders than keys and more requests than connections: a
request may wait for the pool, for the lock of its order, or pass a key that is
only locked. `catalog` has pages whose last row is the last product and pages
followed by one more. Liveness is checked without symmetry.

`delivery_live` is for one order and for jobs that keep within their lease: with
two workers that are always slower than their leases the one keeps taking the
row from the other, and with several orders recovery may starve (below). With
the defaults a job lasts at most 2 suppliers x 3 attempts x 2 s and four
pauses, far below the two minutes of a lease, so the assumption is that of the
deployed program.

### Fairness

* `Delivery`: time passes (`NextAttemptDue`, `LeaseExpires`), a worker goes on
  with what it does (its steps are straight-line code and every call has a
  deadline), and, as strong fairness, faults and crashes do not forestall a step
  for ever: a due job is claimed in the end, a worker that is idle again and
  again meets its recovery ticker, a supplier with codes issues one, and a code
  received is stored. Webhooks, creations, retries by an operator, faults and
  crashes have no fairness.
* `Supplier`: a request goes on; the pool and the lock manager serve their
  queues in order, so whoever waits and could be served again and again is
  served (strong fairness). Nobody has to hang up and nothing has to fail.
* `Catalog`: the client follows the cursor it is given.
* `Application`: the container is restarted (`restart: unless-stopped`), main
  reacts to the error of a goroutine, a shutdown ends (it has a deadline),
  leases grow old, a job ends, handlers return while the process is up. As strong
  fairness: the repair loop succeeds in the end, so does a recovery when the
  worker waits in its `select` again and again (the ticker comes every 30 s, the
  poll timer with its own interval), and of the payment system's repeated
  webhooks one is answered in the end. That the worker ever gets to the `select`
  is not assumed: there is no fairness on its polls, for it may be busy with jobs
  of other orders all the time. Hence the premise `[]<>rest` of
  `LeftJobIsRecovered`; `recovery_starved` shows that the code does not grant it.
  Failures, kills and lost answers are possible at every moment.

## Where the code departs from what it says

Each has a run that is expected to violate one property.

* `intake_race`: a webhook that finds no order and the creation that does not
  see the webhook yet can both commit. The payment stays unprocessed for good.
* `fallback_after_timeout`: A times out, the retry is answered with a refusal,
  only the last error is kept, and B is asked although A's result is unknown.
* `two_codes`: a connection that breaks after A issued is reported as
  unavailable, so B issues a second code.
* `recovery_starved`: a worker that always finds a due job never looks at its
  recovery ticker.

Met on the way and not modelled: the catalogue is routed at `/api/ctalog`
(`httpapi/server.go:99`) while README and tests speak of `/api/catalog`;
`cmd/provider-mock` starts a second API and worker, and nothing calls
`providermock.NewServer`; creating an order again is answered 500. The second
statement of `Repair` (recoverable jobs without `next_attempt_at`) never finds a
row (`PaidOrderHasJob`), which is why `Transactions` leaves it out. `Repair` may
be the victim of a deadlock, with a webhook or with another `Repair`, and one
failure ends `RunRepairLoop` and with it the application; `Application` shows
that it comes back.

## What is proved

`StoreProofs` assumes only `StoreAssumption` (NULL is no amount, supplier, code
or order) and is for any sets of orders, events, suppliers and codes, whether or
not rows are lost.

The properties are not inductive as they stand. That a delivered order has a
payment entry, say, depends on a running job belonging to a paid order. `IInv`
puts what transactions rely on into one predicate per order, `RowsAgree`: the
pair of statuses is one of `Pairs`; `paid_at` is set exactly in the statuses a
payment leads to; the ledger counts are what the order says; a waiting job has a
next attempt, a running one a lease, a delivered one neither. There is a lemma
for each action (`CreateAgrees`, `ProcessAgrees`, ...), most by way of `OneOrder`
(an action on one order leaves the others alone) and `MoveAgrees`; `PaymentAgrees`
is the case analysis of a payment. From `RowsCorrect` follow type correctness,
`StatusAgreement`, `LedgerAgreement`, `PaidOrderHasJob`, `AuditClean`, and the
action properties `DeliveredIsFinal` and `RunningJobIsLeftAlone`.

A second invariant, `PaymentInv`, leads to `FirstMatchWins`. Two facts make it
inductive: events arrive at different times, all before the clock (`Arrived`),
so a new one is never the first unless it is alone; and the events of an order
that does not exist all wait (`EventsAgree`), so the first that waits is the
first there is. A creation, a webhook that is early, one of the wrong amount,
and one that matches have a lemma each; everything else moves an order among the
statuses of a paid one (`MoveDecides`).

`LifecycleProofs` proves `ImplementsLifecycle`. It needs one more invariant, that
a row which is not delivered holds no code, and `IInv` before and after a step:
a code changes only where a job, hence its order, becomes delivered.

Above `Store`, `DeliveryAssumption` is used as well: two suppliers, and no code
in the keys of both (`provider_keys_code_unique` of migration 001). Workers,
orders, codes, attempts and faults are arbitrary.

`DeliveryProofs` proves `DTypeOK` with the facts about a worker's job on which
the guards of `MarkDelivered` rely (supplier and code are real), and from it that
`DSpec` implies `Spec`: a step either stores a code (`Complete`) or is one of the
other transactions (`QuietOrComplete`). What is proved of `Store` holds of the
composition by that theorem alone.

`SupplyProofs` proves `DeliveredCodeWasIssued` and `NoCodeSoldTwice`. The
invariant follows the code: what a supplier issued is one of its keys and no
other order's (`SupplyInv`), it is issued for good (`IssuedForGood`), the code in
the hands of a worker is the one issued for its order (`HeldInv`), and so is the
code in a delivered row (`SalesInv`). Finality of delivered rows is needed for
the last: a second worker with the same job must not overwrite the first one's
supplier or code. The suppliers issue as `Issuing` says by definition; that the
code does is `SupplierKeepsPromise` of `SupplierProofs`, and the two meet in that
specification.

`SupplierProofs` relies on `SupplierAssumption` (NULL is no key, request or
order). `Exclusive` says what a request may count on the further it gets: from
the look for an earlier answer on it alone holds the order's lock, so the order
still has no code; once it has locked a key, the key is nobody's and no other
request writes it. Hence the two tables change together, and only for an order
without a code and a key without an owner.

`OutMeansScarce` is about steps long past: a scan may have passed a key that has
been given back since. `ScarceInv` counts them: of n orders that ever asked, at
most n - j are past key j (their scan is beyond it, or their code is a later
key). Passing key j takes another order that has it, and that one is past j - 1
but not past j (`OneStaysBehind`); nothing else gets an order past a key
(`PastKept`). An order that has passed all keys therefore leaves one other order
behind at each.

`DeliveryProofs` goes on to `OneWorkerPerJob`, for any faults: of a job that
keeps within its lease the row is processing under a fresh lease while somebody
is busy with it, and nobody else is (`LeaseInv`). Claims need a row that is not
processing, recovery one whose lease has expired, and payments and retries leave
a processing row alone.

`LeaseInv` is what `NoneInVain` and `OneSupplierIssues` of `SupplyProofs` rest
on. They assume `Faults = {}` and `Slow = {}`, which is what `delivery_reliable`
has: no call fails in transit, no worker stops, no job outlives its lease.
Nothing less will do: a crash or a late answer leaves a code behind until the
job is taken up again, and `two_codes` shows what a broken connection does. Under
these assumptions nothing is ever `late`, a code that was issued is in the hands
of the worker that asked for it (`NotInVain`), and that worker can do nothing but
complete its job (`CodeInHand`), as the row is still its own. A finished row
names one supplier and a job has one worker, so no order has two codes.

`TransactionsProofs` is for any number of callers, orders, events and amounts,
and for clocks of any bound. `TInv` has two parts. `TablesInv` says that the
committed rows satisfy `IInv` of `Store`, although `TSpec` does not take `Store`'s
steps. `CallsInv` is about the open transactions. `Facts` and, order by order,
`OrderFacts` and `JobFacts` say what each may still count on at its next
statement: the row it read under a lock is the row there is, the job it locked is
still due, running or stale, a row it inserts is still missing, the event it
inserted is nobody else's, and what its loop has made so far of a new order is
what the first event that matches makes of it (`Loop`, `FirstOnly`). `Apart` says
which locks exclude which, on every order. A statement that commits nothing
changes one call (`StatementStep`); a commit must leave the tables in agreement
and leave `Undisturbed` what the others count on (`CommitStep`), mostly because
nobody else has a lock on the rows it changes (`LoneCommit` for a set of orders,
`SingleCommit` for one). There is a lemma for each commit that shows it to be a
step of `Store`, `ClaimCommits` to `RepairCommits`: a claim does not look at the
order again, but a waiting job implies that its order can be claimed; every job a
recovery holds is still stale, whichever it waited for before, and its order was
being delivered in the snapshot as well (`RowSets`), so that its two updates
touch the same orders; every row a repair has inserted is still missing and its
order paid. By `RowsStep` all that happens to the rows is a step of `Store`, such
a part of a recovery or repair, a payment for the order as it is, or an order
that appears, so `DeliveredIsFinal` and `RunningJobIsLeftAlone` hold at the level
of statements too; these, like `TransactionStatuses` and `TransactionLedger`, do
not leave out the creation and the webhook that miss each other.

`ApplicationProofs` assumes of `Application` only that None is no notice. `AInv`
adds to `IInv` that a webhook is only sent for a notice, that events on record
say what their notice says, and what the answers given so far mean; it holds
because orders are never deleted (`OrdersStay`), delivered rows are final and no
transaction rewrites an event. Each group of steps (process, worker and loop,
handlers, clients) has a lemma that shows it to be a step of `Store` as well,
hence `ApplicationUsesTables`.

`CatalogProofs` is for any finite set of products and any page size. The
invariant `CInv` says that everything shown is up to the cursor and every steady
product up to the cursor has been shown; a page is an initial segment of what
lies behind the cursor (`FirstOfIsClosed`), and the whole of it when it is not
full (`FewRowsAreAll`).

Every invariant and action property of a passing run is stated by a theorem. Only
model-checked is liveness under fairness, which is beyond the prover
(`PaidIsDelivered`, `EveryRequestEnds`, `ReadingEnds`, and of `Application`
`ServiceIsRestored`, `MissingJobIsRecreated`, `LeftJobIsRecovered`,
`PaymentIsAccepted`), and the violations of the runs above.

Definitions called faulty in the comments are not part of the specification.
They are mistakes a change to the code could make, and each property of a
passing run fails with one of them in place of the right definition.

## Not modelled

* The process `cmd/provider-mock` starts: for the tables it is one more worker
  and one more server, which `Delivery` and `Transactions` have.
* Configuration and seed data; of the database pool, only its size.
* Parsing and formatting of HTTP, health checks, logging. A request that is
  refused changes nothing, and `Refuse` stands for all such answers.
* The amounts, names and stock of catalogue items, which no decision depends on.
* Refunds, a ledger type nothing writes.
* Ties of `received_at`, which are broken by `event_id`: events are strictly
  ordered here.

## Plan

`Application` with two processes, as deployed with `cmd/provider-mock`.
