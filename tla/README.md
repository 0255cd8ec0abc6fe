# Verification of the balance tracker

TLA+ modules, TLC configurations and TLAPS proofs for the balance tracker: a
FastAPI backend (`src/app`), its refresh workers, and a Telegram bot
(`src/bot`). The backend collects the balances and transactions of exchange
accounts and wallets for organizations that pay by plan. The modules are
translated from the code; `PROJECT.json` names, for every definition, the lines
it stands for, and for every hazard the properties that cover it.

How to run everything, from this directory:

    tlc -workers 2 -config SyncPostgres.cfg MCSyncJobs   # also SyncSerial, SyncDuplicates
    tlc -workers 2 -config Billing.cfg MCBilling         # also BillingSerial, BillingTwice, BillingDebits
    tlc -workers 2 -config Providers.cfg MCProviders     # also CircuitStaysClosed
    tlc -workers 2 -config Users.cfg MCUsers             # also SharedAnswers
    tlc -workers 2 -config Live.cfg MCLive
    for m in *_proofs.tla; do tlapm $m; done

`SyncDuplicates`, `BillingTwice`, `BillingDebits`, `CircuitStaysClosed` and
`SharedAnswers` end with a counterexample on purpose: see "Findings".

## 1. The system

### Components, their state and their operations

| component | state | operations | what makes it correct | module |
|---|---|---|---|---|
| Sync jobs (`services/sync_job_service.py`, `worker.py`) | table `sync_jobs`; the job held by each worker loop | enqueue with or without deduplication, claim (row lock on PostgreSQL, conditional UPDATE elsewhere), run, recover stale rows | a row is run once; it ends once and stays as it ended; every queued row ends; with deduplication one active row per key | `SyncJobs` |
| Refresh scheduler (`scheduler.py`) | none of its own | recover, look for active jobs and the plan's interval, queue all integrations of an organization | it never queues while a job is active; it polls recovery | `SyncJobs` |
| Integration administration (`services/integration_service.py`) | `integrations` | create under limits, activate, deactivate, delete, queue a refresh | a job survives the deletion of what it is about; no more integrations than the plan allows | `IntegrationLimits`, `SyncJobs` |
| Subscriptions (`services/billing_service.py`) | `subscriptions` | switch, extend, renew from the ledger, downgrade, default | one active row; a renewal is paid once and buys time | `Billing` |
| Invoices (`services/crypto_bot_service.py`, `routers/billing.py`) | `payment_invoices`, `billing_events`, `billing_webhook_events` | create, refresh, webhook | what was paid is credited or granted, once; what overlapping requests cost has a bound | `Billing`, `Payments` |
| Ledger (`services/ledger_service.py`) | `ledger_entries` | add an entry, look for a source, sum | entries of one source are not doubled | `Billing`, `Promo` |
| Promo codes (`services/promo_service.py`) | `promo_codes`, `promo_redemptions` | redeem | one reward per organization, the count is that of the redemptions | `Promo` |
| Entitlements (`services/entitlements_service.py`) | reads plans, subscriptions, usage | limits on integrations, refresh interval, reconciliation | limits hold under concurrent requests | `IntegrationLimits`, `Billing` |
| Balances (`services/balance_service.py`, `balance_integrity.py`, `repositories/balance.py`) | `balances`, `balance_history`, `service_statuses`; a cache, circuits and locks in memory | refresh all, get all, save, degrade | status, balance and history agree, and what overlapping requests leave is set right; an implausible answer is not saved; a provider is passed over for a reason | `BalanceRefresh` |
| Exchange and chain clients (`services/exchange_rest.py`, `okx_wallet.py`, `tron_ton_service.py` and others) | none | the requests that make up one balance | a balance without an account is marked as incomplete | `BalanceSources` |
| Exchange client manager (`services/ccxt_manager.py`) | fetches in flight, limiters per operation | share a fetch, wait for a permit, prune | one fetch for the queries of one key (account, bucket of since, limit), bounded calls | `ExchangeCalls` |
| Hot response cache (`services/response_cache.py`) | values with their time, a lock per key | get or load, invalidate, evict | one loader per key; nothing older than its time | `HotResponseCache` |
| Transactions (`services/transaction_service.py`) | `transactions` | fetch, save a batch, count | what is reported is stored, new ones are counted once | `Transactions` |
| Notifications (`services/notification_service.py`, `repositories/notifications.py`, `src/bot/notifications.py`) | settings, cursors, events with status | generate from statuses, jobs and transactions; list, send, mark sent or failed | nothing is passed over; the last word is true; a message comes once | `Notifications` |
| Authentication (`services/auth_service.py`, `repositories/auth.py`) | users, organizations, memberships, identities | first sign-in of a Telegram user | who has an identity has an organization; who asks gets one | `Bootstrap` |
| Bot screens (`src/bot/handlers`, `services/screen_service.py`, `state/repository.py`) | the state of each chat, what its messages show | tap, text, /start, broadcast, redraw | the screen is that of the state; a screen is acted upon once | `ChatScreens` |
| Bot caches (`src/bot/repositories/api_repository.py`, `services/balance.py`, `services/runtime.py`) | sessions, balances, answers of the backend | show, write, expire | a user is shown what is theirs and recent, and after a refresh what it brought | `BotCaches` |
| Admin, audit log, metrics, middleware | append-only log, counters | single statements | nothing concurrent | |
| DeBank SDK, migrations, scripts, bot template | | | separate tools | |

### How they interact

The components share one database and no memory, except for the hot cache, the
exchange clients and the single flight of transactions, which live in one
process. A request of the API is one SQLAlchemy session (`core/database.py`);
`expire_on_commit` is off, so what it has read stays as it was read. API
requests and the scheduler put rows into `sync_jobs`; worker loops, in one
process or several, take them out, call a provider under a timeout, and write
balances and service status; recovery, run by the scheduler and by every worker
loop, fails rows that seem dead. Balances and status are read by the API
through the hot cache and by the notification generators, which the bot
triggers over HTTP. Crypto Bot calls the webhook of the API, at least once per
payment; users press "refresh invoice" at the same time; every request that
needs the plan of an organization reconciles its subscription with the ledger.

### What is hard

* Concurrency between sessions at read committed isolation: look-then-insert
  (deduplication, billing events, ledger sources, limits, promo counts, batches
  of transactions), read-then-write of ORM objects (period ends, run results),
  commits in the middle of an operation (a plan switch inside an invoice update).
* Concurrency between coroutines of one process: what is read before an await
  is used after it (cache loaders, shared fetches, the state of a chat, the
  circuit of a provider).
* Failure: a worker may die after its claim, a request between two commits, one
  account of several may not answer, a drawing of a screen may fail.
* Time: recovery by age races a slow run; renewals come long after the end of a
  period; caches and limiters expire under those who use them.
* Delivery: webhooks are repeated and reordered, messages are sent before they
  are marked as sent, items become ready in another order than that of their ids.

## 2. Modules

| module | models | checked by | proofs |
|---|---|---|---|
| `JobQueue` | abstract: what a queue of jobs promises | refined by `SyncJobs` | |
| `SyncJobs` | the table `sync_jobs`, requests, scheduler, workers, recovery, and as much of integrations, balances and status as runs touch | `MCSyncJobs`, `MCLive` | `SyncJobs_proofs` |
| `Payments` | abstract: what billing promises to those who pay | refined by `Billing` | |
| `Billing` | invoices, subscriptions, ledger and webhook events of one organization | `MCBilling`, `MCLive` | `Billing_proofs` |
| `HotResponseCache` | the cache in front of the reads of the API | `MCProviders` | `Caches_proofs` |
| `ExchangeCalls` | shared fetches and limiters of one exchange | `MCProviders` | `Exchanges_proofs` |
| `BalanceSources` | how a balance is put together, for each exchange and chain | `MCProviders` | `Exchanges_proofs` |
| `BalanceRefresh` | balances, history, status, circuit and refresh lock | `MCProviders` | `BalanceRefresh_proofs` |
| `Transactions` | batches of transactions and their retry | `MCProviders` | `Exchanges_proofs` |
| `Notifications` | generations, cursors, outbox and the loop of the bot | `MCUsers`, `MCLive` | `Notifications_proofs` |
| `Promo` | the redemption of a code | `MCUsers` | `Accounts_proofs` |
| `IntegrationLimits` | integrations under the limit of a plan | `MCUsers` | `Accounts_proofs` |
| `Bootstrap` | first sign-ins | `MCUsers`, `MCLive` | `Accounts_proofs` |
| `ChatScreens` | one chat of the bot | `MCUsers` | `ChatScreens_proofs` |
| `BotCaches` | what the bot keeps of answers | `MCUsers` | `Caches_proofs` |

`MCProviders`, `MCUsers` and `MCLive` each hold several modules that share no
state. The first two extend them all, so that a run checks the very formulas
that the theorems state; `MCLive` extends `Billing` and instantiates the
others. A
behaviour is one of a single part, named by `part`; the other parts stay in an
initial state, in which the properties of their modules hold. Seen from one
module, such a behaviour is one of its own specification. So one run asks several
modules at the price of their sum. Where a
module has bounds that depend on one another, an instance names *casts*: a
cast is a set of actors and limits, and a behaviour begins by choosing one.

Modules write the positions of a request, reader or worker as `at`; what a
history variable records is said where it is declared, and no action is guarded
by it.

### SyncJobs

One action is one transaction, or one stretch of code between two awaits.

| variable | code |
|---|---|
| `status`, `target`, `payload`, `age`, `lastJob` | columns of `sync_jobs`: status, the integration and the payload in the dedupe key, the time since `coalesce(started_at, queued_at)`, the id sequence |
| `sinceRefresh` | time since the last successful refresh, for the plan's minimum interval |
| `pc`, `job`, `fetched` | a worker loop: where `claim_next_job` / `run_claimed_job` stands, the row it holds, the answer it is saving |
| `balance`, `actual`, `health` | the number of the answer saved last, whether it was complete, `service_status.is_healthy` |
| `integration` | `is_active`, or deleted |
| `rpc`, `todo`, `current`, `kind` | a request: where `enqueue_job` stands, what it still has to queue |

The look for a duplicate and the insert are separate steps, as are the select
and the update of a claim, the save of a balance and the save of a status, and
the last commit. `ClaimJob` has both dialects: on PostgreSQL the row stays
locked from select to commit and others skip it, elsewhere the UPDATE repeats
the status. `ProviderAnswer` is every outcome of the provider: a balance, one
marked `actual=False`, none, a reported failure, an exception or a timeout.
`Crash` drops the run and leaves the row as it was committed. `Recover` is the
whole UPDATE over all stale rows. When the integration is deleted under a run,
the foreign key refuses the balance, the session is unusable and the row is left
running (`StrandJob`): only recovery ends it.

Abstractions: `started_at` / `finished_at` and the result text are reduced to
`age` and the status; ids are given in the order of `queued_at`; one minimum
interval for all; a limited set of request kinds, since the payload is part of
the dedupe key (`"enforced"` is a direct `enqueue_job` with
`enforce_refresh_interval_at_run`, as `tests/test_entitlement_checks.py:446`
makes it). Ages saturate at one more than the largest timeout, which no guard
can tell from any larger value. The synchronous refresh of `BalanceService`
is in `BalanceRefresh`; the race of two first inserts into `service_status` is
left out.

### Billing

One step is a statement or a commit of one request. A statement sees what
others have committed; what was read before may be stale; an UPDATE waits for
the transaction that has updated the same row.

| variable | code |
|---|---|
| `settled` | external: payments that Crypto Bot has received |
| `invoice`, `paidEvents` | `payment_invoices.status`, the `payment.invoice_paid` rows of `billing_events` |
| `credits`, `debits`, `balance` | `ledger_entries` by source, and `get_balance` as a running sum |
| `plan`, `state`, `ends`, `rows` | `subscriptions` |
| `seen` | `billing_webhook_events` of providers other than Crypto Bot |
| `granted` | history: switches committed for a purchase or a notice |
| `at`, `subject`, `unchanged`, `row`, `base`, `asOf` | a request: where it stands, what it is about, and what it has read |
| `now` | the clock, in units of which `Period` make 30 days |

`LoadInvoice` is the read of both the refresh and the webhook. `ApplyPaid` is
the query of `has_billing_event`; SQLAlchemy flushes the changed invoice before
it, and that UPDATE takes the row lock (`FlushPasses`). `unchanged` says that
the status was already the one to be written, so that nothing is flushed; other
columns may still differ and would flush, which only removes interleavings.
`CommitSwitch` is the commit inside `switch_subscription_plan`: for a purchase it
also commits the invoice's status and gives up the lock, while the event that
marks the purchase as applied is committed by `RecordPaid`. `CommitNotice` is
`process_webhook_event` with its unique constraint, followed by a switch in a
transaction of its own. `StartRenewal` to `CommitExpiry` are
`reconcile_subscription`, with a step for each query.

`Payments` is what all this amounts to for one who pays: a handler takes a payment
up while it is not on record, and makes it good. A top-up is taken up by one
handler at a time and credited, recorded and shown in one step; a purchase is
granted and shown, and then recorded, by perhaps several handlers, each of which
may be lost in between. `Billing!ImplementsPayments` maps to it: `Giving` is what
the position of a request says it has taken up, `Owing` what it has granted and not
recorded, and the switches, the ledger and the deaths of the code are the steps of
the abstract handlers. `GrantsBounded`, `DebitsBounded` and `OverdraftBounded` say
how far the overlaps go that `billing_twice` and `billing_debits` show.

Abstractions: one organization; amounts in units of a top-up; all paid plans at
one price; `updated_at` is the time at which a transaction began, so that the
order among several active rows is left open (`CurrentRows`); the events that
Crypto Bot's own webhooks leave in `billing_webhook_events` guard nothing and are
left out; a request that does several of these things is several requests (within
one session the identity map may also show older attributes of a row already
loaded, which differs only when requests overlap and is not used by any property
that allows overlaps); holds, releases and entries of administrators are left
out. `Tick` waits for requests that have read the clock: they are over long
before it moves twice.

### BalanceRefresh

`holding` is what an integration holds at its provider. `Refresh` is `refresh_all`,
which holds the lock of its organization to its end, `GetAll` is
`get_all_balances`, which takes none. Each service then goes its own way: `Skip`
(the circuit is open), `Ask`, `ProviderAnswers` or `Fail`; when all have ended their
results are settled one after the other. A balance is compared with the latest row
by the guard (`Guard`), loaded again and compared by `save_balance` (`LoadToSave`),
and committed with its row of the history (`Save`); the report of its state is a commit
of its own, and so is the marking of a stale row, which is loaded first
(`LoadToMark`, `MarkStale`). Nothing is locked between a load and its commit.
`End` is also the death of the request, after any step. `CircuitIsOpen` of the code
forgets a circuit whose time is over: `Ask` does.

| variable | code |
|---|---|
| `balance`, `latest` | the rows of `balances` of a target, each named after the request that inserted it, since no constraint keeps two from inserting a first one; and the one that `get_latest_balance` finds |
| `history`, `recorded` | the last row of `balance_history` of a target, and the values of all |
| `loaded` | what a request has loaded: the row, whether its balance changes it, its `actual`, and (`since`) what others have committed to the target after that |
| `crossed` | history: targets that two requests wrote at one time, and none alone with a change since then |

An UPDATE writes the columns that differ from what was loaded, so `Save` leaves alone
the value that another request has committed if its own balance was the one that it had
loaded. `updated_at` and `created_at` are taken before the commit, so that of two
overlapping commits either may come out as the later one (`Commits`). `update_status`,
with its own SELECT, is one step: only overlapping requests could tell, for which
`HealthyIsActual` says nothing. What the session keeps of a row that it has loaded
before (`expire_on_commit` is off) and the second look of the stale mark of a
refused balance are taken for fresh loads.
Sizes 1, 2 and 4 stand for amounts of which the outlier guard takes one, and not
another, for plausible. One integration per service and organization; the shape
of a balance and the corrections by hand are left out.

### BalanceSources

A source is a sequence of requests taken from the code of its gateway; a request
has the account it reads and the failures after which the source goes on without
it (`left`), goes on with an error, or tries again: `RowOf` is that record, and
`LeftOut`, `WithError` and `AskedAgain` are the ways in which the code departs from a
request that must succeed. A behaviour chooses a source
and what its accounts hold, and then an answer to each request. The result says
which accounts are counted and whether the balance says that it is up to date
(`is_actual`: the kind `"actual"` or `"marked"`).
`Condoned` and `Unpriced` list, by name, what the code knowingly leaves out;
`CompleteOrMarked` is about the rest.

### ExchangeCalls, HotResponseCache, Transactions

`ExchangeCalls` has a step for each stretch between two awaits. A caller comes with
a query, which is an account, a time since when, and a limit. `FlightKey` is
`_singleflight_key`: the account, the bucket of the time, and the limit; so two queries
of one account whose bucket or limit differs are fetched side by side, and a caller may be
given an answer that begins less than a bucket before or after its own time. The
steps are joining or leading a fetch, its cancellation under `asyncio.shield`, the entry of the
limiter, the permit, the timeout of the wait, the count of calls, and the pruning
of entries. An entry of a limiter is an object that tasks may still refer to
when the map has a new one: `limiter` is the map from an operation to one of the
`Limiters`, and `entry` what each of these objects holds. `HotResponseCache` has the order of
least use, the lock per key, loaders that fail, and invalidation during a load;
a value is the version of the data that its loader has read. `Transactions` has a
session per refresh: each look-up flushes what was added before, a row of
another refresh makes it wait or fail, and a commit that fails is repeated one by
one.

### Notifications

One user. `UpdateStatus`, `InsertItem` and `SettleItem` are the backend; a
generation reads statuses and streams of items and commits cursors and events
in the order of the code; it may overlap another or die. The loop of the bot
fetches up to a limit, sends, and marks; either call can fail and the bot may
restart. `late`, `skipped` and `baseline` record why an item has no event. `inbox`
has the places in the log of what the bot has fetched; it sends the newest first.
`untold` has the services of which a generation was about to tell when it died: the
cursor has their new state, so nothing will, until they change again.
Muted services and the switch of system events are left out.

### Promo, IntegrationLimits, Bootstrap

`Promo` is one code and its redemptions by several organizations, with the
commits of a plan upgrade apart. `IntegrationLimits` has the count, the look for
a duplicate and the insert as steps of their own, beside switches of the plan.
`Bootstrap` has the sequences of two tables, which `_sync_postgres_sequence` sets
back to the largest committed id, outside of the transaction: two sign-ins may be
given one id, and one of them is refused at its commit.

### ChatScreens, BotCaches

`ChatScreens` is one chat: `ui` is `UiState`, `screen` what each message shows
with the revision it was drawn from, `update` the updates being handled with
their own copies of the state. `Buttons` is what the keyboards of
`keyboards/inline.py` offer on each screen; `SnapshotNeeds` and its like are what drawing them
asks of the backend. What an update does is a sequence of edits (`forward`, `replace`,
`act`, `fsm` and the others of `EditType`) computed when it begins and taken one by
one: loads, saves, edits of the message and calls of the backend are
steps; a call or an edit may fail and the bot may restart. Pages, filters and
texts are left out. `BotCaches` has one `ApiRepository` and one `ScreenService`
for all users, as `ContextMiddleware` makes them; an answer is the user it is
about and the version of that user's data. A refresh is a call of the backend
(`ChangeBy`), the drop of the balances of its session (`Written`), and a forced read of them,
whose answer goes into the cache and is otherwise thrown away (`Arrive`). Then the
handler draws the screen (`Draws`), which reads the cache like any other
update, after awaits in which other updates of the session may have put there what
they had asked for. Refreshes that are left to a worker (`QueueRefresh`), answers
that are lost (`WriteFails`) and forced reads that fail (`ForcedFails`) end in a drawing,
or in none. `atLeast` records what the user may expect (`Promised`): what the refresh
brought, unless an update of the same session had been answered before and had not
stored that yet (`OlderUnderWay`). Without this exception `OwnBalances` fails: such an
answer replaces that of the refresh and is served for a time to live.

## 3. What TLC checks

Each property is stated with a comment in its module. Every run is exhaustive.

| run | question | properties |
|---|---|---|
| `sync_postgres` | PostgreSQL, deduplication off, scheduler and direct requests, one crash | `TypeOK`, `OneRunner`, `RunnerOwnsJob`, `TerminalStable` |
| `sync_serial` | deduplication on, one kind of request, one crash | `NoParallelFetch`, `HonestHealth`, `BalanceMonotone`, `ImplementsQueue` |
| `billing` | two overlapping requests, one crash, repeated webhooks and refreshes | `TypeOK`, `TopUpCreditedOnce`, `PaidPurchaseGranted`, `NoticeAppliedOnce`, `OverlapBounded`, `ImplementsPayments` |
| `billing_serial` | sequences of requests, one at a time, one crash | `OneSubscription`, `RenewalBuysTime` |
| `providers` | the path of a balance: cache, client, sources, refresh, transactions | `OneLoader`, `NotOutdated`, `OneFlight`, `BoundedCalls`, `CompleteOrMarked`, `HealthyIsActual`, `HistoryIsCurrent`, `OpenForAReason`, `ReportedIsStored` |
| `users` | what a user meets: screens, notifications, promo codes, limits, sign-in, caches of the bot | `ShownIsCurrent`, `InputWhenAsked`, `ActedOnce`, `NothingPassedOver`, `LastWord`, `NoOldNews`, `DeliveredOnce`, `RewardedOnce`, `WithinLimit`, `Consistent`, `OwnBalances` |
| `live` | what has to happen in the end, with crashes | `PaymentArrives`, `Admitted`, `PendingEnds`, `QueuedJobsEnd` |
| `sync_duplicates` | are two active jobs of one integration excluded (violated) | `OneActiveJobPerIntegration` |
| `billing_twice` | does a purchase apply once when requests overlap (violated) | `GrantedOnce` |
| `billing_debits` | is a period debited once when requests overlap (violated) | `RenewalDebitedOnce` |
| `circuit_stays_closed` | does a series of failures open the circuit (violated) | `SeriesOpens` |
| `shared_answers` | is a user shown their own answers (violated) | `OwnAnswers` |

The types of the modules in `providers` and `users` are theorems, and no invariants of
these runs.

Conditions that properties need, and that they state:

* `OneRunner` holds even where recovery strikes live runs. `RunnerOwnsJob`,
  `TerminalStable` and `ImplementsQueue` need `RunBound <= StaleTimeout`, which
  the default timeouts give (`StaleTimeoutCoversProvider`). `NoParallelFetch`,
  `BalanceMonotone` and `HonestHealth` need deduplication and one kind of request;
  `sync_duplicates` shows why a second kind is enough to break them.
* `OneSubscription` is about sequences of requests: no constraint of the table
  would stop two that overlap.
* `OverlapBounded` counts the requests at one time and, for grants, those that died.
  The number of requests that have come and gone does not enter. `billing_twice`
  shows the least of such a cost: two grants by two requests.
* `HealthyIsActual` holds until two requests of an organization overlap; `HasStored`
  and `HasReported` of the proofs say which commits such a pair can mix up. So do
  `LastWord` (generations that overlap), the counts of `RewardedOnce` (requests
  that overlap), `InputWhenAsked` and `ActedOnce` (updates that overlap).
  `ShownIsCurrent` says what is left of it: one update alone puts all right.
* `HistoryIsCurrent` is about overlapping requests. Two that write a target at one time
  may leave the row with one value and the end of the history with the other, since each
  compares with what it loaded; what holds then is that the value of every row is in the
  history, and that a change saved by a request alone makes the two agree again
  (`crossed`).
* `OneFlight` is about the queries of one key, and about fetches whose leader has not been
  cancelled: a cancelled leader takes its fetch out of the map while that goes on.
* `OwnBalances` promises nothing of a refresh that was queued, or that had an older
  answer under way beside it.
* `LastWord` allows for the one word that a death between the cursor of a service and
  its event has lost (`untold`); deaths elsewhere lose none. `NoOldNews` is not
  about a generation between the commit of the switch and that of its baseline: it does
  announce what came while the switch was off.
* `PendingEnds` is about two changes with one event fetched at a time: the older event
  waits until the newer is done. While newer ones come without end it may wait for ever.
* `WithinLimit` gives the excess exactly: one less than the requests that run at
  one time. `NotOutdated` excepts a value that was being loaded when the data
  changed.

### Bounds

`MaxJobs` 2 or 3 rows and two workers: a conflict is between two workers and one
row, or between two rows of one key, and the third row is the one inserted after
the first of a key has ended. One or two clients and the scheduler: two
simultaneous requests. One crash, since a second would find what the first left.
One tick per minute, timeouts from one to three ticks: the ages below, at and
above each timeout are told apart.

Two overlapping requests in `billing`: each property is about two requests and
one row. One top-up, one purchase, one notice, of which each can be repeated
without bound, since requests return to idle. Four or five rows of subscriptions
are more than a purchase, a notice, a default and a downgrade need. `MaxTime` 2
with `Period` 2 lets a purchase lapse once under overlap; in `billing_serial`
`MaxTime` 5 lets a subscription lapse twice, and be renewed long after its end.

In `providers`: two readers, a refresher and two keys for a cache of one entry,
so that entries are evicted under those who wait; two callers of four queries (two of
one key, one of the next bucket, one of another account), with a parallelism of one, so
that a call waits; every source with up to
`MaxFunded` accounts that hold something; one organization and one service whose
circuit opens after two failures, with two requests at one time and four in all
(`MaxRequests`): two that overlap, one alone that sets right what they left, and one
after it; two refreshes and two
transactions. In `users`: three organizations for a code of two redemptions; two
requests, two accounts and four rows for limits of one and two; two users and two
requests, one of which may die; two overlapping generations, three changes with a
generation that dies, or two changes with two faults beside the bot
(`OutboxCasts`); in a chat seven to nine updates one at a time over all screens
or over those that ask for a value, or four at two at a time (`ChatCasts`); two
users with two or three updates each way (`CacheCasts`), enough for a refresh beside an
update that was answered before it and one that is answered after it. In `live`: one
billing request and one worker that may die, and two changes with one fault for the
loop of the bot. The two requests of `providers` are alike, so that `Alike` may
exchange them: no property and no definition names one of them. What has a bound runs
out, so these runs may stop: `CHECK_DEADLOCK FALSE`. The sync runs check for
deadlock.

### Fairness

`MCLive!LiveSpec` has weak fairness only:

* `ServerStep(r)`: a request that is being served goes on; a worker loop never
  stops looking for jobs (`worker_loop`), and a worker that dies is started again
  (`worker.py`), hence its crash leads to idle; the loop of the bot never ends.
* `ServedAgain`: Crypto Bot repeats a webhook until it is answered, and a user
  without an account asks again.
* `TimePasses`, `RecoveryPolled`: each worker loop and the scheduler run recovery.

Nobody has to begin anything else, and nothing has to crash. `PaymentArrives` is
checked with enough rows of subscriptions for every switch that can happen, and
with the clock stopped: a payment does not depend on it. `SyncJobs!FairSpec` and
`Billing!FairSpec` state the same conditions for the modules on their own.

### Findings

* `sync_duplicates`: the payload is part of the dedupe key, so the refresh button
  and the scheduler queue two jobs of one integration although
  `enable_syncjob_dedupe` is on; `src/README.md:35` and `:80` say otherwise.
* `billing_twice`: a webhook and a refresh of one paid purchase (or a webhook, a
  crash and its repetition) grant the month twice, because the switch commits
  before the event that marks it as done;
  `tests/test_billing_contracts.py:152` says once.
* `billing_debits`: two requests that reconcile the same lapsed subscription both
  debit it for one period; the ledger has no unique key on its source.
* `circuit_stays_closed`: `_provider_circuit_is_open`, which precedes every
  fetch, forgets the failures of a circuit that has never opened, so that
  failures of successive requests do not add up; `src/README.md:179` says that a
  series of errors opens it.
* `shared_answers`: the bot keeps the dashboard, the integrations and the plan by
  the kind of answer alone, in one cache for all users; `src/README.md:3` and
  `:50` say that the service is multi-tenant.

## 4. What is proved

All theorems hold for every value of the constants that satisfies the named
`ASSUME` of the module, if it has one, which TLC evaluates for each instance that
is run, and what the theorem itself assumes, which the tables name: any number of
workers, requests, users, rows, invoices and crashes. Ids, clocks and changes have
whatever bound the constants give them, or none. `tlapm` proves every leaf.

### SyncJobs_proofs

| theorem | assumption | inductive invariant |
|---|---|---|
| `TypeCorrect` | | `TypeOK` |
| `StaleTimeoutCoversProvider` | running timeout off, or a minute beyond the provider's | (arithmetic) |
| `ClaimsHold`, `RunsAlone` | | `Claims`: a worker that is not idle holds a row; ids beyond the last are free; where rows are locked, a selected row is still queued and selected once; the row of a live run is running or finished, never queued again |
| `RunsInTime`, `RecoverySparesTheLiving` | `RunBound <= StaleTimeout` | `InTime`: the row of a live run says running and is no older than `RunBound`, so recovery does not see it |
| `FinishedIsFinal` | same | from the above: only a queued row is claimed and only a running row ends |
| `TableImplementsQueue` | same | `Orderly`, with `Keyed`: what a request inserts has its key, and active rows have distinct keys when keys are unique |
| `NeverParallel` | and `OneKind` (deduplication, one kind of request) | two live runs have two running rows, these have distinct keys, and one kind makes the key the integration |
| `BalancesMoveForward` | and `OneKind` | `Ordered`: a saved balance is no newer than an answer that is about to replace it, and a run about to report health has saved a complete answer |
| `HealthIsHonest` | and `OneKind`, `ServicesDistinct` | a degraded balance under a healthy status has a worker about to write the status |

Why strengthen: `OneRunner` alone is not inductive, because it does not say that
two workers cannot be about to claim one row (PostgreSQL) or that both see it
queued but only one update takes hold (elsewhere).

### Billing_proofs

| theorem | inductive invariant |
|---|---|
| `TypeCorrect` | `Typed`: types, and for each request what its position says of its subject (`About`) |
| `TopUpsCreditedOnce` | `CreditAlone`: a request on its way to a credit holds the only changed copy of an invoice that is not paid, no two of them are about one invoice, and a request that read "paid" is about a paid one |
| `PaidPurchasesGranted` | `RecordedGranted`: a request about to record a purchase has switched |
| `NoticesAppliedOnce` | `NoticeAlone`: a request that switches for a notice is the only one, the notice is in the table and has switched nothing; a notice that is not in the table has switched nothing |
| `OneSubscriptionIfSerial` (one request at a time) | `Single`, `ReadHolds`: the row that a request has read is still the active one, or there is none still |
| `RenewalsBuyTime` (`Period > 1`) | `Recent`: the time that a request read is at most one unit old |
| `BillingKeepsPromise` (every step of `Billing` is one of `Payments`, or none) | `CreditAlone`, and `RecordedPaid`: a purchase that is on record, or that a request has granted and not recorded, is shown as paid |
| `GrantsStayBounded` (finitely many requests at one time) | `GrantsInv`: while a purchase is not on record, its grants are no more than the requests that owe the record and those that died; once it is on record, no more than all requests and those that died, less those that have taken it up |
| `DebitsStayBounded` (also `Period > 1`) | `PeriodsShared`: the debits for a period and the requests that may still debit it are together no more than all requests, since (`DebitsSpent`) a row never again ends where it ended for a debit |
| `OverdraftStaysBounded` (finitely many requests, at least one) | `FundsInv`: the balance falls short of a price by no more than one price for each request that is not about to debit |
| `OverlapStaysBounded` (all of these) | from the three before it |

The steps of one request leave the others where they are (`Frame`); what others
need of the shared state is that invoices stay (`InvoicesStay`). For each theorem
the steps that do not concern it are handled by one lemma (`CreditAway`,
`NoticeAway`), and the few that do by one lemma each. For the refinement,
`HandsMove` and `HandsOf` say what a step of a request does to what it has taken up
and owes, and there is a lemma for each step that is not a stutter (`PayApply` and
its like). None of the bounds is inductive: each invariant counts, beside what was
done, the requests that may still do it. The counts change at one request at a time
(`OneMoves`, `HoldersMove`).

### Caches_proofs

| module | theorem | property | inductive invariant |
|---|---|---|---|
| `HotResponseCache` | `OneLoaderPerKey` | `OneLoader` | `LockInv`, with `HoldsLock`: who loads or stores owns the lock of its key |
| `HotResponseCache` | `AnswersNotOutdated` | `NotOutdated` | `ValuesInv`: an entry, and the value that a reader holds, was current when it was read or is known to have been overtaken, and an entry is no older than its time |
| `BotCaches` | `BalancesAreOwn` | `OwnBalances` | `BotInv`: an entry of a user's balances, and an answer that a handler has, is about that user and was current at its time or later (`Recent`); what was shown is `Justified`; and `AllRefreshed`: once a user has been promised the version of a refresh, what an update of that session may still store, and after the drop what the cache holds, is no older |

`NotOutdated` speaks of answers only. An answer is a copy of an entry, so the
invariant says the same of entries, and of what is on its way to be one.

### Exchanges_proofs

| module | theorem | property | inductive invariant |
|---|---|---|---|
| `ExchangeCalls` | `OneFlightOfAKey` | `OneFlight` | `Flights`: a fetch that runs for its leader is the one in the map under its key, and what is in the map under a key, or waited for, is a fetch of a query of that key. What one key says of two queries (same account, same limit, less than a bucket apart) is a lemma |
| `ExchangeCalls` | `CallsStayBounded` | `BoundedCalls` | `Limits`: permits and holders of an entry add up to the parallelism; its queue holds each waiting fetch once; the entry that a fetch refers to is the current one of its operation, since an idle entry counts every fetch under it |
| `Transactions` | `ReportedStaysStored` | `ReportedIsStored` | `SessionOK`: a session inserts what is not stored and updates what is (`HeldRows`), what it has looked at is held or stored (`LookedAt`), and alone it is refused nothing; no two sessions hold one row (`Separate`) |
| `BalanceSources` | `WhatIsMissingIsMarked` | `CompleteOrMarked` | `Gathered`: every request up to now has brought something, and what an account has other than its content or a mark is `Excused` |

For `BalanceSources` the invariant needs a fact about data: no request of any of
the sources tolerates a failure that `Condoned` does not condone (`TablesFit`). It
is proved once for each gateway, wallet and list of accounts, from what each of the
constructions of a request changes (`Fields`).

### Notifications_proofs

| theorem | property | inductive invariant |
|---|---|---|
| `NothingIsPassedOver` | `NothingPassedOver` | cursors, and what generations are about to write to them, are `Safe` places: no item up to there is owed, and the place is itself ready or within the baseline; `SafeBatches`: a batch holds what is owed up to its largest item |
| `DeliveredAndMarked` | `DeliveredOnce` | `Deliveries`: a message that is still to be sent was sent no more often than there were faults, and what is about to be marked as sent was sent |
| `TheLastWord` | `LastWord` | `WordsInv`: without overlap, what was told is no newer than the status (`Told`), a generation's snapshot lies between the two (`Snapshots`), the events of a service are of rising checks (`Rising`), and what is known was said last, or is `untold` (`Words`) |
| `OldNewsAreNotTold` | `NoOldNews` | `NewsInv`: without overlap, a batch is beyond the baseline, and no cursor, or what is about to become one, is below it |

### ChatScreens_proofs

| theorem | property | inductive invariant |
|---|---|---|
| `TheScreenIsCurrent` | `ShownIsCurrent` | `Followed`: an update that runs alone has read the state as it is and draws what it has saved; `ShownLast` |
| `ScreensActOnce` | `ActedOnce` | `ActInv`: a call of the backend comes first, on a revision that was not acted on, and an edit that raises the revision follows it |
| `AskedWhereTaken` | `InputWhenAsked` | `AskInv`: after the edits that an update has still to make, the screen, the value waited for and the state of the input machine agree (`AgreesAfter`), and a tap on a screen that asks can only lead back (`TapOK`) |

None of the three is inductive, because a handler changes the state in several
saves: `AskInv` states the agreement of the state to come. That the edits of each
button and of each text lead there is a lemma of its own (`TapFits`, `TextFits`),
about the tables `TapEdits` and `TextEdits`.

### Accounts_proofs, BalanceRefresh_proofs

| module | theorem | property | inductive invariant |
|---|---|---|---|
| `IntegrationLimits` | `LimitIsKept` | `WithinLimit` | `Bounded`: the active integrations and the requests past the limit together exceed the largest limit by less than all requests. `WithinLimit` is not inductive, since it does not count those who have found room |
| `Bootstrap` | `IdentitiesAreConsistent` | `Consistent` | `OnItsWay`: what a request has passed (organization, user, membership) is there; rows are never taken away |
| `Promo` | `PromoRewardedOnce` | `RewardedOnce` | `Earned`: a period was extended for who has redeemed or is about to; `NotYet`, `AloneOrDisturbed`: without overlap, the count that was read is the count |
| `BalanceRefresh` | `HealthyBalances`, `HistoryFollows`, `CircuitsOpenForAReason` | `HealthyIsActual`, `HistoryIsCurrent`, `OpenForAReason` | `AtOne`: a request is at the result of one service at most; `HasStored`, `HasReported`: what its first commit wrote is still there unless the organization has `overlapped`; `Alone`: two requests make it so; `HasLoaded`: what it has loaded is what is stored, or others have written the target `since`; `RowsKept`: every row has a value of the history; `Counted`: a circuit counts no more failures than came in a row |

### Type invariants

| module | theorem | assumption | what it rests on |
|---|---|---|---|
| `SyncJobs`, `Billing` | `TypeCorrect` | | see above |
| `HotResponseCache` | `CacheTypes` | `MaxCacheNow \in Nat` | `CacheBounds`: what a reader expects and has read is no newer than what was invalidated and written, and no version was replaced after now |
| `ExchangeCalls` | `CallsTypes` | | `Limits`: permits and holders add up, and calls that are counted are fetches |
| `BalanceSources` | `SourceTypes` | | `SourceInv` |
| `BalanceRefresh` | `RefreshTypes` | `MaxNow`, `MaxChanges`, `MaxRequests \in Nat` | `RefreshBounds`: a circuit is open for `OpenFor` from now at most, and what is cached was cached by now |
| `Transactions` | `TxTypes` | | the invariant of `ReportedStaysStored` |
| `Promo` | `PromoTypes` | | `WithinRedemptions`: who has passed the checks has read less than the limit, so that even a stale count leads to no more than it |
| `IntegrationLimits` | `LimitsTypes` | | the invariant of `LimitIsKept` |
| `Bootstrap` | `BootTypes` | finitely many `SignIns` and `Users`, `MaxDeaths \in Nat` | `IdsBounded`: the ids of a table are ahead of what its rows can have by one for each request at most; requests about to commit have rows of different users (`CommitsApart`), so that each adds one |
| `BotCaches` | `BotTypes` | | `BotInv` |
| `Notifications` | `OutboxTypes` | | the invariants of the four theorems, and `HistoryShapes` |
| `ChatScreens` | `ChatTypes` | | `ChatInv`: what every edit of the tables leads to |

The bounds of clocks, changes and deaths are natural numbers in every instance; the
code has no such bounds. Where the other proofs of a module do not need them, they
use `Shapes`, the same types without the bounds. The proof of `PromoTypes` showed
that the type of a count that a request has read was wrong for a code that may never
be redeemed: the range of counts below the limit is empty, and a request that has
read nothing holds zero; `PromoTypeOK` now includes the limit itself.

Leaves with many definitions are given more time (`SMTT`, `ZenonT`).

### What the assumptions say

`BillingAssumption`, `CacheAssumption`, `CallsAssumption`, `ChatAssumption`,
`OutboxAssumption`, `BotAssumption` and the others keep kinds of values apart (an
invoice is not a notice, no value is the one that stands for none), give bounds
their types, and require what the settings of the code have: a parallelism, a
number of entries, a time to live and a batch of at least one. None bounds the size of
a set; `LimitsAssumption` says of two that they are finite, since they are counted. So
do the theorems that count requests, users or sign-ins at one time: `IsFiniteSet` of a
set of any size. `Period > 1` is a period longer than the unit of the clock, which is
longer than a request.

### Only model-checked

* The liveness of `live` (`PaymentArrives`, `Admitted`, `PendingEnds`,
  `QueuedJobsEnd`): liveness under fairness is beyond the prover.
* The five refutations.

Every other property of a run is a theorem.

## 5. What is left

In this order:

1. Several integrations of one service in `BalanceRefresh`.
2. Registration with a password and token refresh, next to `Bootstrap`; muted
   services in `Notifications`; the creation of promo codes.

## 6. Not modelled

Parsing, signatures and amounts of exchange and chain clients, and the DeBank
SDK: data without state, seen as outcomes of requests. Wording, translations,
pages and filters of the bot. The older notification loops of
`src/bot/notifications.py`, which are never started (`bot/main.py:68`), and
`claim_pending_events`, which nothing calls. Roles and token checks: no state
of their own. Metrics, logging, middleware, audit log and administration:
single statements with nothing to interleave. Migrations, scripts, load tests
and the bot template: not run by the product.
