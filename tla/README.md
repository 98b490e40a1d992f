# Pay-Up, specified

TLA+ specifications of Pay-Up, a model of India's UPI: a FastAPI server over
SQLite that keeps accounts in an append-only ledger, moves money by transfers
and by payments between addresses (VPAs), and tells its users through an
outbox, Kafka and a notification worker. Paths below are those of the
repository; `app/...` is the Python server.

## 1. Inventory

| Component | State it keeps | Operations | What is hard | What makes it correct |
|---|---|---|---|---|
| **Ledger** `app/modules/ledger`, `app/models/ledger_entry.py` | `ledger_entries` (append-only), one `asyncio.Lock` per account in the process | `post_entry`, `transfer`, `get_balance_paise`, `get_history` | coroutines interleave at every await; a check (funds, status) and the write it allows are far apart | no account negative; both entries of a transfer or none; transfers never wait for each other for ever; `balance_after_paise` is the balance |
| **Balance seeding** `scripts/seed_balance.py` | none; writes `ledger_entries` from another process | read balance, insert a CREDIT | takes no lock | never breaks the funds check |
| **Balance query** `GET /accounts/{id}/balance` | none | two SELECTs | commits between them | never says more than there is |
| **Payments** `app/modules/payments` | `payments`, `payment_events`, `idempotency_keys`, `audit_logs` | `initiate_payment`, `_process_payment` | a saga of up to eight commits, a compensation, retries with the same key, cached answers, crashes between any two commits | the status tells where the money is; one payment per key; answers are true; events match commits |
| **Outbox publisher** `app/workers/outbox_publisher.py` | `published_at` of events | poll, send, mark | lost acknowledgements, failed commits, two publishers | at least once; a payment's events first delivered in order |
| **Notification worker** `app/workers/notification_worker.py` | `notifications`, the consumer group's offset | fetch, handle, commit the offset | crashes between write and commit, rebalances, failing handlers | no outcome passed over untold |
| **Sessions and database** `app/db/session.py` | identity map and pending rows of each session; a pool of 5 + 10 connections | begin, flush, commit, roll back | stale rows (`expire_on_commit=False`), waiting for a connection while holding a lock and the other way round | what was read under the lock still holds at the commit; no circular wait |
| **VPAs** `app/modules/vpas` | `vpas`, a partial unique index on the primary one | create, set primary, resolve | check then insert; order of two UPDATEs | at most one primary per account, never lost by a race |
| **Accounts, users, banks, PSPs** `app/modules/{accounts,users,banks,psps}`, `scripts/seed_reference_data.py` | their tables, each with two unique columns | register, log in, open, create, seed a list | check then insert; a script that holds the write lock over its whole list | no unique value twice; an answer and its audit row tell what is there; a list is seeded whole or not at all |
| **Rate limiting** `app/core/rate_limit.py` | counters in Redis | INCR, EXPIRE, TTL | Redis failing between calls; window boundaries | at most the limit per window, twice that around a boundary; nobody turned away or given an error who was not over his own limit |
| **Audit log** `app/modules/audit` | `audit_logs` | append in the caller's commit | same commit as what it tells of | a row exactly when it happened |
| **Web client** `frontend/src` | the idempotency key of the payment form | submit, edit, retry | answers lost or late | a draft is paid once however often it is sent, and a success shown is its own |
| Logging, metrics, middleware, configuration, migrations, load test, simulation | nothing that decides behaviour | | | not modelled |

How they interact: the routers open one session per request (`get_db`) and call
a service. `PaymentService` calls `LedgerService.locked` and `post_entry` for
each leg, shares the account locks with `LedgerService.transfer`, and commits
each step itself. It writes `payment_events` in the same commits; the publisher
polls that table and the notification worker reads what it sent. Both workers
run inside the server (`app/main.py`, `lifespan`) and may also run on their own.

## 2. Modules

| Module | What it is |
|---|---|
| `Bank` | What the ledger promises: atomic transfers, deposits, money a payment holds between taking it and handing it over. An abstract specification. |
| `Ledger` | The locks, the sessions, `post_entry` and the committed ledger as state and steps shared by every writer. No behaviour of its own. |
| `Transfers` | `LedgerService.transfer` coroutines, balance-seeding scripts, an operator, database errors, crashes. Implements `Bank`. |
| `Balances` | Balance queries next to `Transfers`. |
| `Idempotency` | What `POST /payments` promises about keys, bodies and answers, without the money. An abstract specification. |
| `Payments` | `initiate_payment` and `_process_payment`, on `Ledger`. Implements `Bank` and `Idempotency`. |
| `PayUp` | Composes `Payments` and `Transfers` on the same accounts and locks, with the pool of database connections. |
| `Outbox` | `payment_events`, several relays, the topic. |
| `Notifications` | Extends `Outbox` with the workers of a consumer group. |
| `Pipeline` | Composes `Payments` with `Notifications`: the events are those payments commit. |
| `Vpas` | `create_vpa` and `set_primary` over the `vpas` table. |
| `Registrations` | Users, logins, accounts, banks, PSPs, their audit rows and the reference-data script. |
| `RateLimit` | The fixed-window counters in Redis. |
| `SendMoney` | The payment form of the web client, on `Idempotency`. |
| `LedgerProofs`, `TransfersProofs`, `PaymentsProofs`, `SendMoneyProofs`, `VpasProofs`, `RegistrationsProofs`, `NotificationsProofs`, `RateLimitProofs` | The theorems; `TransfersProofs` is about `Balances` too, `PaymentsProofs` about `PayUp` and `Pipeline`, `NotificationsProofs` about `Outbox`. |
| `MCTransfers`, `MCPayments`, `MCPayUp`, `MCPipeline`, `MCNotifications`, `MCVpas`, `MCRegistrations`, `MCRateLimit`, `MCSendMoney` | Small instances for TLC. `MCTransfers` is one of `Balances`, and so of `Transfers`. |

### Correspondence with the code

**Ledger.** The program asks the entries of an account only for the sum of its
credits, the sum of its debits and the `balance_after_paise` it lists, so the
table is `credits`, `debits` and `lastAfter`. `queue[a]` is the account's lock:
its head is the holder, the rest the waiters in order, because `asyncio.Lock`
wakes its first waiter and lets nobody overtake. `identity[p]` is the session's
identity map, restricted to the status of accounts: with
`expire_on_commit=False` a row once loaded is never refreshed by a SELECT, so
`Seen` returns the status read first. `pending[p]` are the flushed and not yet
committed entries. A SELECT outside a transaction sees what is committed
(sqlite3's legacy transaction control opens a transaction at the first INSERT).
`post_entry` is two steps, because `get_balance_paise` awaits twice:
`ReadCredits`, then `InsertEntry`, which reads the debits, decides and flushes.
SQLite lets one connection write at a time; the model lets a second writer's
flush overlap, which allows more behaviours than the code, and lets any
statement fail (`DbError`, `DatabaseError`), which is how a busy database, a
pool timeout or a full disk ends.

**Transfers.** `Start`/`Refuse` are the checks of `transfer`, `AskFirst`,
`AskSecond`, `Enter` the locks in `sorted` order (ids are numbers, `<` is the
order of `sorted(..., key=str)`), `DebitRead` to `CreditInsert` the two
`post_entry` calls, `Commit` the commit and the release. `Reject` and `DbError`
leave through `Abandon`: the locks go, the session rolls back. `SeedRead`,
`SeedInsert`, `SeedCommit` are the script. An operator sets `accounts.status`
directly in the table: the code reads FROZEN and CLOSED and has no endpoint
that sets them.

**Payments.** `pc[r]` is the await at which the request's coroutine stands;
each commit is one action. A payment is named after the request that made it.
`KnownKeyAnswer` is the three ways `initiate_payment` treats a key it finds.
`legs[r]` counts the ledger entries that carry the payment's id.
`DatabaseError` is any exception that is not an `AppException`: nothing catches
it, the client gets a 500, locks and session go, commits stay. `ServerCrash`
takes every coroutine and lock; what is committed stays, and no code resumes a
payment.

**Outbox and Notifications.** `RecordEvent` stands for the commits of
`Payments` that record an event: `EventsTellPayment`, checked there, says which
courses they can follow; a payment may stop at any event. `Select`, `Send`,
`MarkPublished` are `publish_pending`; `Resend` a lost acknowledgement;
`GiveUp` the exception that ends a batch, or the death of the relay. A worker's
`position` moves when the message is handed out; `CommitOffset` commits it.
Kafka itself (append, group, rebalance) is external and modelled as its clients
see it: one partition, nothing acknowledged is lost.

**Pipeline.** It takes `Notifications` by INSTANCE and shares with it
`events`, what each payment has recorded. Where a commit of `Payments` adds an
event, the row of `payment_events` is there in the same step, as in the code
the same transaction writes both; relays and workers only read what is
committed. `PaymentsFeedOutbox` says that nothing `Outbox` takes for granted of
payments is wrong. The death of the server takes the relay and the worker that
run in it; `GiveUp` and `Lose` are that, each in a step of its own, which
allows more than the code.

**Vpas.** A row is named by its address. `Find` is `get_primary_for_account`,
`Demote` the flushed UPDATE, `Promote` the second UPDATE with the commit,
`Insert` the INSERT with the commit; `InsertRefused` and `PromoteRefused` are
the IntegrityErrors of the two unique indexes. Unlike in `Ledger`, SQLite's
write lock is a variable here (`writer`), because a demotion stays uncommitted
while its request goes on to the promotion, and the index is checked against
it. `Demotes` is the identity map at work: where the row found is the object
loaded before, its stale `is_primary` makes the demotion a write of nothing.

**Payments and forms.** `Idempotency` is what the two sides agree on. A key
row is absent, IN_PROGRESS or COMPLETED with the answer it keeps; `Claim` is
the commit that inserts it, `Pay` the commit of the credit, `Save` the commit
of the answer, `Replay` every way in which a later request is answered from a
row, the 500 of the unique index and the TypeError of a row IN_PROGRESS
included. `Payments` maps its commits to these (`PaymentsImplementIdempotency`),
so `SendMoney` may use `Idempotency` for the server. There a *draft* is what
the user means by one payment: it ends when the form is edited
(`updateAndRekey`), cleared by a success or reloaded. `Submit` sends the form's
key, `Land` hands the form back, `LoseAnswer` leaves a request behind that the
server may still serve. The addresses loaded with the page set the sender
without a new key; the form cannot be submitted before, so this is left out.
Editing a form back to what it was, or reloading it,
draws a new key: to the form that is another payment.

**PayUp.** It takes `Transfers` by INSTANCE over the variables of `Payments`.
A session takes a connection at its first statement and gives it back at its
commit or rollback (SQLAlchemy's autobegin). Hence a transfer holds one from
its first SELECT to its end, locks included; a payment holds one only between
the first statement after a commit and the next commit, so it waits for the
receiver's lock without one, but in the except clause of the credit, where the
SELECT of the receiver was the last statement, it waits for the sender's lock
with one. `PoolTimeout` is the pool's error after 30 seconds, which is no
`AppException`. No seed script runs next to the server there (`spc` stays
"idle"): what a script does to transfers is in `Transfers`.

**Registrations.** All tables are one set of rows with two unique columns each,
`first` and `second`: email and phone; (user, bank) and account number; code
and name. `CheckFirst`, `CheckPhone`, `DrawNumber` are the SELECTs before the
INSERT; `Insert` is everything a request flushes, with the index deciding;
`Commit` makes it visible and `Respond` is what is left, the answer: a crash
between the two leaves the rows and nobody answered. A login reads the user,
flushes its audit row and commits. `pending` being nonempty is holding SQLite's
write lock: others wait in `MayWrite` or give up in `BusyTimeout`. `SeedCheck`,
`SeedSkip`, `SeedInsert` walk the script's lists in one transaction, `SeedFails`
is the uncaught IntegrityError, a busy database or the end of the process. The
loser of a registration race gets a 500 where the same request a moment later
would get a 409, and a bank of a listed name under another code makes every run
of the script fail as a whole; both are what the code does, and no property
forbids them.

**RateLimit.** `Arrive` computes the window and builds the key, `Incr`,
`Expire`, `Ttl` are the three calls, `FailOpen` the `except RedisError` around
the first two, `TtlFails` the third call failing outside the `try`: a 500, but
only to who is over the limit. `Tick` moves the clock and drops expired keys.
The clock ticks `Second` times a second, because Redis keeps a key's life finer
than TTL tells it (`TtlOf` rounds to the nearest second). What a client is told
may be up to a window too long, since a key lives a window from its EXPIRE and
not to the end of the window, and is one second, however much of the window is
left, where EXPIRE failed; `RetryAfterTells` says so and claims no more.

## 3. What is checked

Every run finishes in at most two to three minutes with two workers.

| Run | Instance | Shows |
|---|---|---|
| `transfers` | 2 transfers, 1 seed script, 1 balance query, 2 accounts, amounts 1 and 2, one account may be frozen, an unknown account id | `TypeOK`, `ImplementsBank`, `NeverOverstated` |
| `payments` | 3 requests, 2 keys, both accounts freezable | `PaymentsTypeOK`, `StatusTellsMoney`, `EventsTellPayment`, `OnePaymentPerKey`, `AnswersTrue`, `RefundNotRefused`, `PaymentsImplementBank`, `PaymentsImplementIdempotency` |
| `pay_up` | 1 payment, 2 transfers, the same 2 accounts, a pool of 2, fair | `NoOverdraft`, `RunningBalance`, `BalancesExplained`, `EveryRequestEnds`, `DebitSettles` |
| `payments_uncompensated` | 2 requests, fair | violation of `DebitCompensated`: a debit that is never compensated |
| `payments_stuck_key` | 2 requests | violation of `KeyInProgressHandled`: a key found IN_PROGRESS ends in a TypeError |
| `notifications` | 2 relays, 2 workers, a payment of 3 events, batches of 2, 1 fault, fair | `NotificationsTypeOK`, `OnlyFailuresArePassedOver`, `PublishedIsInTopic`, `FirstDeliveriesInOrder`, `EveryEventArrives` |
| `pipeline` | 1 payment that may succeed, be refused, refunded or cut off, 1 relay, 2 workers, batches of 2, 1 fault | `WhatIsToldIsSo` |
| `notifications_lost` | 1 relay, 1 worker, 2 payments, 1 fault | violation of `NoNotificationLost`: a failed event is passed over |
| `vpas` | 3 requests, 5 calls, 3 addresses, 2 accounts, any table to begin with, fair | `VpasTypeOK`, `OnePrimary`, `AddressKeepsAccount`, `VpaRequestsEnd` |
| `registrations` | 2 requests over 9 calls that share emails, phones, banks and numbers, 2 scripts, fair | `RegistrationsTypeOK`, `UniqueColumns`, `AnswersTell`, `AuditTellsAccess`, `SeededWhole`, `RegistrationsEnd` |
| `send_money` | 1 tab, 3 requests, 2 contents, 6 keys | `SendMoneyTypeOK`, `DraftPaidOnce`, `SuccessIsOwn`, `NeverInConflict` |
| `rate_limit` | 3 requests of one client, 1 of another, limit 1, a window of 2 seconds and half the next, 2 ticks a second | `RateLimitTypeOK`, `BurstBounded`, `OnlyBurstsAreLimited`, `RetryAfterTells` |

**Bounds, and why they are enough.** Every request is served once, so transfers
and payments end without further bounds; a client's retry is another request
with the same key. Two transfers suffice for a race on one account and for the
circular wait of two, and a payment joins it in `pay_up`. Account 1 can pay for
one of the two largest transfers and not for both, so the funds check decides.
Three requests are a payment, a retry and an opposite payment at once, or a
payment, a retry and a conflicting reuse of its key. `MaxFaults` bounds how
often something goes wrong with relays and workers. In `notifications` it may go
wrong once, anywhere, while two relays overtake each other and two workers have
the partition in turn. More faults are too many states with a second relay (two
make 3,559,344; the invariants hold of them); with one relay three faults, one
during the recovery from another, are 148,380 states and everything holds. The
invariants are proved for any number of relays, workers and faults. `BatchSize`
is smaller than the number of events so that the limit of the SELECT is met. In
`rate_limit` the clock goes on past the first window by half of one, so that
keys expire, requests are late and bursts meet at the boundary; with half-second
ticks TTL has something to round. A statement can fail, a status
change and the server crash at any moment, without a bound. Three requests for
addresses are two that race and one that changes what they found, from every
table that calls one after the other can leave. In `pay_up` a pool of two is
exhausted by two transfers that wait for a lock, as 5 + 10 connections are by
fifteen. `Numbers` has as many account numbers as there are requests, so that
one is always left to draw. `Keys` of `send_money` gives each edit, success and
reload of a run a fresh key; when they or the ticks up to `MaxTime` are used
up the behaviour stops, which is why these two runs do not look for deadlock.
Symmetry is used only where no liveness is checked, and the symmetric values
(transferers, payers) are never compared by order.

**Fairness.** asyncio runs every ready coroutine in turn, so a coroutine whose
lock, row or message is there goes on: weak fairness of each request's own
steps once it has begun (`PayUpSpec`, `PaymentsFairSpec`), the pool's timeout
being one of them. A request need not begin, an error need not happen, an
operator need not act, and nothing is assumed of seed scripts. Relays and
workers loop for ever (`run_forever`) and start over after each failure: weak
fairness of their steps. Kafka gives the partition to somebody who waits for
it: weak fairness of `Assign`. Faults are bounded there, which says that Kafka
and the database come back. A request that waits for SQLite's write lock gets
it or gives up after 5 seconds (`VpasFairSpec`, `RegistrationsFairSpec`);
nothing is assumed of the scripts, which may sit on the lock for ever.
`send_money` and `rate_limit` check safety only.

**Findings.** The three violations above are listed with their lines in
`PROJECT.json`. `payments_uncompensated` needs one database error or crash after
the debit's commit; `payments_stuck_key` a second request during, or after a
crash of, the first; `notifications_lost` one exception in `handle_event` and
one later message. Less than findings, since no document promises otherwise: a
reported balance may be too low, even negative, when a transfer in and one out
commit between its two SELECTs; a balance told is never too high.

## 4. What is proved

Eight modules hold the proofs. Every theorem is for all values of the
constants, from the named assumption of the module it is about (ids are
numbers, sets are disjoint, amounts are positive, bounds are natural numbers);
none of them bounds the number of requests, accounts, keys, relays or workers.
`PayUp` and `RateLimit` assume that the requests of a behaviour are finitely
many, any number of them, because they sum and count over them. tlapm checks
every leaf.

| Module | Theorems |
|---|---|
| `TransfersProofs` | `TypeCorrect`, `NeverOverdrawn` (`NoOverdraft`), `RunningBalanceExact` (`RunningBalance`), `Refinement` (`ImplementsBank`); of `BalancesSpec`: `BalanceNeverOverstated` (`NeverOverstated`) |
| `PaymentsProofs` | `PaymentsTypeCorrect`, `PaymentsNeverOverdraw` (`NoOverdraft`), `StatusTellsMoneyAlways`, `OnePaymentPerKeyAlways`, `AnswersAlwaysTrue`, `RefundNeverRefused`, `EventsAlwaysTellPayment`, `PaymentsRefineBank` (`PaymentsImplementBank`), `IdempotencyRefinement` (`PaymentsImplementIdempotency`); of `PayUpSpec`: `PayUpNeverOverdraws` (`NoOverdraft`), `PayUpRunningBalance` (`RunningBalance`), `BalancesAlwaysExplained` (`BalancesExplained`), `PayUpKeepsPayments` (the six invariants of payments), `PayUpKeepsIdempotency`, `PayUpRefinesBank`; of `PipelineSpec`: `ToldTheTruth` (`WhatIsToldIsSo`), `PaymentsFeedTheOutbox` (`PaymentsFeedOutbox`) |
| `SendMoneyProofs` | `SendMoneyTypeCorrect`, `DraftIsPaidOnce`, `SuccessIsForTheDraft`, `FormNeverConflicts` |
| `VpasProofs` | `VpasTypeCorrect`, `OnePrimaryAlways`, `AddressesAreKept` |
| `RegistrationsProofs` | `RegistrationsTypeCorrect`, `ColumnsStayUnique`, `AnswersAreSo`, `AuditTrailTells`, `ScriptsSeedWhole` |
| `NotificationsProofs` | `NothingPublishedIsLost`, `FirstDeliveriesStayInOrder` (both of `OutboxSpec`), `NotificationsTypeCorrect`, `NothingElseIsPassedOver` |
| `RateLimitProofs` | `LimiterTypes` (`RateLimitTypeOK`), `BurstsBounded` (`BurstBounded`), `LimitedAfterLimit` (`OnlyBurstsAreLimited`), `RetryAfterRight` (`RetryAfterTells`), from `LimiterInvariant` |

None of the properties is inductive alone. What each invariant adds:

**Ledger and transfers.** That a debit may be committed follows from what was
read some awaits earlier. `SumsReadHold`: who has read a credit sum to post an
entry holds the account's lock (or is a script), and the sum is a lower bound
of the present one, since only scripts add credits without the lock; equal
without scripts. `PendingEntriesHold`: who has a pending entry holds the lock
(or is a script), and a pending DEBIT is covered by the present balance: nobody
else can debit, so it stays covered until the commit. `LocksTaken`, `SumRead`,
`EntriesPending`, `SeedPending`: at each stage a transfer holds both locks, and
has exactly the entries of its request pending. That a lock has one holder is
the head of the queue being one element; `JoinKeepsHolders` and
`ReleaseKeepsHolders` say that joining or leaving a queue takes no lock from
anybody. `LedgerProofs` proves what each step of `Ledger` does to `LedgerInv`
whichever process takes it, and the proofs about transfers and payments cite it.

**Balances.** `TotalsHold`: between its SELECTs a query carries a credit sum
that is not above the present one, because credits only grow (`CreditsGrow`).

**Payments.** `PaymentsInv` is `LedgerInv`, the types, and for every request
`Saga`, `Leg` and `KeyInv`. `Saga` gives for each await the one combination of
status, legs, events and audit rows that can be committed there; nine such
combinations are all there are. `Leg` says which lock the request holds, which
entry it has read for or flushed, and that from the debit to the refund its
session still holds the sender's account as ACTIVE, which is why the refund is
never refused although an operator may have frozen the account. `KeyInv`: one
request owns a key, a row COMPLETED has a true answer of that owner. Only the
request itself turns these pages, so a step of one request disturbs the others
through the ledger alone, and `LedgerProofs` deals with that. Both refinements
follow: the commits of the legs are `Bank`'s steps, the commits of the key row
`Idempotency`'s, all else stutters.

**Transfers and payments together.** `PayUpInv` is `PaymentsInv` and the
invariant of transfers over the same ledger. Neither part knows the other's
program counters, so what has to be shown is that neither takes from the other
what it relies on. `LeavesOthers` (in `LedgerProofs`) says of a
step that it leaves the entries read for or flushed by others, and their
sessions, alone, and takes no lock from a holder; `PaymentLeavesOthers` and
`TransferLeavesOthers` show it of every step of the two, `PayerKeeps` and
`TransferKeeps` that what `PayUpInv` says of a request survives it. The pool
only takes steps away, and `PoolTimeout` is a `DatabaseError`. All that was
proved of payments alone then holds of the composition, the two refinements
included.

**Explained balances.** `BalancesExplained` is inductive next to `PayUpInv`: a
commit changes the terms of one request only, and moves the balances by as much.
That a sum changes by the change of its one term, and that it is a number, is
induction over the set it sums over: a smallest subset for which it failed, by
the library's theorem that the natural numbers are well founded, would have a
smaller one (`Smallest`, `SubsetsByInduction`, `SumChanges`, `SumOfZeros`,
`SumIsNumber`).

**Forms.** `FormInv`: two requests have the same key exactly when they were
made for the same draft, and then the same body; a key is never given out
twice. `EndpointInv`: at most one request serving or paid per key, and every
success kept or given is that payment's. `SendMoneyInv` is both, on the
abstract `Idempotency`; `IdempotencyRefinement` carries it to the server.

**Addresses.** `VpasInv` adds to `OnePrimary` what a request knows between two
statements (`RequestInv`): the primary address it found is one of its
account's, and an uncommitted demotion is that of another address than the one
to be promoted. Nobody's step takes this from anybody else (`OthersStand`).

**Registries.** `WriteLock`: one session has uncommitted rows. `FlushedFits`:
what is committed together with what a session has flushed is unique, since
nobody commits past the lock meanwhile. `Committed` (of `RequestInv`): the rows
of a request are those its answer tells of, will tell of, or would have told of
before the crash, and there are none before its commit. `ScriptInv`: every entry
before the one the script has come to is there for its eyes, and nothing of it
is visible before it ends well.

**Outbox and notifications.** `TopicInOrder` and `BatchInOrder`: before a row
in the topic, or in a relay's batch, all earlier rows are in the topic, or
earlier in that batch. It holds of all rows, not only those of one payment,
because a relay selects the oldest first and forgets its batch at the first
failure; both are needed. `HandedPassed`: everything handed to the worker that
has the partition was told or raised, but for the message it is handling.

**From payment to notification.** `PipelineInv` is `PaymentsInv` and
`RowsTell`: every row of the outbox is an event of its payment, and only
outcomes have notifications. `ToldTheTruth` follows, because the events of a
payment agree with its status and the status with its legs, and none of the
three is taken back. A commit records one event at most (`OneEventAtATime`), and
what a payment has recorded after it is again the beginning of a course, so the
commit is a `RecordEvent` (`CommitsRecord`): every behaviour of `Pipeline` is
one of `NotificationsSpec`, and what `NotificationsProofs` shows of that
specification holds behind real payments (`PaymentsFeedTheOutbox`).

**Rate limits.** `LimitInv` says three things. `CountersHold`: a counter never
exceeds the number of requests counted in its window; at most `Limit` requests
have passed a window on time, and until it ends no more than the counter still
counts. `KeysOutlive`: a key with an expiry lives to the end of its window,
since EXPIRE is sent after the window began; so nobody counted on time finds a
counter started again. `RequestsHold`: a request is counted in its window or
later, and one over the limit has `Limit` others counted before it. A span as
long as a window meets at most two windows (`TwoWindows`), hence twice the
limit. That a key outlives its window is also why Retry-After falls short of the
end of the window by TTL's rounding only, less than half a second (`Rounding`).

**Only model-checked.** Liveness, which is out of the prover's reach:
`EveryRequestEnds`, `DebitSettles`, `EveryEventArrives`, `VpaRequestsEnd`,
`RegistrationsEnd`. Every invariant and every action property
of the passing runs is a theorem. `TransfersProofs` proves `NoOverdraft` and
`RunningBalance` of transfers, where no run lists them: the latter needs that no
script runs.

## 5. Plan

Done: the ledger, transfers, balances, payments, the pipeline of events,
addresses, registries, rate limits, the payment form, the composition of
transfers and payments with the pool, that of payments with the outbox and the
notifications, and the theorems of section 4.

What is left is liveness, which stays with TLC, and of that the fairness of
`Pipeline` as a whole: `EveryEventArrives` is checked of `Notifications`, whose
`RecordEvent` the payments of `Pipeline` implement.

## 6. Not modelled, and why

Hashing and tokens (libraries), the texts of messages and responses, pagination
and listings (they only read), metrics, logging, middleware and configuration,
migrations, the load test and the simulation script (clients of the API, the
latter sends keys again with a new random amount, so what it reports as replays
are conflicts: `payments` has such a client), and the pages of the web client
that only show data or post a form without a key. Redis keeps its data while it
runs; losing it would start every window again. A payment's amount is only
compared and added: amounts are integers in paise in the code, and SQLite's
64-bit sums are far above any balance, so integers are unbounded here.

## 7. Running it

    tlc -config MCTransfers.cfg MCTransfers.tla
    tlapm LedgerProofs.tla

and so for every run of `PROJECT.json` and every `...Proofs` module; the proofs
of `PaymentsProofs` take up to ten minutes from nothing, the others less.
`PROJECT.json` also lists the lines of the code each definition stands for, the
mutants (definitions that change the model the way a bug would; each property is
violated by one), the hazards and the findings.
