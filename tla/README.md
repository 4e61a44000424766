# A TLA+ development of the banking backend

The repository is a NestJS service over PostgreSQL (Prisma), Redis and RabbitMQ. Customers own
accounts and send money commands (deposit, withdraw, transfer); every finished command leaves a
transaction row and, in the same database transaction, an outbox event that reaches an audit
consumer and an e-mail consumer through RabbitMQ. This directory holds the specifications of the
parts where concurrency and failure matter, the TLC configurations that check them on small
instances, and machine-checked proofs about the core.

Paths below are relative to `src/src/` of the repository unless they start with `src/`.

## 1. Inventory

| Component (source) | State it keeps | Operations | Interacts with | Hard behaviour | What makes it correct |
| --- | --- | --- | --- | --- | --- |
| Transactions service (`transactions/transactions.service.ts`, idempotency checker, account validator, repository, event writer) | `accounts.balance`, `transactions`, `events` rows | `createDeposit`, `createWithdraw`, `createTransfer` | fraud rules before, outbox event inside, Redis reservation after | two requests over one account or one reference; opposite transfers; rollback and retry; lost commit acknowledgement; status read without a lock | no overdraft, one row per (customer, type, reference), money only moves with a COMPLETED row, row and event together, true answers, no circular wait |
| Accounts service (`accounts/accounts.service.ts`) | `accounts.status`, audit rows | create, freeze, unfreeze, close | writes the rows the handlers read and update | status change between check and write; audit row after the update | a closed account is empty; one open account per customer and currency; change and audit row agree |
| Fraud rules (`fraud/`) | Redis counters and reservations per UTC day | `evaluate*`, `releaseReservation` | called by the transactions service before and after its database transaction | reservation and money in two stores; repeated references; midnight; Redis down | the daily limit holds, a reservation is counted once and given back once |
| Idempotency guard and controller (`transactions/guards/transactions-idempotency.guard.ts`, `transactions/transactions.controller.ts`) | in-flight / done keys and a transfer lock per user, with TTLs | `canActivate`, mark done, delete key, release lock | wraps the service; the ValidationPipe runs in between | TTL under a slow request, plain DEL, fail-open after a command that took effect, crash | one worker per key, only the owner releases the lock, `done` means COMPLETED, nothing blocked for good |
| Outbox (`outbox/`, `messaging/rabbitmq.publisher.ts`) | `events.status`, `retry_count`, `next_retry_at`, `claimed_at` | claim a batch, publish, finalize, mark failed | reads what the transactions service committed; publishes to the exchange | several processes polling; crash between publish and finalize; lost confirm; overrun claim | at least once, duplicates only after a fault, a stale worker changes nothing, every event goes out |
| Event consumer and e-mail consumer (`messaging/rabbitmq.consumer.ts`, `messaging/consumer/`, `notifications/email/`) | `processed_messages` rows per consumer | claim, dispatch, complete, fail, republish, dead-letter | fed by the exchange; writes audit rows, sends mail | crash after the claim, redelivery, retries that fan out to both queues | an event is handled or dead-lettered, never dropped |
| RabbitMQ connection (`messaging/rabbitmq.connection.ts`) | one connection, two channels | connect, topology | used by publisher and consumers | never reopened after it closes | events flow again after an outage |
| Authentication and sessions (`auth/auth.service.ts`, `auth/auth.controller.ts`) | `refresh_tokens`, `customers.failed_login_attempts`, `lock_until`, audit rows | register, login, refresh, logout | login rate limit in front; shares the customer row and the tokens with the users service | parallel refreshes of one token, parallel logins, a lock set while a login is on its way | a token is replaced once, a revoked token stays revoked, only a login from before the lock lifts it, no second live session without an overlap |
| Users service (`users/users.service.ts`) | `customers` (e-mail, name, phone, password hash) | `putMe`, `patchPassword`, `getMe` | ends the sessions of the customer | a change of password against logins and refreshes on their way; two profile updates | a session of an old password does not outlive its change; one customer per address; no update undone by one it did not overlap |
| Rate limits (`auth/guards/login-rate-limit.guard.ts`, `common/middleware/`, `transactions/guards/transfer-rate-limit.guard.ts`) | Redis counters | INCR and EXPIRE in a script | before the controllers | fail-open | the count is not lost |
| Audit, transports, health, logging, filters, clients | rows or nothing | single writes, I/O, wording | called by the others | none of their own | - |

The hazards of this code, each at its line, with the properties that would show it going wrong,
are listed in `PROJECT.json` under `hazards`.

## 2. Modules

| Module | Kind | Models |
| --- | --- | --- |
| `BankTypes` | constants and operators | commands, the unique key, the accounts a command touches, what it adds |
| `Ledger` | abstract specification | the book the transaction service promises to keep |
| `Transactions` | detailed specification | the handlers, statement by statement, and the status updates of the accounts service |
| `TransactionsProofs` | theorems | the inductive invariant, the safety properties, the refinement of `Ledger` |
| `DailyLimit` | detailed specification | the daily limit rule, its two Lua scripts, and the handlers that reserve and release |
| `IdempotencyGuard` | detailed specification | the guard and the release paths of the controller, one Redis command a step |
| `Delivery` | abstract specification | at-least-once delivery, as the outbox promises it |
| `Outbox` | detailed specification | claim, publish and finalize by several polling workers |
| `EventConsumer` | detailed specification | the audit and the e-mail consumer over their queues, in several processes |
| `ApiTypes` | constants | requests, addresses, currencies, the lock threshold |
| `Sessions` | detailed specification | login, refresh, logout, `patchPassword` |
| `Profiles` | detailed specification | register and `putMe` |
| `Accounts` | detailed specification | createAccount, freeze, unfreeze, close, and their audit rows |
| `CustomerApi` | composition | `Sessions`, `Profiles` and `Accounts` side by side in one API |
| `SessionsProofs`, `CustomerApiProofs` | theorems | the invariants of the three services and their composition |
| `DailyLimitProofs`, `IdempotencyGuardProofs`, `OutboxProofs`, `EventConsumerProofs` | theorems | the inductive invariants of these modules and what follows from them |
| `SumTheorems` | theorems | sums over finite sets (`SumFunctionOnSet` of the community modules) |
| `MC*` | instances | sets, command lists and symmetry for TLC |

`Transactions` and `Ledger` extend `BankTypes`. `DailyLimit` and `IdempotencyGuard` each look at a
different layer around the same handlers and take the layer below as a step: `DailyLimit` takes a
database transaction as one step that commits, is refused or fails, which is what `Transactions`
establishes for the committed state (`ImplementsLedger`); `IdempotencyGuard` takes the service as
"one row per key, answered truthfully" (`OneRowPerKey`, `AnswerTruthful`). `Outbox` starts where
`OutboxAtomic` ends: events appear in the table, PENDING, in any order. `EventConsumer` starts where
`Publish` of `Outbox` ends, with a copy in every queue bound to the exchange. `CustomerApi` composes the
three services that run before any money moves: each is an instance with variables of its own, since
none reads a column that another one writes (`patchPassword` writes the tokens and the password, so it
is in `Sessions`), and a request goes to one of them.

Operators with a suffix (`KeyTaken_NoIndex`, `Claim_NoNX`, ...) are variants of the operator they
are named after, each with one plausible slip in it. No specification uses them; substituting one
for its original makes a stated property fail, which is how each property is known to be sensitive
to the code it is about.

### Transactions

State: `balance`, `status`, `row`, `event` are the committed columns; `pending`, `pendingEvent` and
`locks` the private work of open database transactions; `req`, `pc`, `attempt`, `resp` the handler.
A lock on an account row means: updated by this open transaction, not yet committed. READ COMMITTED
is what the code runs under (it sets no isolation level), so a read sees the last committed status,
an insert of a key that another open transaction has inserted waits for it, an update of a locked
row waits and then evaluates its condition again.

| Phase (`pc`) | Code | Actions |
| --- | --- | --- |
| `lookup` | `findExisting`, `resolveExistingOrThrow` | `FindExisting`, `LookupError` |
| `fraud` | `evaluateWithdraw` / `evaluateTransfer` | `FraudApprove`, `FraudReject` |
| `readFrom`, `readTo` | read an account row, owner and status checks | `ReadFrom`, `ReadTo` |
| `insert`, `reject` | `createPendingTransaction`, `createRejectedTransaction` | `CreatePending`, `CreateRejected` |
| `update` | the balance updates in account-id order, `markCompleted` | `Credit`, `Debit`, `DebitRefused`, `MarkCompleted` |
| `event` | `createCompletedEvent`, `createFailedFraudEvent` | `CreateEvent` |
| `commit` | end of `$transaction` | `Commit`, `CommitAckLost` |
| any of the above inside the transaction | a statement throws | `DbError`, `RetryConflict` |
| `release` | the catch block: release the reservation, rethrow | `ReleaseReservation` |
| `fallback` | `resolveP2002Fallback` | `P2002Fallback`, `LookupError` |
| any | the process dies | `Crash` |

`Freeze`, `Unfreeze` and `Close` are the UPDATE statements of the accounts service, each with its
condition. `resolveExistingOrThrow` falls through for a PENDING row; `OutboxAtomic` shows that no
such row is ever committed, so the conflict answer for it is dead code.

### DailyLimit

One customer; `total`, `reserved` and `released` are the three Redis keys of each UTC day, `posted`
and `rejected` the rows. `Reserve` is RESERVE_LUA with the rule around it, `RedisError` and
`EvaluateFromDb` its fallback, `Release` is RELEASE_LUA with the keys of the day it runs on. Where
the reservation and the money legitimately part ways, the model writes down the reason in `slips`:
Redis failed (`redis`), a release ran while a twin of the same reference was at work or had posted,
which includes a commit that was acknowledged as an error (`twin`), a reference was reused with
another amount (`amount`), a command straddled midnight (`midnight`). `LimitHolds` and
`PostedIsReserved` are about behaviours without such a slip. Each of the four is needed: with any of
them left unrecorded both properties fail, so the list is also the list of ways past the limit.

### IdempotencyGuard

One user; `key` holds the idempotency keys, `lock` the token in the transfer lock. `via` says how a
request got past the guard: with its own claim, because the key was `done`, or fail-open without a
key. `Validate` is the ValidationPipe, which runs after guards and before the controller.

### Outbox

`status`, `retryCount`, `retryAt`, `claimedAt` are the columns; `batch` is what a worker's loop still
has to handle, with the values the claim returned. Timestamps are compared in two ways only: a
claim is finalised or failed if `claimed_at` equals the value of the claim (so stamps are drawn from
a finite set, each time an unused one) and a claim or a backoff has run out (so `expired` and
`retryAt` turn true some time later). A claim takes the oldest due rows, but works on them in any
order: `UPDATE ... RETURNING` does not keep the ORDER BY of the rows it was given.

`Delivery` forgets all of that: an event is written, sent, closed, and a send beyond the first takes a
lapse. The refinement reads `written` and `closed` off the status column and `lapses` off `faults`; a
claim, a retry, a backoff or a late worker is a stutter. That a nack alone leads to no further copy,
and that a worker which lost its claim cannot send again without somebody having paid for it, is
what the mapping has to show.

### EventConsumer

One event, of type `type`; `ready[q][n]` counts its copies in queue `q` with `x-attempts` n; `row` and
`expired` are the `processed_messages` row of each consumer and whether its claim has run out;
`effects` and `dead` are the audit rows or mails and the dead letter queues. A handler is a slot of a
process at a queue (`<<process, queue, slot>>`): nobody awaits `handleMessage`, so a process is at
work on as many messages of a queue as `RABBITMQ_CONSUMER_PREFETCH` lets the broker send it (10 unless
configured otherwise), and `Handlers` says how many that is for each process and queue. `Ready` takes
the first free slot, which loses nothing, since the slots of a process are alike. The claims of one
row race between the calls of one process as well as between processes; a crash or a closed connection
puts back every copy that the process has in hand. Both consumers run the same statements over rows of
their own.

| Phase (`pc`) | Code | Actions |
| --- | --- | --- |
| `idle` | a message arrives, is parsed and claimed | `Claim`, `SkipDuplicate`, `ClaimError` |
| `dispatch` | `EventDispatcher`, the mail | `Dispatch`, `DispatchError` |
| `complete` | `markCompleted` | `Complete`, `CompleteError` |
| `fail` | `markFailed` in the catch block | `MarkFailed` |
| `settle` | republish, or nack to the dead letter queue | `Republish`, `RepublishBlocked`, `RepublishThrows`, `Nack` |
| `ack` | `safeAck` | `Ack` |
| any | the process or its connection is lost; time passes | `Crash`, `ConnectionCloses`, `ClaimExpires` |

Delivery and claim are one step, since only parsing lies between them. `mine` says whether the channel
a message came on is still open: when it is not, ack and nack are skipped, the broker has put the
message back, and a republish throws out of a promise that nobody awaits, which ends the process. A
retry goes back to the exchange and so to both queues.

### Sessions, Profiles, Accounts, CustomerApi

`Sessions` follows one customer. A refresh token and a password go by the name of the request that made
them: a request makes at most one of each. `stored`, `revoked`, `replacedBy`, `expired` are the columns of
`refresh_tokens`, `password`, `failed`, `lockUntil` those of the customer, `pc` the phase of a request.

| Phase (`pc`) | Code | Actions |
| --- | --- | --- |
| `idle` | the guard, the look-ups of refresh, logout, `patchPassword` | `LoginGuard`, `RefreshFind`, `LogoutFind`, `ChangeFind` |
| `find`, `wrong`, `reset` | customer, lock, password; the counter | `LoginFind`, `CountFailure`, `ClearFailures` |
| `revokeOld`, `create` | the transaction of login | `RevokeOld`, `OpenSession` |
| `rotate` | the transaction of refresh | `Rotate`, `ReuseDetected` |
| `revoke` | the update of logout | `Revoke` |
| `change`, `changing` | the transaction of `patchPassword` | `SetPassword`, `CommitPassword` |
| `audit` | `AuditService.record` | `RecordAudit` |
| any | a statement fails, the process dies; time passes | `RequestFails`, `LockRunsOut`, `TokenExpires` |

The delicate point is READ COMMITTED again. `updateMany` over "all active tokens of the customer" is one
statement on the rows of its snapshot, and its transaction commits later, so it takes two steps: what
it saw (`snap`) and the commit. A token committed in between is neither seen nor revoked. The UPDATE of
a wrong password and the one of `patchPassword` lock the customer row, which `CustomerRowFree` says.
`root`, `window`, `knows`, `crossed` and `early` write down the past (which login a session comes from,
which revoking statements were under way, and so on). No guard reads them; the properties use them to
say which overlaps are to blame.

`Profiles` follows the customers table through register and `putMe`: the look-up, then the insert or
update under the unique index of the address. `putMe` writes every field, taking those that are not
given from the row it read. `wanted` is the profile with every update applied field by field, and
`stale` the customers that an overtaken update has written.

`Accounts` follows one customer's accounts. `createAccount` looks for an open account and inserts under
the partial unique index; freeze, unfreeze and close are one guarded UPDATE each, with the audit row as
a statement of its own afterwards. `slip` is the accounts where two such pairs overlapped or the second
statement got lost; a later change that overlaps nothing puts an account right again.

## 3. Runs

| Run | Instance | Shows |
| --- | --- | --- |
| `transactions_mixed` | 2 requests; deposit, withdrawal, foreign source, self transfer, transfer; 2 attempts | `TypeOK`, `IInv`, `OutboxAtomic`, `AnswerTruthful`, `ImplementsLedger`, `EveryRequestAnswered`, `ClosedStaysUntouched` |
| `transactions_cross` | 3 requests; transfers in both directions that the two balances cannot all cover; 2 attempts | `NoOverdraft`, `OneRowPerKey`, `BalanceExplained`, `NoDeadlock` |
| `transactions_closed` | 2 requests, a deposit and a transfer to an account that may be closed | violation of `ClosedAccountIsEmpty` |
| `daily_limit` | 3 handlers, 2 references, amounts 1 and 2, limit 3, 2 days, 1 fault | `CountsReservations`, `LimitHolds`, `PostedIsReserved` |
| `daily_limit_leak` | 3 handlers, 2 references, 1 day, no fault | violation of `ReservationsGivenBack` |
| `idempotency_guard` | 3 transfers, 2 references, 1 fault | `OneWorkerPerKey`, `LockStaysMine`, `DoneMeansCompleted`, `NothingHeldForever` |
| `idempotency_guard_busy` | 2 requests, no fault | violation of `BusyMeansTransferring` |
| `outbox` | 2 workers, 2 events, batch 2, 1 retry, 1 fault | `NoLostEvent`, `DuplicatesOnlyByFault`, `ForwardOnly`, `ImplementsDelivery`, `EveryEventProcessed` |
| `outbox_retries` | 1 worker, 1 event, 1 retry, no fault | violation of `StopsAtMaxRetries` |
| `event_consumer` | 2 processes and 4 handlers (on the audit queue 2 of the first process and 1 of the second, on the e-mail queue 1), 2 queues, 2 event types of which one queue refuses one, 1 retry, 1 fault | `CompletedHasEffect`, `EffectOnce`, `DropsLeaveTrace`, `QueuesDrain` |
| `event_consumer_lost` | 1 process with 2 handlers on each of 2 queues, 1 retry, 1 fault | violation of `AtLeastOnce` |
| `customer_api` | 3 requests of any kind, lock threshold 2, 2 addresses, 2 currencies | `TwoSessionsOverlapped`, `OldSessionsOverlapped`, `ChainNeverForks`, `RevokedForGood`, `LockLiftedOnlyByEarlier`, `OneCustomerPerEmail`, `ProfileAsAsked`, `OneOpenPerCurrency`, `LastAuditTells` |

Why the bounds are enough. Two requests are what a race over one row or one key needs; the third in
`transactions_cross` is a waiter behind a waiter, which is what a circle longer than two, or a retry
that meets a new competitor, needs. Two attempts let the retry loop go round once and end. The
opening balances (2 and 1) are left by requests that came before, and are chosen so that every
debit fits alone and no two fit together. In `transactions_mixed` the deposit arrives at an account
that the withdrawal can empty and a close can then close. In `daily_limit`, limit 3 with amounts 1 and 2 lets two
references fill the limit exactly and a third handler pass it by one, and a third handler is a
client's retry of one of the two. One fault in `outbox` and `idempotency_guard` is one of several
kinds at any moment, so it meets every interleaving of the fault-free steps; with two, the state
space leaves the time a run has. `DuplicatesOnlyByFault` counts faults, so that one is enough to
tell a fault's duplicate from a race's. In `event_consumer`, the audit
queue has two calls at once in one process, which share a crash and a closed connection, and a third one
in another process, which survives both: two claims of one row, a takeover, and a redelivery to somebody
else, to the same process or to both. The e-mail queue has one handler, because its consumer runs the same
statements; it is there because one retry of one consumer sends a copy to the other queue, at any moment
of its handling. In `customer_api` an earlier session,
customer and account are there from the start, so that three requests are a refresh, a logout or a
login against two others; with threshold 2, one wrong attempt counts, the second locks and a third
comes in late, or a login that was let in before lifts the lock. Two addresses and two currencies are
one that is taken and one that is free. All
runs set `CHECK_DEADLOCK FALSE`: a finite set of
requests that have all been answered stops, and so do an idle guard and a drained outbox;
`NoDeadlock`, `EveryRequestAnswered`, `NothingHeldForever`, `EveryEventProcessed` and `QueuesDrain` are
what deadlock freedom would have to mean here.

Symmetry is used over requests, handlers, references, addresses and currencies where a run has no
liveness property; `RevokedForGood` and `LockLiftedOnlyByEarlier` are about single steps and symmetric.

## 4. Fairness

- `Transactions`: weak fairness of `Advance(r)`, per request: Node's event loop resumes a handler
  whose statement has returned, and PostgreSQL grants a lock once it is free. Nothing is assumed of
  clients, errors or status changes. A handler waiting for a lock is not enabled; that it does not
  wait for ever follows from the lock order, not from the fairness.
- `IdempotencyGuard`: weak fairness of each request and of key expiry: Redis expires keys.
- `Outbox`: weak fairness of claiming (the interval timer), of the loop's steps and of time passing;
  strong fairness of `Publish`: an event tried over and over is accepted in the end. The last one is
  the only assumption about the environment. It includes that somebody restarts a process whose
  RabbitMQ connection has closed, because `RabbitMqConnection` opens its connection once and never
  again. Crashes and the other faults are bounded by `MaxFaults`, so they end.
- `EventConsumer`: weak fairness of the handlers taken together: as long as one of them has a copy to take
  or a statement to run, one of them does. This is less than what the broker and Node give, which treat
  every handler so, and it is enough, since each copy can be handled and tried again only so often.
  `QueuesDrain` speaks of a queue that some connected process consumes (`Consumed`). The audit queue keeps
  the second process whatever the one fault is; the e-mail queue of the run is not consumed any more once
  the connection of its only process has closed, and waits for a restart, as it would in the real system.
- `CustomerApi` states no fairness: nothing in it is about what must happen in the end. A request
  that is never finished is one that failed, and the properties have to bear with that.

## 5. What is proved

### Transactions

`TransactionsProofs` proves, for any number of requests, accounts, customers and commands, any
opening balances and any number of attempts:

- `Invariance`: `Spec => []IInv`, the inductive invariant;
- `TypeCorrect`, `NeverOverdrawn`, `RowOncePerKey`, `EventWithRow`, `AnswersTrue`: the safety
  properties `TypeOK`, `NoOverdraft`, `OneRowPerKey`, `OutboxAtomic`, `AnswerTruthful`;
- `BalancesExplained`: `BalanceExplained`, a balance is its opening balance plus what the COMPLETED rows say;
- `MoneyIsConserved`: all accounts together hold what they opened with, plus the deposits posted, less the
  withdrawals posted (`MoneyConserved`, stated in `TransactionsProofs`);
- `NeverDeadlocked`, `ClosedIsFinal`: `NoDeadlock` and the temporal `ClosedStaysUntouched`;
- `ServiceImplementsLedger`: `Spec => ImplementsLedger`, the refinement.

Assumptions: the ASSUMEs of `BankTypes` and `Transactions` (account ids are numbers and finitely many, every command is
well formed with a positive amount, opening balances are not negative, `None` is nobody).

The argument. None of the safety properties is inductive: that a commit leaves no balance negative
depends on the debit having been covered when it took the row lock and on nobody having touched the
row since. `IInv` says so in three parts. `Handlers` says by phase what a request has done: which
row it has open, that it has passed the owner check before it may insert, that it has no committed
row and no answer before its end. `Holders` says that whoever holds an account row has a posting
open that touches it and, if it debits it, that the committed balance still covers the amount:
credits of others cannot interfere since they need the same lock. `Unique` says that a key is
claimed, committed or not yet, by one request: an insert goes through only when no other open
transaction has the key and no committed row does. Each action is then taken by the part it can
disturb: steps outside the transaction (`OutsideTxStep`), rollbacks (`AbortStep`, `ThrowStep`), reads
(`ReadStep`), inserts (`InsertStep`), the row locks (`LockStep`), `FinishStep`, and `PublishStep`, the
only one that changes balances. The refinement reuses the invariant: a commit is one `Post` or
`Refuse` of the book, everything else a stutter.

`BalanceExplained` and `MoneyConserved` compare a balance with a sum over rows, so they need to know how a
sum follows a step (`SumTheorems`, below). `Explained` is the strengthening: the sum of each account over the
set of posted requests, together with the finiteness of that set, which holds in every state although
`Requests` may be infinite, since a step posts at most one row. Only a commit changes balances, and only those
whose lock it holds. `PublishMoves` says that this is all of a posted command's money (by the invariant a request
at its commit holds every account it touches) and none of a rejected one's, and a commit adds one summand to
each sum; every other step leaves balances, rows and the commands of the posted requests alone
(`StepPublishes`, `NothingPosted`). For `MoneyConserved` the changes are added over the accounts, where the two sides of a
transfer cancel.

For `NoDeadlock` the invariant gains `LocksAscend`: whoever holds an account row holds all those before it
that it touches. Suppose each of a set of requests waits for another one of them. One that waits for a
key waits for a request that is past its insert, so somebody waits for an account row. Take the last
row that any of them waits for (`HasLargest`, from the minimum principle of the natural numbers, which is where
the accounts have to be finite): its holder waits for a row after it, which is a contradiction. For
`ClosedStaysUntouched`, `Barred` says of a request and a closed account that the request has still to read
the status or has failed already; every step keeps it so, because no action leads out of CLOSED.

### The other modules

Each of the following holds for any number of requests, workers, processes, queues and faults, under
the ASSUMEs of the module (sets of the right kind, bounds that are natural numbers, `None` outside).

`DailyLimitProofs`: `TypeCorrect`, which includes that the counter of a day never passes the limit,
`PostingsAreReserved` (`PostedIsReserved`), `CounterIsExact` (`CountsReservations`) and `LimitIsKept` (`LimitHolds`). The invariant adds `Covered`: while no slip is recorded, a
handler that is about to post has a reservation of at least its amount today, and nobody is in the
database fallback. A reservation only grows while handlers reserve; a release lowers one reference
only, and without a twin nobody else relies on it; midnight with a command under way is a slip.
The counter is a second invariant, `CounterInv`: it is the sum of the reservations above zero (`Live`), finitely
many although `Refs` may be infinite, and there is one row per reference. RESERVE_LUA writes a reservation
only where there is none and adds what it wrote; RELEASE_LUA clears one and takes off what it cleared. A
counter that is a sum is at least each of its summands, so the floor at 0 of RELEASE_LUA is never reached.
`LimitHolds` follows from the two together: without a slip each row of a day is covered by the reservation
of its own reference on that day, different rows have different references, so the rows add up to no more
than the reservations, which are the counter, which is at most the limit (`PostedWithinLimit`).

`IdempotencyGuardProofs`: `LockIsOwners` (`LockStaysMine`), `DoneIsCompleted` (`DoneMeansCompleted`) and
`WorkersAlone` (`OneWorkerPerKey`). The lock is inductive by itself. For the other two, `Through` says
how a request came to where it is (`markDone` only over a COMPLETED row, `deleteKey` only by a request
that carries a key), and `Sole` that a request at work on a key without a row owns the in-flight key
and is alone with it. `WorkStep` is the heart: only a worker that stops working clears such a key.

`OutboxProofs`: `ProcessedWasPublished` (`NoLostEvent`), `RowsGoForward` (`ForwardOnly`),
`CopiesNeedFaults` (`DuplicatesOnlyByFault`) and `WorkersImplementDelivery` (`ImplementsDelivery`). `Sent` says
that the exchange has what a worker holds a confirm for; `Fresh` that a row which still carries the
stamp of a claim has the retry count that the claim returned, since every update that changes the
count also takes the stamp away, and a new claim brings an unused one. `BudgetInv` is the strengthening
of `DuplicatesOnlyByFault`: the copies of a row, plus the workers that are still going to publish it, plus
one if it can be claimed (now, or as soon as its TTL passes without its worker), are at most one more
than the faults. Each action moves one unit from one place to another, or brings a fault with it: a
claim turns "can be claimed" into a holder, a publish a holder into a copy, a failed publish a holder
back into "can be claimed". The number of holders is counted with the cardinality theorems
(`CountWorkers`), which is why `Workers` is assumed finite. In the refinement, the budget is what allows
a `Publish` to be a `Send`: its worker is a holder, so the copies so far are paid for.

`EventConsumerProofs`, for any number of handlers of each process and queue, finitely many in all (so any
prefetch): `TypeCorrect`, which includes that `x-attempts` never passes its maximum,
`CompletedTookEffect` (`CompletedHasEffect`), `EffectsOnce` (`EffectOnce`) and `NoSilentDrop`
(`DropsLeaveTrace`). `Calm` says that without faults a claim belongs to exactly one handler, which has
its copy; `Trace` that as long as a queue shows neither an effect nor a dead letter, somebody has still
to decide about a copy, or a fault has happened and there is a row. How many copies a lost process puts
back is a cardinality (`UnackedCount`), which is where `Handlers` has to be finite.

### The customer API

`SessionsProofs` proves `IInv` of `Sessions` inductive, for any number of requests, and from it the five
properties of sessions. `TwoSessionsOverlapped` is not inductive: while a login sits between its snapshot
and its commit, a session it has not seen may be alive. `WindowInv` says that such a session has the
login in its `window`, which is what the commit then needs, and `PasswordInv` and `LockInv` do the same for a
login that was let in before a password changed or a lock was set. `ChainInv` ties the replacement of a
token to its revocation: of two refreshes with one token, the second finds it revoked.

`CustomerApiProofs` proves the invariants of `Profiles` and of `Accounts`; that of `Accounts` (`BankingInv`) says what a
request that owes an audit row has done: if it alone owes one for an account that has not slipped, its
status is that account's. Then `Composition`: a behaviour of `CustomerApi` is, seen
through each instance, a behaviour of that service, because the requests of the others leave its
variables alone. The theorems of the services so carry over (`ApiSessionsEndAtLogin`,
`ApiSessionsEndAtChange`, `ApiOneSuccessor`, `ApiRevocationIsFinal`, `ApiLockHolds`, `ApiEmails`, `ApiProfiles`,
`ApiOneOpen`, `ApiAuditTells`), for any number of requests, addresses and currencies and any threshold.

### Sums

`SumTheorems` says what `SumFunctionOnSet` of the community modules does on finite sets of any size: it is the
same in whatever order it is taken (`SumRemove`, from which `SumAdd` and `SumExtend`), it looks at nothing outside
its set (`SumAgree`), it distributes over addition (`SumPlus`), it is a natural number and no smaller than any
summand when these are natural numbers (`SumNat`), values that are each covered by a value of their own have
no larger sum (`SumCovered`), and the sum over the support of a function follows a change of one value
(`SumSupport`). The function is recursive and the induction theorems of the library take an operator as a
parameter, which the provers cannot instantiate. The proofs get by without one: among the finite sets for
which a statement fails, if there are any, there is one with no smaller one inside (`SmallestSubset`, from
the well-foundedness of the strict subset relation on finite sets), and taking one element out of it gives a
contradiction. `SumUnique` and `SumExists` show in this way that the recursion has one solution.

### Only model-checked

The liveness properties `EveryRequestAnswered`, `NothingHeldForever`, `EveryEventProcessed` and `QueuesDrain`: fairness
and ENABLED are beyond the prover. Every other property of a passing run is a theorem.

## 6. What the checks show about the code

Most of what is stated holds. Five statements that the code, its messages or its README make do not:

1. **A closed account can hold money** (`transactions_closed`). A deposit or a transfer reads the
   destination's status without a lock and `incrementBalance` writes by id alone. A close that
   commits in between finds balance 0, and the increment goes through afterwards. No endpoint moves
   money out of a closed account. The opposite order is safe (`ClosedStaysUntouched`): a request that
   arrives after the close never posts.
2. **Retries never stop** (`outbox_retries`). After the last retry the row is FAILED with
   `next_retry_at` NULL, and `claimNextBatch` takes NULL as due: the event is claimed on every poll,
   without any backoff. Being the oldest, such rows also fill the batch.
3. **A reservation leaks when a reference fails twice** (`daily_limit_leak`). The first failure leaves
   a released marker which the next reservation of the same reference does not clear, so the second
   release is a no-op and the amount counts against the limit until midnight.
4. **A refused body blocks the user's transfers** (`idempotency_guard_busy`). Guards run before the
   ValidationPipe, so a body that the pipe refuses never reaches the `finally` block that releases the
   lock; until the TTL every transfer is told that another one is in progress.
5. **An event can be lost after a crash** (`event_consumer_lost`). A consumer that dies between its claim
   and the effect leaves a fresh CLAIMED row. The broker redelivers at once, the copy cannot be claimed,
   counts as a duplicate and is acknowledged: no effect, no dead letter. The same happens to a retry when
   `markFailed` fails. What is left is the row (`DropsLeaveTrace`), which nobody reads again.

Some properties of the customer API name the overlaps under which the plain statement fails. These are
real behaviours of the code, though nothing in the repository claims otherwise:

- two logins that overlap revoke what each of them saw and leave two sessions alive, although login
  means to leave one (`TwoSessionsOverlapped`); a refresh that overlaps a login escapes it as well;
- a session whose login or refresh overlaps a change of password survives it (`OldSessionsOverlapped`);
- a login that had passed the lock check before the lock was set lifts it with the right password
  (`LockLiftedOnlyByEarlier`);
- of two overlapping `putMe` of one customer the later one writes back the fields it read and so can undo
  the other (`ProfileAsAsked`);
- the audit row of a status change is lost when its insert fails, and the rows of two changes can come in
  the wrong order (`LastAuditTells`).

## 7. Abstractions

- Account ids are natural numbers: the code only compares them, to order the row locks.
- Amounts are whole units; rounding to the two decimals of the columns is left for a module of its own.
- Balances before the first request stand for earlier requests that have finished.
- A statement of a database transaction is a step of its own where another request can see or wait
  for it; the insert of the outbox row is visible to nobody before the commit.
- `RetryConflict` may happen at any statement (PostgreSQL decides what to abort), and `DbError` covers
  every other error of a statement, the timeout of the interactive transaction and a full pool
  among them.
- In `Transactions` the release of a Redis reservation is a control step only; its effect is in
  `DailyLimit`, where in turn a database transaction is one step, on one day.
- In `DailyLimit`, an error of `findExisting` is left out (nothing has been reserved yet), and Redis
  does not lose data. The withdraw rule is the same code over its own keys and so another instance.
- `IdempotencyGuard` has one user (nothing is shared between users). Its passing run has transfers
  only: a deposit uses the same key commands without the lock, and is part of the violation run. The
  controller keeps the key of a request that failed with a `ConflictException`. The service throws one in
  one place, for a committed row that is still PENDING, and `OutboxAtomic` shows that there is none; the
  model has no step for it, and `DeleteKey` follows every failure.
- `EventConsumer` follows one event. A second publication of it, which `Outbox` makes after a fault, is
  left out: its copies meet the rows as the copies of a retry do. The broker keeps what it was given; a
  republished copy is durable before the acknowledgement that follows it on the same channel.
- `Sessions` and `Accounts` have one customer: nothing is shared between customers but the counters of an
  IP. The verdict of the login rate limit is therefore a choice, as is the outcome of a comparison of
  passwords. `bcrypt.compare` looks at the row that was read and changes nothing, so it is part of the
  read. Access tokens are signed and checked without any state, and `getMe` only reads; both are left out.
- In `Accounts` a balance of zero is a choice, and the reasons for a refusal are one answer. The race of a
  close with a deposit is in `Transactions`.
- In `Profiles` the phone is handled like the name and left out; a lost acknowledgement of `putMe` is the
  answer `error` of `Put`. The event of a registration is a member of `outbox`; `Outbox` takes it from there.
- `Delivery` speaks of the outbox alone; what becomes of a copy in the queues is in `EventConsumer`.
- The payload of events, the wording of answers and logs, decimal formatting and header parsing are
  left out.

## 8. Not modelled, and the plan

Left out for good: logging, response layout, health and metrics endpoints, e-mail transports (pure
I/O; the SendGrid transport is a stub), rate limit counters (one atomic Redis script per request).

The other fraud rules (fixed thresholds and one atomic counter per minute) appear as a rejection in
front of the daily limit.

Left to do, in this order:

1. `Amounts`: decimals rounded per column, the two sides of a transfer against the row.
2. `Outbox` and `EventConsumer` composed over the exchange, against a specification of end-to-end
   delivery; both halves are specified, and their product needs smaller instances than either has now.
3. A second publication of an event in `EventConsumer`, and two events that compete for a batch in `Outbox`
   when the broker refuses one of them for good.
