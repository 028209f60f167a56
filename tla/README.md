# A TLA+ model of the banking platform

The repository is a Go monorepo of small services (`src/services/*`) over shared
packages (`src/pkg/*`). This directory holds TLA+ modules translated from that
code, TLC configurations that check them on small instances, and TLAPS proofs of
the theorems that hold for every size. Paths below are relative to `src/`.

## 1. Inventory

### account-svc (modelled: `AccountService`, `AccountBook`)
- State: the `accounts` table (status, balance in minor units, version) and, per
  HTTP request, the `dao.Account` it has read and changed in memory.
- Operations: `CreateAccount`, `Credit`, `Debit`; the reads change nothing. The
  `transactions` table of migration 002 is never written.
- Hard: Credit and Debit are two statements, a SELECT and an
  `UPDATE ... WHERE id = ? AND version = ?`, with every other request in between;
  the status is checked on the row that was read and written back; the Timeout
  middleware answers 503 while the handler goes on; a COMMIT's acknowledgement can
  be lost; the process can die anywhere.
- Correct when: no update is lost, no balance leaves `0..MaxInt64`, only ACTIVE
  accounts move, and "ok" and the refusals tell the truth.

### payment-svc orchestrator (modelled: `PaymentOrchestrator`, `PaymentLedger`)
- State: the `transactions` table (unique `idempotency_key`, status, failure
  reason), and per request the step of `executeDebitCredit` it stands at.
- Operations: replay by key, balance pre-check, PENDING row, PROCESSING, debit,
  credit, compensating credit, FAILED or SUCCESS, completed event.
- Interacts with account-svc over HTTP through `pkg/httpclient`, which repeats a
  POST after a 5xx or a network timeout, and with NATS (event, best effort).
- Hard: two requests with one key; a leg applied although its client was told that
  it failed; a compensation that fails or is never sent because the context of the
  request is dead; a crash between two legs; writes whose failure is only logged.
- Correct when: one key moves money once, the status agrees with the money, and an
  answer that named a terminal status stays true.

### payment-svc flows (modelled: `PaymentFlows`)
- State: the `qris_charges` table next to `transactions`.
- Operations: `GenerateCharge`, `Pay` by charge or by QR string, `InitiateRefund`.
- Hard: the check of the charge, the movement and `MarkPaid` are apart, and so are
  the look for an existing refund and the insert of the refund.
- Correct when: a PAID charge was paid by a SUCCESS and keeps its payer, and only
  what succeeded is refunded, once.

The other initiations of `payment_service.go` (transfer, top-up, withdrawal, ...),
`Reverse`, `Cancel` and `Retry` are stubs that return an error. `UpdateStatus` of a
charge has no caller.

### pkg/idempotency and its middleware (modelled: `Idempotency`)
- State: records in Redis (a Lua script sets one with a TTL) and in Postgres, used as
  a fallback when a Redis call fails.
- Operations: Acquire and Complete of either store, the response that is captured and
  replayed, the clean-up of rows after a day. When neither store answers, the handler
  runs without protection.
- Hard: a Redis outage between Acquire and Complete, an expired or lost record, two
  callers in the `FirstOrCreate` of the Postgres store, a handler that dies between
  the two. No code sets the ID of a row, its primary key, so the table takes one row
  and every later fallback fails. The middleware is exported and mounted by no router.
- Correct when: a handler runs once per caller, route and key while Redis works, each
  store is a mutex, and a replay is the caller's own response.

### notification-svc (modelled: `NotificationDispatch`, `NotificationScheduler`)
- State: `notifications` (PENDING, PROCESSING, SENT, FAILED, RETRYING, CANCELLED,
  retry count), `templates`, `schedules` (enabled, next run), and in memory the rows
  that the workers and the scheduler of each instance have read.
- Operations: Send (by HTTP or from the stream), Retry, Cancel; the templates' and
  schedules' create, update, delete, enable and disable; the dispatcher's poll, claim
  (`FOR UPDATE SKIP LOCKED`), render, send and outcome; the scheduler's tick, fire and
  `UpdateAfterRun`.
- Hard: Retry and Cancel write unconditionally after a read, against workers that do
  the same; a row stays PROCESSING when its worker dies, and a template may hang its
  worker for ever; `ClaimDue` marks nothing, so two schedulers read the same schedule; a
  message is sent and SENT is not recorded; an expression parses and names no date.
- Correct when: deliveries and attempts are accounted for, a cancelled notification
  stays quiet, a schedule runs once per run time and not while it is disabled, and what
  is queued or due is dealt with in the end.

### auth-svc (modelled: `AuthSessions`, `ApiKeyCache`)
- State: users, refresh tokens (Redis, Postgres or memory), service accounts and API
  keys in Postgres, and one Redis entry per key, which account-svc reads and fills too.
- Operations: Login, Refresh, Logout; CreateServiceAccount, UpdateServiceAccount,
  CreateAPIKey, RevokeAPIKey, introspection, and the lookups of both services.
- Hard: two refreshes with one token, refresh against logout, a revocation that stops
  half way; a cache filled from a row read before the key was revoked, and filled again
  by the other service from that entry.
- Correct when: what was revoked yields nothing, a session is worth one token, and a
  dead key is let in for a bounded time only.

### audit-svc, pkg/messaging, pkg/audit (modelled: `AuditPipeline`)
- State: a stream with at-least-once delivery, the table of events, a reader's cursor.
- Operations: publish or post, fetch, ingest, Ack and Nak, list page by page.
- Hard: an acknowledgement that is lost after the insert, a delivery that is the last,
  an instance that stops between fetch and insert, a message that does not decode, rows
  that come in between two pages.
- Correct when: what was acknowledged is stored or could not be read, and a reader who
  turns all the pages sees each earlier row once.

### QRIS codes in payment-svc (modelled: `QrisCode`)
- State: merchants, the string of a charge, what the payer has scanned.
- Operations: `RegisterMerchant`, `GenerateCharge`, `Decode`, the by-string part of
  `Pay`; `Encode`, `parseTLV`, the CRC and the conversion of amounts.
- Hard: lengths of two digits over byte counts, amounts below one unit, misread codes.
- Correct when: a payer pays the merchant and amount that were printed and shown.

### The way of a request in every service (modelled: `RequestPath`)
- State: a token bucket per address, access tokens, the users' rows, flags.
- Operations: rate limit and clean-up, bearer token or API key, role of the route,
  operation hours; Login and Refresh as far as they issue access tokens.
- Hard: buckets that are thrown away, roles that outlive the row they were read from.
- Correct when: no window serves an address too much (where a limiter is mounted), and
  no role outlives its bound.

### Not modelled
- `account-svc/docs/docs.go` (generated), `cmd/server` containers and `config`
  packages but for what they switch on or off (about 3 000 lines): wiring.
- `pkg/logger`, `observability`, `httpx`, `errors`, `validator`, `crypto`, `cli`,
  `database`: formatting and wrappers; what they decide (a refusal, a failed statement)
  is a choice in the models. Signatures, password hashes and digests are taken to be
  sound and free of collisions.
- The consumer of payment-svc, which acknowledges everything and changes nothing.
- `kyc-svc` (documents only), deployment files, dashboards and load tests.

`PROJECT.json` lists each part with its reason.

## 2. Modules

| module | role |
| --- | --- |
| `AccountBook` | abstract: balances, and a journal of the calls that took effect |
| `AccountService` | account-svc; implements `AccountBook` |
| `PaymentLedger` | abstract: what a caller of the orchestrator may rely on |
| `PaymentOrchestrator` | `executeDebitCredit` and its HTTP calls; uses `AccountBook` for account-svc, implements `PaymentLedger` |
| `PaymentFlows` | the flows around the orchestrator, on top of `PaymentLedger` |
| `Idempotency` | the idempotency middleware over `DualStore` |
| `NotificationDispatch` | notifications and templates: the API, the dispatchers, their workers |
| `NotificationScheduler` | schedules: the API and the schedulers |
| `AuthSessions` | users' refresh tokens on each token store |
| `ApiKeyCache` | API keys, and the cache two services fill |
| `AuditPipeline` | audit events from a service to a reader's page |
| `QrisCode` | QRIS codes as strings, from printing to payment |
| `RequestPath` | rate limit, authentication, roles and operation hours of the five services |
| `AccountBook_proofs`, `AccountService_proofs`, `PaymentOrchestrator_proofs`, `AuthSessions_proofs`, `ApiKeyCache_proofs` | the theorems about a module and their proofs |
| `PaymentFlows_proofs` | those of `PaymentFlows` and `QrisCode` |
| `NotificationService_proofs` | those of `NotificationDispatch` and `NotificationScheduler` |
| `CommonParts_proofs` | those of `RequestPath`, `AuditPipeline` and `Idempotency` |
| `MC*` | small instances for TLC |

The composition is by contracts. `AccountService => AccountBook` is proved, so the
orchestrator may use the book's single step `Post` in the place of account-svc; that it
does nothing else to the book, `PaymentOrchestrator => AccountBook`, is proved too.
`PaymentOrchestrator => PaymentLedger` is checked (and proved, section 5), so the
flows may use the ledger's `Work` in the place of the orchestrator.

Two components whose theorems share a module have no name in common, so `Init`, `Next`,
`Spec`, `TypeOK` and `vars` carry a prefix in all but one of them: `Dispatch` in
`NotificationDispatch`, `Audit` in `AuditPipeline`, `Guard` in `Idempotency`, `Code` in
`QrisCode` (where `PrintCharge` is `GenerateCharge`).

### How `AccountService` corresponds to the code
`accounts` is the table; an account that does not exist is an `Absent` row. `pc`,
`call` and `row` are the goroutine that serves a request: where it is, the decoded
body, and the `dao.Account` on its stack. `Read` is `GetByID` with the checks and the
arithmetic that follow in memory, `UpdateMatches` and `UpdateConflicts` the two
outcomes of `Update` (`RowsAffected`), `StatementFails` any statement that errors
first, `Timeout` and `Crash` what may happen around them. `applied` is a history
variable, not visible to the code. `SetStatus` is external: no code of the repository
changes a status, so created accounts stay PENDING and cannot be credited until
someone updates the table (the load test in `performance-test-k6/account-flow.js`
expects ACTIVE). An operator's UPDATE is assumed to increment the version, as the
schema asks of every writer.

### How `PaymentOrchestrator` corresponds to the code
`pc` is the line of `executeDebitCredit` a request stands before. `ctx` is whether its
context is alive: after the Timeout middleware has answered, the goroutine goes on but
every statement and call fails before it is sent. `tries` counts the attempts of
`httpclient.Do`. One attempt of one leg is one call of the book; its outcomes are
`CallSucceeds`, `CallRefused` (no effect, not repeated), `CallFails` (no effect,
repeated), `CallMisreported` (effect, but an error is reported) and `CallOvertaken`
(the client stops waiting, the effect may come later through `LateCallEnds`). `doubt`
is a history variable that marks the requests that were misinformed in this way.
Every statement may fail before it takes effect, and the writes also after it. The
one liberty is that a failed call may always happen: account-svc may refuse a call for
reasons of its own (status, operation hours, conflicts).

### How `PaymentFlows` corresponds to the code
A transaction's row carries its request's type and external reference, `Flow[id]`.
The reads that decide (`ResolveCharge`, `ReadOriginal`, `ReadExistingRefund`), the
movement (`Ask`, then `Work` of the ledger) and `SettleCharge` are separate actions.
Nothing keeps a client from using a key again, for a retry or for something else: the
ledger answers with what it has under the key, and the flow goes on with that. So
`PaidBySuccess` says which requests may have paid a charge: the transaction it names is a
SUCCESS, and some request for this charge with its key was answered with it. It does not
say that the transaction was opened for this charge (section 4, 14).

### How `Idempotency` corresponds to the code
`cache` and `table` are the two stores by scope key, `pc` is where the middleware stands
with a request, `pending` are the goroutines `DualStore.Complete` starts. `holder`,
`result` and `trouble` are history variables: which store let a request run, how its
handler ended, and what went wrong around a scope. `RedisAcquire` is the Lua script;
`RedisAcquireFails` a call that fails before or after it took effect;
`RedisAcquireRepeats` the client library's own retry, which finds the record of its
first attempt. `PostgresSelect` and `PostgresInsert` are the two statements of
`FirstOrCreate`. `RecordLapses` is a TTL that ends or an eviction; `DeleteExpired` waits until
no request of the scope is served, because a row lives a day. A scope key is a digest
of caller, method, path and key, taken to be free of collisions. A record that does not
decode is left out, and a request that the middleware does not guard is served at once.

### How `NotificationDispatch` corresponds to the code
`table` and `templates` are the tables, `phase` where a Send, Retry or Cancel stands between
its read and its write, `jobs` the rows the dispatchers hold in memory and the step of
`process` each is at, `up` the instances. A Send is two statements (`SendLookup`,
`SendInsert` with the unique key); Retry and Cancel are `CallRead` and a write of whatever
is there by then. `Poll` with `MarkProcessing` is the transaction of `ClaimPending`, `Outcome` is
`markRetryOrFailed` or `markFailed` with the retry count of the claimed row. `Stop`
cancels the workers' context: main does not wait for them, and their last UPDATEs fail;
`Exit` is the end of the process and `StartUp` the next one.
A template either parses or not; rendering one that parses may also never end
(`RenderHangs`), as nothing limits `Execute`. A worker that hangs keeps its job until its
instance stops. `claims`, `deliveries`, `misreports`, `resets` and `lost` are history
variables.

### How `NotificationScheduler` corresponds to the code
`rows`, `pc` and `seen` are the table and the API calls (Update is a read and a write of
every column but `enabled`). `todo` is what `ClaimDue` returned to a tick, `job` what
`fire` is at; `CreateNotification` fails on the unique key of schedule and minute,
`UpdateAfterRun` writes `next_run_at` from the expression that was read. An expression is a
period in minutes; those in `Barren` parse and match no date, and `NextRun` gives them
`ZeroTime`, as the cron library's `Next` does, which is stored like any other (minutes
start at 1, so it is past from the start). `troubled` is a history variable: schedules
with a failure, a crash, an Update or a second reader.

### How `AuthSessions` corresponds to the code
`store` is the configured token store and `tokens` its content, each token known by the
request that issued it. `job` and `pc` are a request and the statement it is at: `find`,
`revoke` (a GET and a SET in Redis, one step in Postgres and memory), `user`, `save`.
Every statement may fail before or after it took effect; `Restart` empties the memory
store. `over` and `broken` are history variables.

### How `ApiKeyCache` corresponds to the code
`accounts` and `keys` are tables, `cache` the Redis entry of a key with the time it
lapses, `lpc` a lookup (Redis, then introspection or the join, then SET), `cpc` a call.
`AuthGets` and `Query` are auth-svc's part of account-svc's lookup. Time is in ticks, TTL
5 minutes, `Delay` the longest a lookup takes, as the HTTP timeouts see to.

### How `AuditPipeline` corresponds to the code
`place` and `tries` are the stream's view of an event, `out` and `acked` its deliveries,
`batch`, `work` and `stage` the loop of `NATSConsumer.Start` in each instance, `rows` the
table. `Nameless` events lack a field `Ingest` insists on, `Garbled` ones do not decode:
`Begin` acknowledges the latter and stores nothing. `AckWaitOver` and `ConsumerRestarts`
give a message back; ids of rows are random, so a row takes any free one. `IngestEvent`
takes the time of a posted event and inserts it in one step; an event of the stream has
the steps apart. `listing` and `cursor` are a reader of `List`.

### How `QrisCode` corresponds to the code
Strings are sequences of bytes; `Encode`, `Parse`, `Decode` and `Crc16` compute what
the Go functions do. Numbers have no width: an amount that was printed fits an int64 and so
does what is read of it; a garbled one may not, and its checksum is wrong. `Garble` is the
outside world: a character misread or two neighbours swapped. Left out are the space
that `majorToMinor` trims (`qris_service.go:377`; no code that is printed has one there) and
the bill number in field 62/01 (`qris_service.go:131`), which `Decode` shows and no payment
uses. Validation of merchant and charge requests is in the inputs: what the handlers
let pass, names that are over 99 bytes included.

### How `RequestPath` corresponds to the code
A step serves one request to a route of `service`: bucket, caller, role. The routes are
those of the five `NewRouter`s, with the role each asks for. A bucket is an address's, and
`RemoteIP` is the address a request's header names, or else its peer's: a caller may come
under any. auth-svc mounts no limiter, so its requests meet no bucket and `RateBounded`
speaks of the other four services. `issue` is a Login or Refresh that has read the user's
row and not answered; `held` (when a row last had a role), `meter` (a leaky bucket of what
an address was served) and `served` are history variables. payment-svc, audit-svc and
notification-svc pass no API-key lookup: an API key is a nil call there, in the goroutine
of Timeout, where Recovery does not reach, so the process ends and its buckets are gone
(`NilLookup`).

### What `map` in `PROJECT.json` lists
200 definitions, chosen to cover the most code; one whose lines lie within another's
(a helper, an outcome of the same statement) is left out and names its code in its comment.

## 3. Runs

| run | instance | distinct states | shows |
| --- | --- | --- | --- |
| account_service | 3 requests, an active and an absent account, amount 2, MaxBalance 3 | 233,215 | types and ranges, truthful answers, no lost update, only ACTIVE accounts move, implements the book |
| payment_orchestrator | a request and its retry under one key, 2 attempts per call | 62,293 | one mover per key, status and money agree, no money from nothing, answers stand, implements the ledger, every request ends |
| payment_flows | a payer, a scan of another charge under the same key, a second payer, a refund | 1,575,866 | a PAID charge was paid by a SUCCESS its payer was answered with, and keeps it; success leaves the charge PAID, refunds of successes only |
| idempotency | a call and its retry, the same call of another service and of a person | 697,674 | runs once, each store a mutex, replays are the caller's own, answers are kept, refusals are true |
| notification_dispatch | 2 Sends with one key, a template that may hang, a Retry, a Cancel, an instance with 2 workers | 294,828 | deliveries and attempts accounted for, cancelled stays quiet, everything settles |
| notification_scheduler | a schedule, every minute or without a date, an Update, Enable, Disable, Delete, 2 instances, minutes 1 to 3 | 828,480 | once per run, quiet when disabled, due schedules run |
| auth_sessions | a user, 4 requests, each of the 3 stores | 187,360 | revoked tokens refused, a session is worth one token |
| api_key_cache | a key, a revocation, a deactivation, a change of roles, 2 lookups, ticks 0 to 5 | 2,831,576 | a dead key has no entry after its revocation, and is let in for a bounded time |
| audit_pipeline | 2 events and one that does not decode, 2 consumers, 2 deliveries each, pages of 1 row | 3,345,081 | acknowledged means stored or unreadable, rows are accounted for, pages are complete |
| qris_code | 2 merchants, 3 orders, 1 misreading | 20,022 | paid as printed, paid as shown |
| request_path | a user, 2 addresses, each service, ticks 0 to 3 | 946,731 | rates and roles are bounded |
| refund_twice | a payment, two refunds with different keys | about 1,700 until found | violated: the finding |

Why the bounds are enough. account_service: the lock is between any two requests on
one row, a third shows a chain (read, two writes, late write); balance 2 with amount 2
and MaxBalance 3 puts a credit over the limit and a debit exactly on zero;
`MaxVersion` (3) only stops `SetStatus`. Requests are symmetric.
payment_orchestrator: requests with different keys share nothing but the balances,
where the book already lets a call fail; two attempts are one repetition, and the
source holds enough for two payments so that a leg that is applied twice shows. No
symmetry, because the run checks liveness. payment_flows: settling needs two payers
with different keys to compete and a retry to be replayed; the payer and its retry are
interchangeable, hence the symmetry of these two; the payment by string has the payer's key,
so that a key is used again for another operation, in either order. idempotency: a scope key is contested
by a call and its retry (interchangeable), the other service has a key of its own in the
same table, the person is not guarded; every call may fail and every record lapse any
number of times, so no counter needs a bound.
notification_dispatch: a notification meets the others only at its key and in the batch,
so a copy with the same key is the second; two attempts are one repetition; a Retry and
a Cancel are one call of each kind that writes after a read. Two workers of one instance
compete as two instances do, and the same model with two instances of one worker each
(1,326,468 states) was checked too. notification_scheduler: two schedulers
and one schedule, because schedules share nothing; a period of one minute within three
gives a run that is late and one that is due again, and the other expression names no date
(periods of one and two minutes were checked before it took that place). auth_sessions: a session is
a chain of logins, refreshes and logouts; with four requests two can hold one token after a
refresh has gone before. api_key_cache: two lookups are what it takes for one to fill the
cache from the other's entry; TTL 2, Delay 1 and six ticks leave room for a refill
after the revocation. audit_pipeline: one event each way and a message that does not
decode, each delivery may be the last; `NoiseOnce` has that message delivered once only,
since what becomes of it is the same each time; pages of one row put every insert on a page
boundary. qris_code: every position of
every printed string is misread as each of six characters (digits, a minus, letters of
either case), or swapped. request_path: two addresses, since a bucket is thrown away on
the request of another; Burst 2, Rate 1 and CleanupAge 2 meet `Burst <= Rate * CleanupAge`
with equality, which is where it could fail.

Deadlock is not checked (`CHECK_DEADLOCK FALSE`) where the model serves a finite set of
requests and then rightly stops; `RequestPath` never stops and is checked.

Fairness. `EveryRequestEnds` assumes weak fairness of each request's `Step`.
The goroutine is runnable whenever it is not waiting, Go's scheduler runs it, and each
thing it waits for has a deadline (the context of the request, the HTTP client's
timeout), so a step is always taken in the end. Nothing is assumed of requests
arriving, late calls ending, timeouts or crashes. `Settles` assumes the same of each
instance's poll (a ticker) and of its workers as a whole: a worker waits for the database,
which answers or fails, for the channel (the webhook's client gives up after 10 seconds),
and for the template, which nothing limits. So a worker may hang in rendering for ever
(`RenderHangs` is part of `Process`, and nothing follows it), and `Settles` exempts the
notification it holds and an instance all of whose workers hang, as well as what an
instance held when it stopped. `DueRuns` assumes fairness of the scheduler's work, exempts a
schedule at the zero time that has run (it is due at every tick), and assumes strong fairness of
a tick that reads all that is due: another instance's locks (`SKIP LOCKED`) hide a row
while that transaction lasts, and not at every tick for ever. Nothing is assumed of
stops, starts, API calls or the clock.

Each property is also tried against a mutant of the code's model (a dropped guard, a
swallowed error, a missing version check, listed in `PROJECT.json`), which it catches.

## 4. Where code and documents disagree

`refund_twice` is kept as a run that must find the violation: two refunds with different
keys both find no refund and both open one, against "at most one non-failed refund may
exist per original transaction" (`payment_service.go:106`).

The models show more disagreements, none of which a run is kept for:

1. `executeDebitCredit` says it returns the transaction "in its terminal state"; a
   request that finds its key taken, or whose own insert was committed but reported as
   failed, gets it PENDING or PROCESSING (`orchestration.go:117`).
2. `payment-svc/docs/context.md:117` says that a failed compensation marks the
   transaction COMPENSATION_REQUIRED; the code records "credit failed" either way.
3. Static codes "are reusable" (`qris_service.go:320`), but the first payment marks a
   charge of either type PAID and the second payer is refused. A dynamic charge past its
   `expires_at` can still be paid: `Pay` looks at the status only (`qris_service.go:221`).
4. "Redis outage CANNOT cause double-execution" (`dual_store.go:20`); the retry asks
   Postgres, which was never told of the call that Redis let run. (And of the second
   row on, Postgres refuses all inserts: their ids are empty.)
5. "Revoke old token (atomic with find)" (auth-svc `docs/goals.md`, FR-03): find and
   revoke are apart in every store, and two refreshes of one token can both succeed.
   `OneToken` excludes exactly those sessions.
6. A revoked key is cached "up to 5 min" (auth-svc `docs/context.md:252`); a lookup in
   account-svc starts the TTL again with what auth-svc found in the cache, so
   `BoundedStaleness` needs the longer `Bound`. `InvalidateAll` (`apikey_store_redis.go:141`),
   meant for deactivations, is never called.
7. `UpdateServiceAccount` writes the whole row it read, so a change of roles can undo a
   deactivation; `CreateAPIKey` checks that the account "exists and is active" by existence.
8. Redelivery is called harmless (`messaging/consumer.go:105`), but an audit event that is
   redelivered after its insert is stored twice; immediate Naks use up `MaxDeliver`, and
   there is no dead letter. A service that starts without NATS discards all its events.
9. `ClaimDue` "atomically claims": nothing is marked. Two schedulers create one
   notification a minute thanks to its key, and two for one run if a minute passes between.
10. A database error while a template is loaded fails a notification for good
    (`dispatcher.go`, `render`), where a failed send is retried.
11. Recovery: "Go panic ... process continues" (notification-svc `architecture.md:502`), but
    Timeout runs the handler in a goroutine of its own, where no recover reaches.
12. `Decode`: "structurally invalid input returns an error" (`codec.go`), but a length with
    a minus sign makes `parseTLV` panic. Limits of 25 characters are counted in characters,
    the code's lengths in bytes. `Decode` shows IDR while `Pay` moves the merchant's currency;
    a payment by string never looks at the merchant's status.
13. payment-svc, audit-svc and notification-svc mount `AuthenticateAny`, documented for
    service accounts, with an empty `APIKeyConfig`. `account_handler.go:62` says
    "ADMIN|TELLER" of a route that needs ADMIN.
14. A key is answered with whatever transaction lies under it (`orchestration.go:93-94`), of
    whatever type, amount or charge. `Pay` then marks its charge PAID with that
    transaction (`qris_service.go:291`), so a payer who uses a key again settles a second
    charge with the first one's money, and a payment by string may settle a charge.
    `docs/context.md` (A-03) only says that clients generate keys; payment-svc builds a
    `DualStore`, which would compare callers and routes, and discards it
    (`cmd/server/container.go`, TD-06 in `HANDOFF.md`).
15. An expression that parses and names no date within five years (`0 0 30 2 *`) is not an
    error: the cron library's `Next` gives the zero time, which `Create`, `Update`
    (`scheduler_service.go:64`, `:131`, through `:237`) and the scheduler
    (`worker/scheduler.go:123`) store as `next_run_at`. The
    schedule is then due at every tick and notifies once a minute, for its unique key's
    sake only, until it is disabled. `OncePerRun` promises it that and no more.
16. A template may hang its worker for ever: rendering has neither context nor limit, as
    notification-svc's own `docs/review.md:87` and `docs/progress-tracking.md:179` (TD-07) say.
    With as many such notifications as workers the instance sends nothing.
17. "workers drained on OS signal" (notification-svc `docs/review.md:42`): `main` cancels the
    workers' context and waits for none of them, and what they held stays PROCESSING
    (`notification_repository.go:198`), which no query claims again; only a Retry frees it,
    and that one takes what is still being sent as well.
18. A message that does not unmarshal is acknowledged and discarded (audit-svc
    `transport/consumer.go:46-56`): the comment says so, but of that event nothing is kept.
19. The limiter's key is the first address of `X-Forwarded-For`, whoever sent it
    (`ratelimit.go:121-143`; `HANDOFF.md:338` and a comment in each router say as much of
    chi's `RealIP`): a caller that names another address each time has a full bucket each
    time. `RateBounded` bounds an address, not a caller. auth-svc's `docs/review.md:148`
    ticks "Rate limiting", and its `NewRouter` mounts none.
20. The middleware of `pkg/idempotency` leaves a key "processing" when its handler panics
    or its instance dies, or an answer is not kept: every retry is refused until the TTL ends
    (`middleware/idempotency.go:241`).
21. `Update` of a schedule writes back the `next_run_at` it read
    (`scheduler_service.go:107`): if a scheduler has moved it on meanwhile, the run comes
    again in another minute.

## 5. Proofs

Every theorem is of the form `Spec => ...` and holds for all values of the constants
that satisfy the module's named assumptions: any number of requests, accounts, keys,
charges, amounts, notifications, schedules, events, instances, addresses and users. The
assumptions say what the constants are; only `LimiterAssumption`
(`Burst <= Rate * CleanupAge`) asks something, of the configuration: it is what
the limiter needs to be right, and `config.go`'s defaults and every `.env.example` satisfy
it. TLC evaluates each assumption in the runs. `BooksBalance` has a hypothesis, `Numbers`
(amounts and opening balances are numbers in range), which both its uses discharge.

| module | theorems | inductive invariant |
| --- | --- | --- |
| `AccountBook` | `BooksBalance` | a finite journal and the sums of its entries |
| `AccountService` | `TypeCorrect`, `TruthfulReplies`, `ActiveOnly`, `Refinement`, `NoUpdateIsLost` | what a request knows at each step, and that a row read at the table's version is the table's row |
| `PaymentOrchestrator` | `TypeCorrect`, `KeyMovesMoneyOnce`, `StatusAgrees`, `NoMoneyFromNothing`, `LastingAnswers`, `Refinement`, `PostsToTheBook`, `MoneyIsAccountedFor` | who owns a key, where the owner stands, and what each standing means for the legs |
| `PaymentFlows` | `TypeCorrect`, `Paid`, `SettledForGood`, `TruthfulToPayers`, `Refundable` | what a flow knows at each step, and that a SUCCESS stands |
| `QrisCode` | `CodeInvHolds`, `CodeTypeCorrect`, `PaymentIsAsPrinted`, `PaymentIsAsShown` | the string in hand is the printed one or garbled once; what screen and payment took from it |
| `Idempotency` | `GuardTypeCorrect`, `StoresAreMutexes`, `Once`, `OwnReplays`, `KeptAnswers`, `TrueRefusals` | whose the records are, and that a record stands for each request a store let run |
| `NotificationDispatch` | `DInvHolds`, `DispatchTypeCorrect`, `DeliveriesAreAccounted`, `AttemptsAreBounded`, `CancellationHolds` | the claims and deliveries of a notification fall into chains, one more with each Retry |
| `NotificationScheduler` | `TypeCorrect`, `AtMostOncePerRun`, `DisabledIsQuiet` | who holds a schedule, and that past runs lie behind its `next_run_at` |
| `AuthSessions` | `TypeCorrect`, `LateIsRefused`, `SessionHasOneToken` | which token a request holds, and where the one token of a session is |
| `ApiKeyCache` | `TypeCorrect`, `RevocationHolds`, `StalenessIsBounded` | who may still write an entry of a dead key, and when those set out |
| `AuditPipeline` | `TrailAccounted`, `PagesAreComplete` | each row of an event and each consumer that has it to store has a delivery of its own; what the cursor has passed was shown |
| `RequestPath` | `TypeCorrect`, `BoundedRate`, `BoundedAccess` | what a bucket holds against the meter; how old a copy of a row is |

`AccountBook`. A posting adds its amount to one balance and to the sum of one account's
entries. The sum is the library's `MapThenSumSet`, a recursion over subsets that picks an
element by CHOOSE: that this recursion has a value (`SumsExist`), that it is the same
whatever element is picked (`SumTake`), and so that a new entry adds its delta
(`TotalAdds`), is proved by looking at a smallest subset for which it fails, which the
library's well-foundedness of the subset order provides (`Smallest`). This is how induction
over data is done here without the theorems that take an operator as parameter.

`AccountService`. `OnlyActiveAccountsMove` and the refinement are not inductive: an
UPDATE writes back a row that was read long before. `IInv` adds that a row in memory
whose version is still the table's equals the table's row but for its new balance.
Then an UPDATE that matches moves an ACTIVE account by the request's amount, which is
`Post` of the book (`UpdatePosts`), and every other step is a stutter (`OtherSteps`).
`NoUpdateIsLost` is `BooksBalance` seen through that refinement.

`PaymentOrchestrator`. `IInv` joins the types, ownership, `Standing` (the status, the
step of the owner and its context agree) and `Money` (which legs took effect at each
step, up to `doubt`). Two lemmas keep the proof short: `OwnStep` says what a step does
to its own request, `Others` that it leaves the other requests' part of the invariant
alone. `Refinement` then shows each step to be `Ask` or `Work` of the ledger, or a
stutter, and `PostsToTheBook` to be a posting of the book or a stutter;
`MoneyIsAccountedFor` is again `BooksBalance` through the refinement.

`PaymentFlows`. The ledger's steps are used through `WorkStep` (a SUCCESS stays), so the
proof does not look into the orchestrator. `SuccessStands` keeps an answer SUCCESS true
until the charge is written, and `FlowPhases` keeps what a refund read of its original.
`Paid` needs of a settled charge that some request for it with the same key was answered
SUCCESS (`PayerOf`) and that such an answer is not taken back (`SuccessIsFinal`); that the
request opened the transaction is neither assumed nor true.

`Idempotency`. `StoreIsMutex` needs that a store which let a request run still has a
record of its scope unless one lapsed (`Held`), and `ReplayIsOwn` that each stored
response was written by a request of that scope that a store let run (`RecordsTrue`).
`InFlightIsTrue` needs that a record that says processing has a request behind it
(`BeingProcessed`). One lemma per variable (`CacheStep`, `TableStep`, `HolderStep`,
`ReplyStep`) says all a step can do to it; the invariants use only these.

`NotificationDispatch`. The counters that `DeliveriesAccounted` and `AttemptsBounded`
relate move at different steps of different actors, and nothing in the table says which
attempt a row belongs to. `DInv` says that the claims *can* be told apart (`Chained`):
there is a numbering of the claims of a notification by chain and retry count, in which
no two share a place, a worker's job is the last of its chain and the only one there
(`Numbered`), a row that waits continues a chain nobody holds (`Waiting`), and the chains
that delivered are not continued but after a misreport (`Reached`). There are
`1 + resets` chains of `MaxRetries` places, so an injection bounds the attempts, and the
chains that delivered bound the deliveries. `Fate` lists what a step can do to one
notification (`Idle`, `Stored`, `Reset`, `Claimed`, `Worked`, `Ended`, `Requeued`) and keeps
the actions apart from the invariant; each of these renumbers the chains in its own way.

`NotificationScheduler`. Of a schedule without trouble one scheduler holds at most one
copy (`Sole`), that copy's run is the row's `next_run_at` and has no notification yet
(`Current`), and the runs that have one lie behind `next_run_at`, the one that is being
recorded apart (`Behind`). A schedule whose expression names no date stays at the zero time
and has run at no other (`Blank`); `Behind` leaves such runs out, and no more is promised of
them than one a minute. `Fresh` keeps a
schedule that is not created out of every
scheduler. A step of the API, or of a scheduler at another schedule, is `Same` to a
schedule; only the steps at the schedule itself are looked into.

`AuthSessions`. `OneToken` counts; the invariant says instead that all of a session's worth
is one and the same member (`Single`), of a token that nobody else holds (`Linked`, `Used`,
`Kept`), and `Closed` that a closed session has none. A contract says what any step does to
a request's own variables, and the invariants use only it.

`ApiKeyCache`. An entry of a key comes from a lookup that read the row while it was good.
`Gone` says that after the row is revoked only those lookups remain that `raced` records,
and `Kinded` what each call is at. `StalenessIsBounded` needs to bound the chain of
refills, which can go round between the two services: `SInv` adds, of a key that died at
`d`, when those that still carry its identity set out. Without an entry, before `d` or
before the last answered revocation, each of which adds one `Delay` (`Gap`, `Slack`); with
one, before `d`, or a `TTL` before the entry ends, and the entry itself ends within
`d + Slack + 2 * Delay + TTL` (`Filled`). A refill moves only the identity of somebody who
set out in time, so it does not move the bound. Keys that expire are apart (`Lapsing`,
`Late`).

`AuditPipeline`. `Accounted` is about rows; the invariant counts together the rows of an
event and the consumers that have fetched and not stored it, which never outnumber its
deliveries (`Attributed`), and says that without trouble there is only one (`Alone`).
`PagesComplete` needs that a page is the first `PageSize` rows of an order without ties,
so that what lies before the cursor and was there in time has been shown.

`RequestPath`. `Earned`: a bucket's tokens, with what has been refilled since, and the
meter add up to at most Burst; a bucket may be thrown away once it would be full.
`Current` and `Fresh` say that a row read by a Login, and a token, has only roles the row
had at that time, which is less than `WriteTimeout` before the token's start.

`QrisCode`. The invariants of the state are small (`Printed`, `ScreenShows`, `Settled`); the
weight is in what the operators compute, for every string of bytes. Each is a recursive
function, and what holds of it for every input is shown as above, by a smallest input for
which it fails; `LinearRecursion` gives the function its value where each step goes to
something smaller. Three results meet in `InHandReads`:
- The checksum tells (`GarblingShows`). A round is a linear map of the register
  (`RoundBits`), so two strings that differ in one byte leave the registers apart
  (`MisreadTells`), and two neighbours swapped do as well (`SwapTells`); a swap across the
  edge of the checksum shows in the low byte (`LastTells`). What is garbled within the
  checksum's own digits leaves the rest as it was printed.
- The codec reads back what it wrote (`DecodeEncoded`). What stands behind an object does
  not change how the object is read (`ParseObject`), an object that has no value is not
  there, and so a template of different tags reads back (`TemplateReads`), whatever
  characters stand in the place of the checksum.
- An amount reads back (`AmountReadsBack`), as the digits of `Decimal` have the value they
  were made of and the minor part keeps its zero.

So a string in hand either says what was printed or is refused. The theorems cover any merchants and orders whose fields are strings; a value of
over 99 bytes is refused by `Encode`.

All safety invariants and action properties of the passing runs are stated by a theorem.
Model-checked only: the three liveness properties, `EveryRequestEnds`, `Settles` and
`DueRuns`, which need ENABLED.

## 6. Plan

Next, most important first:

1. An abstract queue that `NotificationDispatch` refines, and an abstract set of events
   that `AuditPipeline` refines.
2. The rest of the flows, when the stubs of `payment_service.go` are written.
