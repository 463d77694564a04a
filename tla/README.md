# Verification of tenant-api-platform

TLA+ models of the parts of the service where the order of steps decides
whether the system is right, TLC runs that check them on small instances, and
TLAPS proofs of the central results for instances of every size. Source paths
are relative to the repository root.

## The system

| component | state | operations | interacts with |
|---|---|---|---|
| Webhook outbox and worker (`internal/webhook`, `cmd/worker`) | `webhook_outbox`, `webhook_endpoints`; per worker its batch and the row in hand | Enqueue, Claim, Deliver, Settle, Replay; SIGTERM | Enqueue runs in the transactions of the invoice store; several worker processes share the table |
| Idempotency keys (`internal/idempotency`, `internal/httpx/idempotency.go`) | `idempotency_keys` | Begin (insert, clear, read, take over), Complete, Sweep | wraps every write handler; the handler commits in a transaction of its own |
| Invoices (`internal/invoice`, migrations 0008 and 0009) | `invoices`, `invoice_items`, `invoice_events`, `invoice_counters` | Create, AddItem, RemoveItem, Transition | enqueues in the outbox and writes the audit log in its transactions |
| Refresh sessions (`internal/authn/refresh.go`) | `refresh_families`, `refresh_tokens` | StartSession, Rotate, RevokeFamily, RevokeByPresentedToken, RevokeAllForUser | access tokens outlive a revocation by their lifetime |
| Accounts and tenants (`httpx/handlers_auth.go`, `authn/users.go`, `authn/service.go`, `tenant`) | `users`, `tenants`, `memberships` | register, log in, found a tenant; `migrate seed` | a registration is three transactions in a row; a login opens a refresh session |
| Access (`authn/apikey.go`, `authn/token.go`, `authz`, `tenant/access.go`, `httpx/tenant_middleware.go`) | `api_keys`, `memberships`, access tokens at clients | authenticate, resolve the tenant, require a permission, add a member, create and revoke a key | every request, before its handler |
| Projects (`internal/project`) | `projects` | Create, Update (compare-and-set), Archive, List | idempotency, audit, cursors |
| Audit log (`internal/audit`) | `audit_log` | append, list | inside the transactions it describes |
| Pagination (`platform/cursor`) | none on the server; a cursor at the client | encode, decode, next page | the listings of projects and of the audit log |
| Rate limiter (`internal/ratelimit`, `httpx/ratelimit.go`, `platform/clientip`) | a sorted set per caller in Redis | Allow; fail open | several API processes; charged by address, person or tenant |
| Migrations (`platform/migrations`, `cmd/migrate`) | `schema_migrations`, an advisory lock, the schema | Up | several runners of different releases |
| Signatures, SSRF guard, configuration, logging, rendering | none | pure functions and I/O | |

What is hard in this code: statements of READ COMMITTED transactions that
interleave; leases that lapse while their holder is still at work; processes
that die, are told to stop or lose their client between an effect and its
record; answers that are lost after the receiver acted; counters that are reset
while an old value is still in somebody's hands; a role, a row or a table read
in one transaction and relied on in the next. `PROJECT.json` lists each of
these hazards at its line with the properties that would catch it.

## Modules

| module | models |
|---|---|
| `Outbox` | fan-out, claim, delivery, settle, replay, worker life cycle, time |
| `DeliveryPromise` | the abstract specification of the outbox: published deliveries stay open until the receiver acted or they are given up |
| `MCOutbox`, `Outbox*.cfg` | instances |
| `OutboxProofs` | proofs about `Outbox` |
| `Idempotency` | the middleware and the store for one (tenant, key) |
| `MCIdempotency`, `Idem*.cfg` | instances |
| `Invoice` | the invoices of one tenant, statement by statement |
| `MCInvoice`, `Invoice*.cfg` | instances |
| `InvoiceProofs` | proofs about `Invoice` |
| `Session` | refresh families: login, rotation, reuse detection, revocation |
| `MCSession`, `Session.cfg` | an instance |
| `SessionProofs` | proofs about `Session` |
| `Project` | the projects of one tenant, their audit trail, and the paginated listings of both |
| `MCProject`, `Project.cfg` | an instance |
| `ProjectProofs` | proofs about `Project` |
| `Account` | registration, login, the founding of tenants |
| `MCAccount`, `Account.cfg` | an instance |
| `AccountProofs` | proofs about `Account` |
| `Access` | authentication, the membership gate, roles, scopes and keys |
| `MCAccess`, `Access.cfg` | an instance |
| `AccessProofs` | proofs about `Access` |
| `RateLimit` | the limiter's script, whom it charges, Redis and its outages |
| `MCRateLimit`, `RateLimit.cfg` | an instance |
| `MiddlewareProofs` | proofs about `RateLimit` and `Idempotency`, the two middlewares around the handlers |
| `Migrate` | migration runners under the advisory lock |
| `MCMigrate`, `Migrate.cfg` | an instance |
| `MigrateProofs` | proofs about `Migrate` |

An operator marked *Mutant* in a comment stands beside the definition it would
replace: the same code with a plausible mistake. For every property of a
passing run `PROJECT.json` names one under which TLC finds the property
violated.

### Outbox

A row of `webhook_outbox` is an occurrence of an event and an endpoint. It holds
state, attempts, replays, `next_at` and the lease; the two instants are kept as
the number of ticks until they come, so that time is bounded without a clock
variable. A worker process is at one of `idle` (the head of `Run`), `claiming`
(inside the Claim statement, rows locked), `polling` (between two rows of its
batch), `sending` (inside `Deliver`), `settling` (the Result in hand) and
`stopped`.

- `Enqueue`, `CreateEndpoint`, `UpdateEndpoint`, `Replay` are the API's side. An
  Enqueue whose caller rolls back leaves nothing and is no step.
- `ClaimSelect` and `ClaimUpdate` are the two halves of Claim's statement: what
  it locks with FOR UPDATE SKIP LOCKED, and the update that commits.
- `Deliver(w, acted, acked)`: the receiver may act and its answer be lost; only
  an answer that arrives in a live context is a success. The guard's refusal,
  a timeout and a non-2xx are all `acked = FALSE`.
- `SettleDelivered`, `SettleRetry`, `SettleDead`, `SettleLeaseLost`, `SettleError`
  are the outcomes of `Settle`; the first three carry its WHERE clause
  (`LeaseHeld`).
- `Sigterm` cancels the process context; `Drain` is `Run` coming to its end on
  it; `Crash` and `Restart` are the process dying and its supervisor.
- A Claim that fails with a database error leaves nothing behind and is no
  step; one whose commit succeeds and whose answer is lost leaves its rows
  leased and nobody holding them, which is `Crash` and `Restart` here.

`gen` in a claim is a history value (the row's replay count when it was
claimed) that lets properties speak of older and newer claims; no guard reads
it.

### Idempotency

One record, the requests that carry its key, and the operations they ask for. A
request goes through `insert`, `clear`, `reinsert`, `read` and `takeover` as
Begin's statements do, each a transaction of its own; then `handler` (the
handler's own transaction) and `complete`. `Crash` loses the process or unwinds
a panic; `Disconnect` cancels the request's context, so the next statement
fails. `effects` counts committed effects per operation. The fingerprint of an
operation is its route pattern and body, as the middleware computes it; its
resource is not part of it. Sweep is split between its snapshot and its delete.
`left` is what is left of a request's timeout; with `Stall` a request may run on
past it, until its claim is stale and another takes it over. `seized` (claims
taken over from a request still running) and `wiped` (live records deleted by a
sweep) are history values that no guard reads.

### Invoice

Every store method is a READ COMMITTED transaction whose statements are steps:
a step reads what has committed, plus the transaction's own change. The
statement that updates the invoice row and the commit are one step, which is
sound because the row lock keeps every other writer of the row out in between
and readers see the old row until the commit; the event, the outbox row and the
reload of the lines happen in that step. Inserting a line waits for, and then
fails on, another line with its position; deleting waits for another delete of
the line; a transaction that waits and never proceeds ends in `Rollback`, as
does every error path. The counter row is locked from `AllocateNumber` to the
end of the transaction. Amounts above `MaxAmount` (`math.MaxInt64`) are refused.
A notification has room for `MaxPayload` lines; a transition or creation that
needs more is rolled back with it.

### Session

`Present` begins the transaction of a refresh, which fixes its `now()`; `Lookup`,
`ReadFamily` and `Consume` (or `LoseRace`) are the statements of `Rotate`. The
conditional UPDATE, the successor's INSERT, the link and the commit are one
step: the row lock keeps other consumers waiting and readers see the old row
until the commit. `RevokeReused` is the revocation in a transaction of its own,
`Respond` the rest of `Refresh`, and `Fail` every way a request can end early,
which at `respond` means a successor that no client knows and at `revoke` a
replay whose family stays live. `Logout` and `LogoutAll` are single statements.
A client presents a token it was sent or a string that matches no row.

Ages instead of instants again: `consumed` counts from the beginning of the
transaction that consumed the token and `age` from that of the request's, so
`now() - consumed_at` is their difference. `lag` (how long after its beginning
the rotation committed) and `tail` (rotations committed after a revocation) are
history values that no guard reads.

### Project

Rows are named by the instant of the transaction that created them, which is
also what the listings sort by. Since `now()` is the transaction's beginning, a
row may appear with an instant before rows that are already there. `Begin` fixes
the instant; the statements of Create, Update and Archive follow, with other
requests committing between them. Archive and Update first read the image for
the audit entry and then write; where the conditional write matches nothing, a
further statement classifies why. A value of a field is the instant of the
transaction that wrote it, so that two versions are told apart by content.
`page`, `owed` and `wrong` follow one client's walk over a listing with a
cursor: what it was given, what it is still owed, and what it should not have
been given. `ahead` marks requests that named a version the row had not reached
and is read by properties only.

### Account

A registration is `CreateUser`, `CreateForUser` (perhaps `RetrySuffixed`),
`Login` and `Respond`, a transaction each; `CutOff` is any way to end in between,
`LoginFails` the branch that still answers 201. `POST /v1/tenants` enters at
`CreateForUser`, for an account of any number of tenants and also beside another
request of the same account (`MaxOwned` bounds the number); `migrate seed` is the one-transaction
`CreateTenantWithOwner`. Derived slugs are all equal here, which is the case in
which they collide. A password is a value that is compared.

### Access

A request is `Arrive`, `Authenticate`, `ResolveTenant` (with the route's
`authz.Require`) and its handler, each reading the tables at its own time. The
tables of `authz/roles.go`, `authz/keys.go` and of the routes in `router.go` are
constants of the module. Handlers that change nothing this module is about are
`handleOther`. The code has no operation that removes a member or changes a
role, so none is modelled. Authentication also writes `last_used_at`
(`apikey.go:244`), which nothing reads to decide anything; it is left out. `Revoke`
keeps the instant at which it committed: `revoked_at` is the beginning of its
transaction and is only ever compared with NULL, and what others can see of a
revocation begins with its commit. `by` of a membership and `good` of a request are
history values.

### RateLimit

The Lua script is one step (Redis runs it atomically, on its own clock);
`AllowUnheard` is the script without its answer, and `RedisFails` and
`RedisReturns` the outage, with or without the loss of the data. `ClientIP` is
computed as the code does it, from both forwarding headers: the entries of
`X-Forwarded-For` and then of `Forwarded`, reversed (`xffChain`). Proxies add to one
of the two, and a client may have written anything in either. `Payer` is whom a
request ought to be charged to by the words of the documentation: its tenant,
also for an API key on a route outside the tenants, its person, or the address
the client sits at. The properties compare what Redis counts with what payers
were really granted. Where code and documentation part, the caller is
`Misplaced`, and the properties say so instead of following the code: an API key
outside the tenants, and a client whose proxies add to `X-Forwarded-For` and pass
on a `Forwarded` header that it wrote. Redis's clock is assumed not to run
backwards.

### Migrate

Each runner has the files of its release, numbered from 1 without a gap, as the
shipped 0001 to 0012 are; `Load` itself only sorts by name and refuses a
number that occurs twice, so a file added later with a smaller number would be
applied after larger ones, which no release here does. `Lock` to `Unlock` are the statements
of `Up`; a file and its row commit in one step, as in `applyOne`. `Cancel` is the
two-minute context ending between statements, which leaves the deferred unlock;
`Die` is the process or its connection ending, after which the server grants a
waiting session its lock before it notices (`LockDead`) and ends the session
some time later (`SessionEnds`).

## Runs

| run | result | what it shows |
|---|---|---|
| `outbox_fence` | holds | two workers that may stall, crash, be stopped or lose a settle, with a replay: unique claims, fencing within a generation, attempts beyond the budget are paid for, refinement of `DeliveryPromise` |
| `outbox_timely` | holds | no stalls, and a full batch that takes as long as its lease, so that its second row can lose it: the lease covers the rows whose turn comes in time, and every delivery settles |
| `idem` | holds | stalls, crash, hang-up and sweep: handlers in time exclude each other, effects are excused, only a handler that is late or swept completes another's claim, recorded successes are real, and clients that retry are answered |
| `idem_late` | violated | a handler that outlived its lease completes the claim of the request that took over |
| `invoice_lifecycle` | holds | two clients, two invoices: distinct positions, the subtotal is the sum while lines are only added, replayable event log, settled once, numbers distinct and without gap, money frozen after draft, versions name content |
| `invoice_skew` | violated | once lines are removed concurrently the subtotal need not be the sum |
| `session` | holds | two refreshes at a time over a user's two sessions: no fork, at most one rotation after a revocation, retries inside the window tolerated, replays outside it end the session |
| `project` | holds | a person and an API key create, update, archive and list: the trail replays to the row and to what clients were shown, before images are true, archiving is final, a conflict is real, walks over pages give every row once |
| `account` | holds | registrations, logins and foundings at the same time, cut off anywhere: no tenant without an owner, distinct slugs, what is answered as created is there, and an owner who keeps trying comes to own a tenant |
| `access` | holds | two requests at a time over two tenants: no role grows out of a smaller one, keys stay below their creators, trails of keys are complete, handlers run only for those the tables allow when they run, dead credentials stop |
| `ratelimit` | holds | eleven callers, from three addresses, of two tenants and as a person, directly and through proxies that use either header: the limit holds in every window and nobody pays for somebody else, but for the two misplaced callers and those who share a payer or a key with them; Retry-After is neither too short nor too long, Redis forgets in time |
| `migrate` | holds | three releases, one with an edited file: the schema is what is recorded, no run fails because of another, success means current files and a protected history, every run ends |

A property that is proved for every value of the constants and says little that
the others do not is left to the proofs: the type invariants of most
modules, `DeliveredWasReceived`, `LiveLeaseRespected`, `ReplayMatchesFingerprint`,
`FirstReasonStands`, `AccountStands` and `OnlyRevocation`.

The violated runs state what a comment of the repository says; `findings` in
`PROJECT.json` quotes it and the line of the code that differs. In `idem_late`
the comment (`idempotency/store.go:401-408`) says of a claim that was taken over
while its handler ran that Complete's update matches no row, and that only the
replay record is lost. The update (line 396) asks only for an in_progress row of
the key, and the taker's claim is one: the late handler records its response in
it, and the taker's Complete is the one that matches nothing.
`OnlyLateCompletesAnother` says what is left.

The third finding comes from a run that holds: `NumbersContiguous` contradicts two
comments (see `invoice/store.go:219-222` below).

### Other differences between code and documentation met while modelling

- `webhook/store.go:429`: Replay sets attempts to 0, and attempts is the fencing
  token, so a claim from before a replay may be taken for one from after it.
  `FencedUnlessReplayed` is the fencing that is left, and `FencingWithoutReplay`
  proves the stronger one where nothing is replayed.
- `webhook/webhook.go:94-101` says that the lease must exceed one delivery's
  timeout by a wide margin, "or a slow-but-alive worker has its row reclaimed
  underneath it". A batch is delivered serially under one lease
  (`worker.go:234`), so the margin has to cover all of it: with the shipped 60 s,
  10 s and ten rows only the first five are safe if every request takes its
  whole timeout, and the later ones may be sent by two workers at once.
  `LeaseCoversTurn` is the protection that there is, for each turn of the batch
  by itself; the run has a batch that outlives its lease, and `AttemptBudget`
  pays for the attempts lost that way.
- `httpx/idempotency.go:126`: the fingerprint holds the route's pattern and not
  its path, so one key on two resources of a route is one request.
- `httpx/idempotency.go:156`: a client that hangs up after the handler's commit
  cancels Complete; its retry after the lease runs the handler again.
- `invoice/store.go:787`: AddItem sends no notification and does not look at its
  size; a draft that grew past 64 KiB can be neither issued nor voided.
- `project/store.go:272` says that the classifying read cannot itself race. Under
  READ COMMITTED it is a later statement and can: a request that named a
  version ahead of the row's may be told "stale" about the version it named
  (`ConflictIsReal` says what is left). Likewise Archive's before image may be
  an earlier version than the one it archives (`TrueBefore`).
- `updated_at` and the audit log's `at` are instants of transactions' beginnings:
  `audit/reader.go:47` calls (at, id) monotonic, but entries do not become
  visible in that order. `WalksExact` speaks of rows that were committed when
  the walk began, and only of those.
- A registration whose tenant name or slug is invalid is answered 400 when its
  account is already committed (`httpx/handlers_auth.go`); `Recovers` is what
  its owner can rely on.
- `POST /members` has no `authz.Require` (`httpx/router.go`): a member may make
  others members. `NoEscalation` is the rule that holds, from `mayGrantRole`.
- `httpx/ratelimit.go:107-108` and ADR-005 (line 114) say that a key is charged to
  its tenant like any other caller; on the routes outside the tenants it is
  charged to the principal without a user (lines 121-124), which the keys of all
  tenants share. `LimitExact` excepts these callers.
- `platform/clientip/clientip.go:130-144` puts every entry of `Forwarded` nearer than
  any of `X-Forwarded-For`. Behind proxies that add to `X-Forwarded-For` and pass
  `Forwarded` on, the nearest hop is the one the client wrote, and its requests
  are counted for that address. Nothing in the repository asks proxies to drop
  the other header. `LimitExact` excepts these callers too.
- `schema_migrations` is revoked from `app_rw` by a run that succeeds; ADR-011 says
  after each run. `HistoryProtected` holds because the file that grants the
  tables runs only once. A first run that fails or dies between that file and
  the REVOKE leaves the application the table until a later run succeeds; the
  model reaches this, and `HistoryProtected` speaks of runs that succeeded.
- `webhook/worker.go:170` says that a delivery in flight is finished on shutdown;
  the attempt runs in the context that SIGTERM cancels, so it is aborted and
  counted. `AttemptBudget` counts a signal as a fault for this reason.
- `idempotency/store.go:475`: Sweep's DELETE names the key and does not check
  again that the row is expired, so it may delete a claim taken over since its
  snapshot, or a record completed since. `NoConcurrentHandlers` says nothing once
  that has happened, and `EffectsExcused` counts it (`wiped`).
- `invoice/store.go:219-222` and `0008_invoices.sql:51-54` say that a rolled-back
  creation consumes its number and leaves a gap, and that using the number again
  would be worse; Create's comment (`store.go:241-244`) says that a failure leaves
  nothing behind, the number included. The code does what Create says: the
  counter is rolled back with the rest, and the next creation gets the number.
  `NumbersContiguous` states what the code does and Create promises, and so
  contradicts the other two comments.
- `invoice/invoice.go:73`: `MaxItemsPerInvoice` is checked by Create and not by
  AddItem.
- `authn/refresh.go:37-40` and the comment above
  `TestRefresh_GraceWindowAbsorbsRetry` say that a replay inside the window gets
  a working session; Rotate answers it with 401 (`refresh.go:191`, and that
  test's own assertion), so a client whose answer was lost has to log in again.
- `DefaultReuseGrace` (10 s) is less than `requestTimeout` (15 s), so the bound of
  `RetriesAreTolerated`, Grace less the timeout, is negative for the shipped
  values: a rotation that takes longer than the window leaves its concurrent
  retry outside it. The run uses a window as long as the timeout, for which
  overlapping refreshes are always tolerated.

### Bounds

- Outbox: two workers (a claim is contested by two), one or two rows, a schedule
  of one step, `MaxAttempts` 2, so that a retry and
  a dead letter both happen; in `outbox_timely` two rows in a batch, a deadline of
  one tick and a lease of two, so that the second row can lose its lease as the
  sixth of ten does with the shipped values; `MaxReplays` 1 suffices for a claim from before a
  replay to meet one from after it; `AttemptBound` stops rows that stalls
  would have claimed for ever; `MaxFaults` bounds crashes, signals and errors;
  `MaxOverdue` stops ordering rows by how long they are overdue.
- Idempotency: two requests, each sent again as often as it takes, two bodies, a
  lease and a timeout of one tick (so that a request that stalls meets a taker)
  below a retention of three, one crash, one hang-up, one sweep.
- Invoice: two clients, two invoices in the lifecycle run and one elsewhere, two
  lines, amounts that pass `MaxAmount`, and versions up to four, enough for
  create, edit, issue and pay.
  `MaxNumber` exceeds the number of invoices, so that no create is blocked by
  the bound.

- Project: a person and a key as clients, four transactions, one field, two slugs
  of which one is derived, pages of one and two rows: enough for two writes of
  one project between the statements of a third, and for a walk of three pages.
- Account: two requests at a time, two addresses, one of them too long for a
  derived name, two passwords, three tenants, one fault, and `MaxOwned` 1: an
  account that has a tenant, or has asked for one, does not ask by
  `POST /v1/tenants` again, though its registration may found a second beside
  it. A suffix may be taken by a slug that a client chose. The proofs have no
  such bound.
- Access: two requests at a time, a caller who founded each tenant and a third
  user who is only granted roles, one key, two grants, tokens from two instants
  and a timeout of one tick, so that tokens and keys die under way. In the
  second tenant only one route is called: it is there for those who do not
  belong to it.
- RateLimit: limits of one and two, windows of two and three ticks, a second of
  two ticks, so that rounding happens; five instants let every window pass and fill again;
  at most two keys hold entries at a time (`MaxBusy`), any two of them.
- Migrate: three releases of two and three files, three runs in all.
- Session: two requests at a time, which is what a race on a token takes; slots
  are used again, so the number of refreshes is bounded only by the tokens.
  Three tokens give a chain with a consumed, a replaced and a live token, or two
  families; a window and a timeout of one tick, and a token life of three, so
  that tokens expire inside and outside the window. Ages stop at `MaxAge`, past
  which no comparison changes.

### Fairness

Four runs check liveness. `outbox_timely` assumes that time passes and that
each worker keeps taking its normal steps, restart after a crash included: the
worker is a loop that only waits for its ticker, a request with a deadline or
the database, and docker-compose restarts it. Crashes, signals and database
errors are not fair and are bounded, so the claim is: once faults stop, every
delivery settles. `idem` assumes that the service handles what arrives,
that clients repeat what was not answered (the protocol's premise), that a
sweep statement ends, and that time passes; `idem_late` assumes the same, but the
step that refutes its property does not depend on it. `account` assumes that a request
which is being served goes on to its end, and that the owner of an account logs
in and asks for a tenant again and again whenever it can; requests cut off are
bounded. `migrate` assumes weak fairness of a runner's own statements and of the
server noticing a dead session, and strong fairness of obtaining the lock:
Postgres serves those who wait for a lock in the order of their arrival.
Cancellation and death are not fair.

## Proofs

All theorems hold for every value of the constants that satisfies the modules'
assumptions.

`OutboxProofs`: `TypeCorrect` needs the discipline of processes (`ProcessInv`:
who is sending or settling has a row in hand, and only who is claiming holds
locks). The other results rest on

    IInv == TypeOK, ProcessInv, EmittedInv, ClaimInv, LockInv, ReceivedInv, UniqueHolder

where `ClaimInv` says that the claim a worker holds is never ahead of its row
(generation at most the row's replays, and in the same generation attempt at
most the row's attempts), `LockInv` that rows locked by open Claim statements
are due and locked once, and `ReceivedInv` that a success in hand and a
delivered row were received. Uniqueness needs `ClaimInv`: a new claim carries
an attempt number that no older claim of the generation can have reached.
From `IInv` follow `ClaimsAreUnique`, `DeliveredIsReceived`,
`FencingBetweenReplays`, `LeasesAreRespected` and `Refinement`;
`FencingWithoutReplay` adds the assumption `MaxReplays = 0`, which it needs:
Replay starts the attempts over.

`LeaseIsKept` assumes only that workers do not stall, and holds for every lease,
timeout and batch. `LeaseInv` compares the lease of a row in a worker's hands with
the time the batch has taken so far (`Spent`: a deadline for each row begun, less
what is left of the request that is out). Claim starts both at once, a tick
takes from the lease no more than it adds to the time spent, and beginning a row
adds its whole deadline at once (`WorkStep`), so the lease is held as long as the
deadlines of the rows begun fit in it. Rows that were replayed are excepted: a
worker whose later rows lost their lease may settle the claim after a replay.

`AttemptsArePaid` assumes nothing beyond the constants' assumptions; stalls and slow
batches included. `PaidInv` says that a row's attempts are at most `MaxAttempts` plus
faults, reported lost leases and workers that still hold a claim on it, and
fewer while a worker that nobody counts may claim it. A worker gives up its claims in a fault,
on a signal, or by the settle of the row in hand, which either matches, and then
compares the attempts with `MaxAttempts`, or is counted as a lost lease
(`HandStep`, `PaidStep`); a worker that claims joins the holders (`ClaimPaid`).

`MiddlewareProofs`, the keys: all but the last hold with stalls and sweeps.
`HandlersExclude` and `HoldersComplete` assume that a request's timeout is at most
the lease, as the shipped 15 s and 60 s are, and rest on `HolderInv`: until a
sweep deletes a live record, a running request that is within its timeout owns the
record, which is no older than the request has run. So a claim that is
stale belongs to a request that is late or gone (`InTimeIsFresh`), and a Complete
that meets another's claim is a late one. `EffectsAreExcused` assumes nothing of
the kind. `ExcuseInv` says that the effects so far, the handlers under way and the
losses balance: every handler began with an insert or a take-over, and the record
before it expired, was deleted live, was taken from a running request, or was
left by a request that was lost. `RecordedSuccessIsReal` needs only that a
success in hand was committed (`OkInv`). `ReplaysMatch` assumes `Timely`: no stall, a
timeout within the lease and no sweep. Otherwise the record of a late handler may be
gone, by a sweep or at the end of its retention, and a request with another body
hold the key when it completes: the record then has the fingerprint of one and
the response to the other (`FingerprintInv`).

`InvoiceProofs`: the invariant has a part for each thing that a statement relies
on and another transaction could spoil.

- `TxnInv`: what a transaction read fits the statement it has come to.
- `AbsentInv`: an invoice that does not exist has left no trace.
- `NumberInv`: the counter row is locked by the one create that took a number,
  and that number is the counter's. `NumbersRun` follows, rollbacks included.
- `ReplayInv`: the end of an invoice is announced only when its status is one
  that no transition leaves. `LogsReplay` follows: each event is appended in the
  step that moves the row, so the log always leads to where the row is.
- `PositionInv`: the unique index over committed lines and those being inserted.
- `GrowthInv`: while no line is removed, the lines of an invoice fill the
  positions from 0 without a gap and everyone who adds one does so behind a
  filled prefix. Two who add at the same time would therefore want the same
  position, which the index forbids (`OneAdder`), so nobody's sum is overtaken
  and `SubtotalOfGrowing` follows. A removal makes the gap that breaks exactly
  this, as `invoice_skew` shows. The argument compares sums of the same set and
  needs no induction over lines.

`MoneyIsFrozen` and `VersionsName` are action properties: lines become visible
only in the step that writes the totals, whose WHERE clause asks for a draft
again, and every write of the row counts its version up.

`ProjectProofs`: `RequestInv` says that requests in service began at instants of
their own, so that a new row and a new value are new. `ReadInv` says that the
image a request read before it writes is one the trail knows and no newer than
the row: together with `TrailReplays`, in which versions of a project run upwards,
equal versions mean equal images, which is why the version in Update's WHERE
clause makes its before image true (`BeforeIsTrue`), and why a write that matches
nothing either met an archived row, a row that moved on or a client ahead of it
(`ConflictsAreReal`). `WalkInv` says that a walk was given rows at or above its
cursor and is owed the committed rows below it. A page is the newest rows below
the cursor: every row between its last one and the cursor is on it
(`NewestUp`), and one that leaves rows out is full (`NewestFull`), so a walk
that ends has left nothing below. So `WalksAreExact` holds for all page sizes
and for whatever commits between two pages. `TypeCorrect`, `TrailIsStory` and
`ArchivedStays` complete it. `NoneAssumption` of `Project` says that the value for "nothing" is none of the
values it stands beside.

`SessionProofs`: `FamiliesStayLinear` needs that rows which do not exist have no
history and links lead to rows (`RowInv`), since a successor must be new to
every link. `RevocationHolds` adds `TailInv`: once a rotation has committed in a
revoked family, every request still about to consume has lost, because the
family had only one unconsumed token (`LinearFamily`) and nobody reads it as
live any more. `RetriesTolerated` and `ReplaysEndSessions` rest on `WindowInv`:
row and request age together, so what a request read of the window stays true
until it is answered. `ReasonsStand` needs types only.

`MigrateProofs`: the invariant is `TypeOK`, `SchemaIsRecorded` and `Knowledge`. The
types say who holds the lock; `Knowledge` says what a runner inside may rely on
although it looked at the table only once: the files before its position are
recorded as its release has them and everything from there on is as it read
it. Only the holder of the lock commits, so the knowledge of one runner cannot
be spoilt by another, and the schema ends just before the file that commits
(`CommitExtends`). `TypeCorrect`, `SchemaRecorded`, and `NoRaces`, `SuccessCurrent` and
`ProtectedHistory` (together `RunsAreSound`) follow, for any number of runners, releases and runs.

`AccountProofs`: the invariant adds to the properties what a request under way can
rely on (`Progress`: a registration past its first transaction has an account
that its password opens, and past its second a tenant it owns) and that the ids
of tenants are at most their number (`Numbered`), so that a new row is new. Every
step is one of five kinds or the seed, and all of them only add rows (`Grows`),
so the progress of the other requests stands (`OthersStand`). `TenantsOwned`,
`SlugsUnique` (together `TenantsAreSound`), `RegistrationsHold` and `AccountsStand`
follow, with `TypeCorrect`.

`AccessProofs`: `IInv` says what each stage of the middleware chain has established
about its request (`Awaiting`, `Admitted`, `Passed`). What makes it inductive is
`Kept`: no step takes a membership or a key back, except the revocation of a key,
and the time of a revocation is compared with the arrival of the request. So
what the gate read in its own transaction still holds at the handler, which is
`TenantsIsolated`, `RolesAreCurrent` (together `GateStillHolds`) and `CredentialsStop`. `NoRoleGrows`,
`KeysStayBounded` (`RightsDoNotGrow`) and `TrailsAreLives` are inductive beside `IInv`: the grants
and keys of today are bounded by what the granter held, and that is never less
tomorrow (`NothingElseChanges`). A change of the code that removes members or
lowers roles would break exactly these proofs.

`MiddlewareProofs`, the limiter: requests that are not misplaced use one key exactly
if they have one payer (`ClientIsOrigin`: the address that ClientIP finds behind
proxies that add to `Forwarded`, or where the client sent none, is the origin,
whatever else the client has written; `SameBucket`). Per key, the entries are at most
the limit, the key lives until the youngest entry leaves the window, and what a
client was told is the instant at which the oldest entry leaves, rounded up to
seconds (`BucketInv`). Per caller, the entries in the window are among what was
counted for its payer, unless a misplaced caller uses the key, and all that was
counted, unless the payer has a misplaced caller (`AccountInv`). From these follow
`LimitHolds` and `BudgetsAreOwn` (`LimitIsExact`), `RetriesHonoured` and `RetriesTight`
(`RetryIsExact`), and `ForgetsInTime`.

Only model-checked: the liveness properties (`EventuallySettled`,
`EventuallyAnswered`, `Recovers`, `EveryRunEnds`), since fairness and ENABLED are
outside the prover. Every invariant and every action property of a run that
holds is proved. That `Total` adds up what it is given would need induction over
data; the proofs treat it as a function of a set of lines.

## Not modelled, and the plan

A composition of invoice writes, idempotency and outbox is left: one retry of a
transition, one notification.

Out of scope: HMAC signatures, password hashing, header parsing, SSRF address
classes, configuration, logging, metrics, rendering and the load scripts, which
are pure functions or input and output; row-level security policies, which are
conditions on every row and no protocol.
