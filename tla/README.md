# Nexus API Gateway: TLA+ verification project

The repository is a gateway that resells model APIs. Clients call an
OpenAI-compatible HTTP API; the gateway picks one of several upstream *provider
groups* ("sources"), fails over between them, streams the answer back and
charges the user's prepaid balance. Images and videos are *tasks* in a database
table that worker processes execute; a Python service with a pool of accounts
runs some of them. This directory holds TLA+ models of the
parts in which order, concurrency and failure decide whether users are charged
correctly and requests reach the right upstream, TLC configurations that check
them on small instances, and TLAPS proofs for every instance.

Paths below are relative to `src/backend/internal/` unless they start with `src/`.

## 1. Inventory

Processes: any number of `api-server`s, any number of `job-worker`s, one
`metrics-worker`, PostgreSQL, Redis, the Python `resource-pool`, and the
upstreams. The Go processes share no memory: they meet in PostgreSQL rows and
Redis keys. Inside one, every request is a goroutine, and an attempt with an
upstream is one more.

| Component | State | Operations | Interacts with |
|---|---|---|---|
| Recharge orders (`service/order_service.go`, `repository/order_repo.go`) | `recharge_orders.status` | create, cancel, pay by number, payment callback, admin status write | credits `users.balance` in the payment's transaction, then deletes the cached user |
| User row and cache (`repository/user_repo.go`, `service/user_service.go`) | `users.balance`, `password_hash`; Redis `user:<id>` for ten minutes | read-through `GetByID`, conditional `DeductBalance`, whole-row `Update` | every charge and every profile, password or admin edit |
| Generation tasks (`service/generation_service.go`) | row of `generation_tasks`; idempotency row | create (sync or queued), execute, store the result, charge | dispatch, commit guard, balance, resource pool |
| Job queue (`service/generation_job_worker.go`, `repository/generation_repo.go`) | `status` and `updated_at` of the rows; batch and semaphore of a worker | requeue stale rows, claim, process | executes generation tasks |
| Commit guard (`service/scheduler/commit_guard.go`) | Redis `commit:<task>` for 24 hours | get, ensure (GET, SETNX, GET) | ties a task to a provider and an instance |
| Stream guard, streamed failover (`service/scheduler/cascade_controller.go`, `stream_guard.go`) | Redis `stream:<id>`; timer, result channel and context of each attempt | start, lock at the first chunk, end, fail over | executors in `service/gateway_service_v2.go`, breaker, rate limit |
| Cascade dispatch without streaming (`cascade_controller.go`) | providers tried so far | rank, attempt, time out, go on | breaker, rate limit, instances |
| Circuit breaker (`circuit_breaker.go`) | Redis: state, failure and half-open counters per provider | can-execute, record success or failure | asked and told by every attempt |
| Instance scheduler and slots (`instance_scheduler.go`, `runtime_state_store.go`) | Redis: slot counters, session affinity, circuits per instance | select and acquire, release, report | attempts take a slot and give it back when their context ends |
| Synchronous gateway calls (`gateway_service_v2.go`, `gateway_traffic_optimizer.go`) | Redis: idempotency snapshots, response cache and its version; flights in the memory of a process | answer from a snapshot, the cache, another call's flight or an own execution; charge wallet and token; invalidate | cascade, wallet, token, tenant billing |
| API tokens (`token_service.go`, `repository/token_repo.go`, `middleware/auth.go`) | `tokens.remain_quota`, status; cached copies for five minutes | create up to a limit, edit, delete, deduct, authenticate | before and after every call |
| Tenant limits (`middleware/ratelimit.go`, `tenant_billing_hook.go`, `quota_service.go`) | Redis counters and alert keys of the day; alert rows | count and refuse, check cost, count cost, raise alerts | before and after every call |
| Rate limits (`middleware/ratelimit.go`, `provider_rate_limiter.go`) | Redis counters per window | count and refuse | middleware and cascade |
| Provider choice (`cascade_controller_traffic.go`, `provider_selector.go`, `model_provider_service.go`, ...) | rows of the sources; Redis: affinity of sessions; metrics | rank, reorder by tag, canary, experiment and session; count attempts; enable, disable, edit, delete | order of the cascade; administrators |
| Jimeng account pool (`src/resource-pool/app/adapters/jimeng.py`, `providers/jimeng/`) | rows of the accounts; the pool object with a lock per account | get or rebuild the pool, reserve, generate, give back; edit accounts | image and video tasks |
| Resource pool service (`src/resource-pool/`) | - | route a task to an adapter | upstream of the generation tasks |
| Metrics, audit, content administration, storage, frontends | rows and files | CRUD, aggregation | - |

What makes the system hard: (a) handlers that read, decide and write with
separate statements, next to others that do the same thing in one transaction;
(b) a Redis copy of the user row that is deleted *after* the write and by calls
whose errors are dropped; (c) `gorm.Save`, which writes every column of a row
read long before; (d) attempts that time out and are abandoned, not stopped;
(e) workers that requeue rows whose goroutine may still run; (f) errors of Redis
that read as "nothing there"; (g) a timer, a deadline, a result, a client that
leaves and a lock that all race in one `select`; (h) counters, caches and locks
in Redis that are tested with one command and changed with another, expire on
their own, and whose errors let a request through; (i) a pool whose locks belong
to an object that is replaced while its accounts are in use.

What each component must guarantee is stated by the properties of its module
(section 3); `PROJECT.json` lists the hazards line by line with the properties
that would notice each of them.

## 2. Modules

| Module | Role |
|---|---|
| `Recharge` | abstract specification: an order is open or not, a credit consumes an opening |
| `OrderWallet` | orders, balances and the cached user row; implements `Recharge` |
| `MCOrderWallet` | constants for TLC |
| `OrderWallet_proofs` | theorems about `OrderWallet` |
| `JobLife` | abstract specification: the life of a task, from the queue to its rest, with at most one run and one charge |
| `GenerationJobs` | creation under a key, queue, workers, commit point, execution, charge; implements `JobLife` |
| `MCGenerationJobs` | symmetry for TLC |
| `GenerationJobs_proofs` | theorems about `GenerationJobs` |
| `Failover` | abstract specification: providers have turns, a pin ends the search, one charge at most |
| `StreamFailover` | one streamed request over several providers, up to its charge; implements `Failover` |
| `StreamFailover_proofs` | theorems about `StreamFailover` |
| `CircuitBreaker` | the breaker of one provider, command by command, and the requests around it |
| `CircuitBreaker_proofs` | theorems about `CircuitBreaker` |
| `InstanceSlots` | the slot counters of instances: choice, acquisition, release, expiry |
| `GatewayCalls` | calls answered in one piece: snapshot, response cache, flight, execution, charges |
| `GatewayCalls_proofs` | theorems about `GatewayCalls` |
| `ApiTokens` | the API tokens of a user, their quota and their cached copies |
| `ApiTokens_proofs` | theorems about `ApiTokens` |
| `TenantQuota` | a tenant's day: request counter, cost check and count, alerts |
| `TenantQuota_proofs` | theorems about `TenantQuota` |
| `AccountPool` | the account pool of the Python service: locks, rebuilding, edits |
| `ProviderChoice` | the candidates of a request, their order, session affinity and the rows of the sources |
| `Dispatch_proofs` | theorems about `InstanceSlots`, `AccountPool` and `ProviderChoice` |
| `MCGateway` | `CircuitBreaker`, `InstanceSlots`, `GatewayCalls` and `TenantQuota` side by side, for TLC |
| `MCGeneration` | `GenerationJobs` (creation), `ApiTokens`, `AccountPool` and `ProviderChoice` side by side, for TLC |

`PROJECT.json` maps every definition that models code to the lines it stands for.

### Conventions

- A database statement, a transaction, a Redis command and an upstream call are
  one step each. A handler that needs several is several steps, and what it
  remembers between them is state (`req`, `creator`, `run`, `at`).
- A handler that only reads, or is refused, changes nothing and is no action; it
  appears where its read has consequences (`GetRow` fills the cache).
- `lost` marks a Redis command that fails. Each caller does with it what the code
  does: drops it, reads it as "nothing there", or goes on with its own value.
- *History* variables (marked in the declarations) record what happened and are
  read by properties only, apart from `openings` and `charged`, which also carry
  the bounds of `OrderWallet`.
- *Slips* are definitions with a mistake a programmer could make: a dropped guard,
  a swapped order, a missing delete. They are in no specification. Each is put in
  the place of the definition it resembles to see that a property fails then;
  `PROJECT.json` pairs them under `mutants`.

### OrderWallet

`req[r]` is a handler in a slot. `Pay` is the transaction of `PayByOrderNo` and
of `HandlePaymentCallback`: lock the order `FOR UPDATE`, test the status, add to
the balance, write the status. `PayAgain` is both on an order already paid. The
deletion of the cached user is a later step, `Evict`, which `Abandon` may
replace: `cache.Delete` fails or the process dies. `Cancel` is an unlocked read
and an unconditional write, hence `CancelRead` and `CancelWrite`. The admin
console writes any status (`AdminUpdateStatus`).

`GetByID` is `GetCached`, or `GetRow` followed by `FillCache` or `FillLost`, since
reading the row and storing it are two steps. What the handler does with the row
is its `kind`: nothing, or a whole-row `SaveRow` of a profile, a password, an
admin's balance or an admin's password. The admin console takes any number for a
balance, so debts are among `AdminBalances`; `floor` remembers the least of them,
and `NoOverdraft` says that nothing but such an edit takes a balance below zero:
`DeductBalance` tests and subtracts in one statement. `model.User` keeps `PasswordHash` out of
JSON, so a row that comes from Redis has the empty hash (`FromCache`).

### GenerationJobs

`creator[c]` is a create handler (`Lookup`, `Insert`, `Record`), `run[p][t]` the
goroutine of process `p` for task `t`. `Requeue` and `Claim` are the two
statements of a worker's `runOnce`; a worker polls again when all its goroutines
are done. A goroutine reads the commit point (`ReadCommit`), chooses an upstream
(`Pick`) or returns to the committed one (`Reuse`), makes sure of the commit
point (`Ensure`, `SetNX`, `Reload`), calls the upstream (`Call`), takes the
`Answer`, saves the whole row (`Save`) and charges (`Charge`). `AttemptFails` is
an error or a timeout; what the abandoned goroutine may still do is in `late`
and happens in `LateSetNX`. `Crash`, `ExpireCommit` and `ExpireRecord` are the
environment, and so is `Age`: `StaleAfter` passes. The ranking of
`ExecuteWithStrategy`, the breaker and the rate limit are the choice of `Pick`
and `GiveUp`: whatever order they produce is covered.

`JobLife` is what remains of a task for its owner: `Life` reads its phase off the
row's status and the question whether a goroutine, or a synchronous handler about
to start one, is there. A row that says processing is `running` with such an owner
and `orphaned` without; a completed one is `owed` until its goroutine is through
with the charge, and `settled` then. A requeue under a live owner makes the task
`overlapped`, of which nothing is promised: that is the hole in the code which
`job_charge` shows, and `Implements` says it is the only one.

### StreamFailover

The controller (`at`) is `ExecuteStreamWithFailover` with its inner
`executeStreamWithGuard`. It takes a branch of the `select` (`SeeTimer`,
`SeeResult`, `SeeDone`), reads the lock in Redis (`ReadLock`), possibly cancels,
and deletes the entry (`End`). The executor (`exec[p]`) is `executeStreamRequest`
or its WebSocket twin: `Connect`, then lines (`Receive`, `Write`), with the two
halves of `onFirstChunk` (`Lock`, `Disarm`) at the first chunk, until `Eof` or
`Break`. The HTTP executor writes a line and then locks, the WebSocket executor
locks and then writes; `WebSocket` says which provider is which. A context that
is cancelled (`alive`) stops no executor: it runs on to its next call that looks.
`Providers` is the ranking as cut to `MaxRetries`, tried in any order.

`Failover` has none of this: a provider's turn begins and is over, and in between
the request may be pinned to it. Its `turn` is the provider being asked until the
controller has deleted the entry (`Turn`, `InTurn`), it is `pinned` once a lock in
time has been written that nobody failed to read (`Pinned`), and the timer, the
context, the select and most steps of the executor are stutters. The refinement
says that a request leaves a provider only unpinned, that it fails only pinned or
with nobody left to ask, and that a pin is lost to a fault and to nothing else.

### CircuitBreaker

Four Redis keys (`circuit`, `window`, `failures`, `probes`) and the copy in the
provider's row. A caller's place `at[c]` is the next command of `CanExecute`
(`read`, `exists`, `half`, `probe`, `count`), of `RecordFailure` (`tally`,
`weigh`, `drop`) with `openCircuit` (`openState`, `openUntil`, `openRow`), or of
`RecordSuccess` (`clear`, `good`, `win`) with `closeCircuit` (`closeState` ...
`closeRow`); `ForceOpen` and `ForceClose` of an operator are the same commands
entered from outside. `gone` is a client that left: Redis commands still work
then, the reads and writes of the row fail. The environment lets the window and
the row's time pass, keys expire, commands fail and processes die.

What the separate commands amount to: `SetCircuitState` writes the state before
the window, so that a reader in between takes the window for over and turns a
circuit half-open that has just opened; `closeCircuit` publishes `closed` before
it clears the failure count; two callers between GET and SET of the half-open
counter count as one, and a success writes back an old count; a failing request
of a client that left is counted towards the threshold but opens nothing itself,
because the row is read with the dead context before the count is weighed
(`backed` remembers, of each failure, whether its client was there when it was
counted, `warranted` whether the latest opening came of one that was, or of an
operator); `ForceOpen` keeps the
half-open counter of before. The properties say which of these overlaps each
guarantee needs.

### InstanceSlots

`CallStep` is `SelectInstanceWithRetry` and what follows: choose an instance, run
the script that tests and takes a slot, check the instance's rate limit, give the
slot back (`Undo`) or work and release at the end of the context. Limits change
under way. A reply or a release can be lost, a process can die: the slot is then
counted without a holder (`stray`). The counter expires 300 seconds after the
*latest* acquisition, so a busy instance keeps its stray slots, and an idle one
with a long call loses that call's slot. An instance with `max_concurrency` 0
takes no slot and releases one (`unsound`).

### GatewayCalls

A call is a profile (user, key, payload, server, flags) and a step: look for the
snapshot, read the cache version, look into the cache, join or lead a flight,
execute, charge the wallet, deduct from the token, store the answer and the
snapshot. Flights exist within one process (`server`). `Invalidate` is `INCR` on
the version, which an edit of a source or model calls; the key can expire.
Followers of a flight get the leader's answer or its error and are not charged,
across users too. When the wallet is charged and the token's quota then refuses,
the answer is withheld. A client that leaves after the charge loses the snapshot,
and its retry is charged again.

### ApiTokens

An actor creates (count, then insert), edits (read, then `Save` of all fields),
deletes, deducts (one guarded `UPDATE`) or authenticates from the cached copy; each
writer's eviction of the copy is a step of its own. A cached copy is accepted
without a look at quota or user. `Save` of an old row brings quota back, and a
deleted token with it (`raced`). Create and edit store any number as the quota,
negative ones too: `TokenLedger` says that charges never take a quota below
nothing, and take nothing from one that was granted so (`grant`).

### TenantQuota

`GatewayRateLimitMiddleware` counts a call and refuses it past the limit;
`BeforeCharge` compares the day's cost with the limit, `AfterCharge` adds what the
call cost; midnight starts new keys while calls go on. `CheckAlerts` reads both
counters, sets a key once a day for each dimension and level and stores the alert.
The policies an administrator edits only raise alerts; the limits enforced are
those of the configuration.

### AccountPool

`get_pool` under the manager's lock compares the signature (count and newest
second of the enabled accounts) and the settings with those of the pool, and
replaces the pool if all its locks are free; `is_idle` takes and releases each
lock in turn (`TryIdle`, `LetIdle`, `FindBusy`). A generation reserves an account
(`Look`, then `AcquireAccount` without waiting, then `LetGo` or use). Because the
locks belong to the pool object, a generation that was given a pool before it was
replaced - reference images are downloaded in between - or that reserves behind
the scan, can use a session which the new pool gives to another: `slipped`. The
comment at `src/resource-pool/app/adapters/jimeng.py:150` wants that avoided; the
test of idleness does so for all others, which is what `SoleUse` says.

`create_account` and `update_account` read the clock before they wait for the
store's lock, so `Edit` stamps the row with any second that has passed: that
stands for any number of administrators who have read the clock and wait. An edit
between the read of the signature and the list goes unnoticed (`torn`), and so
does one after that whose second does not raise the signature, because it is the
same one or because the statement waited (`overlooked`). The clock of the model
does not go back; one that is set back stamps rows with seconds that have passed,
which is the same case.

### ProviderChoice

`Gather` is `buildProvidersForDispatch`: the rows that are active and whose
circuit is closed, in any order a strategy may give them (`Orders`), then the
rules `TagFilter`, `CanaryRouting` and `ExperimentSplit`, each of which puts some
candidates first (`Ahead`, which gives every candidate its `Place`). `Prefer` is the last rule, the session's source, which is a
read of Redis of its own. Then the sources are tried: `Rebuff` (breaker or rate
limit), `Miss` and `TallyMiss` (failure, counted in the row), `Answered`,
`KeepAffinity`, `CountSuccess`. (`ExecuteOnProvider`, which returns a task to its
committed source outside this chain, ends with `persistSessionAffinity` too; only
generation requests come there, and they carry no session, so nothing is
written.) Administrators read and save whole rows
(`ReadOffer`, `SaveOffer`), change the status of several (`BatchStatus`) or
delete.

`applyExperimentSplit` always runs, for requests without any hint with a seed
made of operation and model: a forced canary, a preferred tag, the cheapest
source of the ranking and the order of a route's models only decide what follows
the one that the weights pick. `gorm.Save` of an edit writes statistics, status and
circuit of the row it read, and inserts a row again that was deleted in between
(`reverted`).

### MCGateway and MCGeneration

The components of each share no state that TLC would have to interleave: what one
leaves to another is a choice in the other (a breaker's refusal, a provider's
failure, a lost command). A behaviour of `MCSpec` is therefore one of a single
component, named by `part`, while the others stay in their initial state; the
runs explore each of them completely. `Own`, the VIEW, keeps `part` and the
variables of that component: the others are constant. Which module stands in which
of the two is a matter of their size alone.

## 3. Runs

Passing runs:

| Run | Module, cfg | Question | Result |
|---|---|---|---|
| `orders` | `MCOrderWallet`, `OrderWallet.cfg` | Two handlers at once on one order and one user, with admin writes, lost cache calls and dying handlers: can money be credited twice, lost, doubled, or the cache be wrong without a reason? | An order is credited once per opening; without admin writes the status tells whether it was; no deduction overdraws a balance, and balances add up until a whole-row save changes one; a stale cache has one of three causes; every step is one of `Recharge`. |
| `jobs` | `MCGenerationJobs`, `GenerationJobs.cfg` | One task, the API and a worker, two providers with an instance, failover, abandoned attempts, polling, requeue, one crash, failed save or Redis error. | One upstream as long as the commit point can be read; one owner and one charge unless the row was requeued under a live goroutine; never more charges than stored results; every step is one of `JobLife`, in which a finished task stays finished. |
| `job_recovery` | `MCGenerationJobs`, `JobRecovery.cfg` | Two workers, one failure, fairness: is every task finished? | Every task ends. |
| `generation` | `MCGeneration`, `Generation.cfg` | Two creations under one key with a lost or expired record; two requests about tokens, about the account pool, or to be dispatched, with one lost command or overlapping save. | Two tasks under one key only when a lookup preceded the record, or found it lost or expired; the others in the table below. |
| `stream` | `StreamFailover`, `StreamFailover.cfg` | An HTTP and a WebSocket provider; timer, deadline, result, lock and departure in every order; one Redis error. | A lock in time pins the request; only the current attempt has a live context; a charge is for one complete answer of the last provider; no entry is revived; the request ends; every step is one of `Failover`. |
| `gateway` | `MCGateway`, `Gateway.cfg` | Two callers in every order of commands around each of four components (below), with one failing command or death. | What the separate commands still guarantee, and which overlap breaks it: the table below. |
| `gateway_liveness` | `MCGateway`, `GatewayLiveness.cfg` | Requests keep coming and time passes: can a provider be kept out for ever by probes that are never reported, or an instance by slots left behind? | The provider is tried again and again; an instance without holders serves again. |

What `gateway` and `generation` show of each component:

| Component | Property | Reads |
|---|---|---|
| `CircuitBreaker` | `ProbesCounted` | the half-open counter is the probes let through, at most the limit, unless two callers overlapped or a command was lost |
| | `CountIsFresh` | a closed circuit counts no failure from before it closed, outside the closing itself |
| | `WindowServed` | nobody is let through before the window has passed, except by a reader between the two commands of an opening |
| | `DisconnectsNeverOpen` | each opening is the work of an operator or of a failure that was counted while its client was there; failures of clients that left count towards the threshold and open nothing |
| `InstanceSlots` | `SlotsAccounted` | the counter is the holders plus the slots left behind, and below a limit, until it expires under a call or a call releases what it never took |
| `GatewayCalls` | `AnswersOwnRequest` | wherever an answer comes from, it was made for this payload |
| | `FreeAnswersBacked` | and somebody was charged for it, unless its upstream reported no usage |
| | `ChargedOncePerKey` | a retry after an answered call is charged only when the snapshot was lost or its own client left |
| | `InvalidationHolds` | the cache does not answer with something from before an invalidation, while the version key lives and is read |
| `ApiTokens` | `LimitKept` | more tokens than the limit only through overlapping creations or a revived token |
| | `TokenLedger` | quota is the grant less the charges, which never overdraw it, and deleted stays deleted, unless an edit saved an older row |
| | `DisabledStaysOut` | a disabled token's cached copy goes with the eviction, unless that was lost or a reader overlapped |
| `TenantQuota` | `OverspendBounded` | the day costs at most the limit, less an estimate, plus one call of each client; no call passes the request limit |
| | `AlertNotLost` | an alert whose key is set is stored exactly once, unless its storing failed |
| `AccountPool` | `SoleUse` | a session is used by one generation at a time, unless one reserved from a replaced pool or behind the scan |
| | `PoolIsCurrent` | a pool that counts as up to date has the accounts of the table, unless they were edited during the build, or later with a second that does not raise the signature |
| `ProviderChoice` | `ChainIsWhole` | no rule loses, doubles or adds a source: the failover chain is exactly what was decided to be fit |
| | `SessionSticks` | a session goes on with the source that answered it last, whatever the other rules put first |
| | `DecisionsKept` | counts, status and deletion of a source stay, unless an edit saved a row that had changed |

Runs in which TLC finds a statement of the documents or comments violated; each
is a finding in `PROJECT.json`, which quotes the line:

| Run | Property | What happens |
|---|---|---|
| `order_cancel` | `CancelsOnlyPending` | `CancelRead` sees pending, `Pay` commits, `CancelWrite` overwrites `paid` with `cancelled`: the money is in, the order says otherwise. |
| `profile_save` | `ProfileSaveKeepsWallet` | A profile read from Redis is saved with an empty password hash and the cached balance. |
| `job_charge` | `ChargedOnce` | A row goes stale while its goroutine runs or waits for the semaphore, a second run takes it, both store and both charge. |
| `job_retry` | `OneTaskPerKey` | Two overlapping creations with one key both find no record and both insert. |
| `stream_first_byte` | `NoSwitchAfterFirstByte` | The HTTP executor flushes a line before the lock is in Redis; an error then lets the loop start the next provider. |

### Bounds, and why they are enough

| Constant | Value | Reason |
|---|---|---|
| `Requests` | 2 | each hazard of the wallet is a read and a write of one handler around one transaction of another |
| `Users`, `Orders` | 1 | orders and users touch each other only through `Owner`; the proofs cover any number |
| `Amount`, `Charges` | 1, {1} | two credits against two charges tell a doubled or a lost one; the proofs cover any amounts, unequal ones too |
| `FirstBalance`, `AdminBalances` | 0, {-1} | an order must be paid before a charge passes, and an admin's save can take the balance away again and leave a debt, which one payment clears and a second one lifts above zero |
| `MaxOpenings` | 2 | one admin reset to pending, so that a second credit is legal |
| `MaxCharged` | 2 | both payments can be spent |
| `Workers`, `Creators` | 1-2 | overlap needs a stale row and a second runner: the API with a worker, or two workers |
| `Providers`, `Instances` | 1-2, 0-1 | two targets are what `UpstreamSticky` tells apart; an instance adds the attempt without one |
| `BatchSize`, `Concurrency` | 2, 1 | only the proofs cover several tasks of one batch in execution; the wait for the semaphore is the stage `queued`, where a row may already go stale |
| `MaxPolls` | 2, or 0 | in `jobs` a task is returned to the queue once and again; the other question of `job_recovery` is two workers, and of `generation` creation |
| `MaxFaults` | 1 | a crash, a failed save, a Redis error or an expiry at any point of any behaviour |
| `MaxLines` | 2 | a line before the first chunk, or a line after the lock |
| callers of each component (`Requests`, `Calls`, `GwCalls`, `Actors`, `Clients`, `Checkers`, `Threads`, `Dispatches`) | 2 | every overlap the properties name is one caller between two commands of another; breaker, slots, tokens, tenant, pool and dispatches start over and over, so that a third caller's effects arise in sequence |
| `Operators`, `Admins` | 1 | forces and edits next to two requests |
| `Threshold`, `HalfOpenMax`, `SuccessesToClose` | 2, 1, 2 (1, 1, 2 for liveness) | the failure of a client that left and one of a client that is there make up the count together; a second probe must wait, one success does not close |
| `Limits`, `Tries` | {0, 1, 2}, 2 ({0, 1} for liveness) | no limit, a full instance, a limit lowered under a holder; one further choice |
| `Profiles` | 3 | a keyed call, the same key for another payload through the cache, another user's cached call; two calls have the user or the payload in common (`MCRelated`), the others cannot meet |
| `Cost`, `Funds`, `Quota` | 1, 2, 1 | the wallet can pay when the token cannot |
| `MaxVersion` | 2 | one invalidation, and a key that starts again |
| `Tokens`, `TokenLimit`, `Grants`, `Fee` | 2, 1, {1, -1}, 1 | one token is the limit; one charge uses its quota up; a negative quota admits none |
| `RequestLimit`, `CostLimit`, `Estimate`, `MaxCost` | 2, 1, 1, 1 | both calls can pass the check that only one should |
| `WarnAt`, `ExceededAt`, `MaxRequests` | 1, 2, 3 | both levels, and a refused call that is counted |
| `Accounts`, `Sessions`, `Pools` | 2, 2, 3 | one account stored and one to be created; two pools in use and a new one |
| `MaxClock`, `MaxEdits` | 1, 2 | edits in the same second, in different ones, and one that commits with the second before |
| `Sources`, `Canaries`, `Dialogs` | 2, 1, 1 | a candidate to go on with and one the rules would prefer; more change only the length of the order |
| `MaxRetries`, `MaxDispatches`, `MaxChanges` | 2, 2, 1 | a failover; a session's request after, or next to, another; an edit, a batch or a deletion at any point of them |
| `MaxDisturbances`, `MaxSlotFaults`, `MaxGwFaults`, `MaxMishaps`, `MaxTenantFaults`, `MaxLapses` | 1 (breaker: 0 for liveness) | one lost command, death, expiry or overlapping save at any point; operators' forces count too |

In `gateway` and `generation` one model value (`c1`, `c2`, `o`) plays a caller in
every component, which is harmless, since only one of them moves. `jobs` and
`job_recovery` split what would be too large together: providers and instances in
the first, two workers and fairness in the second. Symmetry is used for safety
only, over request slots, providers and callers.
`CHECK_DEADLOCK FALSE` is set because these systems really stop: bounded
histories are used up, tasks finish, a request is answered.

### Fairness

`GenerationJobs!Fairness`: a worker's ticker calls `runOnce` for as long as the
process lives, and `runOnce` requeues before it claims (weak fairness of both); a
goroutine runs and each of its upstream calls has a timeout (weak fairness of
`Execution`, whose attempts may fail or time out at any point); time passes
(`Age`); a create handler that has inserted a row reaches its next statement
(`Record`). Nothing is assumed of crashes, expiry, late commits or new requests.
`EveryTaskEnds` also rests on a bound for "not finished yet": an upstream that
gives this answer for ever keeps its task for ever, in the code too.
`job_recovery` has `MaxPolls = 0`; its tasks return to the queue by `Requeue`.

`StreamFailover!Fairness`: the controller's goroutine runs, and each attempt's
`context.WithTimeout` expires. Nothing is assumed of the upstream, the executor,
the client or the first-chunk timer, so `RequestEnds` holds for one that hangs.

`LiveSpec` of `MCGateway`: a caller that is at a command of the breaker executes
it (`BreakerFairness`; the attempts in between have timeouts), windows and keys
expire, an attempt on an instance goes on and its context ends, slot counters
age and expire (`SlotFairness`), and a request keeps arriving at the provider.
Without that last condition nobody would ask an open circuit whether it may close.
`MaxDisturbances` is 0 there: an operator who forced the circuit open for ever
would refute nothing. `FullRecovers` needs no release and no report: it holds
because a counter that nobody adds to expires.

## 4. Proofs

All theorems are about the specification of their module, for any values of the
constants that satisfy the module's assumption: types of the constants,
distinctness of the special values, and finiteness where a property counts or
adds up (`Orders`, `Workers`, `Calls`, `Tokens`, `Clients`, `Checkers`, `Accounts`,
`Sources`): at any time there are finitely many rows and processes. The bounds are
arbitrary numbers, the number of requests, tasks, users and so on is not limited.
The type invariants are proved and not run.

| Theorem | Property | Argument |
|---|---|---|
| `OrderWallet_proofs!TypeInvariant` | `TypeOK` | the slots are typed one at a time (`SlotOK`), so that a step which changes one slot needs one lemma |
| `CreditsBounded` | `CreditOncePerOpening` | inductive with `TypeOK` |
| `StatusReliable` | `StatusTellsCredit` | `StatusInv` adds that an order not yet paid has no credit and that only an admin writes failed or refunded |
| `NeverOverdrawn` | `NoOverdraft` | `BalanceInv` extends it to the copies in Redis and in the handlers, which a whole-row save may bring back: no copy is below the floor, which an edit lowers with the balance it writes |
| `StaleCacheExplained` | `StaleCacheHasCause` | inductive with `TypeOK` |
| `LedgerAddsUp` | `LedgerExact` | the credits of a user are a sum over the set of orders, by a recursive function. That such a function exists for every finite set is shown by a least counterexample (`SumsExist`), that the order of the terms does not matter by taking one term out (`Peeling`); `SumGrows` then says what one more credit does, and the steps change one side of the equation as they change the other |
| `ImplementsRecharge` | `Implements` | step simulation: a payment is a credit, creation or an admin's reset an opening, leaving pending a closing, all else stutters |
| `GenerationJobs_proofs!TypeInvariant` | `TypeOK` | as above, by goroutine |
| `CommitSticks` | `UpstreamSticky` | `StickyInv`: what was called, and what a goroutine about to call will call, is the committed target |
| `SoleOwnership`, `SoleCharge`, `FinishedStays` | `SoleOwner`, `ChargedOnceIfSole`, `TerminalStable` | `OwnerInv`: also a synchronous handler owns its task before its goroutine exists, and a charge is the last thing a run does |
| `ChargesMatchResults` | `ChargesHaveResults` | inductive with `TypeOK`, by what a step does to the finite set of goroutines that have stored and not charged yet (`Charging`) |
| `DuplicatesHaveACause` | `DuplicateHasCause` | `FreshInv`: a row has no key before its insert, a handler that writes a record has inserted under its key, a run saves a verdict; `KeysInv`: under a key nobody looked up in a gap, one handler is at work and no task exists before its insert |
| `ImplementsJobLife` | `Implements` | step simulation on `OwnerInv` and `FreshInv`: a step that leaves a row alone can only take its owners away (`LifeKeeps`); the turns of a life are insert, claim, save, charge and requeue |
| `StreamFailover_proofs!TypeInvariant`, `OneLiveAttempt`, `EntriesOwned` | `TypeOK`, `SoleLive`, `EntryHasOwner` | inductive with `TypeOK`; `EntriesOwned` uses that the lock script changes only an entry that exists |
| `LockPins`, `ChargeComplete` | `NoSwitchOnceLocked`, `ChargedForCompleteAnswer` | `StreamInv`: a lock in time keeps the controller out of `cancel` and `drop` (`HeldInv`), the current provider was not given up (`DropInv`), a result is an executor's last word (`ResultInv`), a charge follows a result found complete (`ChargeInv`) |
| `ImplementsFailover` | `Implements` | step simulation with `StreamInv` and `TurnInv`: while the controller is still to look, a lock in its entry is in time and nobody has failed to read it, and it fails a request only when that lock holds. `EndMaps` is the deletion of the entry, where a turn ends in one of three ways |
| `CircuitBreaker_proofs!TypeInvariant` | `BreakerTypeOK` | who is about to count a probe has read a free place |
| `ProbesAreCounted` | `ProbesCounted` | who is between GET and SET of the counter, untainted, has read what is stored |
| `CountFresh` | `CountIsFresh` | while old failures are counted, somebody has yet to clear them |
| `WindowIsServed` | `WindowServed` | a caller that takes the window for over, unrushed, has seen it end, and no opening came in between |
| `DisconnectsDoNotOpen` | `DisconnectsNeverOpen` | `IWarranted`: whoever is about to open is backed, whoever is between the count and the opening is backed or has lost the client, who stops there; before the first opening nobody has found the circuit anything but closed |
| `Dispatch_proofs!TypeInvariant`, `SlotsAreAccounted` | `SlotTypeOK`, `SlotsAccounted` | holders form a finite set; every step adds to or takes from it exactly what it does to the counter; no limit is outgrown by those about to acquire |
| `PoolTypeInvariant`, `SessionsAreUsedAlone` | `PoolTypeOK`, `SoleUse` | `IHolds`: a lock has one holder; a pool is replaced only when the scan has passed every lock, so whoever holds one unslipped is in the manager's pool; within a pool sessions are unique (`IUnique`) |
| `PoolIsUpToDate` | `PoolIsCurrent` | `IKnown`: a row whose second does not exceed that of the signature is as in the pool, since an edit that is not `overlooked` has a later one |
| `DecisionsAreKept` | `DecisionsKept` | `RowsInv`: a save of the row that is there changes what it means to change, any other leaves its source in `reverted` |
| `ChoiceTypeInvariant`, `ChainsAreWhole` | `ChoiceTypeOK`, `ChainIsWhole` | `Place` is a permutation of the positions (`PlaceInjective`, and an injection of a finite set into itself leaves nothing out), so `Ahead` only reorders and so do the rules; a typed dispatch under way has a source to turn to |
| `SessionsStick` | `SessionSticks` | `StickInv`, for a session that is not adrift: who is about to write the session's key is alone and writes the source that answered last, otherwise the key says so, and who has read the key begins with it (`AheadFirst`) |
| `GatewayCalls_proofs!TypeInvariant`, `AnswersAreOwn`, `AnswersAreBacked` | `GatewayTypeOK`, `AnswersOwnRequest`, `FreeAnswersBacked` | the same of every store: snapshots, cache entries and leaders of flights answer their own payload (`IOwn`) and are backed by a charge (`IBacked`) |
| `InvalidationsHold` | `InvalidationHolds` | an entry under a version was executed after the invalidation that made the version |
| `KeysChargeOnce` | `ChargedOncePerKey` | `IKeys`: a charged call that answered has left its snapshot, or the loss of it is on record |
| `ApiTokens_proofs!TypeInvariant`, `QuotaIsAccounted` | `TokenTypeOK`, `TokenLedger` | who has read a row that is not raced has read the row that is there; a charge finds its fee covered when it is taken |
| `LimitIsKept` | `LimitKept` | one creation at a time is between count and insertion, and it has found room |
| `DisabledTokensStayOut` | `DisabledStaysOut` | `ICopies`: also what a reader is about to store admits only a usable token, or is late |
| `TenantQuota_proofs!TypeInvariant`, `OverspendIsBounded` | `TenantTypeOK`, `OverspendBounded` | each call under way was checked below the limit and adds at most `MaxCost`: a bound on what is spent plus what those under way can add |
| `AlertsAreNotLost` | `AlertNotLost` | alerts stored plus checkers about to store one are one for each key |

Only model-checked are the liveness properties `EveryTaskEnds`, `RequestEnds`,
`NeverGivenUp` and `FullRecovers`: liveness under fairness is out of the prover's
reach. Every invariant and every refinement that a passing run checks is also a
theorem. `TerminalStable` follows from what `Implements` says of a task; it is
proved by itself (`FinishedStays`) and not run. The modules under proof declare no
RECURSIVE operator; the one recursion, `SumOver`, is a function.

Why some definitions look as they do: `Ahead` reorders by `Place` and not by two
`SelectSeq`, and `LedgerExact` has a sum of its own and not a fold, because the
library's operators for these recurse and nothing can be proved of them here. The
history `held` of `StreamFailover` counts a lock as in time until the controller
has looked for the last time: the refinement needs the latest such moment, and
`NoSwitchOnceLocked` is the stronger for it.

## 5. Not modelled

The map covers about a ninth of the code of the repository, the part in which
state changes in an order that matters. Most of the rest is of these kinds:

- *Prices, texts, media, signed URLs, reports, configuration and content
  administration* (announcements, assets, settings, channels, models, routes,
  capabilities, pricing rules): data no property here looks at, and CRUD of one
  statement whose behaviour is that of the statement.
- *HTTP handlers*: parsing, one call of a service and formatting. The two that
  do more are in the models: the admin's order status and the cached token of
  `GatewayAuthMiddleware`.
- *Scores*: ranking, health, cost estimates and error classes compute numbers
  from metrics. The models let any order and any refusal come of them, so what
  is shown holds for every formula; that a formula ranks well is not shown.
  `UpdateHealthScore` is not called when attempts fail, and the background
  updater of health scores is not started by any server.
- *Windows of rate limits* over seconds and minutes: their clock decides and
  nothing else; they appear as a refusal that may come at any time. The limiter
  of a provider uses up the quota of earlier rules when a later one refuses, and
  the sliding window counts the calls it refuses.
- *Circuits of instances*: `RecordInstanceResult` is never called, so none ever
  opens.
- *Gateway service, first version* (`gateway_service.go`): no server builds it.
  *Audio calls*: they charge wallet and token like completions, without cache and
  flight; the tenant's cost check and count are not part of them.
- *Deletion of users, registration, login*: no step of theirs touches a balance
  that exists.
- *A stream that ends without `[DONE]`*: the code takes it for success; `Eof` is
  that one outcome. Telling the two ends apart would restate one branch.
- *A crash of the API process in the middle of a stream*: the request is gone with
  it; what remains is an entry in Redis that nobody reads.
- *The rest of the resource pool*: transport and parsing for one site. Cooldowns
  and cached credit of an account are left open at each test (both are lost when
  the pool is rebuilt); the endpoints that refresh credit use objects of their
  own; a change of the database path, meant for debugging, drops the pool without
  the scan. Nothing bounds how long a pool in constant use stays outdated.
- *Web frontends, object storage, metrics worker*: user interface, I/O, reports.

`gateway_traffic_optimizer.go` declares a method with type parameters, which Go
does not accept; the model takes it for what it says.

`PROJECT.json` has a row for every component, these included.

## 6. State of the plan

Done: recharge and wallet, generation jobs with the commit point, one streamed
request, breaker, slots, synchronous calls, tokens, tenant limits, account pool,
choice of a source. What could be added, in order of weight:

1. `StreamFailover` composed with `CircuitBreaker` and `InstanceSlots`: now each
   sees the other as a choice, which loses nothing for safety; progress of a
   request over several breakers would need the composition.
2. An abstract breaker with atomic steps, which `CircuitBreaker` implements as
   long as no history variable has recorded an overlap.
3. Rate-limit windows with a clock, once a property depends on them.
