# TLA+ models of the multi-tenant LLM gateway

The gateway is a TypeScript monorepo (`src/packages/*`): API processes take chat
and batch requests, worker processes run a job table, and all of them share one
Postgres database and one Redis. Nothing is coordinated by a leader. What keeps
the system right is a handful of protocols over shared rows and keys: leases and
lock tokens in Postgres, `WATCH`/`MULTI`/`EXEC` transactions and `SET NX` in
Redis, statuses used as idempotency guards, jobs that repair what went wrong
earlier, and, inside one request, an order of calls and records that must come out
right whatever a provider answers and whenever a client leaves. Those protocols are
what this directory models, checks and proves.

* [Inventory](#inventory) - the parts of the system, their state and hazards
* [Modules](#modules) - what is modelled, and how it corresponds to the code
* [Runs](#runs) - what each TLC run checks, its bounds and fairness
* [Findings](#findings) - where the code and its documents disagree
* [Proofs](#proofs) - what holds for every value of the constants
* [Not modelled](#not-modelled) and [Plan](#plan)

`PROJECT.json` lists the same things for tools: the components and their sources,
the runs and their properties, one mutant of the code for every property, the
source lines each definition stands for, the hazards, and the theorems.

To check a run: `tlc -workers 2 -config JobScheduler.cfg MCJobScheduler`; the
[table of runs](#runs) names the module and the configuration of each. To check the
proofs: `tlapm M.tla` for every module `M` that is listed under [Proofs](#proofs).

## Inventory

Paths below are relative to `src/packages`.

| Component | State it keeps | Operations | Talks to |
|---|---|---|---|
| Job scheduler (`adapters-postgres/src/job-scheduler`) | `jobs` rows: status, attempts, runAt, lockedUntil, lockToken | `enqueue`, poll loop (sweep exhausted, claim a batch, run each, write outcome), `start`, `stop` | every job handler of the worker |
| Batch pipeline (`api/.../batches.routes.ts`, `adapters-redis/src/scheduling`, `worker/src/scheduling`, `worker/src/jobs/process-scheduled-request.handler.ts`) | two Redis sorted sets of tickets; `batch_requests` rows | submit, drain tick, hand-off, requeue, execute, record, enqueue webhook | job scheduler, routing engine |
| Circuit breaker (`adapters-redis/src/circuit-breaker`) | four Redis keys per (provider, model): state, failures, opened_at, trial_lock | `checkAndReserve`, `recordSuccess`, `recordFailure`, `getState` | routing engine |
| Budget enforcement (`application/src/budget`, `adapters-redis/src/budget`) | counter, warn and recon-armed keys per scope and period | `checkAndReserve`, `debit`, `reconcile` | configuration, ledger, job scheduler, alerts |
| Cost engine and ledger (`application/src/cost`) | pricing table in memory; append-only `cost_ledger` | `recordUsage`, `sumByScope` | configuration, budget |
| Configuration service (`application/src/configuration`, `adapters-redis/src/cache`, `.../pubsub`) | config rows, cached values with a TTL, invalidation messages, subscribers | `get`, `getWithFallback`, `subscribe`, `set` and its invalidation | nearly everything |
| Provider registry (`application/src/providers`) | catalog with an enabled flag per provider, in memory | `start` (load, then subscribe), flag notifications | configuration, routing |
| Routing engine (`application/src/routing`) | none of its own | `route`, `routeStream`: candidates, retry, failover, outcome records | registry, breaker, health, adapters |
| Sticky and round-robin routing (`adapters-redis/src/routing`) | a pin per session, a cursor | order the candidates | routing engine |
| Provider adapters (`adapters-provider-groq`, `adapters-provider-gemini`) | none | `complete`, `stream`, `translateError` | the upstream |
| Streaming chat route (`api/src/routes/chat-completions.routes.ts`) | one response: committed or not, aborted or not | validate, enrich, answer JSON or an event stream, record usage, notice a disconnect | routing engine, cost engine, budget |
| Client SDKs (`sdk-node`, `sdk-browser`) | attempts of one call | send, time out, retry, decode a stream | the gateway |
| Health tracker (`adapters-redis/src/health`) | outcome window and alert claim per provider | `record`, `getScore`, publish a transition | routing engine, alerts |
| Alerting, webhook delivery (`application/src/alerting`, `worker/src/jobs/deliver-webhook.handler.ts`) | alert channel rows | publish, one `deliver_webhook` job per enabled row, deliver | job scheduler |
| Admin API (`api/src/routes/admin`) | the rows it edits, audit entries | create, update, delete | configuration, alert channels |
| Rate limiter (`application/src/rate-limiting`, `adapters-redis/src/rate-limiting`) | token bucket hash per scope | `tryConsume` | configuration |
| Enrichment (`application/src/enrichment`) | none | a configured list of stages over one request | configuration |
| API process (`api/src/index.ts`, `composition-root.ts`, `http/`) | which parts are started, open connections | start in order, tear down a failed start, drain, time out, close in order; the middleware chain | everything above |
| Request admission (`adapters-redis/src/scheduling`) | in-flight counter per class | `admit`, `release` | (no caller for chat traffic yet) |
| Authentication and RBAC, request signing, repositories, observability, CLI, admin web, domain types | none shared, or one statement per call | | |

What is hard, and what makes each part correct:

* **Job scheduler.** A poll claims several rows with one statement but runs them
  one after the other, and leases are never renewed, so a worker may hold claims
  that others have taken over, may start them, and may report on them. Correct
  means: at most one claim of a row counts, attempts bound executions, the outcome
  is the latest claim's, a settled row is never touched again, and every job
  settles although workers die at any point, also during the last attempt.
* **Batch pipeline.** Two stores written in an order (ticket, then row), a
  destructive pop, an at-least-once job, and a status that serves as idempotency
  guard but fails open. Correct means: executed once, one outcome, told once, never
  lost.
* **Circuit breaker.** Four keys changed by callers that read, decide and commit
  at different times; trial holders die; keys expire. Correct means: the
  transitions happen for the causes the design names, a single trial is in force,
  and an open breaker is probed again.
* **Budget enforcement.** A reservation at admission and a true-up after the
  call, across a period boundary, on a counter that a job overwrites and a TTL
  removes; the ledger is written by a different fire-and-forget call. Correct
  means: no update is lost or applied twice, the limit bounds admissions, one
  alert while a period lasts, and drift is corrected. One reservation is given back at
  every `done` event of a stream, so a stream with several makes the counter too high by a
  known amount; the properties name it.
* **Configuration and what follows it.** Cache-aside reads race writes and their
  invalidations; components read once and then subscribe. Correct means: a stale
  value does not outlive its TTL, a handled invalidation leaves nothing older behind,
  a notification never takes a consumer back, and a change arrives without a restart.
* **Routing and the chat route.** Retries inside a candidate, failover between
  candidates, a half-open trial that may not retry, a stream that may fail over only
  before its first event, a client that may leave at any time, and usage that is
  recorded beside the answer. Correct means: one outcome per candidate that was
  tried and it is the outcome of the calls made, what was billed is what was answered,
  and a session stays with one provider.
* **SDKs.** A client that hears nothing asks again. Correct means: it does so only
  then, since the gateway may have executed and billed the first attempt.
* **Health alerts.** The score is read after an append that others interleave with;
  the alert is claimed in a transaction; rows are edited while an alert is on its way.
  Correct means: one alert per crossing, the last alert agrees with the window, and
  a removed channel hears of nothing new.
* **Rate limiter.** Read-modify-write under optimistic transactions, clocks of
  several processes, and a key that expires. Correct means: no token from nowhere.
* **Process life.** Start-up in five steps of which any may fail, requests in flight
  when the process is asked to stop, a timer that closes under them. Correct means:
  requests are served only by what is open, nothing reaches the engine past a failed
  check or stage, and a shutdown ends whatever its requests do.

`PROJECT.json` lists the hazards one by one with their lines, and for each one the
properties that cover it or the reason why none does.

## Modules

| Module | Models |
|---|---|
| `JobLifecycle` | The abstract job table: taken at most MaxAttempts times, settled for a reason, final. |
| `JobScheduler` | `PostgresJobScheduler` with several workers. Refines `JobLifecycle`. |
| `BatchPipeline` | A batch request from POST to webhook, over an `INSTANCE` of `JobLifecycle`. |
| `Breaker` | The abstract circuit breaker: every operation one atomic step. |
| `CircuitBreaker` | `RedisCircuitBreaker` transaction by transaction. Refines `Breaker`. |
| `Budget` | `DefaultBudgetEnforcer` and `RedisBudgetCounterStore`, the ledger sum and the `budget_reconcile` job. |
| `Configuration` | `PostgresConfigurationService`, its writer, cache and pub/sub, and a consumer (provider registry, cost engine). |
| `ProviderAdapters` | `complete`, `stream` and `translateError` of both adapters, as operators on kinds of upstream answers. |
| `RoutingEngine` | `DefaultRoutingEngine` with its strategies, retry policy and shadow call. Extends `ProviderAdapters`. |
| `ChatCompletions` | The chat route and the SDK client that calls it. Extends `RoutingEngine`. |
| `HealthTracker` | `RedisHealthTracker.record` step by step. |
| `AlertChannels` | The alert on its way out: channel rows, Admin API, fan-out, delivery. Extends `HealthTracker`. |
| `TokenBucket` | `DefaultRateLimiter` on `RedisTokenBucketAlgorithm`. |
| `Enrichment` | The pipeline and its three stages, as operators. |
| `GatewayProcess` | The life of an API process and the requests in its middleware. Extends `TokenBucket` and `Enrichment`. |
| `*_proofs` | Theorems about the module they are named after. |
| `MC*` | Constants for TLC. |

`BatchPipeline` composes with the scheduler through `JobLifecycle`: the detailed
scheduler implements that module (checked and proved), so the pipeline needs no
workers, leases or tokens, only that a job may be taken again while an earlier
run of its handler is still going on. `Budget` uses of the scheduler only that
enqueued jobs are run in the end, which is `JobScheduler!EveryJobSettles`; the
deliveries in `AlertChannels` use that a job is run again after a failure. In
`RoutingEngine` the breaker and the health tracker answer anything, so what holds
there holds with the detailed ones, and `RoutingEngine` in turn is one step
(`EngineAnswers`) of `GatewayProcess`.

### JobScheduler

`jobs` is the table; `due` and `lease` are what `now()` makes of `runAt` and
`lockedUntil`, so time is a step that may happen at any moment (`BecomesDue`,
`LeaseExpires`). `phase`, `stopping` and `held` are one worker's `pollOnce`:
`SweepExhausted` or `SweepFails`, then `ClaimBatch` or `ClaimNothing`, then for one
claim after the other `Begin`/`NoHandler`, `HandlerReturns`/`HandlerThrows`, and
`MarkSucceeded`/`MarkFailed`/`MarkErrors`. The `WHERE id AND lockToken` of the
outcome writes is `InForce`. `Crash` loses the claims, not the rows. `issued`,
`started` and `finished` are history: which token was handed out, and under which
tokens the handler was invoked and returned. Tokens are numbers per row where the
code draws `gen_random_uuid()`; only their being fresh matters. `ORDER BY runAt` and
`SKIP LOCKED` are abstracted to "any set of claimable rows", which covers them.

### BatchPipeline

`queue` holds both sorted sets (a ticket's class is fixed by `Background`); `inHand`
is what a drain tick has popped and not handed off; `row` is the tracking row's
status; `runs` are handler executions, several of which may exist for one job.
`Fault(kind)` lets an operation fail where the code has a catch for it, with both
outcomes (took effect, did not) where the caller cannot tell. `harmed` records the
batches that met a fault for which the code's only answer is a log line.
A webhook enqueue is what `Notify` records; its delivery is another job.

### CircuitBreaker

`state`, `failures`/`windowed`, `openedAt` and `trialLock` are the four keys.
A caller goes through `checkAndReserve` (two plain reads, then the claim
transaction) and `recordSuccess`/`recordFailure`. All five transactions have the
same shape - WATCH and reads, EXEC, up to `MaxRetries` attempts - so they share
`Watch`, `Proceeds` and `ExecAborts`, and differ in what they read and write.
`dirty` is Redis's own bookkeeping: who must abort because a watched key was written,
by a transaction, by a plain `INCR` or `PEXPIRE`, or by an expiry. WATCH and the reads
are one step: a write in between makes the transaction abort, exactly as a write just
after the reads does. `GiveUp` is a thrown Redis error or a dead process.

### Budget

`call` has a record for every call a request makes: `<<r, 0>>` is `checkAndReserve`
(`Resolve`, `ReserveRead`, `ReserveExec`, ...), and `<<r, k>>` the `debit` of its k-th `done`
event (`Debit`, `AdjustRead`, `AdjustExec`, `Warn`). `Complete` is such an event: usage is
recorded and debited, both fire-and-forget, so the debits of one request overlap. A JSON
request has one; a request in `streams` may have up to `MaxBills`, as a Gemini stream does.
`Append` adds the cost of an event to the ledger whenever it likes, into the period in
which it happens. `job` is the recurring reconciliation of a period: `Sum` reads the policy
and the ledger, `Write` overwrites the counter, and `Ends` enqueues the next run, fails to,
or finds the period over. `Unmarked` is `tryArmOnce` (`SET PX NX`): a mark lasts while its
period does, and may be gone at any moment after that, because the lifetime is then the
one second of `ttlFor`. `Abandon` is everything that ends a call without a true-up:
rejected by a later stage, provider failure, disconnect, crash. `held`, `settled`, `repeated`
and `disturbed` are history, read by properties only: whose reservation and which true-ups
were committed, which of these came after an earlier one of the same request, and
the periods whose counter was changed by anything but its requests. A policy
is changed at most `MaxChanges` times; the services only ever write policies, its
removal stands for the row being deleted, which the code provides for. Policies
differ in their limits and in the amount they reserve, so a request can be trued up
under another policy than it was admitted by.

### Configuration

One configuration key. `row` and `cache` hold the number of the write they come from,
per scope of one tenant, `GLOBAL` last. An `actor` goes through `tryResolve`
(`CacheHit`, or `CacheMiss`, `Find`, `Fill`/`NotFound`): a request, which walks the
scopes as `getWithFallback` does; a consumer's load, which then subscribes; or the
handler of one invalidation, which evicts first, looks only if somebody subscribed, and
always resolves the GLOBAL value. `Deliver` starts a handler without waiting for
earlier ones (`void this.handleInvalidation(raw)`), so handlers of a process
overlap. `Got` is the end of a resolution, with `startWatching` for a load and the
consumer's validation (`Adopt`) for a handler. A message reaches the processes that are
subscribed when it is published (`Publish`) or fewer (`PublishMissed`: the
writer died, a subscriber is reconnecting). The commands of a process go over one
Redis connection and are answered in order, so a command and what is done on its reply
are one step; Postgres replies are not ordered, hence the stage `found`. `informed` and
`overlapped` are history, read by properties only: who has handled the latest GLOBAL
write, and which GLOBAL writes happened while some resolution had found the row and not
filled the cache. The latter is the classical gap of cache-aside reads; the
properties say what holds outside it, and `StaleCopiesGo` what holds nevertheless.

### ProviderAdapters, RoutingEngine, ChatCompletions

An upstream answer is what the adapters branch on: unreachable, garbled, answered, or an
HTTP failure with a status, a retry hint and a kind of error body; a stream frame is
whether it parses, finishes, and carries usage. `Completion` and `FrameEvents` say what
each adapter makes of it.

A `call` is one `route` or `routeStream`: `select` (the strategy), `pinning` (the sticky
strategy between its WATCH and EXEC), `next` (the loop over ranked candidates), `calling`
(`ProviderAnswers` is one answer, taken again under `MayRetry`), `succeeded`/`failed` (the
outcome still to be told to breaker and health tracker), and its end: a response, an
open stream, no provider available, or a thrown error. `log` keeps, per candidate tried,
what its last call gave and what was told. `Rankings` takes any scores, `BreakerOpen`,
`BreakerThrows` and `Reserve` any answer of the breaker, with or without a trial. Nothing
in the code keeps a policy from naming a candidate twice, so candidates go by their place in
the list: `find` takes the first match (`FirstAt`), `rotateToFront` drops one object and not
its equals (`RotateToFront`), and `sort` keeps the order of equals (`SortedDown`).
`Disable` is the registry losing a provider between selection and use.

`chat` is the handler: `Refuse` stands for everything that ends a request before the
engine, then the JSON path (`AnswerJson`, `FailJson`) or the event stream, whose headers
open with the first event (`OpenStream`) and which is billed at every `done` event
(`Frame`, `EndStream`). The client's leaving (`left`) and the handler's learning of it
(`told`) are separate, because the request's "close" event may come late or have been
emitted before the handler listens: `Leave` chooses. `sdk` is the retry loop both SDKs
share: it sends, hears nothing (a timeout or a broken connection) or an answer, and sends
again or stops. With `caller` = "port" the engine's other callers (a batch job) take the
place of the chat route, with any policy; `OneTries` then lets one call at a time be past
its selection, since from there on calls share nothing.

### HealthTracker, AlertChannels

A `recorder` is one `record()`: `Push`, `Trim`, `Score`, `Count` (the minimum of samples),
`WatchState`, and `Claim` or `Aborted`. `outcomes` and `alertState` are the two keys;
either may expire, and any command may fail (`RecordFails`). `alerts` is what was claimed,
in order. `gap` and `lapsed` are history: whether something happened for which the code
does not promise an alert (an overlap with another `record()`, a fault, an expiry), and
whether the alert key went since the last claim.

An `admin` request is a create, an update or a delete of a channel: found, then written,
then audited. `Raise` hands a claimed alert to the dispatcher, `FanOut` reads the enabled
rows and enqueues a job for each, `Deliver` is one run of such a job, whose replies are the
ways an HTTP delivery can go. `gone` is history: which alerts were all claimed before
a channel was deleted with no update under way.

### TokenBucket, Enrichment, GatewayProcess

`ReadBucket` is WATCH and HMGET with the refill in whole intervals, `Aborts` a failed EXEC,
`Commits` the HSET with its expiry, `BucketFails` a Redis error (the limiter then refuses).
`clock` is real time, and a request reads it off by up to `MaxSkew`. A stored bucket whose
expiry is over reads as full; a bucket with `refillTokens` 0 refills in no other way.
`granted` is history.

`Enrichment` reduces a request to which checks it passed; a setting is absent, malformed or a
value, and reading it may fail.

`proc` is the process: five stages of start-up that each open something, `Teardown` of a
failed one, `Signal`, the drain with its timer, then `CloseNext` in `CloseOrder`, and exit.
`server.close()` waits for connections, not for handlers: `left` are the requests whose client
closed its connection (`ClientLeaves`), and `Drained` waits for the others only. While it
waits, and after the timer, connections that are kept alive may still bring requests
(`Arrive`). `metricsServer.close()` waits for its connections, too: `scraped` says whether
there is one, `ScrapeEnds` is its end, which nothing makes happen, and `MetricsClosed` what
comes after. `request` follows a request through the middleware in the order `app.ts` mounts
it; every step needs the connections the code uses at that point. `Kill` may happen at any
time.

## Runs

| Run | Module, configuration | Question | Instance |
|---|---|---|---|
| `job_scheduler` | `MCJobScheduler`, `JobScheduler.cfg` | Do ownership, attempts, outcomes and settlement survive crashes, failed sweeps, lost outcome writes and stale claims? Does the scheduler implement `JobLifecycle`? | 2 workers, 2 jobs, batches of up to 2, one job with 1 attempt and no handler, one with 3 attempts |
| `stale_run` | `MCJobScheduler`, `JobSchedulerStaleRun.cfg` | Is an exhausted job ever executed again? (It is.) | the same, both jobs with handlers |
| `batch_pipeline` | `MCBatchPipeline`, `BatchPipeline.cfg` | Executed once, one outcome, one story to the webhook, lost only to logged gaps? | 1 batch with a webhook, 1 drain loop popping 2, up to 3 jobs of 2 attempts, all ten kinds of fault, 2 of them |
| `batch_early_drain` | `MCBatchPipeline`, `BatchEarlyDrain.cfg` | Is an accepted batch executed when nothing fails? (Not always.) | 1 batch, 1 drain loop, 1 job of 2 attempts, no fault |
| `circuit_breaker` | `MCCircuitBreaker`, `CircuitBreaker.cfg` | Transitions for cause, atomicity against `Breaker`, a trial in the end? | 2 callers, 2 tokens, threshold 2, 2 attempts per transaction, failures up to 3 |
| `budget` | `MCBudget`, `Budget.cfg` | Is the counter exact, does the limit bound admissions, is there one alert while a period lasts, is drift corrected? | 2 requests, costs 0 and 2, up to 2 `done` events between them; two periods under one policy, or one period with a change or removal of the policy, or one period in which one of the requests is a stream that may be debited twice; a small policy (hard 2, soft 1, reserving 1) and a large one (4, 3, 2) |
| `configuration` | `MCConfiguration`, `Configuration.cfg` | Does a handled invalidation leave nothing older behind, does a consumer never go back, and does a stale copy go in the end? | 1 process, 1 request, 2 scopes, 2 writes, 1 lost message or crash |
| `config_stuck` | `MCConfiguration`, `ConfigurationStuck.cfg` | Does a change arrive without a restart? (Not always.) | 1 process, 1 write, no fault |
| `routing` | `MCRouting`, `Routing.cfg` | Do the outcomes told match the calls made, and the answer the bill? Does a duplicate follow only silence? Do the requests of a session agree on a pin? | 2 calls: the two attempts of one SDK call, or two callers of the engine with any of 8 policies, one of which names a provider twice; both providers, 2 attempts per candidate, 2 attempts to pin, 2 frames per stream |
| `gemini_double_billing` | `MCRouting`, `RoutingBilledOnce.cfg` | Is the usage of a stream recorded once? (Not always.) | the same |
| `gateway` | `MCGatewayProcess`, `GatewayProcess.cfg` | No tokens from nowhere, no request without connections, nothing forwarded past a failed stage, and does a shutdown end whatever its requests do? | 2 requests of a tenant, either with a bucket (capacity 1, one token per 2 ticks, 2 attempts, clocks off by 1, 4 ticks) or with any enrichment settings; one of the two clients may leave |
| `alerts` | `MCAlerts`, `Alerts.cfg` | One alert per crossing, in order; does the last one agree with the window; does a removed channel hear of nothing new? | 2 overlapping `record()` calls, or 1 with 2 admin requests; a window of 3, 2 samples before it counts, 2 attempts to claim, 2 alerts, 1 channel, 2 deliveries, 1 fault |

Why these bounds are enough for the cases in question: two workers are an owner
and a usurper, and two rows are needed for a claim to wait behind another; a job of
one attempt is exhausted by its first claim, and three attempts allow a stale claim
that is neither the first nor the last. One batch suffices for the pipeline because
batches share nothing but the pop, whose interplay shows with a drain size above the
queue's length; three hand-offs leave room for a requeue after a committed insert;
two faults are the shortest way to every pair of gaps. Two callers on a breaker give
every race of two transactions, a threshold of two needs a count that is reset
in between, and one failure beyond it exercises `INCR` on an open breaker. Two
requests and two periods give the straddling request and the two-way counter race;
costs lie on both sides of the reservation; two `done` events are two of one request, the
second of which gives the reservation back again, or one of each request. Two writes
of a configuration value in two scopes let an older one race the latest, and a reader race both, while
handlers of one process overlap.
Two calls of the engine give the race for a pin and for the cursor, and are what an
SDK that hears nothing once produces; two attempts are one retry, and two
candidates one failover. Two frames are what a stream needs to be billed twice. Two
requests race for one token, and the clock runs long enough for the bucket to be
refilled and for its key to expire and be read as full again. One client that leaves and
one that waits tell the two kinds of handler apart. Two `record()` calls
are what a missed or repeated claim takes, and two admin requests an update that has
found the row another deletes. What the instances leave out of the numbers is covered
by the theorems about any number, among them a bucket that refills nothing.

`MaxFailures`, `HandOffs`, `MaxFaults`, `MaxWrites`, `MaxChanges`, `MaxBills`, `MaxDones`, `Starts`,
`MaxFrames`, `MaxClock`, `Leavers`, `MaxAlerts` and `MaxDeliveries` are bounds of the models,
not of the code; the rest are parameters of the code with small values. `SYMMETRY` is used over the requests of `budget`,
which neither the fairness nor a property names, so it is sound for the liveness property too,
and over the admins of `alerts`, which checks safety only.

`CHECK_DEADLOCK FALSE` stands in the runs of the pipeline, the budget, the
configuration service, routing, the gateway and the alerts: a finite set of batches,
requests, writes, calls or ticks is done at some point. The scheduler and the breaker
never stop, and deadlock is checked there.

### Fairness

* Scheduler: time passes (weak fairness of `BecomesDue`, `LeaseExpires`), a stopped
  worker process is replaced by its supervisor, handlers end, and the poll loop goes
  from one step to the next (`setTimeout` re-arms in `finally`). The two statements of
  a poll get strong fairness, since crashes and failures may disable or pre-empt them
  again and again but not every time. Crashes, failed sweeps and failed outcome
  writes have none.
* Pipeline: the API finishes or fails, drain loops tick (`setInterval`), jobs are
  taken, handlers go on. Faults have none; a client need never submit.
* Breaker: calls keep arriving and finish, the cooldown and the trial lock run out;
  strong fairness for the steps from check to EXEC, which other callers' writes and
  failing commands interrupt. Nothing is assumed of the failure window or `stateTtlMs`.
* Configuration: resolutions and handlers go on, messages are published and delivered
  or lost, processes are restarted, and a cached copy expires (`CACHE_TTL_SECONDS`).
  Nobody need write or send a request, and nothing fair makes a crash happen.
* Budget: jobs run (`JobScheduler!EveryJobSettles`: weak fairness of `Sum`) and not every
  run fails at the counter it writes (strong fairness of `Write`). Nothing is assumed of
  requests.
* Gateway: the drain timer fires, and the steps of closing and of a teardown follow each
  other: each `stop()`, `disconnect()` and the flush of the spans is taken to end, and the
  callback of `metricsServer.close()` to come once no connection is left. No request need
  end: that is what the timer is for. No connection to the metrics server need end
  either, and there is no timer for it, so `ShutdownEnds` says that such a connection is the
  only thing that can keep the process, and then everything else is closed.

## Findings

Each of these is a run whose property restates a sentence of the repository and
which TLC violates; `PROJECT.json` quotes the sentence.

1. `stale_run`: a poll starts the later entries of its batch without looking at the
   row. A job that other workers have meanwhile failed for good is executed again.
   (Its outcome is then ignored: `SettledIsFinal` is proved.)
2. `batch_early_drain`: without any fault, the drain loop and a worker may be
   faster than the insert of the row; the batch is skipped and stays `pending`.
   (For the same reason a ticket whose row could not be inserted is skipped too, where
   `batches.routes.ts:112` says that it "will execute".)
3. `config_stuck`: a change that is handled between a consumer's read and its
   subscription reaches nobody; the process keeps the old value until the next write.
4. `gemini_double_billing`: a Gemini stream yields a `done` event for every frame with
   a finish reason or usage figures, and the chat route records usage at each. Each of them
  is debited, too (`chat-completions.routes.ts:320`), and every debit subtracts the
  reservation from what it charges, so from the second on the counter gains one. `CounterIsExact`
  and `AdmittedWithinLimit` in `budget` say by how much the counter and the admissions are
  off (`Excess`), and that nothing else is.

Met while modelling, and part of the models, without a run of their own:

* A worker that dies between `markProcessing` and the outcome leaves the batch
  `processing` for ever; `LostOnlyToKnownGaps` counts it as a known gap.
* Reconciliation overwrites the counter with what the ledger leaves, which gives the
  reservations of requests in flight back; together they can then hold more than
  the limit. `AdmittedWithinLimit` speaks of periods that nothing disturbed.
* Both adapters' `translateError` turn every upstream status below 500 into 400 and
  those above into 502, so a caller never sees a provider's 429, which
  `chat-completions.routes.ts:193` describes as passed on.
* The engine sorts by health score after the strategy has ordered the candidates, so a
  weight, a turn or a pin decides only among equally healthy providers.
* The engine's shape check of a weighted policy lets weights pass which the strategy
  then rejects by throwing (`ValidShape`, `StrategyRefuses`).
* A bucket with `refillTokens` 0 is full again when its key has expired, although the
  comment at `redis-token-bucket-algorithm.ts:69` says that it never refills.
  `GrantsCovered` bounds what it gives out by one capacity per lifetime of the key.
* `index.ts:37-38` says that "an active request never loses its DB/cache connection
  mid-flight". `server.close()` calls back when the connections have ended, and a JSON
  request whose client has left has none but goes on (`chat-completions.routes.ts:180` passes
  no abort signal), as do the usage records and debits that are still under way when an answer
  is out; shutdown closes their connections without the timer. `ServedByWholeProcess`
  speaks of clients that wait.
* `metricsServer.close()` (`index.ts:62`) waits for open connections and has no timer, unlike
  the drain: a scraper that keeps one open keeps the process, with all else closed.
* `default-budget-enforcer.ts:172-173` says that only the first debit to observe the crossing
  "within a tenant+period publishes an alert". The mark it sets lives one second once the
  period is over (`ttlFor`), while every late debit finds the counter or renews it, so
  stragglers more than a second apart alert again. `SoftLimitAlertedOnce` speaks of
  periods that last.
* A provider that fails within its first `minSamples` outcomes is not alerted until it
  has recovered and falls again, and overlapping `record()` calls can see a crossing
  late or not at all; `LastAlertIsRight` says when the last alert is right.
* An update of an alert channel finds the row and then upserts it: a delete in between
  is undone. `RemovedHearsNothing` speaks of deletes without an update under way.
* `assertHttpUrlFormat` accepts `http://` addresses, to which every delivery fails.
* In recent versions of Node the request's "close" event may have been emitted before the
  route listens for it, so a handler may never learn that its client left; `Leave`
  leaves both open.

## Proofs

`JobScheduler_proofs` proves for any sets of jobs and workers, any batch size, any
handled types and any positive attempts (`JobSchedulerAssumption`):

* `Invariance`: `Spec => []IInv`, and from it `TypeCorrect` (`TypeOK`),
  `TokensAreUnique` (`OneOwner`), `SettledRight` (`SettledForAReason`) and
  `AttemptsBoundRuns` (`RunsWithinAttempts`);
* `SettledStays` (`SettledIsFinal`) and `ClaimsRunOnce` (`OneRunPerClaim`), the two
  action properties.

`IInv` strengthens the properties by what ties a claim in a worker's memory to the
row. `OneOwner` alone is not inductive: nothing in it says that a new token differs
from those in use, so `ClaimInv` bounds the token of every held claim by the number
issued. `SettledForAReason` is not inductive either: the outcome write compares
tokens, not attempts, so `RowInv` says that the token in force is the latest
one, that the row's attempts equal the tokens issued, and that a row carries a token
exactly while it is running; and `ClaimInv` that the attempts a claim remembers are
its token. Then a claim that matches its row is the latest claim (`InForceIsLatest`),
its attempts are the row's, and `MarkFailed` judges exhaustion on a value that was
read long ago and is nevertheless right. The step lemmas follow the disjuncts of
`Next`.

`SchedulerImplementsLifecycle` (`Spec => ImplementsLifecycle`) is the refinement:
`SweepExhausted` is `GiveUp` of a set, `ClaimBatch` is `Take` of a set, outcome writes in
force are `Succeed`, `Retry` or `GiveUp`, and all else stutters.

`Configuration_proofs` proves for any numbers of processes, requests, scopes, writes and
faults and any set of valid writes (`ConfigurationAssumption`):

* `Invariance`: `Spec => []IInv`, and from it `TypeCorrect` (`TypeOK`) and `Freshness`
  (`InformedIsFresh`);
* `NeverBack`: `Spec => NoGoingBack`.

`InformedIsFresh` is not inductive: it speaks of processes that are done, and what could
break it is under way. `MessageInv` says that a message belongs to a write that was made
and that the one of the latest GLOBAL write names GLOBAL, so that its handler evicts the
right copy. `ActorInv` says what a resolution can carry: the current value, once found,
unless the write overlapped it; and that a load belongs to a process whose
consumer does not listen yet. `CacheInv` says that from the eviction by the first
handler on (`Evicted`) the cache holds nothing older than the row, although that handler
is not done; and `ViewInv` that no consumer is ahead of the cache or the row, which is
what `NoGoingBack` needs: whoever resolves anew gets at least what is in use. Every
step is either a move of one actor (`MoveStep`), the end of a resolution (`GotStep`), or
one of the few that touch rows, messages or processes.

`CircuitBreaker_proofs` proves for any callers, tokens, thresholds and numbers of attempts
(`CircuitBreakerAssumption`): `TypeCorrect`; `ReadsHoldAtCommit` (`WatchSound`: what a
transaction that can still commit has read still holds); `ClosedByTrial`
(`ClosedOnlyByLiveTrial`) and `OpenedWithCause` (`OpenedForCause`); and `BreakerIsAtomic`, the refinement
of `Breaker`. The invariant adds to `WatchSound` that `opened_at` exists exactly while the
breaker is open (`KeysInv`) and that only the holder of a token closes or reopens
(`TrialInv`). With it every EXEC that commits is one atomic operation of `Breaker`,
and every abort, read and retry a stutter.

`BatchPipeline_proofs` proves for any batches, drain loops, pop sizes, attempts, hand-offs and
kinds and numbers of faults (`BatchPipelineAssumption`): `TypeCorrect`, `ExecutedOnce`
(`RoutedOnceUnlessFailOpen`), `WebhooksAgree` (`NotifiedAgreesWithRow`), `NothingDropped`
(`NeverDropped`) and `OutcomeStays` (`OutcomeIsFinal`). `RoutedOnceUnlessFailOpen` counts what is done;
the invariant (`CountInv`) counts what is done and what is about to be: executions and runs
at the engine are at most the one claim of the row plus the times the guard failed open.
`SingleInv` says that without a fail-open there is at most one run past the guard, and
what it knows agrees with the row, which is what webhooks and final outcomes need.
`DropInv` says where a ticket is at every moment between the pop and the job.

`Budget_proofs` proves for any requests, periods, costs, policies, numbers of attempts and
changes, and any beginning, streams and `done` events (`BudgetAssumption`): `TypeCorrect`, `CounterExact`
(`CounterIsExact`), `AlertedOnce` (`SoftLimitAlertedOnce`) and `AdmittedWithin`
(`AdmittedWithinLimit`). `CounterIsExact` compares a counter with a sum over requests, and is not
inductive, because a transaction that is about to write knows only what it read: `Watched`
says that what a transaction read still holds as long as it can commit, and that a
reservation was found to be covered; `Placed`, that a request holds a reservation exactly
when its call went past one, and that a `done` event is trued up at most once; `Follows`, that
such an event counts against the period its request reserved in; `UnderFirst` and
`PolicyInv`, that in a period nothing disturbed all sides speak of one policy. With that,
every EXEC moves the counter and the sum by the same amount: a first true-up takes the request
out of `Unsettled` and adds its cost, a later one finds nothing to take out and is counted in
`Excess` (`Adjusting`). The prover's library has no induction over a fold, so the model
writes sums as cardinalities: a true-up takes as many units as it cost (`Units`), and the
library's theorems about unions and subsets of finite sets (`Counting` and the lemmas after
it) do the arithmetic. `AlertInv` makes the alerts of a period that lasts 1 or 0 with its mark,
which is all that may be said of one: once the period is over, the mark may go.

`ChatCompletions_proofs` proves for any calls, attempts of an SDK call
(`AttemptsAreCalls`: no call serves two of them), policies whose candidates are providers
(`PoliciesAreTyped`), retries and frames (`RoutingBounds`): `TypeCorrect` (`TypeOK`),
`ToldWhatHappened` (`OutcomesMatchCalls`), `BillMatchesAnswer` (`AnswerMatchesBill`),
`DuplicatesFollowSilence` (`DuplicateOnlyAfterSilence`), `PinAgreed` (`PinIsShared`), and
`OnlyGeminiBillsTwice`, which sharpens the fourth [finding](#findings): a stream that was
billed more than once was Gemini's. Three invariants carry this, each one in a section of its own:

* `IInv` (`Invariance`). `EngineInv` says of a candidate that is being tried what the log
  says of one that is done (`CurrentInv`), that a trial or a stream makes one call only, and
  that a request which is choosing a provider has read the pin as it is, unless its
  transaction must abort (`ReadInv`). `SdkInv` ties the client to the handlers: the attempts up to
  the current one were received, and every earlier one ended in silence.
* `CandidateInv` (`Candidates`). What a call has tried, is trying and has left to try is no more
  than a policy names (`NoLonger(Tries(r))`). For this the section proves that every strategy and the
  ranking return as many candidates as they were given, also if one is named twice; that
  `find` finds the first match is an argument by the least counterexample
  (`WFMin` of the library), in place of an induction.
* `BillInv` (`Billing`). `AnswerMatchesBill` speaks of the answer when it is over; what holds
  while it flows is that nothing of Groq's is billed before its one `done`, and that
  a Gemini stream which saw its finish reason has sent and billed a `done` (`Flowing`); that
  a status 200 rests on a call that succeeded, and a second bill on Gemini (`Backed`), which
  needs that a call that is over changes no more.

`AlertChannels_proofs` proves for any recorders (finitely many), channels, admins and bounds
(`HealthBounds`, `ChannelBounds`): `TypeCorrect` (`TypeOK`), `AlertStateRight`
(`LastAlertIsRight`), `CrossingsAlertedOnce` (`AlertsAlternate`) and `RemovedIsSilent`
(`RemovedHearsNothing`). `ClaimInv` says that a claim that can commit changes the state, and
that the state is what the last alert said, unless it has lapsed. `RowsInv` and `MailInv`
tie rows and jobs to channels that were created, and `GoneInv` says that no request under way
can bring back a row that counts as gone. `LastAlertIsRight` speaks of moments at which no
`record()` is under way; `GapInv` says what holds in the middle of one: a call that began
alone is alone, the score it read before its append agrees with the alert state, and
the claim it is about to make is for the window as it is. The proof showed the property to hold
without the premise that the window has its minimum of samples, which it no longer has. `WindowInv`
bounds the window, which is not bounded by its size: every call between its push and
its trim makes it one longer, and every one that fails there leaves it so.

`GatewayProcess_proofs` proves for any requests, capacity, refill, cost, skew and tenants
(`BucketBounds`, `SkewAssumption`, `TenantAssumption`): `TypeCorrect`, `TokensAreCovered` (`GrantsCovered`),
`ServedWhole` (`ServedByWholeProcess`) and `ForwardedRight` (`ForwardedAsConfigured`). The bound on
grants is a statement about the last refill, not about now: what was granted and what is left
is covered by the capacity and the whole intervals up to `last` (`Covered`), also in the
hands of every transaction that can still commit. It survives an expired key because a key
lives long enough to be full (`LifeInv`), for which clocks may differ by no more than
the margin in the key's expiry: that is `SkewAssumption`, and the code relies on it without
saying so. A bucket that refills nothing earns a capacity for each whole lifetime of its key
instead (`Earned`), and there `LifeInv` counts from the write that set the expiry. `LimitInv`
and `StageInv` carry along a request what it has passed so far, and `ProcInv` what is open in each
state of the process: once it closes without the timer, the requests that are left are
those whose client is gone (`Unattended`), and none can become one of a client that waits.

Every safety property that a passing run checks is stated by one of these theorems. Only
model-checked is liveness (`EveryJobSettles`, `LostOnlyToKnownGaps`, `OpenIsProbed`,
`DriftIsCorrected`, `StaleCopiesGo`, `ShutdownEnds`), which is outside the prover's temporal
backend, as is everything about `ENABLED`.

## Not modelled

* Wall-clock time, but for the bucket. Leases, cooldowns, TTLs and periods end at any
  moment; a property that depends on one duration being shorter than another is out of
  reach. Where the code relies on such an order the model states it as a guard
  (`stateTtlMs` outlasts the cooldown: `StateExpires`). The expiry of a session's pin is left out.
* Redis losing acknowledged writes, or a failover to a replica.
* The interior of an HTTP exchange, of SQL and of cryptography; the arithmetic of
  prices; texts, prompts and patterns, beyond what the code branches on.
* Two recurring reconciliations of one period, which a repeated handler run can create:
  they overwrite the counter more often with values of the same kind.
* Request admission (`admit`, `release`): nothing calls it for chat traffic, so
  there is no protocol to be faithful to.
* Permission checks, API key lookup, signatures and the nonce store: each one is a read, or a single
  statement, of one request; in `GatewayProcess` it passes or answers.
* The readiness flag, `stop()` of registry and cost engine beyond their place in the
  order of closing, the catalog, and the wiring of the worker process (`start` and
  `stop` of its poll loop are actions of `JobScheduler`).
* Audit-log and usage listings, the other repositories, logging, metrics and tracing,
  the typed methods of the SDK clients, the CLI, the admin web application and the seed
  script: they read, or change state in one statement.

## Plan

1. The worker's composition root: start-up, drain loop and poll loop stopping in order, with
   `JobScheduler` and `BatchPipeline` inside.
2. Request admission, once the chat route calls it: a counter at its limit with
   concurrent rejects, and a release after a crash.
3. The breaker inside the engine: `RoutingEngine` over an `INSTANCE` of `Breaker` instead of
   one that answers anything, for liveness across both (an open breaker is probed as long
   as requests arrive).
