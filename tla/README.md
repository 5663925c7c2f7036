# Formal models of OryaObservability

TLA+ models of `agent_obs` and of the processes beside it: the SDK's span pipeline,
the circuit breaker every client goes through, the replica failover of the ClickHouse
store, the LLM proxy in both modes, cost accounting, the guardrail and its vault, the
evaluation of traces, the jobs that move rows between storage tiers, and what watches
all this. TLC checks the models on small instances; TLAPS proves the central
invariants for every value of the constants.

All paths below are relative to the repository. `PROJECT.json` lists every definition
with the lines it models, every run, a mutant per property that shows what the
property would catch, the findings and the hazards.

## 1. The system

An agent process embeds `ObservabilitySDK`. Decorated agent, LLM and tool calls
become spans; the SDK guards, masks, evaluates, aggregates and buffers them, and a
background worker hands batches to exporters (Langfuse, stdout, ClickHouse). A proxy
process does the same for LLM traffic that is not instrumented, and adds a semantic
cache, daily budgets and, in shared mode, a security scan. Stored spans, audit events
and eval results age through three tiers: ClickHouse (hot), Postgres (warm), S3
(cold). A scheduler process moves them, and ClickHouse drops rows past their TTL on
its own. Viewers read the tiers back, an evaluation sampler and a judge score traces,
and SLO refresher, tail sampler, health checker and drift detector watch. Every remote
dependency sits behind a named, process-wide circuit breaker.

### 1.1 Inventory

| component | state it keeps | operations | interacts through | what makes it correct |
|---|---|---|---|---|
| circuit breaker (`ha/health_checks.py`) | state, failure counter, opening time, probe slot | `allow_request`, `record_success`, `record_failure` | called by every client, from threads and tasks | closed iff few failures; one slot; it admits again |
| span pipeline (`observability.py`, `span_aggregator.py`) | ring buffer, micro-span buffer and its source, per-trace totals, worker, batch | `_enqueue`, `_flush_aggregation`, `_export_worker`, `shutdown` | agents' tasks share it; exporters awaited | nothing lost or doubled by aggregation; in order, at most once; totals right; shutdown ends |
| embeddings and error rate (`observability.py`, `eval/embedding.py`) | queue, batch in hand, sliding window | `_enqueue`, `_embedding_worker`, `_flush_embedding_batch` | ClickHouse, Redis as fallback | each embedding stored or counted as failed |
| HotStore failover (`storage/hot.py`) | client, its host, active index, cooldowns | `_with_failover`, `_select_replica`, `_client_for`, `close` | worker threads share the object; the breaker gates it | a call fails only if every replica did; every call ends |
| LLM proxy (`proxy/server.py`, `obs_pipeline.py`, `semantic_cache.py`) | per-request span, breaker, cache, spend | `chat_completions`, `_forward_with_retry`, two handlers, fallback | tasks share breaker, cache and spend | one span per request; bounded overrun; it admits again |
| shared proxy (`proxy/shared_pipeline.py`, `security_client.py`, `decision_router.py`) | two tasks per request, two breakers, recorder queue and ids | `process`, `scan`, `route`, `record`, `_flush` | breakers shared in the process, audit trail | a block stands; a decision is recorded once; no task left behind |
| cost attribution (`cost/attribution.py`, `storage/warm.py`) | spend per agent and day, flush worker, rollup | `record`, `flush_once`, `stop`, upsert | several proxies write one row; ClickHouse is read back | charged once; the rollup never falls |
| vault client (`guardrail/vault_client.py`) | clients per address, cooldowns, attempt counters | `store`, `recover`, rate limit, failover | Vault, Redis, audit trail; the expiry job deletes beside it | handed out on record only; guesses bounded; no lockout for good |
| guardrail (`guardrail/engine.py`, `observability.py`) | verdict cached per call, classifier | `check_input`, `_guard_call`, `_apply_guardrail` | SDK contexts around each call | a blocked call is not made; no entity exported |
| tiered retention (`storage/maintenance.py`) | rows per tier, the run's batch and counters | three ship-then-delete jobs | TTL beside it, other runners | a row is in the next tier before it is deleted |
| weekly archive (`storage/maintenance.py`, `cold.py`) | partitions, objects, error count | wipe, upload chunks, purge | rows keep arriving | a failed archive loses nothing |
| scheduler (`scripts/cron/scheduler.py`) | next run per job, retries, signals | `serve`, `_next_run`, `run_cron_job` | runs the jobs one at a time | a job due is run; the loop survives jobs |
| compliance catalog (`compliance/`) | buffer, rows in two tiers | `record`, `flush`, aggregate, migrate | Postgres, ClickHouse | an event is counted once |
| adaptive sampler (`eval/adaptive_sampler.py`) | cost and incident caches, budget state, mode | `should_eval`, `refresh_budget`, `acquire`, `current_mode` | calls interleave at awaits and locks | a call decides on what it read; bounded per window |
| judge and annotation (`eval/llm_judge*.py`, `late_annotation.py`) | job state, results in two stores, cost ledger | `evaluate`, worker, `annotate` | RQ, ClickHouse, Redis | a job can be followed to its result and cost |
| drill-down (`storage/drill_down.py`, `trace_viewer/ui.py`) | cache and its index in Redis | gates, read tiers, store, invalidate | late annotations invalidate | a stale entry does not survive; every request audited |
| trace tree (`tree_compressor.py`, `eval/api.py`) | visible nodes, summaries, embedded events | build, compress, embed, expand | viewer | every span once, errors in sight |
| Athena client (`storage/athena_client.py`) | one query | start, poll, stop, fetch | Athena runs beside it | cost guard holds; rows complete |
| access control (`rbac/`) | role store, decision cache | `check`, `load`, cache | OPA, Postgres, Redis | no permission without a decision |
| SLO (`slo/`) | gauges, budget class, flag | refresh, classify, act, gate | hot store, Redis flag, CI gate | one action per change |
| tail sampler (`scripts/sampler/`, `exporters/tail_sampler.py`) | rate, file, score cache | tick, decide, forward | handler threads beside the engine | decisions nested across rates; attempts bounded |
| Langfuse exporter (`exporters/langfuse_exporter.py`) | pending list, breaker | `export`, `flush`, `_stash` | awaited by the span pipeline | no batch forgotten or kept twice |
| health checker (`ha/health_checks.py`) | gauges | cycle of concurrent probes | every dependency | gauges of one cycle |
| drift (`drift/`, `scripts/cron/calibrate_drift_threshold.py`) | threshold file and its cache | detect, calibrate, save | a file shared by two processes | a saved threshold takes effect and is not lost |
| configuration, price book, rules, metrics, notifications, rendering, scripts | none that the program reads back | parse, count, render, post | | formatting |

### 1.2 What is hard to test here

* Steps of several actors: threads between the breaker's admission and its report;
  threads in the unlocked `HotStore`; agent runs in the one aggregation buffer; proxies
  that upsert one row; a task cancelled by `wait_for` while its handler asks whether it
  is done; an invalidation between the two calls that store a cache entry.
* State read before an await and used after it: budget and mode of the sampler, the
  role of an access check, the threshold file of a calibration, rows about to be purged.
* Failure between two steps: a process killed between ship and delete, `INCR` without
  its `EXPIRE`, a value stored but not indexed, an exporter cut off in the middle.
* Time: late reports to a breaker that has moved on, midnight between a record and its
  flush, a TTL that races a job, a job longer than the minute the next one is due in.
* Limits: a full ring, the cap of `_trace_agg`, the pending list, the batch limit.
* What must eventually happen: the breaker admits again, a call ends, shutdown ends,
  every job runs.

`PROJECT.json` lists these as hazards, each with its line and the properties that
would catch it.

## 2. Modules

| module | models | used by |
|---|---|---|
| `CircuitBreaker` | the breaker and the clients that drive it | `LLMProxy` drives its actions |
| `SpanPipeline` | `_enqueue` to exporter, and shutdown | refines `SpanDelivery` |
| `SpanDelivery` | abstract: in order, at most once, lossy | |
| `ReplicaFailover` | `_with_failover`, one shared access per step | `MCReplicaFailover` |
| `LLMProxy` | a request through the proxy | `MCLLMProxy` |
| `SharedProxy`, `CostAttribution` | shared mode; spend from `record` to Postgres | `MCSharedCost` |
| `TieredRetention` | the read, ship, delete jobs and the TTL | `MCTieredRetention` |
| `PIIVault`, `GuardedCall` | vault client and expiry job; a guarded call, which stores into the vault | `MCGuardrail` |
| `EvalSampler`, `JudgeJobs`, `DrillDown`, `TraceTree` | what reads traces after the fact | `MCEvaluation` |
| `CronScheduler`, `ColdMigration`, `ComplianceCatalog`, `SloPolicy`, `TailSampler`, `LangfuseExport`, `HealthProbe`, `AthenaQuery`, `AccessPolicy`, `EmbeddingStore`, `DriftWatch` | what runs beside the pipeline | `MCOperations` |
| `FiniteFacts` | lemmas about numbers, finite sets and sums | the proof modules but `LLMProxyProofs` |
| `AvailabilityProofs` | theorems about `CircuitBreaker` and `ReplicaFailover` | |
| `SpanPipelineProofs` | theorems about `SpanPipeline` and `SpanDelivery` | |
| `LLMProxyProofs` | theorems about `LLMProxy` | |
| `RequestPathProofs` | theorems about `GuardedCall` and `PIIVault`, `SharedProxy`, `CostAttribution` | |
| `TieredRetentionProofs` | theorems about `TieredRetention` | |
| `EvaluationProofs` | theorems about `JudgeJobs`, `EvalSampler`, `DrillDown`, `TraceTree`, and `MCEvaluation` as a whole | |
| `OperationsProofs` | theorems about every component of `MCOperations`, and about the whole | |

An `MC` module that holds several components whose code shares no state puts them side
by side: a variable `part` says which one a behaviour is about, the others stand still.
Its state space is the sum of theirs, not the product, and nothing is lost, as there is
no step of one that another could see. Where components do share state they are
composed for real: `LLMProxy` calls the breaker's actions, `GuardedCall` extends
`PIIVault` and stores into it, `SpanPipeline` implements `SpanDelivery`.

A definition marked as a mutant or a plausible slip in a comment is a plausible mistake
in another one. No specification uses it; it is there so that one can put it in the
other's place and see a property fail.

### 2.1 CircuitBreaker

Each of the three methods holds the lock from start to end and is one action. The
operation between admission and report is not, so `call` records for each caller
whether it is idle, in an ordinary call, or the probe. `openFor` is
`clock() - _opened_at`, stopped at `recovery_time` because only the comparison
matters. `Outcomes` says how the client's operations may end: `"unrecorded"` stands
for an error that the client lets through without a report (`HotStore` and
`VaultClient` report connection errors only) and for a cancelled task.

### 2.2 SpanPipeline, SpanDelivery and EmbeddingStore

The SDK runs on one loop, so what lies between two awaits that suspend is one step.
The actions are the four ways through `_enqueue` (a micro-span that is buffered, one
that flushes, a child, a root), the worker (takes one, takes two, times out, export
returns or raises) and the phases of `shutdown()`. `accepted` is the sequence the
ring ever took; ring, batch and `delivered` hold positions in it.

The export part of the worker is modelled as it is indented: inside the drain loop,
after its `QueueEmpty` handler. A batch is therefore always two spans, one span
alone is dropped, and the task ends when it observes `obs_export_latency_seconds`
with a label that metric does not have.

`SpanDelivery` says what an exporter may rely on: spans in the order of acceptance,
none twice, any of them lost. `SpanPipeline` refines it with
`count <- Len(accepted)`, `pending <- batch \o ring`, `out <- delivered[1]`.

`EmbeddingStore` has the other queue of `_enqueue`, its worker (which writes whatever
it drained at once), the fallback to Redis, the shutdown that may be cut off, the
error-rate window, and the golden answers' vectors.

### 2.3 ReplicaFailover

`HotStore` has no lock. One action is one read or one assignment of a shared
attribute: the test of `_client_for` is two reads, the replacement of the client
three assignments, the return another read. Replicas go down and come back between
any two of them. `alwaysUp` remembers which replicas have answered ever since a call
began, `tried` which ones it selected.

### 2.4 LLMProxy and SharedProxy

A request is a task: arrive; cache hit, budget refusal, circuit open, or forward;
then an answer, headers of a stream, a transport failure or another exception;
then the end of the stream, or the fallback. The breaker is `CircuitBreaker`, with
the very calls `_forward_with_retry` makes. Both branches of that method's `try`
return, so everything behind (retries, `record_success`) is unreachable, and the
model has none of it. Budget and cost are whole units.

`SharedProxy` is `process()` with its two tasks as actors of their own, the timeouts
of both `wait_for`s, the breakers shared with other clients, `DecisionRouter` and the
recorder with its queue, its remembered ids and its flush.

### 2.5 CostAttribution

`flush_once` runs without an await up to the upsert, so a flush is two steps. Spans
take their own way into ClickHouse (`Export`) or get lost (`Lose`). A request
without an agent header has one name in memory and another on its span, as in the
code. `Midnight` and `Restart` may fall anywhere.

### 2.6 TieredRetention, ColdMigration, CronScheduler

`Job` selects the table. A row is its timestamp; several timestamps fall into one
second, which is what the S3 object key is made of. Reads, uploads and deletes may
raise, the process may die between any two steps, and `Drop` is ClickHouse's TTL.
`Period = 0` lets runs start whenever they like; a positive period makes a run start
at least that often and end before time passes.

`ColdMigration` keeps the day as a number whose decimal text is the prefix, since the
wipe of day 1 also covers day 10; chunks, the cumulative error count that gates the
purge, and rows arriving during a query are all there. `CronScheduler` has the cron
fields as sets of ranges, the search for the next minute that matches, the loop that
runs one job per turn, retries, signals, and which jobs `run_cron_job` wraps.

### 2.7 PIIVault and GuardedCall

hvac is synchronous, so a store or a read is one step; `recover()` suspends at every
Redis command and at the audit write, and each of these is a step. The expiry job
audits first and deletes second. In `GuardedCall` a text is where its entity lies
relative to the 200th character and how it would score: cutting a text in the middle
of an entity leaves a fragment no detector knows, the way the conversion does.

### 2.8 Evaluation and reading back

`EvalSampler`: one action per stretch between two awaits, locks as queues of waiters.
`JudgeJobs`: a job per evaluation, with the two stores of a result; both may be down,
and the entry in Redis expires. `DrillDown`: each Redis call is a step, on either
client (the synchronous one, or the asynchronous one the viewer hands over, with which
neither rate limit nor cache work). `TraceTree`: every parent relation of four spans,
cycles and orphans included; compression, late summaries, embedding and expansion.
What a walk from parent to child reaches is the least set closed under children, so that
trees need no recursion and can be proved about.

### 2.9 Operations

Each module says in its header what a step is. Ratios of `SloPolicy` are counts
compared in thousandths, with the rounding of `1 - target` given per target.
`TailSampler` keeps the hash bucket of a trace and compares it with the rate.
`LangfuseExport` has the observations a batch yields by id, since delivering one again
is harmless only under the same id. `AthenaQuery` has pages with a header row.
`AccessPolicy` has the cache key as the code has it: user, action and resource.

## 3. Runs

### 3.1 Runs that pass

A property of a run is often a conjunction of named parts; the parts are defined, with
a comment each, in the component's module.

| run | what it shows | instance |
|---|---|---|
| `breaker` | `BreakerSafe`: state, counter and slot agree whatever late reports come in. `BreakerSteps`: only a success closes, only an unreported probe orphans the slot. `AdmitsUnlessOrphaned`: short of that it admits again and again | 3 callers, threshold 2, recovery 2 |
| `pipeline` | `PipelineSafe`: the aggregator loses and repeats nothing and knows whose its spans are. `TracesAccounted`: a stamped root has the totals of what was accepted; an entry of `_trace_agg` outlives its trace only if the root was dropped or a task outlived it. `DeliverySpec`: the export path refines `SpanDelivery`. `ShutdownEnds` whatever exporters do | 2 traces, ring 2, buffer 2, 4 spans offered |
| `failover` | `FailoverSafe`: no failure is recorded before every replica was selected, however threads interleave. `ServesFromHealthy`: alone, a thread's query runs on the replica selected, and its call fails only if no replica stayed up. `CallEnds` | 3 replicas; one thread without bounds, or two with `MaxMoves` = 3 |
| `proxy` | `ProxySafe`: one span per request on every path; the spend passes the 80 % mark by at most one answer per request in flight. `AdmitsAgain`: the upstream's breaker admits again although no success is ever reported to it | 2 tasks that serve request after request |
| `retention` | `EvalKept`: no eval result leaves ClickHouse by the job without being in Postgres. `RetentionTimely`: while nothing fails, the TTL takes nothing unshipped. `InOneObject`: a repeated run of the audit job never leaves an event in two objects | 6 rows, 2 per second, every failure; 2 runners (eval), 1 (audit) |
| `guardrail` | `NoEntityExported`: no entity a detector knows is exported, whichever hook, cached verdict or failing check its text met. `InjectionNotSent`: a request the classifier would block leaves only if the model could not be loaded. `VaultSafe`: values are handed out and deleted only on record, no lockout for good, wrong tokens bounded | 1 call over 2 addresses; 2 engineers, 1 key, 2 ticks |
| `shared_cost` | `VerdictsStand`: a block is undone only by a failed or late enrichment, and tasks outlive a request only after a scan timeout. `RecordedOnce`. `ChargesBounded`: an agent that names itself is charged once, the unnamed part at most twice. `RollupNeverDecreases` | 2 requests, 2 ids, queue 1; 2 proxies, 2 days, 2 units |
| `evaluation` | `EvalReadingsConsistent`: a sampling call decides on the budget it computed, mode changes form a chain, incidents per window are bounded. `JobsAccounted`: a completed job can be followed to its result and cost. `DrillDownSafe`: an invalidation leaves no entry it was responsible for, every request is audited once. `TreeFaithful`: every span once, errors in sight | 2 calls; 2 evaluations; 2 requests and 2 annotators; all trees of 4 spans |
| `operations` | one property per part: `ScheduleSafe`, `ColdLossExplained`, `CatalogConserved`, `GaugesConsistent` (SLO and health), `SamplerConsistent`, `LangfuseSafe`, `ColdQuerySafe`, `AllowsJustified`, `EmbeddingsSafe`, `DriftSafe`. Each says that its part loses, repeats, misses or grants something only in the ways named | see `MCOperations.cfg` |

Properties with "explained", "accounted" or "unless" in them are as strong as the code
allows: the unconditional claim fails, and the exception named is the only way it does.
The run shows that there is no other; section 3.3 has the unconditional claims.

Why the bounds are enough. Two actors suffice for every race in the code except the
breaker's, where a third caller can be left over from an earlier state while two
others move on. Thresholds, queues and limits are the smallest that distinguish "one
below", "at" and "above"; 5 is the smallest budget at which 80 % and 100 % refuse
different requests. Two days contain one midnight. `MaxFailures` is above the
threshold and the counter saturates there; nothing tests it beyond the threshold.
`MaxMoves` counts what begins or disturbs a call while two threads are active: two
calls and one change between them; with one thread there is no bound. In `retention`
six rows make two runs with a backlog, and the window of the eval job is the tightest
for its period and batch (with a TTL of 3 `NeverDropped` fails); the TTL of the audit
part lies beyond the horizon, since when the TTL takes a row that was shipped and not
yet deleted the next batch is cut differently and a row can end up in two objects.
The calendar of the scheduler has 4 minutes, 2 hours, 3 days and a week of 2, and its
jobs have the shape of `build_jobs()`: it repeats after 48 minutes, so every
coincidence of two jobs occurs. Days 1, 2 and 10 contain one prefix that begins
another. `*Ticks`, `*Flips`, `*Cycles`, `*Loads`, `*Runs`, `TreePasses`, `MaxRecorded`
and `MaxDoubtful` bound how long the environment goes on; each is one or two above
what a lapse and a recovery need.

Deadlock is not checked where the system may stop: the breaker (an orphaned slot with
every caller idle is a state of the code), the pipeline after shutdown, the failover
when its moves are used up, and the runs whose parts end when the bound on the
environment is reached. It is checked for the proxy and the retention jobs.

### 3.2 Fairness

* `CircuitBreaker`: time passes; an admitted operation ends (clients set connect and
  receive timeouts); somebody keeps asking.
* `SpanPipeline`: the loop runs the worker and, once called, `shutdown()`. Nothing is
  assumed of an exporter.
* `ReplicaFailover`: a thread inside a call is scheduled, and the driver's timeouts
  end every query. Nothing is assumed of the replicas.
* `LLMProxy`: tasks run, httpx times out, clients keep coming, cache entries expire,
  days pass. It is weak fairness throughout.
* `CronScheduler` (in `schedule_shadow`): the loop runs, minutes pass, jobs end.

The other specifications have none; their properties are safety properties.

### 3.3 Where the code and its documentation disagree

Three runs end in a counterexample on purpose. Each compares one sentence of a doc,
comment or test, quoted in `PROJECT.json`, with what the code does.

| run | what TLC finds |
|---|---|
| `breaker_wedge` | the probe ends with an error its client does not report; the breaker stays half-open with the slot taken, for ever |
| `retention_overwrite` | two batches of audit events get one object key; the first is replaced after its rows were deleted |
| `schedule_shadow` | the hourly vault job heads the list, so jobs due on the hour never run |

The other disagreements that a property states are in the modules as well. To see the
counterexample, name the property in the configuration given, with the change in
brackets (leave SYMMETRY out for an action property).

| property, configuration | the claim | what the code does |
|---|---|---|
| `SingleFlight`, `MCCircuitBreaker` | "admits a single probe request (single-flight ...)" (`agent_obs/ha/health_checks.py:131`) | a late failure of an older call releases the slot of the probe in flight; a second probe is admitted |
| `DrainedOnExit`, `MCSpanPipeline` | "continues draining any remaining spans until the queue is empty before exiting" (`agent_obs/observability.py:1440`; `tests/test_shutdown.py:78`) | a span alone in the ring is taken and handed to no exporter |
| `WorkerSurvives`, `MCSpanPipeline` | "Worker should still be alive" (`tests/test_export_worker.py:139`) | the task ends at its first export: `obs_export_latency_seconds` is given a label it has not |
| `OneTracePerAggregate`, `MCSpanPipeline` | "Preserve tenant_id from the original micro-spans" (`agent_obs/observability.py:1049`) | one buffer serves all agent runs: spans of two traces, or tenants, share an aggregate |
| `NotSentTwice`, `MCSpanPipeline` | micro-steps are "buffered by `SpanAggregator` ... into an aggregated span" (`README.md:268`) | a buffered micro-span is also put into the ring on its own |
| `ErrorsReachRoot`, `MCSpanPipeline` | the root carries the "error flag for the tail sampler" (`agent_obs/observability.py:1399`) | the failed micro-span that fills the buffer is replaced by an aggregate with status ok |
| `TotalsRight`, `MCSpanPipeline` [`MaxTraceAgg = 1`] | "when the root arrives we can stamp it with ``steps.count`` ..." (`agent_obs/observability.py:1397`) | at the cap the first spans of a trace are skipped, not the trace |
| `HealthyReplicaServes`, `MCReplicaFailover` | "Each replica is tried at most once per call. If every replica fails, the last connection error propagates" (`agent_obs/storage/hot.py:326`) | with two threads a call fails although a replica was up throughout: the query ran on the other thread's client |
| `ClientPresent`, `MCReplicaFailover` | "storage clients are sync and may be called from worker threads" (`agent_obs/ha/health_checks.py:137`) | `_client_for` returns `None` if another thread drops the client in between |
| `ProbeSuccessCloses`, `MCLLMProxy` | "record_success closes the breaker" (`agent_obs/ha/health_checks.py:133`) | `_forward_with_retry` returns before `record_success`; nothing is retried either |
| `SuccessIsCached`, `MCLLMProxy` | "Forwards to upstream, then caches the successful response" (`agent_obs/proxy/README.md:159`) | a NameError around `cache.set` is logged and dropped |
| `FallbackUsesCache`, `MCLLMProxy` | "Handle fallback: cache lookup or 503 response" (`agent_obs/proxy/server.py:569`) | the lookup is for the empty body |
| `NeverOvercharges`, `MCSharedCost` | "so the gate and the rollup agree on which bucket the request belongs to" (`agent_obs/proxy/server.py:667`) | a request without agent header is "unknown" in memory and "proxy" on its span; both are charged |
| `FinalFlushDrains`, `MCSharedCost` [`Failing = {}`] | "one final flush to drain pending spend" (`agent_obs/cost/attribution.py:165`) | a flush takes today's rows only; what was recorded before midnight stays |
| `NothingLeftBehind`, `MCSharedCost` [`Failing = {}`, `MaxDay = 1`] | "so the final flush lands before the process tears down its stores" (`agent_obs/proxy/server.py:264`) | requests that end during the drain are charged after the final flush |
| `BlockAlwaysStands`, `MCSharedCost` | "Security decisions (clean/flag/block) override obs decisions" (`agent_obs/proxy/shared_pipeline.py:14`) | a late enrichment turns a block into fail-open |
| `ClosedByScan`, `MCSharedCost` | "the next ``allow_request()`` ... admits a single probe" (`agent_obs/ha/health_checks.py:131`) | asked twice, the breaker refuses the probe it admitted, and the request let through unscanned closes it |
| `NeverDropped`, `MCTieredRetention` [`Retention = 4`, `Parts = {"job"}`] | "the hot TTL must stay STRICTLY LONGER than the cron archive trigger" (`infra/storage/clickhouse_ddl.sql:85`) | `infra/docker-compose.yml:555` sets the trigger to the TTL, 14 days |
| `NeverDropped`, `MCTieredRetention` [`Job = "span"`, `Failing = {}`, `Parts = {"job"}`] | "21d leaves a 7-day window for the daily job to ship rows" (`infra/storage/clickhouse_ddl.sql:17`) | `insert_traces` passes 14 values for 15 columns: no span is ever shipped |
| `ShipFailureReported`, `MCTieredRetention` [`Job = "span"`, `Parts = {"job"}`] | "After the final failure the job reports failure" (`scripts/cron/scheduler.py:307`) | a result with errors is a success |
| `NoFragmentExported`, `MCGuardrail` | "Masking happens first so no plaintext PII can reach a container log" (`agent_obs/observability.py:819`) | the summary of a tool input is cut at 200 characters before it is masked; half an entity is not recognised |
| `CleanupSparesRecoverable`, `MCGuardrail` | "exactly the rule ``recover()`` enforces" (`agent_obs/storage/maintenance.py:294`) | in its last second the job deletes what `recover()` would still return |
| `RoleFitsTenant`, `MCGuardrail` | a store fails "If every address fails" (`agent_obs/guardrail/vault_client.py:338`) | a cached client keeps the role of the first tenant; the second is refused |
| `EmbedIdempotent`, `MCEvaluation` | "Idempotent: after embedding a parent is itself a leaf" (`agent_obs/tree_compressor.py:507`) | the parent, now a leaf, is folded into its own parent by the second pass |
| `NothingLostCold`, `MCOperations` | "a failed archive must never lose the source rows" (`agent_obs/storage/cold.py:100`) | a later chunk wipes the earlier one, a day's prefix covers another's, rows that came late are purged unarchived |
| `FreshRowsKept`, `MCOperations` | "Cleans stale records ... without activity" (`agent_obs/compliance/aggregate.py:61`) | a row refreshed after it was read is deleted by its id |
| `FlagWhileBurning`, `MCOperations` | the flag is read "while the state is ``soft`` or ``hard``" (`agent_obs/slo/error_budget.py:196`) | one key serves all SLOs: the recovery of one deletes the flag of another |

Met while reading, and part of the models as the code has it:

* the asynchronous `DELETE`/`INSERT` helpers of `HotStore` are synchronous methods that
  several callers await (catalog, drift detector, migration): the statement runs and the
  await raises; the drift detector skips every run for that reason;
* `SharedAuditTrail` lacks the methods its writer calls, and nothing starts the
  recorder's flush task;
* the judge raises NameError when it has a sampler (`asyncio` is not imported), and an
  enqueue that failed is still answered with "pending";
* the viewer hands the drill-down service an asynchronous Redis client that it uses
  synchronously, so rate limit and cache never work;
* a trace split over two batches is decided per batch by the tail sampler;
* the Langfuse exporter's pending list is flushed at shutdown only;
* an outage's denial is cached, and a failed load empties the role store;
* a calibration that could not read the file drops the thresholds of other agents.

## 4. Proofs

All theorems hold for every value of the constants that satisfies the named assumption
of the component's module (`BreakerAssumption`, `PipelineAssumption`, ...): sets of
tasks, requests or users are arbitrary or finite, limits are natural numbers, and what
the code fixes (a threshold of at least one, a batch of at least one) is required. The
only other hypotheses are those a theorem states, named below.

A theorem about a component is about the component's own specification. Where a run puts
several components side by side, the theorem speaks of that one's part of it; the
theorems over an `MC` module are about that module's specification as the run has it.

* **AvailabilityProofs.** `ClosedIffBelowThreshold` is not inductive: a failure in
  half-open must find the counter at the threshold already, and an admission from
  open must find the slot free. `BreakerInv` adds the type and
  `ProbeSlotIffHalfOpen`, and is; `BreakerSafety` is the property `BreakerSafe` of the
  run. From it follow the two action properties, together `BreakerStepsSafe`: only a
  success closes, and only an unreported ending leaves a taken slot without a probe.
  `SlotOwned` (a taken slot has a running probe) needs one more assumption, that no
  operation ends unrecorded; `breaker_wedge` shows that it cannot be dropped.
  `FailoverSafety`: the loop counts iterations, the property is about replicas. `Counted` ties them: `tried` has as many members as
  iterations have begun, because `_select_replica` returns a replica not yet tried
  while there is one (`SelectsUntried`, from the fact that a set of distances has a
  least one), whatever other threads do to the active index and the cooldowns.
  After N iterations all N have been tried (`AllReplicas`).
  `HealthyReplicasServe` is about the executions of one thread: there the active index
  does not move between selection and query, so each iteration that failed did so on
  the replica it selected; with two threads it is false (`HealthyReplicaServes` in 3.3).
* **SpanPipelineProofs.** `AggInv` (buffer, source context and history agree) and
  `PipeInv` (types, and that the worker holds a batch only while it exports) give
  `PipelineSafety`. `ImplementsDelivery` maps each step to one of `SpanDelivery` or to
  a stutter: `_enqueue` accepts none, one or two spans, the worker delivers or loses a
  prefix of `batch \o ring`; without the second half of `PipeInv` a step that drops
  the batch would not map to anything.
  `TracesAreAccounted` is the property `TracesAccounted`, short of the cap of
  `_trace_agg` (`Cardinality(Traces) <= MaxTraceAgg`; at the cap it is false, see 3.3):
  until the ring takes a trace's root, the entry of the trace has the totals of what the
  ring took of it. The sum is a recursive function; that one more span adds its own cost
  follows from the existence and uniqueness of partial sums, each by the least number that
  would be an exception. `LeaksAreExplained` is the half about entries left behind, and
  holds at any cap: a root of any trace flushes the aggregator, so what it buffers is
  never of a trace that is over and has no late tasks.
  `DeliveredInOrder`: the invariant is that `out \o pending` is increasing and bounded
  by `count`.
* **LLMProxyProofs.** `ProxyKeepsBudgetAndSpans` is the property `ProxySafe`. To the
  types and `OneSpanPerRequest` the invariant adds `UnansweredUntilIdle`, that a task
  still being served has neither answered nor left a span, and `SpendCovered`: the spend
  together with `MaxCost` for every answer still on its way stays below the bound. The
  gate admits below 80 %, and from then on a request's share of the bound is reserved.
* **RequestPathProofs.** `VaultSafety`: wrong tokens are bounded by the limit and
  the attempts between `INCR` and their verdict, which the invariant counts; a secret
  stored keeps tenant and age while a recovery or the expiry job has it in hand.
  `NothingDetectableExported` and `InjectionStopped`: every exported text went through
  the mask on one of the three ways there are or was replaced; a text sent passed the
  classifier, and a model that failed to load stays failed. `GuardrailTyped` has the
  types. `BlocksStand`: `process()` asks for the answer only when the scan is over, and
  a verdict is dropped only when the enrichment is past recovery. `DecisionsOnRecordOnce`:
  the queue, the batch of the loop, the batch of `stop()` and the sink each hold an id
  once, and no two of them the same. `TenantChargedOnce` is the property
  `ChargesBounded`. `CostInv` is stated row by row: each table and each snapshot charges a
  name at most what is due under it, its own calls or, for the two names of requests
  without the header, all of those; for days not yet over, what is in ClickHouse and on
  its way together. Summed over agents this gives the two bounds on a tenant.
  `RollupGrows` is an action property, from the `GREATEST` of the upsert.
  `SharedCostTyped` has the types of both parts of `MCSharedCost`, for its specification.
* **TieredRetentionProofs.** `EvalResultsKept`: `Kept` alone is not inductive; a
  delete needs `ShippedFirst`, that a runner about to delete has its batch in the
  archive. That survives other runners since an upsert only adds. For the audit job
  it does not (an upload replaces an object), which is `retention_overwrite`.
  `EvalRunsKeep` carries it over to the specification of the run, with `Job = "eval"`.
  `RetentionTyped` has the types of all three jobs.
  `RetentionInTime` (and `RetentionRunsTimely`, of the run's specification) needs a
  deployment made for what it receives, `Provisioned`: the audit or the eval job, runs at
  least every `Period`, `MaxBatches` full batches that hold what one period brings, and a
  TTL longer than the retention plus one period. The instance of the run is one. The
  invariant knows how old rows can be: when the runs of a turn have ended, nothing is left
  that was past the window at its beginning, and while one is under way what is left fits
  into the batches it may still take, whoever of several runners took the others.
  `AuditInOneObject` is about one runner and the behaviours in which the TTL takes
  nothing, and is false without either: a batch that is shipped again lands on the object
  of the first attempt because what is archived and still in ClickHouse is in the one
  object of the oldest row, and new rows are younger than all that is archived.
* **EvaluationProofs**, one section per component. `JobsFollowed`: where a job's result
  and cost must be at each of its steps. `EvalReadingsConsistency`: the two lock queues of
  the sampler hold a call once, and a reading is used by the call that made it.
  `DrillDownSafety`: a request's events are decided in the step that ends it, and the
  stamp of a cache entry is used once; so what was due to an annotation is listed where
  its invalidation will look, or another one dropped it before it was listed.
  `TraceTreeFaithful`: below a span of a trace without cycles lies a tree, by induction
  over the least closed set that defines it; the outermost large subtrees are disjoint, so
  each hidden span is hidden once. `TreeInv` gives the tree of each phase in terms of the
  stored trace; that a second pass changes nothing follows from the first having left no
  large subtree unprotected. `EvaluationTyped`: a behaviour of the run's specification is
  one of each component's (`EvaluationComposes`), so their types hold together.
* **OperationsProofs**, one section per component. `AllowsAreJustified`: a check in flight
  knows the role of its beginning, and a cached word is one of OPA's. `LangfuseSafety`:
  pending and overflowed batches are ordered. `SamplerConsistency`: verdicts of different
  rates are nested, reports chained. `GaugesConsistency`: the gauges set so far are of the
  present cycle, so one set earlier is never older. `ScheduleSafety`: the next due minute
  of each job is the least one after its base, and the calendar is periodic.
  `DriftSafety`: cache and run hold a version no older than the file's mtime they saw, and
  a calibration of an unchanged file holds its entries. The percentile of any history is a
  score with the required number at or below it: a finite set of positions has a k-th
  smallest. `CatalogCountsOnce`: what is recorded, buffered, being written, in the two
  tables, cleaned and in doubt balances for each key; that alone is not inductive, as the
  jobs keep the larger count of the two tables, so the hot one must not exceed what was
  recorded.
  `ColdLossesExplained`: the days old enough are downward closed, and a run purges a day
  only when all smaller ones are emptied or excused; so a wipe that reaches the objects
  of another day finds rows of it still there, or the day is excused itself.
  `ColdQuerySafety`: what a poll has seen of a query that ended stays true, and the rows
  kept are those of the pages read so far, the header of the first left out.
  `EmbeddingsSafety`: an embedding is in one place only (queue, the worker's hands or
  ClickHouse), so an insert adds as much to the table as to the count. For the error
  rate, cutting the window at the expired entries cuts its errors in two sets, counted
  over a bijection of positions.
  `ColdTypesKept` bounds the errors of a run by the days it has left behind.
  `OperationsTyped`: as for the evaluation, every behaviour of the run's specification is
  one of each component's (`OperationsCompose`), so all types hold together.

Lemmas shared by several of these are in `FiniteFacts`: a set of numbers has a least and a
bounded one a greatest member, and the sum over a finite set (the library's fold, whose
order of summation is a `CHOOSE`) does not depend on that order, adds up over disjoint
sets, is monotone and changes with one summand as it should. There is no induction over
operators, so each is put as the least cardinality at which it fails: partial sums are
functions on subsets that exist and are unique up to any cardinality.

Checked by TLC only: liveness (`AdmitsUnlessOrphaned`, `AdmitsAgain`, `ShutdownEnds`,
`CallEnds`), which needs fairness and ENABLED. Every invariant and every action property
of a passing run is a theorem; some with hypotheses of their own, which the instance of
the run satisfies: `TracesAccounted` (room in `_trace_agg`), `ServesFromHealthy` (the
executions of one thread), `EvalKept` (the eval job), `RetentionTimely` (`Provisioned`)
and `InOneObject` (the audit job, one runner, nothing dropped by the TTL).

## 5. What is not modelled

Within the modelled components: the audit tasks' bookkeeping and gauges of the SDK;
start and stop of the proxy server; similarity and eviction of the semantic cache;
prices and tokens (a cost is an input); per-tenant budget overrides; `dry_run`; SQL and
rows beyond what a property tells apart; the memory and MCP contexts, which follow the
tool's; what another thread's `disconnect()` does to a query under way; the gRPC
receiver of the sampler, which calls the same handler; the divergence that drift is
measured by; the GDPR export and other reads of the catalog.

Not modelled as a whole: PII patterns, classifiers and rules (regular expressions and
third-party models over text: `GuardedCall` takes what they find as an input);
proxy configuration, prompt templates and the price book (parsing and one
multiplication, no state); metrics and notifications (nothing reads them back; those a
property is about are variables of the module that sets them); pages of the viewers
(rendering over reads); the summary worker (it ends at its first call, a TypeError of
`create_redis`); canary, golden evaluation, chaos and acceptance scripts (straight-line
tools of operators against a deployment); deployment files and the pilot agent.

External and modelled from its use: ClickHouse (insert, TTL merges, queries that may
raise; the driver keeps milliseconds of timestamps), Postgres (upsert), S3 (an object
replaces one of the same key), Redis (entries that expire; any command may fail), Vault,
OPA, Athena, Prometheus, RQ, Langfuse's ingestion (keeps observations by id), the
upstream LLM, the clock, a process that is killed.

## 6. Plan

Done: the models of all components with control of their own, and proofs of the safety
properties of every run. Next, in the order of what they would add:

1. `TieredRetention`: for two runners of the audit job, which rows can end up in two
   objects or be overwritten, as a theorem that names them.
2. `SpanPipeline`: `TracesAccounted` at the cap of `_trace_agg`, for the traces that keep
   their entry.
3. The shared proxy and the guarded call composed, once the code connects them.
