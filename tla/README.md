# TLA+ models of Transcript Intelligence

This directory holds TLA+ models of Transcript Intelligence: the transactional
outbox, the caches, search, the snapshots and the state that is served from
them, the runtime settings, the start-up of its processes, the middlewares and
gateways that guard requests, the bulk readers and the analysis. Each module is
translated from the source (paths in comments are relative to the repository:
`api/outbox.py`, `src/runtime_settings.py`), checked with TLC on small
instances, and eight modules hold what TLAPS proves for all values of the
constants. `PROJECT.json` maps definitions to source lines and lists runs,
hazards, findings, mutants and theorems.

## 1. Inventory

| Component | State | Operations | Interacts with | Hard behaviour |
|---|---|---|---|---|
| Outbox and relayer (`api/outbox.py`, `api/admin/gdpr.py`) | table `outbox_events`, a relayer's ORM session | `emit`, `drain_once`, `replay_stuck_rows`, `prune_processed` | database, publisher | no row locks: relayers, replay and reaper run between any two steps of a batch; crash between publish and commit |
| Kafka publisher (`api/outbox_kafka.py`) | the producer's queue, `_delivery_failure` | `publish`, delivery callback | relayer, brokers | two timeouts, one shared failure variable |
| Read-through cache (`api/cache.py`, `api/caching.py`) | Redis, a process-local LRU, flights | `get_or_load`, `cache_get/set/invalidate`, `SingleFlight.do` | repository, search | cancellation of leaders and waiters, Redis failing between calls |
| Meeting repository (`src/repository.py`) | table `meetings` | `get`, `delete`, `stream`, `import_from_local` | cache, exports, analysis | reads racing deletions, paging under writes, tenants sharing a cache |
| Circuit breaker (`api/circuit_breaker.py`) | state, failure count, opening time | `call` | readiness probe (`api/routes.py`) | late results, cancellation by a deadline |
| Request pipeline (`api/idempotency.py`, `api/adaptive_throttle.py`, `api/backpressure.py`) | stored responses, inflight count, latency window | `dispatch` of each middleware | Redis, handlers | concurrent retries, responses stored after an await |
| Pipeline state (`api/state.py`, `api/caching.py`) | `_state`, its age, the refresh loop | `get_state`, `reload`, the ETag of a response | routes, GDPR deletion | a refresh racing a deletion; body and tag from two reads |
| Snapshots (`api/state.py`, `api/snapshot.py`, `api/snapshot_writer.py`, `api/jobs.py`) | `manifest.json`, `snapshot.pkl.gz`, `_loaded_snapshot_checksum` | `reload`, poll, `write_snapshot` | pipeline state, GDPR deletion | two files replaced one by one, several writers, poll against reload, signing keys |
| Runtime settings (`src/runtime_settings.py`) | table `settings`, a cache per process, listener thread | `get`, `set`, `reset`, `bulk_seed`, `_invalidate` | every component | SELECT against invalidation, lost notifications, half-failed writes |
| LLM gateway (`api/llm_gateway.py`) | spend per tenant and day, cached replies | `call` | settings, Redis, PII redaction | check, then charge; both may fail |
| Rate limiter (`api/limiter.py`, `api/admin/routes.py`) | a counter per key, a local window | the dependency of a request | settings, Redis | INCR and EXPIRE apart, fallback of one process |
| Search (`api/search.py`) | postings, documents, cached hits | `index`, `delete`, `query` | cache | a fill racing an invalidation or the index's own refresh |
| Migrations, tables, start-up (`src/db.py`, `alembic/`, `Dockerfile`, `api/main.py`, `api/admin_app.py`) | schema, `alembic_version`, seeded rows | upgrade, `create_all`, seeding, readiness | settings, authentication | several processes at once on an empty database |
| Streaming aggregates (`src/streaming.py`) | running totals | `fold_batch`, `merge` | repository | pages of any size, a table that changes |
| Analysis (`src/categorizer.py`, `src/insights.py`, `src/sentiment.py`, `validate.py`, ...) | none | pure data-frame functions | snapshot builder, routes | several views of one data set have to agree |
| Active learning (`gemma-finetune/scaling/active_learning.py`) | processed set, spend | `_handle` | topic, judge, table | redelivery, workers that die, a budget per life |
| Admin application (`api/admin_app.py`, `api/admin/`) | quotas, sessions | HTTP routes | settings, outbox, deletion | calls of the operations above |
| Authentication and tenancy (`api/auth.py`, `api/admin/auth.py`, `src/tenant.py`, ...) | context variables, tokens | checks, context of a request | all routes | context variables over tasks and pooled threads |
| HTTP surface, clustering, charts, PII, training, documents, deployment | none | formatting, numerics, configuration | | none |

What makes each modelled component correct:

- **Outbox**: every committed event reaches the backbone or the DLQ before its
  row is settled; nothing is published for an uncommitted transaction; the DLQ
  gets poison only; a mark is final; every row settles or shows up as stuck.
- **Kafka publisher**: a return means the brokers have the message, an
  exception concerns the message that was published.
- **Caches**: one loader per key; every caller gets a real outcome; nobody waits
  for ever; what was cached before a deletion is gone when it returns; caches
  converge on the row, and hits on what the index finds.
- **Breaker**: count and state agree; it opens on failure and closes on recovery.
- **Pipeline**: exact inflight count; a response goes only to requests with its
  key and intent; a replayed success was executed; an answered key is not
  forgotten; the throttle stops shedding after recovery.
- **Pipeline state**: a deletion stays gone; data older than promised is
  flagged; a revalidated response is the data it is tagged as.
- **Snapshots**: a replica that considers itself current is; all catch up.
- **Settings**: nothing older than the last invalidation is cached; stale
  reads end.
- **Gateway, limiter**: what passes the cap is accounted for; the shared counter
  admits at most two windows' worth, and it ends.
- **Request context**: answers and audit rows belong to the request they name,
  whichever thread made them.
- **Bulk readers, analysis**: a stream misses and repeats no more than changed
  under it; the streaming run reports what the in-memory one does; the views of
  one state add up.
- **Active learning**: duplicates and spend are bounded per life of a worker.
- **Start-up**: the recorded revision never claims what the database lacks; an
  operator's value is never seeded over; every process ends up serving.

## 2. Modules

| Module | Models | Composes |
|---|---|---|
| `OutboxSpec` | what the outbox promises: accepted, handed over, settled | |
| `Outbox` | rows, sessions, relayers, operator and reaper statements | implements `OutboxSpec` (`Promise`) |
| `OutboxKafka` | the Kafka publisher inside `drain_once` | extends `Outbox` |
| `SingleFlight` | one key of `SingleFlight.do` | |
| `ReadThrough` | `get_or_load`, `CachedTranscriptRepository`, Redis and local LRUs in front of one row | extends `SingleFlight` and implements it |
| `CircuitBreaker` | a breaker and its concurrent callers | |
| `RequestPipeline` | idempotency, adaptive throttle and backpressure around a handler | |
| `AdaptiveThrottle` | the latency window by itself, and whom it sheds | |
| `RateLimiter` | one bucket: the Redis counter and the local windows | |
| `LLMGateway` | `FrontierGateway.call()` in concurrent threads of a tenant | |
| `RequestContext` | tenant and forensic context over tasks and threads, the shared row cache | |
| `StateServing` | refresh loop, deletion, staleness and ETags of one process | |
| `Snapshot` | storage, replicas (reload and poll threads), writers, keys | |
| `RuntimeSettings` | settings table, caches of several processes, `set`, listener | |
| `Bootstrap` | migrations, `create_all`, seedings and the password of processes that start | |
| `SearchIndex` | local or OpenSearch index, cached hits | |
| `MeetingStream` | table under imports and deletions, paged readers, the export quota | |
| `Insights`, `Validation` | the in-memory analysis, its views, and the audits of `validate.py`, as operators | `Validation` extends `Insights` |
| `StreamingAnalysis` | aggregates folded page by page | `MeetingStream` with `Validation` |
| `ActiveLearning` | workers of the labeling loop | |
| `OutboxProofs` | theorems about the outbox, with any publisher and with Kafka | extends `OutboxKafka` |
| `CacheProofs` | theorems about flights and the read-through cache | extends `ReadThrough` |
| `GuardProofs` | theorems about the breaker, the gateway and the limiter | extends the three |
| `RequestProofs` | theorems about the pipeline and the request context | extends both |
| `StateProofs` | theorems about the settings, the served state and the start-up | extends the three |
| `SnapshotProofs` | a theorem about the snapshots | extends `Snapshot` |
| `InsightProofs` | lemmas: sums over finite sets, what an aggregate holds, why the views add up | extends `StreamingAnalysis` |
| `DataProofs` | theorems about search, active learning, the bulk readers, the streaming analysis and the views | extends `SearchIndex`, `ActiveLearning`, `InsightProofs` |
| `MCServices`, `MCDataPlane` | instances of the components that serve requests, and of those around the data, one at a time | see section 3 |
| other `MC*` | instances for TLC: symmetry, assignments | the module they are named after |

### How state and actions correspond to the code

**Outbox.** `row[e]` is the life of an event's row; `todo`, `marked`, `bumped`
and `read` are what a relayer's ORM session holds. SQLAlchemy writes only
changed columns at commit, with the values the session computed, so
`CommitBatch` overwrites `attempts` with `read + 1` for bumped rows and sets
`processed` for marked rows, whatever the table holds by then. One action per
SELECT, loop iteration and commit: between any two of them other relayers,
`ReplayStuckRows` and `PruneProcessed` run. `Crash` stands for process death and
for a commit that raises; both roll the session back. A publish that raises may
have been stored all the same. `createdAt` is taken at the INSERT, so the
transaction order may differ from it.

**OutboxKafka.** `Produce` is `publish()` up to `flush()`; the brokers may store
a message at any time; delivery reports are served only inside `flush()`,
whatever message they are about, and set the shared `_delivery_failure`.
`FlushMayTimeOut` says whether `flush(10.0)` may end before the library gives a
message up: it may with the defaults (`delivery.timeout.ms` is 30 s).

**SingleFlight / ReadThrough.** A flight is named after its leader. Cancelling a
waiter cancels the future it awaits (`await future` is not shielded), which
turns the leader's `set_result` into `InvalidStateError` and cancels the other
waiters: states `collateral` and `invalid_state`. On the event loop a cache
lookup and the `do()` after it are one step, as no `await` that suspends is in
between. Every call of Redis may fail on its own; the process then uses its own
LRU. `Entry.early` remembers whether a cached meeting was stored before the
row's deletion.

**CircuitBreaker.** Each critical section under the breaker's lock is one step;
the wrapped call is the time between two of them. `Cancel` is the probe's
`asyncio.wait_for` deadline.

**RequestPipeline, AdaptiveThrottle.** Starlette runs the middleware added last
first; the model follows the resulting order (idempotency, throttle,
backpressure, handler). Requests, keys and request hashes are model values. In
the pipeline the throttle's decision is a choice; `AdaptiveThrottle` is the
window that makes it: the samples of the last requests, each over the objective
or not, appended when a request that was let through ends.

**RateLimiter.** `hits` and `ttl` are the key in Redis, `creator` the replicas
between an INCR that returned 1 and EXPIRE, where they may die or time out;
`bucket` is the sliding window a process falls back to. Time is a clock of
`Window` ticks. The history variable `admitted[i]` is how long ago the i-th last
admission of the shared counter was, with `Window` for longer or never.

**LLMGateway.** `gate[w]` is where a thread is in `call()`: budget check, look-up
of the reply, provider, charge. `spent` is the Redis counter of the day, which
starts again at midnight with calls under way. A check without counter fails
open, a failing charge is dropped: both are counted by history variables, which
the property needs to say how far the spend may pass the cap. Money is counted
in answers of one price.

**RequestContext.** A request has its task, on which middleware and async
dependencies set the context variables; the handler gets a thread of the pool and
a copy of them. The code that sets and resets them, the reading of a row through
the shared cache and the audit row of a settings update are actions of their own,
so threads are reused and requests overlap in every order.

**StateServing.** A state is the number of changes its build read. Builds are
split into start, read and install under the lock; `refresh` is the loop,
`erasure` the `reload()` of a deletion. `age`, `nap` and `failing` are what
`is_stale()` and the loop look at. A client's request reads the state for its
body and again for its tag.

**Snapshot.** Data is the version of the source it was built from; a checksum is
the number of the write. `read_snapshot()` reads the manifest a second time, so
a reload has two checksum registers. Any read may fail; a manifest signed with
another key, or not signed, is refused (`Refuse`, `Trusts`). A writer's reload is
the same `reload()` as a replica's, including its preference for an existing
snapshot.

**RuntimeSettings.** The table's content is the number of committed `set()`.
`get()` is split where another thread can come in: first check without the
lock, second check and SELECT and install in the lock, and the look at `_cache`
after it, again without the lock.

**Bootstrap.** `schema` is the set of tables and later columns, `ledger` the
recorded revision, `rows[k]` who wrote a row last. A migrating container reads
the revision and upgrades in one transaction; every process then looks which
tables exist and creates the rest, looks for settings and inserts the missing
ones, looks for the password and inserts it, once in the import of its module and
once in the lifespan. A statement that fails on what another process did in
between ends the process, and the supervisor starts it again.

**SearchIndex.** The indexer writes document and postings, then drops the cached
hits; a query looks up ids, renders documents and fills the cache, with the
indexer between the steps. With OpenSearch a write becomes visible at the next
refresh, and any call may fail.

**MeetingStream, StreamingAnalysis, Insights, Validation.** Ids are numbers in
the order of `ORDER BY`; a page is the rows at an offset of the table as it is by
then. `shifts[r]` counts the rows deleted and inserted under a stream,
`delivered[r]` how often each row came; `Repeated` is the deliveries of a row after
its first. The analysis is operators over a set of
meetings (`Insights`) and over a page (`FoldBatch`), translated from the
in-memory and the streaming code separately; their equality is a property. A
meeting is the set of rules and keywords its texts match; an average is a pair
of sum and count.

**ActiveLearning.** `next`, `processed` and `account` are a worker's and die with
it; `examples` is the table. The judge may raise before or after it was paid,
an append may raise though the row is stored.

## 3. Runs

| Run | Instance | Shows |
|---|---|---|
| `OutboxProgress` | 2 events, 2 relayers, batch 1, 1 attempt | under fairness `EveryRowSettles`, `SettledOrVisiblyStuck` |
| `OutboxKafka` | 2 events, 2 relayers, batch 2, 2 attempts, reliable timeouts | `ReportsAreOwn`, `NoLostEvent`, `NoPhantomEvent`, `PoisonReallyFailed`, `MarkIsFinal`, `ImplementsPromise` with the Kafka publisher |
| `OutboxKafkaDefaults` | 1 event, default timeouts | **violated**: `NoEventLostForGood` |
| `ReadThrough` | 3 callers (1 cancellable), 1 reader, failing Redis | `OneLoader`, `OutcomesAreReal`, `NoEarlyTombstone`, `EveryWaiterResumes`, `CacheConverges` |
| `Snapshot` | 1 replica, 2 mortal writers, one without the key, 2 versions, 2 writes | `NotStuckStale`, `ReplicasCatchUp` |
| `SnapshotDeletion` | 1 replica, 1 writer | **violated**: `ReloadShowsDeletion` |
| `Services` | eight components, see below | 16 properties |
| `BreakerDeadline` | 1 caller with a deadline | **violated**: `TripsWhenSick` |
| `PipelineConcurrentRetry` | 4 requests, 2 keys | **violated**: `HandlerRunsOnce` |
| `SettingsDefault` | 1 change | **violated**: `GetReturnsStored` |
| `DataPlane` | four components, see below | 9 properties |
| `Migration` | 2 processes, nobody stops or downgrades | **violated**: `MigratedBootsServe` |

`Services` and `DataPlane` check components that share no state: a behaviour
chooses one (`focus`) and leaves the others' variables alone, so the
states are the sum of theirs, not the product.

| Part | Instance | Properties |
|---|---|---|
| `Services`: breaker | 4 callers, threshold 3 | `CountMatchesState`, `TripsWhenFailing`, `ClosesWhenHealthy` |
| gateway | 2 threads, 2 prompts, cap 2, 1 lapse | `OverspendIsAccountedFor` |
| limiter | 2 replicas, limit 2, window 2 | `SharedLimitHolds`, `CounterEnds` |
| pipeline | 4 requests, 2 keys, 2 intents, cap 2, Redis flapping | `InflightExact`, `RepliesAreReal`, `AnsweredIsRemembered` |
| settings | 2 processes, 2 readers of one cache, 2 changes | `NothingOlderThanInvalidate`, `StaleReadsEnd` |
| serving | 1 client, 3 changes, interval 1 | `ErasedStaysGone`, `OldDataIsFlagged`, `RevalidationIsHonest` |
| throttle | 2 visitors, window 6 | `SheddingEnds` |
| context | 2 tasks, 2 threads, 1 tenant and none, 2 addresses | `ContextIsOwn` |
| `DataPlane`: search | 2 meetings, 2 tokens, 3 writes, 1 searcher | `PostingsHaveDocuments`, `SearchConverges` |
| analysis | 3 meetings, pages of 1 or 2, 1 exporter, 1 analyst, 2 writes | `DriftIsBounded`, `StreamingMatchesInMemory`, `ViewsAddUp` |
| learning | 2 workers, 4 records with repetitions, budget 2, 1 fault | `EachLifeIsAccountedFor` |
| boot | 2 processes, each migrating or not, 2 settings and the password, 1 stop, 1 downgrade | `LedgerHolds`, `SeedsNeverOverwrite`, `EveryProcessServes` |

**Bounds.** The hazards are races of two parties over one row, key, file or
cache; the instances have one party more than the race needs, or a second row
for what concerns order and batches. Two events and two relayers give
overlapping batches, overtaking, a stuck row in front of another and counters
overwritten by a second session; batch size 1 makes starvation by stuck rows
happen, batch size 2 a commit of several rows. Two attempts distinguish a first
failure from a last one. Four callers and threshold 3 let a count pass the
threshold with calls in flight. Two writers of one payload each give every order of four
renames. A limit and a window of 2 let two fixed windows meet in one sliding
window; a throttle window of 6 tolerates one slow request in its p95, as do all
windows from 2 to 20, and takes five healthy ones to recover. Three meetings and pages of 1 and 2 put a page
boundary before, inside and after a deletion; the three contents are a meeting
that matches several rules, one without sentences, and one of a customer whose
name is empty. Three changes of the source include one that leaves the metadata
as they were. Two processes give every race of start-up, and each choice of
those that migrate is an initial state. `failures`, `hits`, `age` and
the attempt counters saturate at what they are compared with;
`MaxVersion`, `MaxWrites`, `MaxChanges`, `MaxPuts`, `MaxIndexings`, `MaxLapses`,
`MaxFaults`, `MaxStops` and `MaxDowngrades` end changes and faults, which the
liveness properties want anyway. Symmetry is used in `OutboxKafka` only, which has
no liveness property: values that no definition tells apart.

**Deadlock.** All passing runs say `CHECK_DEADLOCK FALSE`: their instances may
stop, when all events are settled, all requests answered, every caller has made
its one call, or the bounds on changes are used up. That nobody waits
for ever where somebody should go on is stated by the liveness properties.

**Fairness.** *Outbox*: weak fairness of each relayer's loop, which
`run_forever` never leaves; that crashes and replays stop (`Calm`) and that the DLQ answers now and
then (`DLQAnswers`, strong fairness) are premises of the properties and not part of the specification.
*Breaker*: time passes, calls end, turned-away callers come back (the kubelet
polls). *ReadThrough*: loaders read and end, the event loop resumes runnable
tasks, entries have a TTL; reader threads may stop anywhere. *Snapshot*: threads
go on, the poll wakes up, writers finish or die, and a payload that matches its
manifest can be read now and then (strong fairness of `PollReads`); nothing
obliges a job or a refresh to run. *Settings*: time passes and a thread in
`get()` goes on; nothing is assumed of operators, notifications or the listener.
*Limiter*: time passes, and who created a counter sets its expiry, fails or
dies. *Throttle*: requests keep coming and handlers end; a request that would
be shed is let through now and then, as the code draws a random number for each.
*Search*: OpenSearch refreshes, an indexer that wrote goes on to invalidate,
entries have a TTL, queries end. *Boot*: a process that is down is started again
and one that starts goes on; nothing obliges an operator. *Pipeline, gateway,
serving, context, analysis, learning*: safety only, no fairness.

Every property of a passing run has a mutant: a definition next to the one it
replaces, commented `Mutant:`, with a plausible bug under which TLC finds the
property violated.

## 4. What the violated runs show

1. `OutboxKafkaDefaults`: `flush(10.0)` returns with the message still queued
   (`delivery.timeout.ms` is 30 s), `publish()` sees no failure, the row is
   marked; a crash or a later delivery failure loses the event.
2. `BreakerDeadline`: a probe cut off by `wait_for` raises `CancelledError`,
   which `except Exception` does not see. A database that hangs never opens the
   breaker.
3. `PipelineConcurrentRetry`: nothing reserves an idempotency key while its
   first request is in the handler.
4. `SnapshotDeletion`: the reload after a GDPR deletion loads the shared
   snapshot, which still holds the deleted data.
5. `SettingsDefault`: an invalidation between the freshness check and the look
   at `_cache` makes `get()` return the code's default.
6. `Migration`: a process that does not migrate reaches an empty database first
   and `create_all()` makes its tables; revision 0001 then fails on them at every
   start of the container that migrates. `EveryProcessServes` states what remains
   true, with this case excepted (`Adopted`).

## 5. Proofs

Proved by TLAPS for every value of the constants that satisfies the named
assumptions (`OutboxAssumption`, `BreakerAssumption`, ... : bounds are positive,
sets of events and threads finite, names that must differ do):

| Theorem | Module | States |
|---|---|---|
| `OutboxInvariant` | `OutboxProofs` | `[]OutboxInv` |
| `TypeCorrect`, `NothingIsLost`, `NothingIsInvented`, `PoisonIsEarned` | `OutboxProofs` | `[]TypeOK`, `[]NoLostEvent`, `[]NoPhantomEvent`, `[]PoisonReallyFailed` |
| `MarksAreFinal` | `OutboxProofs` | `MarkIsFinal` |
| `OutboxKeepsPromise` | `OutboxProofs` | `Outbox` implements `OutboxSpec` |
| `KafkaInvariant`, `KafkaInventsNothing`, `KafkaPoisonIsEarned`, `KafkaMarksAreFinal` | `OutboxProofs` | `[]KafkaInv`, `[]NoPhantomEvent`, `[]PoisonReallyFailed`, `MarkIsFinal` with the Kafka publisher, whatever its timeouts |
| `FailuresAreOwn`, `KafkaLosesNothing`, `KafkaKeepsPromise` | `OutboxProofs` | if `~FlushMayTimeOut`: `[]ReportsAreOwn`, `[]NoLostEvent`, and `OutboxKafka` implements `OutboxSpec` |
| `OneLoadAtATime`, `OutcomesAlwaysReal` | `CacheProofs` | `[](TypeOK /\ OneLoader)`, `[]OutcomesAreReal` of `SingleFlight` |
| `FlightsBehindTheCache` | `CacheProofs` | `ReadThrough` implements `SingleFlight` |
| `OneLoadBehindTheCache`, `OutcomesBehindTheCache` | `CacheProofs` | `[]OneLoader`, `[]OutcomesAreReal` of `ReadThrough` |
| `NoTombstoneFromBefore` | `CacheProofs` | `[]NoEarlyTombstone` |
| `CountAlwaysMatchesState` | `GuardProofs` | `[](TypeOK /\ CountMatchesState)` |
| `OverspendIsBounded` | `GuardProofs` | `OverspendIsAccountedFor`, with types |
| `LimitIsShared` | `GuardProofs` | `[]SharedLimitHolds` |
| `PipelineInvariant`, `SlotsAreExact`, `RepliesAreGenuine` | `RequestProofs` | `[]PipelineInv`, `[]InflightExact`, `[]RepliesAreReal` |
| `AnswersAreRemembered` | `RequestProofs` | `AnsweredIsRemembered` |
| `ContextStaysOwn` | `RequestProofs` | `[]ContextIsOwn` |
| `NeverOlderThanInvalidate` | `StateProofs` | `NothingOlderThanInvalidate`, with types |
| `ServingInvariant`, `DeletedDataIsNotServed`, `StalenessIsReported` | `StateProofs` | `[]ServingInv`, `[]ErasedStaysGone`, `[]OldDataIsFlagged` |
| `RevalidationIsSound` | `StateProofs` | `RevalidationIsHonest` |
| `NeverStuckStale` | `SnapshotProofs` | `[](TypeOK /\ NotStuckStale)` |
| `LedgerAlwaysHolds`, `SeedingNeverOverwrites` | `StateProofs` | `[]LedgerHolds`, `SeedsNeverOverwrite` |
| `PostingsStayBacked` | `DataProofs` | `[]PostingsHaveDocuments` |
| `LivesAreAccountedFor` | `DataProofs` | `[]EachLifeIsAccountedFor` |
| `DriftInvariant`, `DriftStaysBounded` | `DataProofs` | `[]DriftInv`, `[]DriftIsBounded` |
| `CalmStreamsAreExact`, `EachDeliveryIsCounted` | `DataProofs` | `[]EachRowOnce`, `[]CountersCountDeliveries` |
| `TotalsStayClose` | `DataProofs` | `[]TotalsAreOffByWrites` |
| `StreamingIsInMemory` | `DataProofs` | `[]StreamingMatchesInMemory` |
| `ViewsAlwaysAddUp` | `DataProofs` | `[]ViewsAddUp` |

The last column names what a run checks, but for the inductive invariants
(`...Inv`) and for `EachRowOnce`, `CountersCountDeliveries` and
`TotalsAreOffByWrites`, which are stated in `DataProofs`. The specifications of the theorems have the `Init` and `Next` of the
runs and no fairness.

*Outbox.* `NoLostEvent` is not inductive: a commit settles what the session has
marked, and nothing in `NoLostEvent` says the session marked only what was
handed over. `OutboxInv` adds `SessionInv` (a session holds only committed rows
that are not pruned, marks only handed-over ones, and is empty outside a drain)
and `CountInv` (every attempt count, in the table or in a session, is at most the
number of publishes that failed). The second is what makes `PoisonReallyFailed`
go through: counters may be lost, overwritten or zeroed, never inflated.
`OutboxProofs` has one lemma per group of actions, one step per action, and
derives the refinement from the invariant: each step of the outbox is a step of
the promise or a stutter.

*Kafka.* A return of `publish()` is the outbox's publish that was stored, a raise
the one that failed, stored or not; the other steps are those of `Outbox`, so
the lemmas on them carry over, and those on the batch loop are stated for any
publisher (`RowHandled`). What is marked was acknowledged only if reports cannot be
late. So `OutboxInv` is split: `TableInv` with `WaitInv` (publish() waits for the
row the loop is at, and a producer queues committed rows only) is inductive
whatever `flush()` does; `HandedInv` with `AckInv` (the message publish() waits for
is queued, stored or reported as failed) only if `~FlushMayTimeOut`. With the
default timeouts it is not, as `OutboxKafkaDefaults` shows.

*Flights.* `OneLoader` is inductive with `TypeOK`. For the outcomes, `FlightInv`
adds `Fresh` (a caller that has not begun has no future and waits for
nobody; who leads waits for nobody) and `CancelledBySomeone` (a cancelled future
has a cancelled waiter or leader): what a caller ends with is then the loader's,
or a cancellation that somebody asked for. `ReadThrough` inherits both through
`FlightsBehindTheCache`, a step-by-step refinement.

*Cache.* `TombstoneInv` says that without a fallback the local caches are empty,
that the row is gone once `delete()` has begun to invalidate, and that no entry
from before is left when it has returned.

*Snapshot.* `NotStuckStale` compares what a replica loaded with the manifest, but
a replica reads manifest, payload and manifest again at different moments. The
argument is that a manifest which is replaced never comes back: every write has a
checksum of its own and publishes it once (`Unpublished`). So a thread that finds
the manifest it read before knows that it was there all the time, and that the
payload it verified is the one named (`ReadsAgree`). `Stamping` is the case of a
`reload()` that runs between the poll's installing of a state and of its
checksum; `Loaded` is the property outside of it.

*Settings.* `NothingOlderThanInvalidate` needs `LockInv` (a reader is between
SELECT and install exactly while it has the lock), `SelectedInv` (what it is
about to install is not older than the last invalidation) and `FloorInv`. The
lemma `InvalidateKeepsInv` is the heart: `_invalidate()` takes the same lock,
so no reader is between SELECT and install then.

*Gateway.* The counter and the calls that passed the check together stay below
the cap, plus one answer per thread and per blind check (`SpentInv`): a call that
passes the check raises the left side by one and found `spent` below the cap. The
provider is ahead of the counter by what is not charged yet (`PaidInv`).
`OneThreadMoves` says what a step of one thread does to the sizes of both sets.

*Limiter.* That two windows bound the admissions of any window's time is a fact
about ages. `AdmittedInv` says that some number n of the last admissions belong to
the counter of now, at most as many as it has counted: those before them are at
least as old as the time its expiry has been running, and the one `Limit` earlier
still is a window old. A counter that is given its expiry late only lives longer;
until then one of the counted hits is its creator's, who is not admitted yet.

*Pipeline.* `InflightExact` is one step per action over a finite set. For replies,
`StoresInv` and `RepliesInv` say of everything in both stores and in every reply
under way that it is `Genuine`: filed under the key and intent of the request that
made it, which was executed if it succeeded. `RememberedInv` says that an
undisturbed store still has what was answered.

*Context.* `TaskInv` and `ThreadInv` relate the context of a task, and the copy a
pooled thread has of it, to the request served there; `EntriesInv` says a tenant's
cached entry holds its own row or the absence of one. What a thread finds in the
shared cache is then its own tenant's, whoever put it there.

*Served state.* `BuildsInv`: builds exclude each other, and what one is about to
install was read no earlier than the last deletion that ended. `ClockInv`: while the
loop sleeps after a success, the age of the state and what is left of the nap stay
within the interval. `ClientInv`: a body no build overtook is that of the state
served, and a copy that was not torn carries the tag of its body.

*Search, learning.* `PostingsHaveDocuments` is inductive with types. For the
workers, `AccountInv` charges each example to a worker that remembers the record, a
death or an append that raised, and each verdict to an account or a death: what a
worker remembers and has booked dies with it and is made up for by one more life.

*Paged streams.* A finished stream is the end of an argument about open ones.
`Skipped(r)` is the rows in front of the offset that were there all the time and
were not delivered, `Surplus(r)` the repetitions made and those in store (rows
behind the offset that were delivered already). `DriftInv` bounds the first by
the deletions and the second by the insertions since the stream was opened. A
deletion lowers ranks by one at most, and one row alone has the rank of the offset
(`DeletionSkipsOne`); an insertion of n rows pushes at most n delivered rows
behind the offset, because no fewer rows have ranks below it than before
(`MoreRowsBeforeOffset`, `InsertionRepeatsFew`); a full page does neither
(`PageIsHandedOver`), and after a page that is not full nothing lies ahead
(`ShortPageIsLast`). All rest on ranks: `RanksAreOrdered`, `RanksAreFilled` (each
rank below the size of the table is taken, once) and `RanksFollowRows`.
If nothing was deleted or inserted the bounds are zero, so each row came exactly
once (`CalmStreamsAreExact`). `FoldInv` says that the counters of an aggregate are
the deliveries so far, by group (`PageAddsDeliveries`, `FoldAddsPage`), writes or
not; with `DriftInv` that bounds how wrong the totals of a disturbed run are
(`TotalsStayClose`).

*Sums.* Average, loads, churn and talk time are folds over sets, in an order that
`CHOOSE` picks. Induction over finite sets comes from the library's theorem that
strict inclusion is well founded below a finite set, used through its minimum: if
some subset were bad there would be a least bad one (`SmallestSubset`). With it
`InsightProofs` shows that the recursive function in a fold exists, is the only
one and restricts to subsets (`FoldExists`, `OneFold`, `FoldsRestrict`), that any
element may be taken out first (`SumTakesOut`), and then what the rest needs: sums
over disjoint sets add (`SumOfUnion`), a renaming keeps them (`SumMoves`), and groups
partition them (`SumByGroups`).

*Streaming and in-memory.* `Represents(a, S)` says of every field of an aggregate
what it holds of the meetings of S: counters are sizes, totals sums, and a list is
any order of the values of its meetings, as pages come in any order. Merging the
aggregates of two disjoint sets represents their union (`MergeRepresents`); a page
folded into an aggregate is the aggregate of the page merged into it (`FoldIsMerge`),
so the invariant of a run, `AnalystInv`, is kept by a page because an undisturbed
stream never delivers a row again. What `write_csv()` and the summary make of an
aggregate depends on no order, so an aggregate that represents S reports
`InMemory(S)` (`ReportIsInMemory`). The exceptions are part of the statement: a
customer with a null score, or without a name, is left out by the streaming side
(`Rated`). A page without sentences raises; the audits exclude it
(`AuditsFindNothing`).

*Views.* `ViewsOf(S)` holds for every set S of meetings, so its invariance needs only
that a reader has seen one. Breakdowns partition S by a function of the meeting
(call type, purpose, week and call type, cluster, customer), so their counts are
`SumByGroups`; owners' columns need that call types are three. Rows of a view are as
many as what they are made of only where rows can be told apart (`RowsAreAsMany`).
For `SharesAreBounded`, a bound on fractions that survives addition (`Between`,
`BoundsAdd`) goes from labels (-1, 0 or 1) to buckets, to the drops between them (a
least one exists: `LeastExists`), to their mean, and with gap and churn to the
weighted risk. Its condition is that scores are at least 1 on average and
the weights natural numbers with a sum of at most ten tenths (`WeightsAreShares`),
as the defaults are; an operator may set others, and then nothing is claimed.

*Start-up.* `LedgerInv` is the range of `ledger` and `LedgerHolds`; an upgrade
commits tables and revision together, and `create_all()` only adds
(`AppliedSteps` says which tables revisions stand for). That seeding keeps an
operator's row follows step by step: an INSERT of a row that exists fails.

Every safety and action property of a passing run is a theorem. Only model-checked
are the twelve liveness properties (`EveryRowSettles`, `SettledOrVisiblyStuck`,
`TripsWhenFailing`, `ClosesWhenHealthy`, `CounterEnds`, `StaleReadsEnd`,
`SheddingEnds`, `EveryWaiterResumes`, `CacheConverges`, `ReplicasCatchUp`,
`SearchConverges`, `EveryProcessServes`), as fairness and `ENABLED` are outside the
prover's reach, and the violated runs. The type invariants of the modules are
definitions for the reader and for proofs; no run of `PROJECT.json` has them as an
invariant. No module declares a recursive operator.

## 6. Not modelled, and why

- The checks of passwords, API keys, tokens, one-time codes and CSRF headers:
  cryptographic and textual, without interaction. What they store are runtime
  settings; which request a context belongs to is in `RequestContext`.
- PII redaction (regular expressions), clustering and charts (numerics, drawing),
  the notebook, training and evaluation scripts, `build_docs.py`, the data
  pipeline's batch jobs: sequential programs over files, or over services that are
  not in the repository.
- Response models, headers, metrics, logging, deployment manifests and the
  dashboard: formatting and configuration.
- Within modelled components: message encoding and `close()` of the Kafka
  publisher, a DLQ publisher that is itself a `KafkaPublisher` with a timeout;
  LRU eviction; bypass paths of the middlewares and their stateless
  neighbours; tokenising, scoring and highlighting of search; rounding, sorting
  and `head(n)` of the analysis; format versions of snapshots (all processes run
  one release); engine options and SQLite; setting values, their coercion and
  masking; the champion/challenger comparison of the active-learning loop.
- Two hazards have no property, as both concern a consumer the repository does
  not contain: a failed publish is overtaken by later events of its aggregate
  (`api/outbox_kafka.py:109`), and all deletions of a customer have sequence 0
  (`api/admin/gdpr.py:111`).

## 7. Plan

Done, in this order: `OutboxSpec`, `Outbox`, `OutboxProofs`, `OutboxKafka`,
`CircuitBreaker`, `RequestPipeline`, `SingleFlight`, `ReadThrough`, `Snapshot`,
`RuntimeSettings`; then `LLMGateway`, `RateLimiter`, `Bootstrap`, `SearchIndex`,
`MeetingStream`, `Insights`, `Validation`, `StreamingAnalysis`, `StateServing`,
`ActiveLearning`, `AdaptiveThrottle`, `RequestContext`, and the proofs about
gateway, start-up, snapshot, outcomes and tombstones.

After that the proofs of all safety and action properties of the runs, in this
order: the Kafka publisher, the limiter, the served state, the pipeline, the request
context, search, active learning, the bulk readers, the streaming analysis and the
views.

Next, proving more: an abstract specification of a cache in front of one row for
`ReadThrough` and `RuntimeSettings`; the safety part of the liveness arguments (an
open breaker lets one probe through at a time, a shedding throttle has slow
samples).

Next, extending the model: a consumer that dedupes on `(aggregate_id, sequence)`
and per-aggregate order behind `OutboxKafka`; several keys and eviction in
`ReadThrough`; the tier-2 switch of the gateway read from `RuntimeSettings`.
