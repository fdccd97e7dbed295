# A specification of FinFlow

FinFlow moves simulated and live stock ticks through Kafka into Cassandra and into a Medallion
lake (Bronze, Silver, Gold on MinIO), serves them through an API and a dashboard, and keeps a
small amount of personal data under GDPR rules. This directory specifies the parts of it that
run concurrently or can fail half-way, model-checks them with TLC and proves their invariants
with TLAPS. All paths below are those of the repository (`src/...`).

`PROJECT.json` lists every component, run, hazard, finding and theorem, and maps every definition
to the lines it stands for.

## 1. The system

    stock_producer, trade_simulator --FinFlowProducer--> Kafka (stock-ticks, trades, ...)
                                                          |        |
               cassandra_consumer <--FinFlowConsumer------+        +--> streaming_consumer (Spark)
                      |                                                      |
                  Cassandra tick_data <-- API <-- dashboard       bronze/stock-ticks-stream/
                                                                  bronze/stock-ticks/  <-- NiFi, BronzeWriter
                                                                         | dag_ingest_batch (hourly)
                                                                  silver/stock-ticks/
                                                                         | dag_transform_daily (00:00)
                                                                  gold/daily-summary/, dbt marts

    GDPRManager --> PostgreSQL (users, token_map, consent_records), audit/gdpr/ on MinIO

| Component (source) | State | Operations | What is hard | What makes it correct |
|---|---|---|---|---|
| Tick consumer (`ingestion/kafka/consumer.py`, `generation/cassandra_consumer.py`) | position, assignment, processed count, shutdown event; group offsets in Kafka, rows in Cassandra | consume, commit, stop, close | several processes in a group, rebalances, crashes, zombies, failing handlers and commits | no tick skipped, offsets never go back, redelivery bounded, a stop ends |
| Kafka producer, generators, supervisor (`ingestion/kafka/producer.py`, `generation/*.py`) | librdkafka's queue, delivery errors, thread states, shutdown event | publish, flush, close, fetch, signal, join | one client shared by threads, retries, a full queue, stopping while publishing | nothing lost in an orderly stop, no gap within a thread, the process exits |
| Medallion lake (`transformation/spark/*`, `orchestration/dags/dag_ingest_batch.py`, `dag_transform_daily.py`) | files per zone, active DAG runs and their retries | stream, land, wait, append, overwrite | two DAGs over the same files, retries of jobs whose output is not atomic | Gold counts only what Silver has, ticks arrive, tables are rebuilt |
| GDPR manager (`privacy/gdpr.py`, `storage/postgres/client.py`) | user, token and consent rows, audit entries | delete, consent, export, audit | concurrent requests, failing transactions, lost commit answers | erasure is all or nothing, the audit log tells the truth |
| MinIO client and its callers (`storage/minio/*`, `orchestration/dags/dag_ai_sentiment.py`, `dag_privacy_sweep.py`, `ai/sentiment_engine.py`) | bucket, objects, tasks and their retries, local copies | ensure, put, get, delete, exists, list; fetch, analyse, write, aggregate | two requests where one is meant, lost answers, retries of tasks and of requests, fallbacks | a call that returns took effect; a reported batch or log entry exists |
| dbt marts and Gold tables (`transformation/dbt/models/marts/finance/*`, `storage/minio/gold.py`, `silver.py`) | incremental table, DAG run | incremental run, tests, load; daily prices, averages, volatility | late ticks, duplicates, three implementations of one figure | the mart lacks late rows only; the implementations agree where they should |
| Kafka admin and start-up (`ingestion/kafka/admin.py`, `generation/main.py`, `synthetic_users.py`, `trade_simulator.py`) | topics, users in memory and in Kafka, trades | create, initialise, publish users, trade | partial failure, repeated and concurrent runs, publishing that only enqueues, a flush that gives up | initialising is idempotent, trades follow users |
| Atlas and NiFi clients (`governance/atlas_client.py`, `ingestion/nifi/nifi_api.py`) | availability decided once, token, process group | register, trigger | outages, stale tokens, lost answers, entries that refer to what nobody registered | a catalogue is complete where what it refers to is provided, a trigger that is reported happened |
| Cassandra client, tick store and API (`storage/cassandra/*`, `serving/api/main.py`) | cluster and session of each client, requests of the event loop of each worker | connect, prepare, query, close; price, history, portfolio, summary, health | sessions stored before they are usable, clients shared by threads, blocking handlers | a price is live when it can be, a session is usable, every request is answered |
| Dashboard (`serving/api/static/app.js`) | caches of the page | fetch, poll, select | answers out of order | the chart shows the selected ticker |
| PII engine, Ranger client, event schemas (`privacy/pii_engine.py`, `security/ranger_client.py`, `generation/schema/events.py`) | none | pure functions | boundaries, rules kept twice | agree with their reference definitions |

Components interact through Kafka (messages), MinIO (files), the databases (rows) and, inside a
process, through a `threading.Event` and a shared client. None of them calls another directly.

## 2. Modules

| Module | Models |
|---|---|
| `TickDelivery` | the promise of the stock-ticks group: at-least-once attempts, offsets that only advance over attempted ticks |
| `TickConsumer` | the group: consume loop, handler, commits, stop, close, crash, and the group protocol the loop relies on; refines `TickDelivery` |
| `TickProducer` | the producer threads of a generator, the client's queue, the main thread's shutdown, the supervisor |
| `Medallion` | the zones of the lake and the two DAGs over them |
| `GdprManager` | requests, their two transactions and their audit entries |
| `Dashboard` | the page's event loop: start-up, polls, selections and the answers to their fetches |
| `BlobStore` | the promise of the object store: a call that returns took effect while it was under way, one that raises may have |
| `ObjectStore` | `MinIOClient`, request by request, with its retries and lost requests; refines `BlobStore` |
| `NewsSentiment` | the tasks that write through `ObjectStore`, which it extends: news, privacy sweep, GDPR audit |
| `DailyMart` | Silver, the clock, and the daily DAG from dbt to Druid over an incremental mart |
| `GoldTable` | the Python, Spark and dbt computations of a day, its averages and its volatility, over an input that grows |
| `Bootstrap` | topic creation, and the generation service from its users to its trades, with the queues of its producers |
| `AtlasCatalog` | the Atlas client, its start-up catalogue and what that refers to |
| `NiFiClient` | the NiFi client in the first task of the hourly DAG |
| `CassandraClient` | the client's session and the tick store's query, for users with a client each or threads that share and close one |
| `Serving` | the API's worker processes, with an event loop each, over `CassandraClient`, which it extends |
| `TickPrices` | the prices of a tick, live or simulated, and what `TickEvent` accepts |
| `PrivacyRules` | detection and masking of personal data, access rules against the policy file |
| `MC...` | the instances of the runs; `MCStandalone` runs, in each behaviour, one of `Bootstrap`, `AtlasCatalog`, `NiFiClient`, `TickPrices`, `PrivacyRules` and `GoldTable`, which share no state |
| `...Proof` | the theorems: `TickConsumerProof`, `TickProducerProof` (with `TickPrices`), `MedallionProof` (with `GoldTable`), `GdprManagerProof` (with `PrivacyRules`), `DashboardProof`, `NewsSentimentProof` (with `ObjectStore` and `BlobStore`), `ServingProof` (with `CassandraClient` and `MCServing`), `OrchestrationProof` (`Bootstrap`, `AtlasCatalog`, `NiFiClient`, `DailyMart` and `MCStandalone`) |

A component that is run together with others has a specification of its own, which its theorems are about:
`BootSpec`, `AtlasSpec`, `NiFiSpec`, `PriceSpec`, `PrivacySpec`, `GoldSpec`, `MartSpec`, `ClientSpec` and
`ServingSpec`. A behaviour of `MCStandalone` changes the variables of one of them only, by the steps of that
specification: `PartsRunAlone` proves it, so that a theorem about a component holds in the composition too.
`ApiAndThreads` does the same for `MCServing`, which runs the requests or the threads.

The component modules keep mutants of their definitions (`Mutant of ...`) beside them: changes a bug
could make, one for every property of every passing run, which that run finds violated.

### TickConsumer

`pc[c]` is where the loop of a process is: `poll` (the `while` of `consumer.py:89`), `handle` (inside
`handler(msg)`), `commit` (line 109) and `final` (the `finally`, lines 119-125). `Poll`, `HandlerSucceeds`,
`HandlerFails`, `Commit`, `LeaveLoop` and `Close` are the statements of `consume`; `Start`, `StartFails`
and `Stop` are `run_consumer` and its monitor thread; `Crash` is the death of the process at any point.
`HandlerSwallows` selects between `_message_handler`, which catches its own exceptions
(`cassandra_consumer.py:73`), and any other handler, for which the loop's own `except` runs.
`position` and `assigned` are confluent_kafka's, `committed`, `members` and the fencing of commits are
the broker's. That part is external: `Rebalance` gives each member its partitions at the committed
offsets, `Expire` lets the coordinator give up on a process that does not know it and goes on as a
zombie. `commit()` without an argument commits the position of every assigned partition: this
is why a message whose handler raised is covered by a later commit.

### TickProducer

`tpc[t]` is the thread of a ticker (`_producer_loop`), `mpc` the main thread from the wait to the exit
(`stock_producer.py:145-164`), `status` the way of each tick through the client's queue. `Publish`,
`PublishRaises` and `PublishFull` are the three outcomes of `FinFlowProducer.publish` as its caller sees
them: enqueued, a `KafkaException` that `tenacity` retries twice, a `BufferError` that it does not
retry. `Served` is the set of delivery reports that `poll(0)` or `flush()` hand to the callback.
`main` calls `flush` and then `close`, which flushes again: `mpc = "flush"` and `mpc = "close"`.
With `Supervised`, `generation/main.py` runs the generator on a daemon thread and returns when its own
event is set (`SupervisorReturns`): the process ends where its threads are (`mpc = "killed"`). A process
that went through its own shutdown ends in `"exited"`; `Ended` is either. `late` is a
history variable: the ticks enqueued when `close()` had already returned.

### Medallion

`ingest` and `daily` are the active runs of the two DAGs (`max_active_runs=1`): their current task, the
retries used and what the job has read. A Spark job reads, writes, and then moves its files to their place one
by one: `MoveRows` moves some rows of those that are left, and `WriteSilver` ends the job when none is. In between
the daily job may read a part of an append (`ReadSilver`). `IngestDies` and `DailyDies` may happen at every
task: the one leaves what was moved, and perhaps objects that it was still writing, the other leaves any part of
its output. `ReadBronze` chooses one row of each dedup key, as `dropDuplicates` may. Of the stream only the existence of its files
is kept, since the wait of the hourly DAG is all that ever looks at them. `silver` counts the rows of a tick, up to
`MaxCopies`; `gold.rows` is what the Gold table was computed from.

### GdprManager

`call[c]` is the request a caller serves and the statement it is at. A transaction's writes appear at its
commit; `ErasureFails` and `ConsentFails` are an exception at any statement, the commit included, whose
effect may have been applied all the same. `Merged` is what SQLAlchemy flushes: the columns that
differ from what the session loaded. `WriteAuditLog` stores its entry or does not and returns in
both cases. Two history variables serve the properties: `held`, the flags that the consent row of a user
ever held, and `contended`, the users two of whose updates were under way at once (`Rivals`).

### Dashboard

JavaScript runs one coroutine at a time and leaves it at each `await fetch`. `waiting` holds what is
awaited, in the order in which it was asked for: each entry says who goes on (`init`, `poll`, `select`), with
which answer, and for which ticker. `Tick` is the callback of `setInterval`, `Select` the change handler,
which exists only after three awaits of `initApp` (`ready`); `Answer...` and `...Fail(s)` are the code between
two awaits. Answers come in any order. `chart` keeps of `historyCache` its ticker and its last candle,
the only one that is changed later, with the tickers that went into it. `overtaken` and `lost` record
whether an answer overtook an earlier request and whether a history failed.

### ObjectStore and NewsSentiment

`call[c].pc` is the request a caller's call is at: `check` (`bucket_exists`), `make` (`make_bucket`), `send` (the
operation), `answer` (its answer is on the way). `Fails` is `tenacity`'s decorator: `put_object` and `get_object`
begin again at their first request, `ensure_bucket` included, the other operations raise. `Lost` is a request, or an
answer, that the network loses. The refinement mapping `AbstractCall` forgets requests and attempts: to
`BlobStore` a call is pending until it returned or raised, `Served` is its `Effect` and a retry is invisible.
`task[j]` is the task that calls: `building` while `BronzeWriter`'s constructor ensures the bucket, `writing` while
it puts. `WorkerDies` drops the call where it is. `Together` chooses which clients are at work in one behaviour.

### DailyMart and GoldTable

`silver[t, d]` counts the rows of a ticker and a day, `mart[t, d]` what the mart's row was computed from, `late` is
the history variable of rows that arrived after their day was taken. `Selected` is the `WHERE` of the incremental
model and `DbtTest` the `unique` test of `schema.yml`, which a copy makes fail with all its retries. `GoldTable`
has the `input` of the computations for its state: the raw rows of a batch, the ticks of a day or the closes of a
series, one more at each step. An average is a numerator and a denominator, and a volatility is the set of returns it
is taken over, which is all in which the implementations can differ.

### Bootstrap, AtlasCatalog and NiFiClient

`admin[a]` goes through `Config` topic by topic; `CreateFails` may have created the topic, `RunAgain` is the operator's
second run. `gen` is the generation service: it makes the users (`pool`), publishes them one by one and then
trades. `publish()` only enqueues: `PublishUser` puts the event into `queue`, and `DeliverUser` takes one out of it at
any later moment. It is then in Kafka, or lost for ever when its topic is missing (`auto.create.topics.enable` is
false) or the brokers fail it: the callback only logs. `StartSimulator` is the `flush(15)` of `publish_users` that
returned with an empty queue. `FlushTimesOut` is the one that gave up: the number of messages it returns is
dropped, the trades begin all the same, and `givenUp` notes whose events were still queued. `DeliverTrade` is the
same for the simulator's own producer. `Dies` loses what is in the queues.

`Post` is `_post` for the next entry of the catalogue. Atlas refuses an entry that refers to what it does not have:
lineage to one of its `Ends`, a table or topic to one of its `Needs`, its `hive_db` and its classifications. Nothing
in the repository registers the databases or loads `config/atlas/classifications.json`, and that file has no
`INTERNAL`, which two of the three tables carry. `provided` is what somebody else has put there (`Provide`,
external), so that a run meets every case, from nothing to everything.

`task` of `NiFiClient` is `_trigger_nifi`: `health`, `list`, `start`, `status`, each a request of the client after `EnsureAuth`; `nifi.login`
counts the expiries of NiFi's tokens, so that a token is stale when it is of an earlier login.

### CassandraClient and Serving

`use[u].pc` is where a user of a client is: `out` (before the property `session`), `build`, `connect` and `keyspace`
(the three statements of `connect()` that can be told apart from outside), `ready` (holds the session that the
property returned, in `held`, whatever becomes of the client's own). A cluster is named by the user and the attempt
that built it, since `_cluster` and `_session` are overwritten by whoever comes last. The driver shuts a cluster
down whose control connection fails. One whose control connection was made (`setUp`) and whose session then fails
goes on running, the first time as later. `Close` is `close()`, which shuts down the cluster that is there by then and
leaves `_session` in place; `GoOn` is a thread that goes on after a statement, whatever came of it. The repository
shares no client between threads yet: it is what the class offers ("Thread-safe Cassandra session manager",
`client.py:20`), and threads that do are the second half of the run. `calm` says that Cassandra was up with its table
and lost nothing while the request was handled.
In `Serving` a request is `new`, `waiting` for the event loop of the worker that took its connection, `running` or
`done`. `uvicorn` starts two workers (`serving/Dockerfile:17`), so that two requests may be handled at once; the
handlers are coroutines without an `await`, so that `Begin` needs the loop of its own worker to be idle.

### TickPrices and PrivacyRules

`cached` is one ticker's entry of `_fallback_prices`, in parts of a cent as small as one likes (`Cent` of them);
`FetchAnswered` is a fetch of `_fetch_tick` that yfinance answers, whether `TickEvent` takes the tick or refuses it,
and `FetchFails` is the simulated one; `ended` is the exception that leaves `_producer_loop`. `Rounded` is
`round(price * (1 + change), 2)`, where half a cent goes up or down, as its float lies. A last price that is not a
number passes `price <= 0` and is cached (`NoNumber`); `Higher` and `Lower` are Python's `max` and `min`, in which such
a value loses or stays according to its place. Whether `TickEvent` takes a field that is not a number is left open.

`record` goes through `apply_to_record` with one strategy after another; a value is a pattern or the treatment
that made it. What masks show and who may see what are operators beside it.

## 3. Runs

`CHECK_DEADLOCK FALSE` stands where the processes end or the bounded inputs run out, and stopping is not an
error. The lake and the page never stop, and their runs check for deadlock.

| Run | Instance | Shows |
|---|---|---|
| `consumer_safety` | 2 processes, 2 partitions, 1 tick each, 2 starts each, 1 expiry; a handler that raises, commits that fail | `IInv`, `CommittedIsAttempted`, `OffsetsNeverGoBack`, and that the group implements `TickDelivery`, through crashes, restarts, rebalances and zombies |
| `consumer_live` | 2 processes, 1 partition, 3 ticks, 1 start each; the Cassandra handler, no commit of a member fails | a committed tick was processed, a crash repeats at most `commit_every` ticks, every tick is attempted while a process is up, and a stop ends the loop |
| `consumer_reprocessed_viol` | as `consumer_safety` with 1 partition, 2 ticks | finding 1 |
| `producer` | 2 threads, 2 ticks each, a queue of 2, timeouts, alone or under the supervisor | `ProducerInv`: what an orderly stop leaves behind was enqueued after it; threads leave no gaps, killed or not; a signal ends the process whatever threads and broker do. |
| `lake` | 4 ticks (two of one key, and one that shares its key with an invalid one), 3 and 2 retries, 1 fault | `LakeInv`; Silver is free of duplicates as long as there was one append; a valid tick reaches a complete Gold table; a partial Gold table is rebuilt. The daily job also reads Silver in the middle of an append |
| `gdpr` | 1 user, 2 callers, 3 requests | `GdprInv`: an erasure is all or nothing, and one without an error happened; `LoneConsentTruthful`: without overlapping updates, consent entries are true, through failures and lost commit answers. |
| `dashboard` | 2 tickers, 2 overlapping polls, 3 selections, prices 1..2 | `PageInv`, `OneTickerShown`: chart, candle and metrics are of one ticker while answers keep their order and histories arrive; `SettlesOnActive`: the page settles on the active ticker |
| `news` | 2 of: 2 news runs, a sweep, a GDPR audit, another user of the client; 3 attempts, 3 lost requests, 2 tries, 1 death | `NewsInv`; `RaceCostsOneAttempt`: the race for the bucket costs an upload one attempt; `ReportsTruthful`: what a task reports is stored, or lost by the network alone, and no batch is there twice while no worker dies; `KeepsPromise`: the client implements `BlobStore` |
| `marts` | 2 tickers, 3 days, 5 rows, 1 failed run | `MartInv`; `OnlyLateRowsMissing`: the mart lacks exactly the late rows; `CopiesStopTheDag`: rows that Silver holds twice end the run before Druid |
| `mart_incomplete_viol` | 2 tickers, 3 days, 2 rows | finding 2 |
| `standalone` | 2 admins, 3 topics, 2 users, 2 starts, 2 faults; Atlas with 2 clients and 2 outages; NiFi with 4 tries, 3 attempts and 5 faults; 4 fetches; every record of 5 fields; 3 rows or ticks, 6 days | `ControlInv`; `TopicsInitialized`: creation under failures and concurrent runs; `TradesFollowUsers`: a trade in Kafka is of a consenting user handed over before, whose event is there too unless something failed, a topic was missing or the flush gave up; `CatalogComplete`: a registration during which Atlas stayed up leaves all that rests on nothing missing; `TriggerTruthful`: a lost answer or a stale token never makes a task report a trigger that did not happen, nor spend more than one try. `PricesSound`: no tick closes elsewhere than the next is simulated from, and only a live price that falls to half a cent, or is not a number, ends a thread. `PrivacyRulesAgree`: what is scanned, changed and hidden in a record, however often it is treated, and that the access rules kept in the code cover the policy file. `ComputationsAgree`: which rows reach a table, where the three implementations agree and how they differ |
| `serving` | 2 requests with a client each, at one worker or at two, or 2 threads that share one client, go on after a failure and close it; 2 attempts, 2 ticks, 1 outage | `ServingInv`: what each handler has found out, whatever those of the other worker do; `SessionIsUsable`: whoever gets past the property `session` has one, whose cluster only `close()` shuts down, and in the keyspace if nobody else was on the client and `connect()` has not given up; `AnswersTruthful`: a price is live and recent when Cassandra is there, a healthy report was so; `ClustersLeft`: what each request leaves open; `EveryRequestAnswered` |

### Bounds

* `MaxOffset`, `MaxStarts`, `MaxExpiries`: what the consumer's properties are about needs one tick that is
  polled and not yet committed, a second owner and a zombie. Two processes, two starts of each and one
  expiry give all of these; `CommitEvery = 2` makes the commit lag behind the handler, and two ticks make it
  come. The runs trade ticks for partitions. The theorems have no bound.
* `MaxTicks`, `QueueMax`: two ticks of each of two threads overfill a queue of two; `QueueMax` of 10 in a run
  means that the queue is never full in it. The real one holds 100000 messages.
* `MaxFaults`: one failure that the data does not cause, at any task, next to the unbounded number of
  failures for missing data. The retries have the values of the DAGs (3 and 2). `MaxCopies = 2` tells one
  row from more.
* `MaxRequests`: three requests of two callers give every pair of concurrent requests and one after them.
  Users do not interact (every statement filters by `user_id`), so one user is enough.
* `MaxOverlap`, `MaxSelections`, `MaxPrice`: two polls overlap each other and a selection; three selections go
  to the other ticker, back, and away again; two prices tell a candle's close from its range. The theorems
  about the page have no such bound.
* `Together`, `MaxFaults`, `MaxDeaths` (news): a race for the bucket has two writers, and an upload gives up after
  three lost requests; with a fault more nothing new can happen to it.
* `LastDay`, `MaxRows` (marts): a tick is late when its day was taken at a midnight before; the third midnight shows
  that it never comes back.
* `MaxStarts`, `MaxOutages`, `MaxClients`, `MaxNiFiFaults` (standalone): a failed start and a second one; an outage before and
  one during a registration; one fault more than the tries of the task.
* `MaxFetches`, `MCFirstPrices`, `MCLivePrices`, `MCQuotes`, `MCMoves` (standalone): prices in 400ths of a cent, right below, at
  and above half a cent, a cent, a dollar and a price of a hundred, and one that is not a number; a quote that
  `TickEvent` refuses, small and large ones. Four fetches let a live price, refused or not, be followed by simulated
  ones. Of the random changes, -0.5%, -0.1%, none, 0.2% and 0.5%. The theorem has every price and change.
* `MaxTicks`, `MaxDays`, `Windows` (standalone): windows shorter than the real 7, 14 and 30 make the same three cases
  (fewer days than the window, as many, more). The theorem about the tables has no bound.
* `Workers` (serving): the two of the Dockerfile. Of two requests one is named `first`; a price and a health report, which
  share no state but the loop, are run at one worker, the price first.
* `MaxAttempts = 2` (serving) stands for the 10 of `connect()`: an attempt that fails after it stored its
  session, and one that follows it. One outage covers either a down time or one lost request.

Symmetry is used over processes, tickers (of the mart) and callers, in the runs without liveness
properties only, and no constant names a member of those sets.

### Fairness

* Consumer: a process that runs goes on running (`WF` of its loop) and polls every assigned partition that has
  messages (`SF` of each `Poll`: librdkafka serves partitions in turn); the coordinator completes a
  rebalance over the running processes in the end. Starts are not fair: the service
  `stock-producer` of `docker-compose.yml` has no restart policy and `run_consumer` does not try again. This is why
  `EveryTickAttempted` allows that no process is left.
* Producer: only the main thread is fair, since `flush(15)` and `join(timeout=5)` return by
  themselves. A thread may hang in its fetch and the broker may never answer.
* Lake: Airflow schedules both DAGs and runs the tasks of an active run. The producers of Bronze are
  not fair.
* GDPR: no liveness is claimed, since nobody retries a failed request.
* Serving: the event loop of each worker goes on with the request it runs and takes each waiting one in the end (`WF` of each
  request's handler, which tries to connect a bounded number of times). Cassandra may stay down.
* News, marts, standalone: no liveness is claimed, since a task that failed for good is not tried again.
* Dashboard: every request is answered or fails in the end, since the browser gives it up. Neither the timer
  nor the user is fair.

## 4. Findings

Two runs end in a counterexample: the code does not do what its own comment says. Each is in `PROJECT.json` with
the line it contradicts.

1. A message whose handler raises is not reprocessed, it is committed with the next one (`consumer.py:113-116`).
2. A tick that reaches Silver after the run that took its day never enters the mart (`daily_ohlcv.sql:16`, against
   "Only process data not yet in the target table", line 15).

Further disagreements were met while modelling. The models contain the behaviour, no run is about it.
In ingestion, the lake, personal data and the page:

* The stock producer flushes before it joins its threads: a thread that was fetching when the signal came enqueues
  its tick after the last flush (`stock_producer.py:158`, against "Stock producer stopped cleanly.", line 164).
  `LeftIsLate` says that only such ticks are left.
* Every hourly run appends all of Bronze to Silver again (`bronze_to_silver.py:169`, against the `unique` test of
  `schema.yml:13`).
* Two concurrent consent updates leave flags that neither asked for, and both are logged (`gdpr.py:162`). A failed
  deletion is logged as a deletion (`gdpr.py:113`).
* After a history that failed or was overtaken the page stays on the chart of another ticker (`app.js:155`).
* The Cassandra handler swallows failed inserts, so a committed tick may be in no table
  (`cassandra_consumer.py:73`, against "Offset commit after successful message processing", `consumer.py:8`).
* A producer thread ends on a full queue, on the third `KafkaException` or on an invalid tick
  (`stock_producer.py:110`, against "until shutdown", line 106).
* The supervisor exits without waiting for the generators (`generation/main.py:80`, against "All generators
  stopped.", line 82).
* The wait for new Bronze files ends on old ones (`dag_ingest_batch.py:72`, against "until new files appear",
  line 56).
* The streaming job writes a prefix that no job reads (`streaming_consumer.py:36`).
* A deletion whose audit entry could not be stored reports `audit_log_written` (`gdpr.py:127` and `205`).
* A ticker selected before the page has its first history changes the selector only (`app.js:49`).
* Consent is looked at in the list made at start-up: nothing leads from the consent records to it
  (`trade_simulator.py:112`).

In the stores, the marts and the analytics:

* The news task's fallback names `batch_id`, which is unbound when the client or the writer could not be built
  (`dag_ai_sentiment.py:71`); what it saves locally is never read by the aggregation, which reads
  `gold/daily_summary/`, written by nobody (`sentiment_aggregator.py`; the table is `gold/daily-summary/`).
* `compute_volatility` (`gold.py:103`) gives NaN for two closes, where its docstring says None; `volatility.sql` shows a
  volatility that is NULL as HIGH; the signal of `rolling_averages.sql` is given while the average it compares with is
  withheld.
* An event that Silver holds twice fails dbt's tests, and Druid is not loaded from then on.
* A simulated price under a dollar never moves, and a live price that half a percent brings down to half a cent ends
  the ticker's thread at the next simulated tick (`stock_producer.py:88`); so may one that is not a number, which
  passes `price <= 0` and stays cached until the next live one (line 58). `high_gte_low` never compares: fields are validated in order, and low comes after high
  (`events.py:38`).

In the control plane:

* `nifi_api.py:24` promises "All operations are idempotent and retry-safe": the three attempts of a start share one
  token, so that an expired one refuses them all; and a NiFi that is briefly down makes the task succeed without a
  trigger.
* Atlas is asked once whether it is there (`atlas_client.py:38`): a client built a moment too early registers nothing,
  silently. `register_hive_table` always returns None, `tag_with_classification` only searches and logs. The tables
  refer to a `hive_db` that nobody registers (line 110), two of them to a classification that
  `classifications.json` lacks (lines 197 and 199): with the repository's own configuration Atlas refuses all
  three, and the lineage that has them for its ends.
* The start-up drops the number of users that its flush left undelivered, and trades (`synthetic_users.py:83`).
* `CassandraClient` is called thread-safe (`client.py:20`): a thread may query before another has set the keyspace, a
  session without keyspace outlives a failed `connect()`, and `close()` leaves the session in place.
* Every request for a price leaves a Cassandra cluster open (`main.py:150`). `/health` speaks of "all platform
  components" (line 411) and does not look at Cassandra. The handlers block the event loop.

In the privacy rules:

* `_PHONE_RE` is never used, though the docstring names phone numbers (`pii_engine.py:26`). What the scan finds by value
  is not changed by `apply_to_record`, and an unknown strategy changes nothing. The sweep scans values only,
  though its comment says "Scan column names and sample values" (`dag_privacy_sweep.py:36`).
* A phone number of four digits and an e-mail address of four characters pass their masks whole.
* The policy on databases lets analysts read Gold only, while the role may read Silver; the engine masks
  `date_of_birth`, and for other roles, beyond the policies.

## 5. Theorems

All theorems hold for every value of the constants, under the named assumptions of the modules: bounds are
natural numbers and intervals, attempts and tries positive, flags are Booleans; `Valid` is a set of ticks; a task calls the
object store through a client of its own and each try has an object name of its own (`NewsConstants`, for the generated names);
each request of the API has its own client (`OwnClients`, for `TickStore()` in the handler); a cent has any
number of parts, fallback prices are a cent or more, live prices positive or not a number, a move is half a percent at most (`PriceConstants`); the prices of Gold and the windows are positive, volumes
natural, and the longest window has three days at least (`GoldConstants`; it is 30). Two theorems are about one kind of consumer and
say so: a handler that swallows (`HandlerSwallows`, which is `cassandra_consumer`'s) and commits that succeed
(`~CommitMayFail`).

| Module | Theorem | Says |
|---|---|---|
| `TickConsumerProof` | `Invariance` | `IInv` is an invariant |
| | `NoTickSkipped` | a committed offset covers attempted ticks only |
| | `OffsetsMonotone` | no step moves a committed offset back |
| | `Refinement` | the group implements `TickDelivery` |
| | `SwallowingProcessesAll` | with a handler that swallows, a committed offset covers processed ticks only |
| | `RedeliveryIsBounded` | with commits that succeed too, a crash repeats at most `commit_every` ticks |
| `TickProducerProof` | `ProducerInvariance` | `ProducerInv` is an invariant |
| | `OrderlyStop` | what an orderly stop without timeouts leaves in the queue came after it |
| | `NoTickSkippedByThread` | a thread enqueued all its ticks but the current one |
| | `PricesAreSound` | a tick closes where the next is simulated from, within its range if its fields are numbers; only a live price that is not a number, or that half a percent brings down to half a cent, ends a thread |
| `MedallionProof` | `LakeInvariance` | `LakeInv` is an invariant |
| | `GoldIsBackedBySilver` | Gold never counts a tick more often than Silver holds it |
| | `OneAppendDeduplicates` | after one append at most, killed half-way or not, Silver has one row of a key |
| | `TablesAgree` | of any list of rows the first valid one of each key is kept, and the Python, Spark and dbt tables of any day and any series agree, up to the named differences |
| `GdprManagerProof` | `GdprInvariance` | `GdprInv` is an invariant |
| | `LoneConsentIsTruthful` | without overlapping updates of a user, consent entries name flags that were in force |
| | `ErasureIsAtomic` | a user's name and tokens go together |
| | `PrivacyRulesHold` | scan, treatment, masks and policies agree on every record |
| `DashboardProof` | `PageInvariance` | `PageInv` is an invariant |
| | `PageShowsOneTicker` | while answers keep their order and histories arrive, the page mixes no tickers |
| | `CandleStaysSound` | the last candle keeps `low <= close <= high`, in any order of answers |
| `NewsSentimentProof` | `NewsInvariant` | `NewsInv` is an invariant |
| | `RaceIsCheap` | losing the race for the bucket costs an upload one attempt |
| | `ReportsAreTrue` | what a task reports is stored, and no batch twice while no worker dies |
| | `ClientKeepsPromise` | `MinIOClient` implements `BlobStore` |
| `ServingProof` | `SharedSessionsAreUsable` | when threads share clients and close them in any way: whoever gets past the property `session` holds one, its cluster runs unless its client was closed, and it is in the keyspace where nobody else was on the client and `connect()` has not given up |
| | `ServingInvariant` | `ServingInv` is an invariant |
| | `WhatIsAnsweredWasSo` | what a price and a health report say was so while they were handled |
| | `ClustersLeftAreBounded` | a price leaves one cluster per attempt at most, and one if nothing went wrong |
| | `ApiAndThreads` | `ServingInv`, `SessionIsUsable`, `ClustersLeft` and `AnswersTruthful` in the composition the run checks, threads on a shared client included |
| `OrchestrationProof` | `TopicsAreInitialized` | an initialisation that ends has all topics, each created for one caller |
| | `TradesComeAfterUsers` | however slowly events are delivered, a trade in Kafka is of a consenting user handed over before, whose event is queued still only if the flush gave up, and in Kafka too if nothing failed and no topic was missing |
| | `CatalogIsComplete` | a registration during which Atlas stayed up leaves every entry that rests on nothing missing; all are there only if every database and classification was provided |
| | `TriggerIsTruthful` | a reported trigger happened, and a failed task met a fault in each of its tries |
| | `MartInvariant` | `MartInv` is an invariant |
| | `OnlyLateRowsAreMissing` | the mart lacks exactly the rows that came after the run that took their day |
| | `CopiesStopEveryRun` | a run that starts on a Silver with copies loads nothing into Druid |
| | `PartsRunAlone` | every behaviour of `MCStandalone` is one of each of its components' specifications |
| | `ControlIsInvariant` | `ControlInv` is an invariant of `MCStandalone` |

**Consumer.** `CommittedIsAttempted` is not inductive: a commit publishes a position, so positions must
cover attempted ticks only, except the one in the handler's hands (`PolledIsAttempted`), and no
commit may happen while one is in hand (`InHand`). A commit must not undo another, so members own
disjoint partitions (`OneOwner`) and are never behind the group (`MembersAhead`); a zombie may be behind, but
only members commit. `WithinLog` gives the refinement that what is attempted was produced. `OffsetsMonotone` and
`Refinement` follow step by step from `IInv`: `Publish` maps to `Publish`, the handler's steps to
`Attempt`, an accepted commit to `Acknowledge` and all others to stuttering. `RedeliveryBounded` speaks of a crash, which may come
at any time; what is inductive is what the process counted. `UncommittedCounted` says that the ticks of a member between its committed offsets
and its positions are no more than `SinceCommit`, the count of its loop and the tick in its hands. A rebalance
forgets them (the new owner starts at the committed offset) and the count only lags behind.

**Producer.** `LeftIsLate` holds because a flush that did not time out ends on an empty queue, and later
only `Publish` adds to it, which records the tick in `late`. `NoGaps` needs `TickInHand`. `PricesSound` needs
`PriceInv`: a thread that goes on does so from a cent or more, from the live price that `TickEvent` just took, or from a live price that is not a number.
`RoundedIsNear` says that a rounded price is a nearest whole number of cents, whichever way a tie went, and `NearKeepsOrder` that
rounding keeps the order of two prices. So a simulated low and high are around open and close, and from a cent on no
change of half a percent leads below one.

**Lake.** `GoldFromSilver` needs `InputsFromLake`: what a job read long ago is still below Silver, since
Silver only grows. `OneAppendIsUnique` needs `AppendedOnce`: what the job in hand read has one row of each key, and before
the first append Silver is empty. While the job is moving its files, what it has still to move shares no key with what
it moved, so that any part of the first output is free of copies, wherever the job dies.

**Tables.** `ComputationsAgree` speaks of folds over lists and sets of any size, so it takes an induction; the library's
schemes take a predicate, which no installed prover instantiates, but a set of numbers can be given to a lemma. `SetInduction` is
that lemma, from the least element of a well-founded set. A fold of the community modules is a `CHOOSE` of a function that
satisfies a recursive equation: `FoldExists` proves that there is one (subset by subset, by cardinality), so that the chosen one
satisfies it. `SumTakesAny` then shows that a sum may take its elements in any order, and `SumsAgree` that the list
gold.py adds up from one end and the set of rows SQL adds up in an order of its own give the same total. For `SilverWriter`,
`KeptUpto` is the inductive claim about the first k rows: what is kept is the first valid row of each key, each at its
rank. The averages and volatilities need only what a window of days contains.

**GDPR.** `ErasedAsAWhole` needs `OpenErasure`: an open erasure has noted the anonymisation exactly when
there is a row, so that its commit clears both or finds neither.
`LoneConsentTruthful` needs `ConsentInv`: while a user has no rivals, an update that has loaded its record
still sees it as it is when it commits, so that the flags it will log are the ones it makes the record hold.
`PrivacyRulesAgree` needs `RecordInv`: a field is what it was until the first treatment, and treated from then on.

**Dashboard.** `OneTickerShown` is about answers, and what makes it hold is what was asked for before them.
`InOrder` says of the queue of requests that each latest price will find the chart of its own ticker, if the
histories before it are answered first, and that the next one asked for would find the active ticker's.
`AppendInOrder` and `AnswerInOrder` are the two facts about queues that keep it: one for sending, one for
answering the first request.

**Object store.** `RaceCostsOneAttempt` needs `AttemptsAccounted`: an upload's failed attempts are paid for by faults, except
one, and that one only when the bucket is there and the upload is past `make_bucket`; a bucket that is there stays. `AnswersAreServed` says that an
answer on its way is of a request that was served. Of the tasks, `TasksCall` ties a task to the call in its hands, `ToolsKeepToThemselves` keeps
other callers off its objects, and `StoredByLastTry` says that, while no worker dies, an object is of the current try: an earlier try whose
object was stored did not fail. `KeepsPromise` follows from `NewsInv` step by step: a call
maps to `Invoke`, the request that is served to `Effect`, the answer to `Return`, the last failure to `Raise`, leaving the call
behind (by the task, or by its worker's death) to `Leave`, and retries, races and lost requests to stuttering.

**Serving.** `SessionIsUsable` needs `ClientInv`: a client's session, and one that a user holds, is of a cluster of the same
client that had its control connection, and those run unless `close()` was called there. Of the keyspace `SessionOfOne` speaks: as
long as a user is alone on its client, a session outside `connect()` is in the keyspace, unless the last attempt stored a session
and failed after it. `Handling` is what a handler knows at each statement:
`Looking` for a price, with `CalmSoFar` for a request during which nothing failed (one cluster, built at the first attempt,
with its keyspace set), and `Checking` for a health report, where each service reported healthy was seen up. A step of one request keeps those of the others because
each has a client of its own, which no request closes, also when two workers handle them at once; threads that share one are
the theorem `SharedSessionsAreUsable`. In `ApiAndThreads` the threads
have a client apart, so that what they build, connect or overwrite belongs to no request (`ThreadsLeaveRequests`). That the newest
tick exists is an argument over a least element, which needs no induction scheme.

**Start-up, catalogue, trigger.** `TopicsInitialized` needs `ThroughWithEarlier`: a loop through `Config` has left each earlier
topic behind in Kafka, whoever created it. `TradesFollowUsers` needs `UsersHandedOver`: the users before `gen.next` were handed
over by this start, each is in the queue or in Kafka while nothing failed and no topic was missing, and from the first trade on
only a flush that gave up has left one queued. `HaveUsers` then says it of the users with a trade on its way, and of those with one
in Kafka. `CatalogComplete` needs `PostedIsThere`, for the entries that rest (through their ends) on nothing missing at
the start, and that lineage comes last in the catalogue. `TriggerTruthful` needs `TriesCostFaults`: each try before the current one met a fault, and the current one did
if its token is stale.

**Mart.** `OnlyLateRowsMissing` needs that no row is late beyond `MaxTradeDate`, the newest day of the mart: a day is taken as a
whole or was skipped for good.

**Composition.** `PartsRunAlone` rests on `OnePartMoves`: a step of `MCStandalone` is a step of one component and leaves the
variables of all others as they were. `ControlInv` is then the conjunction of three invariants proved of the components alone.

Left to TLC: liveness, which is out of the prover's reach. `EveryTickAttempted`, `StopEndsLoop`, `ShutdownExits`, `BronzeReachesGold`,
`GoldIsRebuilt`, `SettlesOnActive` and `EveryRequestAnswered` are checked under the fairness of section 3. Every other property that
a passing run checks is stated by a theorem.

No module uses a `RECURSIVE` operator.

## 6. Not modelled

* Random data: the amounts of trades, the users' names, and the API's history, market summary, portfolio and sentiment. The validation of trade and
  user events, which are built from values that pass it.
* GDPR managers without a PostgreSQL or MinIO client, which skip their steps. Step 3 of the docstring of
  `delete_user_data` (anonymise trade events) has no code. Row locks only delay other transactions.
* Operations that only read or that nothing calls: `delete_topic` and `describe_topic`, `stop_process_group`, the batch
  insert and the range query of `TickStore`, presigned URLs, `get_consent`.
* Generalization of ages and dates, encryption (Fernet, or base64 without the library) and tokens as values, and the row filter of Ranger.
* The two engines that racing threads may create in `storage/postgres/client.py:85`: both work.
* The hosted sentiment model: an answer, or the local engine. The scores of the local engine: no modelled code reads one, since the
  API labels a random number of its own.
* Spark's streaming offsets, Kafka's replication, Airflow's scheduler: external.
* Terraform, Docker and dashboards configuration: no state of the program.

## 7. Plan

Done: the components in the order of what is lost when they are wrong (ticks on the way in, ticks on the way out, the
lake, personal data, what a user sees), then the stores, the marts, the control plane and the API.

All safety properties that the runs check are proved, and the compositions keep them. Next:

1. the safety part of the liveness properties (what is still owed decreases), as step properties that can be proved;
2. lemmas that two proofs state for themselves (a record of one process moves and the others stay), in one place.
