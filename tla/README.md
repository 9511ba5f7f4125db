# A verification model of duckdb-cloudwatch

duckdb-cloudwatch is a DuckDB extension in C++. It reads CloudWatch Logs, Metrics, alarms and X-Ray
service maps into SQL tables, writes logs and metrics back, administers log groups, and can run a
local CloudWatch endpoint (`cloudwatch_serve`) that stores what it receives in DuckDB tables.

This directory holds TLA+ modules of that code, TLC configurations that check them on small
instances, and theorems with proofs that TLAPS checks for every value of the constants. Paths such
as `src/src/logs_table.cpp` are relative to the repository's parent, so `src/README.md` is the
repository's README. `PROJECT.json` lists, for every definition that models code, the lines it
models (`map`), and for every property a mutant of the code that breaks it (`mutants`).

Run a check with `tlc -config server.cfg MCCloudwatchServer`, and a proof with
`tlapm CloudwatchServerProofs.tla`.

## 1. Inventory

### The parts, their state and how they interact

| Component | Source | State | Operations |
|---|---|---|---|
| Listener, request handlers | `cloudwatch_server.cpp` 198-1105 | three tables (events, groups, metrics); per object a writer connection, `writer_mutex`, `event_counter`, two totals | `CreateLogGroup`, `DeleteLogGroup`, `CreateLogStream`, `PutRetentionPolicy`, `PutLogEvents`, `PutMetricData`, `Describe*`, `FilterLogEvents`, `GetMetricData` |
| Listener, registry and life cycle | `cloudwatch_server.cpp` 392-474, 1107-1309 | a map from canonical URI to object under one mutex; per object a socket, a listen thread with its pool | `cloudwatch_serve`, `cloudwatch_stop`, the constructor, `Close`, the destructor of the registry |
| HTTP client | `cloudwatch_client.cpp` | per client: credentials, a kept connection, `write_mutex`; per call: `attempt`, `refreshed_credentials` | `PostInternal` with one retry policy per operation |
| Logs Insights | `logs_insights.cpp` | per statement: query id, deadline, last status | start, poll, stop; a schema derived from the rows |
| Log reader | `logs_table.cpp` | per scan: `next_token`, `buffer`, `total_emitted`, `finished` | fetch a page, emit a chunk |
| Log sender | `send_logs.cpp`, planner in `cloudwatch_json.cpp` | per chunk: events, batches, result vector | plan, send batch by batch |
| Metric sender | `send_metrics.cpp` | per chunk: datums, offset, result vector | the same, with an estimated body size |
| Log-group administration | `log_group_admin.cpp` | none | four calls whose refusals become outcomes (`exists`, `absent`) |
| Metric reader | `metrics_table.cpp` | per scan: window, token, points | fetch, emit |
| Alarm reader | `alerts_table.cpp` | per scan: state index, token, seen alarms and tokens, buffer | two sweeps, by alarm state |
| Service dependencies | `service_dependencies.cpp` | per scan: window, services of all pages, then rows | load all pages, resolve references |
| Catalog and secrets | `cloudwatch_catalog.cpp`, `cloudwatch_secret.cpp` | schemas and tables fixed at `ATTACH`; DuckDB's secrets | discovery of log groups, lookup of a table, of a secret, of a region; every DDL and DML throws |
| Signing, entry point | `cloudwatch_signing.cpp`, `cloudwatch_extension.cpp` | none | hashing, registration |

Readers, senders, administration and Insights all go through the HTTP client, over HTTP, to either
AWS or a listener, possibly in the same process. DuckDB calls the table functions and scalar
functions from its own threads, may call one scalar function from several threads at a time, and
sets `context.interrupted` at any moment. A listener's handlers run on the threads of its HTTP pool
and share one writer connection; the tables they write are ordinary DuckDB tables that outlive the
listener.

### What is hard here, and what makes each part correct

* **Handlers that interleave.** The group table has no key: only `writer_mutex` keeps the check for
  a group together with its insertion. Event ids are taken before the lock. Correct: no group or
  stream is listed twice, no stream without its group, no event id twice within one object.
* **Handlers that fail or die between two statements.** Every statement but the append of a batch is
  an autocommit statement of its own. Correct: a batch is stored all or not at all, what was
  acknowledged is kept until its group is deleted, an acknowledged deletion is complete, and whatever
  a deletion leaves behind is explained by a failure.
* **Stopping while serving.** Correct: a listener's connection outlives its last handler, no listener
  is forgotten or handed out while it is being stopped, and statements end.
* **Lost and late answers.** Correct: a write that is not idempotent is carried out at most once, the
  number of requests is bounded across retries and a refresh of credentials, and a definite outcome
  is true. An administration statement, which is retried, still says what was true while it ran.
* **Clients that share a transport.** Correct: writes exclude one another and each gets its turn.
* **A query that runs elsewhere and is billed.** Correct: it is stopped when the statement gives up,
  partial rows are never returned, the statement ends.
* **Paging over something others write to.** Correct: nothing is skipped or repeated over what stands
  still, what concurrent writers can do is limited to what the paging makes unavoidable, and the
  reader ends. The readers differ in their tokens (an offset, a token of the service that may repeat)
  and in what a later page means for an earlier one (a second sweep, a reference).
* **Names and credentials looked up more than once.** A catalog is discovered with one secret and
  read with one looked up again. Correct: the same account, and the group whose spelling was asked for.
* **Limits that meet.** Batches of logs have three limits, one of them a difference of 64-bit
  timestamps; batches of metrics two; a scan has a page size, `max_rows` and DuckDB's vector size; a
  metric window goes through whole seconds and buckets.

`PROJECT.json` lists these hazards one by one, at the line where each bites, with the properties that
cover it, or the reason why none does.

## 2. Modules

| Module | Models | Specification |
|---|---|---|
| `CloudwatchServer`, `MCCloudwatchServer` | handlers of one or more listeners on the same tables | `Spec`, `MCSpec` |
| `CloudwatchServerProofs` | its theorems | |
| `ServerRegistry`, `MCServerRegistry` | registry, construction and closing of listeners | `Spec`, `FairSpec` |
| `ServerRegistryProofs` | its theorems | |
| `CloudwatchClient`, `MCCloudwatchClient` | `PostInternal` under concurrent calls | `Spec`, `MCSpec` |
| `RemoteCall` | what a caller may rely on: the abstract specification of a call | `Spec` |
| `CloudwatchClientProofs` | the client's theorems, the refinement among them | |
| `LogGroupAdmin`, `MCLogGroupAdmin` | administration statements over the client and a service | `Spec` |
| `LogGroupAdminProofs` | its theorem | |
| `LogsInsights` | `RunInsightsQuery` | `InsightsSpec`, `FairSpec` |
| `LogScan` | `read_cloudwatch_logs` over a listener's `FilterLogEvents`, with writers | `Spec` |
| `AlarmScan` | the table `alerts.open` over changing alarms | |
| `ServiceGraph` | `read_cloudwatch_service_dependencies` over a paged graph | |
| `CloudwatchCatalog` | `ATTACH`, its discovery, and statements on the attached catalog | |
| `CloudwatchReaders`, `MCCloudwatchReaders` | a statement that is one of these four | `ReadersSpec` |
| `CloudwatchReadersProofs` | the theorems of the four and of `LogsInsights`, the reader that polls | |
| `SendLogs`, `MCSendLogs` | `send_cloudwatch_logs` over one chunk | `Spec` |
| `SendLogsProofs` | its theorems | |
| `Selections` | what a loop that skips elements keeps of a sequence: shared by both senders, the metric store, the alarm reader, the service map and the catalog | |
| `SequenceLemmas` | lemmas the proofs of readers and senders share: least elements, induction over a set of naturals, ranks in an order and the sequence that lists a set by rank; selections, limited pages, the hand-over of a buffer, flattened sequences | |
| `MetricStore` | `PutMetricData` and `GetMetricData` as functions of a form body and the table | |
| `SendMetrics` | `send_cloudwatch_metrics` over one chunk | |
| `MetricScan` | `read_cloudwatch_metrics`, against the listener and against AWS | |
| `CloudwatchMetrics`, `MCCloudwatchMetrics` | sender, store and reader side by side | `MetricsSpec` |
| `CloudwatchMetricsProofs` | the theorems of both statements | |

Two compositions are products: `LogGroupAdmin` instantiates `CloudwatchClient` and runs its steps
together with the service's; `CloudwatchMetrics` extends the sender and the reader, which
share the table of one `MetricStore`.
The others meet at contracts: `SendLogs`, `SendMetrics` and `LogsInsights` take from `RemoteCall` that
a call ends and takes effect at most once; `LogScan` takes a writer's two steps (id, then row) from
`CloudwatchServer`; `CloudwatchServer` takes from `ServerRegistry` that a handler has its connection.

### CloudwatchServer

Variables: `groups`, `events`, `metrics` are the tables as sets of rows. A row carries the request
that inserted it, which stands for `created_ms` and lets properties speak of batches. Per object there
are `writer_mutex`, `event_counter`, `totals`, `auto_create` (the option `auto_create_groups`) and
`lifetime`, which counts the objects built before. Per pool thread there are `pc` (the statement it
executes next), the request it serves and the ids it has taken. `history` is an observer: the requests
in the order their handlers began, with the answer each was given.

One action per statement: `CheckGroup`, `InsertGroup`, `CheckStream`, `InsertStream`, `AppendRows`,
`DeleteGroups`, `DeleteEvents`, `UpdateRetention`, `AppendMetrics`, `Read`. The handlers share them,
because they share the code's `GroupExists`, `StreamExists` and `RunOrThrow`. `StatementFails` is the
exception any of them may throw; the append of a batch is one transaction and one step. `BuildRow`
runs before the lock, as the loop over `logEvents` does. `Restart` is a `Close` (which waits for the
handlers) and a new object on the same tables; `Crash` is the death of the process at any point: what
was committed stays, handlers and counters are gone.

A request that is refused while it is decoded changes nothing and is left out, except for a malformed
item of a batch, which is found after ids have been taken. `PutMetricData`'s appender is one flush;
what it stores and what `GetMetricData` makes of it is `MetricStore`.

### ServerRegistry

`servers` is the registry's map, `objects` every `CloudwatchServer` ever constructed with its options,
whether its listen thread accepts, whether its writer connection exists, and how many handlers run.
`mutex` is held by `cloudwatch_serve` from the lookup to the end of the constructor (`FindNone`,
`Construct` or `ConstructFails`, `Emplace`), and by `cloudwatch_stop` only for `Erase`; `Close` is
`StopListening`, then `Reset` once the handlers are gone. `EraseAll` is the destructor's `StopAll`,
which runs after the last statement. `ListenEnds` is a listen thread that ends by itself. The options
are of two kinds, those that both `valid` and the comparison in `Start` name, and `metrics_table_name`,
which neither does; `MCServerRegistry` has one of each.

### CloudwatchClient and RemoteCall

One element of `Call` per call of an API function, with the policy of its operation: `Write` takes
`write_mutex`, `Idempotent` retries after lost answers and 5xx, `LimitRetried` retries
`LimitExceededException`. `wire` is the set of requests on their way; a request may be executed,
refused or lost at any time, also after its sender has given up on it and sent another. `answer` is
what the transport holds for a waiting call, `executed` an observer of the service. `TransportFails`
covers failures before and after sending, whose difference the code's retry rule turns on.
`interrupted` is the DuckDB flag. The loop's wording is gone; its order of checks (success, expired
credentials, retryable status) is kept, including the refresh that does not count against `retries`.

`RemoteCall` has two variables, how often a call took effect and how it ended. A call that may not be
repeated takes effect once, never after it was reported as done or refused; success is only reported of
what took effect. `CloudwatchClient` implements it with its own `executed` and `outcome`
(`ImplementsRemoteCall`): `Execute` is `TakeEffect`, `End` is one of the endings, all else stutters.

### LogGroupAdmin

A statement checks its arguments, makes one call through `PostInternal` and turns the answer into a
word (`RunAdminCall`). The module instantiates `CloudwatchClient` with every call idempotent and none
sharing a mutex, and conjoins its `Execute` and `Refuse` with a service that has one group, one stream
and a retention setting, and answers a request that does not apply with the error code of the moment.
`error_body` is the code in the answer a statement reads next. The observer `seen` collects every state
of the service while a statement runs; `AnswersExplained` says of each word that it was true of one.

### LogsInsights

`RunInsightsQuery`: `Start`, `Poll`, `Decide`, `Stop`, `Sleep` against a service whose query advances
by itself, with an interrupt, a deadline and calls that fail with or without effect. A client call
begins by testing the interrupt flag, as `PostInternal` does.

### The readers

`LogScan` holds the listener's rows of one group, the scan's cursor and buffer, and writers that take
an id, store it later, delete all rows, or restart the listener. A page is one step, since the listener
reads it in one SELECT under its lock. `Orderings` is a set: rows that tie in the ORDER BY may come in
either order. Observers remember what the window held at the first page.

`AlarmScan` sweeps the account's alarms once for ALARM and once for INSUFFICIENT_DATA, de-duplicates
rows by ARN or by type and name, and remembers the tokens of a sweep. An alarm's position is its place
in the service's order, a token a position. Alarms change state between pages (`ChangeState`), and the
service may ignore the filter on states or name a token again. `AlarmsExact` says which alarms are
listed in spite of the moves: all but those that left ALARM and INSUFFICIENT_DATA or went from the
second to the first.

`ServiceGraph` fixes its window from one reading of the clock, loads every page, empty ones included,
and then resolves references by id, the last definition first, else the edge's first alias. The clock
moves on, so that a window computed anew for a later page would show. Rows leave in vectors.

`CloudwatchCatalog` is `ATTACH` (`Attach`, a turn of `DiscoverLogGroups` per page) with the choice of
secret and region (`FindAwsSecret`, `Region`), then `Select`: `LookupEntry` by exact, then by folded
name, and the credentials looked up again. Groups, secrets and `s3_region` change meanwhile.
`CatalogFaithful` grants the one lookup that is not pinned: the region, when neither the REGION option
nor the secret names one, is that of `s3_region` at each statement.

`CloudwatchReaders` puts the four next to each other behind `reader`, which says what the statement
reads. They share no state; the module states once that each of them ends.

### The senders and the metric reader

`SendLogs` turns rows into events, plans batches and sends them. `Sorted` is the sequence of the
events that `Precedes` orders, which is what a stable sort by time returns of rows read in order. The
planner's outer loop is a function of the offset it has reached (`PlanFrom`), over a toy `int64_t`
whose ends are in the instance. A batch may be accepted wholly, partly (`Kept` is the part) or with its
answer lost.

`SendMetrics` reads the rows (NULL readings, empty names, bad JSON, too many dimensions), splits the
datums by count and estimated bytes, flattens a request to the dotted keys of a form body, and sends one
after another; a caller that gives up leaves its request on the way. `MetricStore` decodes those keys as
the listener does, each list up to its first gap (`Members`), in one step under its lock, and answers
`GetMetricData` with one page of buckets. `MetricScan` computes its window in milliseconds, asks in
whole seconds, follows tokens and refuses answers it cannot use; its service is the listener or AWS,
whose pages are cut anywhere, with partial data and a last token that repeats. `CloudwatchMetrics` runs
both; its observer `cuts` has the lengths of the table between two requests, so that `ReadExact` can say
a read sees whole requests.

Some behaviour the modules make visible without a document that says otherwise: the listener ignores
`ScanBy`, so that with `order := 'desc'` and `max_rows` its rows are the oldest; terminal partial data
is refused only when no token comes with it; `service_name` together with an attribute `service.name`
is accepted by the sender and refused by the listener, whose MAP has each key once.

## 3. Runs

| Run | Instance | What it shows |
|---|---|---|
| `server` | 2 threads, 1 listener, every operation with well-formed, malformed and empty batches; 3 requests when all three change the log tables, else 2; failures anywhere, 1 restart or crash | `TypeOK`, `CatalogConsistent`, `UniqueEventIds`, `AllOrNothing`, `AcknowledgedKept`, `DeletedDiscarded`, `OrphansExplained`, `LockReleased` |
| `server_orphans` | a put and a delete | violation: `NoOrphans` |
| `registry` | 2 sessions, 3 statements, 2 keys (one with two spellings), 5 option structs, listen threads that die, destruction | `TypeOK`, `ListenersOwned`, `ClosedIsQuiet`, `ServedAsAsked`, `UrlListens`, `StatementsEnd` |
| `registry_options` | the same, 2 statements | violation: `DocumentedAccepted` |
| `client` | `PutLogEvents`, `StartQuery` and `CreateLogGroup`, one of each policy, 1 retry each | `TypeOK`, `RequestsBounded`, `AtMostOnce`, `OutcomeTruthful`, `WritesSerialized`, `ImplementsRemoteCall`, `CallsEnd` |
| `admin` | 2 statements, each any of the four functions, 1 retry each; symmetric statements | `AnswersExplained` |
| `insights` | one statement; unbounded polls | `InsightsTypeOK`, `AbandonedExplained`, `RowsComplete`, `StatementEnds` |
| `insights_interrupt` | the same | violation: `InterruptStops` |
| `readers` | logs: 4 events over 3 timestamps (one outside the window), pages of 2, vectors of 1, `max_rows` 0 and 3, both orders, 1 restart; alarms: 3, pages of 1, vectors of 2, 2 moves, 3 kinds of service; graphs: 2 of three services, pages of any length, vectors of 2, windows of 5 forms; catalog: 3 names of which two differ in case, 2 secrets, 2 regions, pages of 1, 2 changes | `TypeOK`, `ScanExact`, `InsertsNeverSkip`, `DeletesNeverRepeat`, `AlarmsExact`, `GraphPagesIrrelevant`, `CatalogFaithful`, `ReadersEnd` |
| `log_scan_ties` | the log reader of `readers` | violation: `TiesBroken` |
| `metrics` | every chunk of 2 rows out of 12 kinds and 4 longer ones, 9 settings of the reader; batches of 2 datums and 5 bytes, vectors of 1 | `SentOnce`, `ReadExact` |
| `send_logs` | every chunk of up to 4 rows out of 11, batches of 3 events and 10 bytes, a span of 3 in an `int64_t` of -4..5 | `RequestsValid`, `RequestsFull`, `StoredInOrder`, `DoubtIsLastBatch` |

Why the bounds are enough. *Handlers*: every statement of a handler touches one group, and two
handlers can only meet on the lock and on rows of the same group, so one group, one stream and two
threads have every conflict; three requests allow a deletion that races with a put while an earlier
put has stored rows. A third request beside a read, a retention or a metric adds no conflict
(`LongMix`), and threads are alike, so of two free ones the first takes the request (`FirstFree`).
*Registry*: three statements are a serve, a stop and a serve, in any overlap, of one key or two.
*Client*: one retry is enough to have two requests of one call in flight, and with a refresh three;
more only repeats the loop. The two writes overlap in every way; `StartQuery` shares nothing with them
but the interrupt flag and begins after them (`QueryLast`). *Administration*: of two statements one
changes under the other's feet whatever a lost answer was about. *Readers*: a page boundary with a
vector boundary inside it is where the counters meet; one alarm per page puts a move between any two;
two graphs have every kind of reference, forward, backward, doubly defined, unknown and absent.
*Metrics*: a second of two milliseconds and periods of one and two seconds put rows on, before and
after every boundary of bucket and window. *Log sender*: four rows have a full batch, a next one, and
each limit reached first; the ends of `int64_t` are part of the instance.

Each bound is a constant: `MaxRequests`, `MaxRestarts`, `MaxStatements`, `MaxHandlers`, `MaxEvents`,
`MaxMoves`, `MaxNow`, `MaxChanges`, `MaxChunk`. `CHECK_DEADLOCK FALSE` is given where statements and
scans end (`insights`, `insights_interrupt`, `readers`, `log_scan_ties`, `metrics`, `send_logs`) or
where the bound on statements is used up and the database is destroyed (`registry`,
`registry_options`); in `server`, `client` and `admin` the end is a state of its own and deadlock is
checked.

### Fairness

* `CloudwatchServer`: weak fairness of each handler (`Serve(w)`), a thread that runs. Arrival of
  requests, failures and crashes are never required.
* `ServerRegistry`: weak fairness of each statement's own steps, and of a handler's return, which
  `LockReleased` and terminating SQL statements justify. `StatementsEnd` is for finitely many
  statements: `std::mutex` promises no turn to a thread that others overtake for ever.
* `CloudwatchClient`: weak fairness of each call's steps, because its socket reads have a timeout
  and its back-off is bounded. Nothing is required of network or service. Each call takes
  `write_mutex` once, so it need not be fair.
* `LogsInsights`: weak fairness of the statement and of the clock. A query may run for ever.
* `CloudwatchReaders`: weak fairness of the reader's own steps only. That those who change what it
  reads pause is a bound (`MaxEvents`, `MaxMoves`, `MaxChanges`): with writers that store rows faster
  than pages are read, an ascending scan without an end follows them, as it would against AWS.

### Findings

* `server_orphans`: `DeleteLogGroup` deletes the group's rows and its events in two autocommit
  statements. If the second fails, the events stay without a group, against the comment above them,
  and a later `DeleteLogGroup` is refused because the group no longer exists.
* `registry_options`: the option `metrics_table_name` is documented and read, and then refused as
  unsupported. `Start` does not compare it either, so that `ServedAsAsked` holds only because of the
  refusal: the mutant that accepts it is answered with the URL of a listener on another table.
* `insights_interrupt`: an interrupted `read_cloudwatch_logs_insights` sends no `StopQuery`, against
  the README: the client refuses every call of an interrupted context.
* `log_scan_ties`: `event_id` is meant to break ties between equal timestamps, but ids start again
  with each server object, so that rows of two lifetimes tie and a page boundary between them may
  repeat one and skip the other.

## 4. Proofs

All theorems hold for any values of the constants that satisfy the modules' named assumptions, which
TLC evaluates in the runs. Every invariant of `server`, `registry`, `client`, `admin`, `insights` and
`send_logs` is proved, and every one of `readers`; so are the registry's two action properties and the
client's refinement, and both invariants of `metrics`: what is left to TLC alone is liveness.

**CloudwatchServer.** `TypeCorrect` proves `TypeOK` inductive. `CatalogCorrect` proves
`CatalogConsistent` under the hypothesis `OneListener` (one `Server`). `CatalogConsistent` alone is not
inductive: an insertion is only safe because of what an earlier statement of the same handler found.
The strengthening `CatalogInv` adds `MutexInv` (a thread executes statements exactly while it holds the
lock of its listener), `LabelInv` (which operations reach which statement) and `KnownInv` (what a
handler's checks found is still so at its later statements). The hypothesis is needed: two listeners
hold two locks.

`EventIdsUnique` and `BatchAtomic` need no such hypothesis. They share `EventInv`: `ServingInv`
(threads serve different, pending requests of their own object's lifetime), `LengthInv` (a batch is
complete before the lock is asked for), `IdInv` (ids given out differ and are bounded by the counter),
`SourceInv` (a row comes from a put on its group), `StoredInv` (a stored id is not given out again by
the same object, and a handler has stored nothing before it is done), and the two properties
themselves. Restarts and crashes are part of the induction.

The properties that look across requests rest on these, on one idea and a lemma about `history`: what
an answer promises holds from the moment the answer is decided on, in the handler, and not only once it
is given. `EntryStep` says what a step does to an entry of `history`, `PrecedesKept` that the order in
time of two requests never changes. `DeletionComplete` proves `DeletedDiscarded` by `DiscardInv`: once a
deletion has executed its second statement, no event of a request that was over before it began is left
or can come back. `AcknowledgedDurable` proves `AcknowledgedKept` by `KeptInv`: from the append on, the
rows are there or some deletion, which was not over when the put began, has decided on success or was
lost with the process. `OrphansOfDeletions` proves `OrphansExplained`, for one listener, by `OrphanInv`:
events without rows for their stream have a deletion behind them that is between its statements, failed
there or was cut off there (`HalfDeleted`).

**CloudwatchClient.** `ClientTypeCorrect`; `RequestsAreBounded` from `CountInv` (a call that is to send
has a turn left, and the refresh adds one turn once); `WritesExclude` from `MutexInv`;
`WrittenAtMostOnce` and `OutcomeIsTrue` from `OnceInv`, which relates a call that is not idempotent to
its requests: at most one is alive or was executed, it is the current attempt's while the call waits
for it, and once the call goes on to another attempt none is left and none was executed.
`ClientImplementsRemoteCall` maps each step to a step of `RemoteCall` or a stutter; `OnceInv` gives the
guards of `TakeEffect` and `Refused`, `DoneInv` (an answer of success was executed) that of `Succeed`.

**LogGroupAdmin.** `AnswersAreExplained`, for any number of statements and retries, from `AdminInv`: an
answer of success on its way was executed and left the service as the word will say (`AnswerInv`), an
error code was true of a state the statement saw (`BodyInv`), and what it saw only grows once it runs.

**LogsInsights.** `InsightsTypeCorrect`; `AbandonedOnlyExplained` and `RowsAreComplete` from `StatusInv`:
a terminal status the statement has read is still the query's, since a query that has ended does not
start again.

**ServerRegistry.** `RegistryTypeCorrect`, `RegistryListenersOwned`, `RegistryClosedIsQuiet`,
`RegistryUrlListens` and `RegistryServedAsAsked` share `RegistryInv`, for any number of sessions, keys
and objects: `AskedInv` (a thread that starts a listener has options `ParseOptions` accepted),
`ConfigInv` (a name `valid` leaves out has its default everywhere, which is why the comparison may leave
it out too), `EntryInv` (what is registered serves, under its own key, and nobody else has it in hand),
`HeldInv` (nobody shares what he has in hand), `BuildInv` (who builds knows his key is free, because the
mutex is his) and `FoundInv` (no object with a connection is lost). `ListenersOwned` alone is not
inductive: `Emplace` keeps it only by `BuildInv`, `FindExisting` is right only by `EntryInv`.

**LogScan**, as `CloudwatchReaders` runs it. `ScanTypeCorrect`, `ScanIsExact`, `ScanInsertsNeverSkip` and
`ScanDeletesNeverRepeat` hold for any page size, vector size, `max_rows` and number of writers. They share
`ScanInv` (`ScanInvariant`). None of the three is inductive: each speaks of a scan that is over, or of
pages together. `CursorInv` ties the offset to the rows read so far; `WindowInv` says what the window can be
when nothing was inserted; `ExactInv` says that the rows so far are an initial part of the one ordering
of the first page's window; `SeenInv` that a row of that window is among them or has at least as many
rows before it as were read, so that the next page starts before it. The last one is the reason why an
insertion never skips: it can only raise a row's rank. `SequenceLemmas` has what rank means: the rank of
an element is its place, places are distinct and all taken, and so a set with a strict total order has
exactly one sequence that lists it. The theorems ask for `DistinctKeys` where the properties do;
`log_scan_ties` shows what happens without.

**AlarmScan**, too, as `CloudwatchReaders` runs it. `AlarmsAreExact` holds for any alarms, page size and
number of moves, from `AlarmInv` (`AlarmInvariant`). `RowsInv` says that `seen` has exactly the keys of
the rows so far, and that each key has one row: that a key does not depend on the alarm's state is what
lets the second sweep recognise a row of the first. `SweepInv` is what the moves are up against: of the
alarms that stay open, those in the state of this sweep are listed up to the token, and those in the
state of an earlier sweep are all listed. A move from ALARM to INSUFFICIENT_DATA keeps it because ALARM
is swept first, so that the alarm is listed already or still ahead. That every seen token is at most the
current one is why a token that comes again can only be the service's fault (`looping`): otherwise a
sweep would end early.

**ServiceGraph.** `GraphPagesAreIrrelevant` holds for any graphs, windows and pages, from `GraphInv`
(`GraphInvariant`): until the last page `services` is the parse of an initial part of the window, whose
length the token tells; after it, of the whole window, and `out` and `edges` together are what
`ResolveGraph` makes of it. What `ResolveGraph` computes is proved for every graph (`ResolvedRows`):
`FlattenTogether` says that two flattened sequences whose parts have the same lengths run through the
same places, so that a row and the edge it stands for are at the same place, and `TargetExplained` that
the row's target is what X-Ray's own ids say.

**CloudwatchCatalog.** `CatalogIsFaithful`, for any names, secrets, regions and number of changes, from
`CatalogInv` (`CatalogInvariant`). `DiscoveredInv` says that discovery has listed the service's names up
to its token: every group that was there all along is among them, none is there twice, none that never
was. `PinnedInv` says what the tables keep of the account discovered: the secret by name, and the region
unless setting and secret leave it to the environment. `ListedInv` and `ReadInv` are the two parts of
the property. The assumption used is that the service lists each name once.

**SendLogs.** `SendRequestsValid`, `SendRequestsFull`, `SendStoredInOrder` and `SendDoubtIsLastBatch`, for any
limits and any chunk, share `SendInv` (`SendInvariant`). What makes the loop right is `PlanInv`: the batches
left are the plan from the offset `Sent`. The plan itself is a recursive function, `PlanFrom`, that is
only ever unfolded once per step, so nothing has to be proved about a whole plan by induction; that the
function is what its definition says it is, is proved once, by induction on what is left of the events.
`RequestInv` says each request is the batch of some offset, and that the next begins where it ends: a
batch of an offset is valid because the inner loop stops before the limit that would be broken, and full
because it stopped. `EventsInv` and `StoredInv` carry the order, and `ResultInv` the doubt: as long as
batches are sent, all that was sent is stored and marked.

**SendMetrics**, as `CloudwatchMetrics` runs it beside a reader. `MetricsSentOnce` holds for any chunk of
rows, any limits, and any losses and refusals, from `SentInv` (`SentInvariant`). Either the rows are not
read (`Unread`), or the datums are those of `Readings`, the rows before `offset` are marked `ok` and no
other is, and one of two things holds of the table. `Between`: it has the readings before `offset`. `Asked`: a
request from `offset` on is on its way, or it was served and the table has one batch more than the
offset says, or it was refused or lost. `SentOnce` alone is not inductive, since it says nothing of the
request on its way. That serving it adds the rows of its batch, each once and in order, is where encoding
and decoding meet: `FormRows` proves that the service reads out of `FormBody` as many datums as went in,
each with its source row, since the numbered keys have no gap. `BatchFacts` bounds a batch from both
sides: at least one datum, so the loop gets on, and at most `MaxDatums`, which is the doubt a failure
leaves. The assumptions are types (a row's attributes are a sequence of names and texts) and that the
mark for no value is not an answer.

**MetricScan**, in the same composition. `MetricsReadExact` rests on `ReadInv` (`ReadInvariant`), beside
`SentInv`. `ReadExact` alone says nothing before the end; `ReadInv` says of every state since the first
page that there are k <= m such that `out` is the first k elements of `Whole(Table)`, `points` those
from k + 1 to m, the token m + 1, and k below `max_rows` while anything is to come. `Table` is what the
metric table was at the first page (`first` rows, one of the lengths in `cuts`), and `Whole` lists its
periods by the definitions of the property. The argument has four parts.
The sender only appends (`SentGrows`), so that `Table` stays what it was and every row known at the
first page stays in it. The request says what was asked: the service reads from the keys of `Request`
each setting once, and the dimensions whatever order they were put in (`RequestReads`, `FilterReads`).
Seconds against milliseconds: the request has the window cut to whole seconds, while the property has
it in milliseconds; readings are stored in whole seconds, so that both select the same (`Cut`,
`SelectedIsWanted`), and a bucket of the query begins where a period of the property does
(`BucketIsStart`). And pages: an answer is a part of `Whole` from where the token says (`ListenerPoints`,
`AwsPoints`), and a part followed by the next is a part (`Pieces`), however vectors and `max_rows` cut
it. At the end, what stands at place i of an ascending list has i - 1 elements of the set before it
(`PlaceInOrder`). The aggregate of a period is the same fold over the same sequence on both sides; what
a fold computes is not needed.

The assumption is `ScanAssumption`: settings have their types, the window's ends are not before 1970,
and the mark for no value is no number. Before 1970 the theorem would be false: the reader divides
milliseconds by 1000 towards zero, so that there a fraction of a second widens or narrows the window.
With AWS the property, and so the theorem, speaks of scans during which nothing was stored.

Out of the prover's reach, and only model-checked: liveness (`LockReleased`, `CallsEnd`,
`StatementEnds`, `ReadersEnd`, `StatementsEnd`), because it rests on fairness and ENABLED.

## 5. What is not modelled, and why

Signing, base64, gzip, JSON and XML are conversions of bytes; a module sees the value a decoder
yields. SQL quoting, the mapping of events, alarms, edges and points to columns, units and the parsing
of time texts are data, and the sizes of names and dimensions constants: that percent-encoding may grow
a body beyond the estimate `send_metrics.cpp` splits by is not in the model. The columns of an Insights
result, in first-seen order and with NULLs for missing fields, are a sequential pass over data. The
Emscripten build replaces `PostInternal`'s transport and has no listener. DuckDB itself (transactions,
threads, the order in which it destroys objects) and the HTTP library are environment, as is the socket
library's choice whether two listeners may share an address. The catalog's refusals are one `throw`
each. Services that alternate two tokens are not in the models; the log, metric and discovery readers
would follow them for ever. The components without a module are listed in `PROJECT.json` with their
reasons.

## 6. What is left

1. `InsightsSchema`: columns in first-seen order, and NULLs against empty values.
2. Sizes before and after percent-encoding in `SendMetrics`.
3. Two listeners on the same tables: what is left of `CatalogConsistent` and `OrphansExplained`.
