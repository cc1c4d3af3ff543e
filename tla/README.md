# Langbridge runtime: TLA+ models

These modules model the parts of the Langbridge runtime in which concurrent
calls, failures, restarts and retries decide whether a user sees correct data:
the dataset sync with its paging and its catalogue, the background task manager
that starts syncs, the runtime that is built from a configuration file and its
store, the federation planner and executor and the queries that reach them, the
agent supervisor with its agents and conversations, accounts, tokens and ODBC
connections inside the application's lifespan, and the vector indexes of semantic
models.

`PROJECT.json` lists the components, the runs, the source lines behind every
definition, the mutants, the hazards and the theorems.

    tlc -config sync_concurrent.cfg MCDatasetSync      # one run
    tlapm DatasetProofs.tla                        # one module of proofs

## 1. Inventory

The runtime is one asyncio process. Code runs without interruption between two
`await`s; calls interleave at them. Several processes can share a SQL metadata
store and a data directory.

| Component | State | Operations | What is hard | What makes it correct |
|---|---|---|---|---|
| Dataset sync (`runtime/services/dataset_sync_service.py`, `runtime/application/datasets.py`) | `ConnectorSyncState` row (status, cursor), dataset row, parquet file | `sync_dataset`: load state, connect, read pages or a query, merge into the file, flush, commit; `mark_failed` | calls from HTTP, CLI and scheduler are not serialised; the file is written outside the unit of work; a page budget; crashes | no row behind the cursor is missing or old; the file becomes current |
| Declarative API connectors (`connectors/saas/declarative`) | none between calls | request, filter, paginate, checkpoint | offset arithmetic with a client-side filter; cursor formats; the source changes between pages | a listing delivers every matching row; the checkpoint moves forward |
| Dataset catalogue (`runtime/application/datasets.py`) | dataset rows, sync contracts, files | create, update, delete | checks are made before the write; state and file outlive the dataset | one dataset per source; a published file holds its source |
| Connectors (`runtime/application/connectors.py`) | connector rows, the host's registry | create, update, delete, sync of resources | delete against a create on it; the registry is updated after the commit | datasets have their connector; the registry shows what is stored |
| Configured runtime (`runtime/bootstrap`, `runtime/persistence/migrations.py`) | configuration file, schema version, rows of either management mode, registries | start: migrate, build, reconcile, load; stop; edit; API calls between | a store that an older version, an edit, an API update or a crash has left; a row that the API created beside a configured one of its name | a start succeeds on every store that starts can leave, but for one API update; it keeps what the API created |
| Dataset jobs (`runtime/services/dataset_query_service.py`) | dataset rows, parquet files | bulk creation, CSV conversion, profile, preview | names and aliases are checked before the flush; jobs overlap; one of many selections fails | what a job reports is stored; the file holds the CSV |
| Unit of work and stores (`runtime/persistence`) | SQL session, or one in-memory object per row | load, save (tracked columns), flush, commit, rollback | which columns an `UPDATE` sets; unique constraints; the in-memory store has no rollback | what fails leaves nothing behind |
| Background tasks (`runtime/hosting/background.py`) | registered tasks, `_active_tasks`, `_task_locks`, scheduler jobs, `_started` | `register`, `start_task`, `start`, `stop`, scheduler ticks | executions the manager does not own; cancellation; failing startup tasks; restart | handlers of a task exclude each other; `start` and `stop` return |
| SQL and semantic query services (`runtime/services/sql_query_service.py`, `semantic_query_execution_service.py`, `dataset_execution.py`) | the workflow registered for a workspace | resolve names to datasets, load models, bind sources, plan, run | the catalogue changes between the awaits; aliases collide; one service and one workflow per workspace | a name in a query stands for the dataset it was resolved to |
| Semantic translation (`semantic/query`) | none | choose a base, plan joins, aliases, clauses | relationships in rings; metrics without a prefix; rows counted more than once | the SELECT reads what was asked, and counts each row once |
| Federation planner (`federation/planner`) | none | split the query into scans and a local stage, push filters and columns into the scans, or the whole query into its source | a filter is applied before the join it was written after; names are compared in two ways | the plan computes the query |
| Federation executor (`federation/executor`, `federation/service.py`) | stage manifests, artifacts, running stage tasks | plan, run batches, retry, cache lookup, store output | queries share manifests; labels computed from what is on disk; leftover tasks; in-place writes | a result is at least as new as the datasets at planning time; labels do not lie; queries end |
| Agent supervisor (`orchestrator/agents`) | planning context, plan, artifacts, iteration count | preflight, route or plan, run steps, evaluate, retry, answer | two nested retry loops; overrides and rewrites that survive a pass; a language model that answers anything | plans are executable; limits hold; the turn ends with one outcome |
| Analyst, deep research, web search (`orchestrator/agents`, `orchestrator/tools`) | assets of a toolkit; evidence pool, agenda, budget | build tools under a policy, select, run, rewrite, retry; gather, rank, report | a policy applied to assets, models and names; citations written by a language model | no refused connector is touched; outcomes are those of the attempts; findings name evidence that was found |
| Answers (visual agent, orchestrator, agent execution service) | result table, chart, summary | settle a chart, read facts off the rows, summarise | three readers of the same question; columns guessed from names and cells | every claim is true of the rows |
| Threads and agent execution (`runtime/application/agents.py`, `runtime/services/agent_execution_service.py`) | thread, messages, clarification state | `ask_agent` | overlapping questions; the thread read first is what is saved, over commits in between | question and answer appear together; the user is not asked back for ever |
| Local authentication (`runtime/hosting/local_auth.py`, `auth.py`) | accounts, session secret, cookies | bootstrap, login, request, create, update | counts and checks before a write; every request writes its session back | an administrator remains; issued cookies are accepted |
| Request authentication, HTTP replies, MCP tools (`runtime/hosting/auth.py`, `app.py`, `langbridge/mcp`) | the cached key set of the identity provider | verify a token, run, answer with a status | fetches of keys overlap; keys are withdrawn while they are cached | a token is judged by a key set that is recent enough |
| ODBC endpoint (`runtime/hosting/odbc.py`) | statements and portals per connection | startup, parse, bind, execute, close, disconnect | portals name statements that can change; close during a query | a portal runs what was bound |
| HTTP lifespan (`runtime/hosting/app.py`) | ODBC server, scheduler, host | start, stop | startup outside the `try`; one step of the shutdown failing | a shutdown ends and leaves nothing behind |
| Vector indexes (`runtime/services/semantic_vector_search_service.py`, `connectors/vector/faiss`) | metadata row, index and values files | refresh, search, change of the configuration | files rebuilt in place, outside the unit of work, by threads; a lock per instance; a row listed early and merged late; one unit of work for all models | READY means complete; a hit pairs a vector with its own value; indexes become current |
| Client, CLI, UI, connector packages | none of their own | I/O | - | - |

Interactions: the background manager calls `sync_dataset` of each synced dataset
and `refresh_workspace` of the vector service on their cadence and at startup;
HTTP, CLI and the connector application call them directly. A sync rewrites the
parquet file and, when it commits, creates a dataset revision. The federation
executor reads the file and takes the revision as the freshness key of its cache.
Nothing locks the file between the two. The lifespan starts ODBC server and task
manager and stops them; `ask_agent` calls the supervisor once per question, and the
supervisor its agents; the analyst and every query service end in the one federated
query service of the runtime.

## 2. Modules

| Module | Models | State and actions |
|---|---|---|
| `DatasetSync` | one synced dataset and its source | `setup` the kind of source and of store, chosen once; `source`, `now` the external rows; `file`, `fileOk` the parquet file; `state`, `status` the metadata; `job[j]` the calls in flight with what each has loaded and read. One action per stretch between two awaits: `Begin`, `Connect`, `ExtractPage`, `ExecuteQuery`, `WriteFile` (read, merge and rewrite do not suspend), `Flush`, `FlushConflict`, `Commit`, `MaterializeInMemory` (the in-memory store never suspends, so one action does the rest), `Fail`, `ReadFails`, `CommitFails`, `MarkFailed`, `Crash`; `Upsert` is the source |
| `RowMerge` | `_merge_rows` on lists of rows | `keptRows` the file, `batch`, `wasFull`; one action `Sync`. Shows that `DatasetSync`'s view of the file (a version per key) is what the list algorithm does |
| `ApiPaging` | `extract_resource` and the page loop, for every pagination, filter and cursor type | the manifest (chosen once), the records with their stamps, the checkpoint, the sync under way. `Begin`, `Page` (request, filter, next cursor, and at the last page the merge, and after an incremental sync the checkpoint), `ChangeRecord` and `Delete` of the source. History variables `passed` and `gaps` name the losses that the property excepts |
| `DatasetCatalog` | datasets and connectors in the API, with a SQL store | rows, connector, registry, files, sync states; every operation is a `Begin*` that reads and checks and a `Commit*` that writes; a sync has `ReadContract`, `StartSync`, `WriteFile`, `CommitSync`; `Restart` rebuilds the registry. `BeginConnectorSync` queues the resources of a connector. History variables, `strayed` among them, name the overlaps that the properties except |
| `ConfiguredRuntime` | the runtime's bootstrap, over edits of the file and restarts | `metaStore`, `schema` the store; `config` the file, `inForce` what the last start read; rows of both management modes; the registries of the running host. `Start` migrates, builds, reconciles and loads, or fails (`StartOutcome`); `Stop`, `CrashInUpgrade`, `EditConfig`, and the API's creates, updates, deletes and syncs, among them the update that changes a connector's capability to sync |
| `DatasetJobs` | the dataset jobs that write | `job[j]` a unit of work with what it has flushed (`mine`), `tables` what is committed. Bulk creation is `BeginBulk`, `Find`, `Name`, `Flush` or `FlushFailed` per selection and `CommitBulk`; `BeginIngest`, `WriteParquet`, `SaveIngest`; `BeginProfile`, `SaveProfile`; `CommitFile`, `JobFails` |
| `QueryPath` | from a query to the tables it reads, for every kind of query | the catalogue (`dsRow`, `liveConns`, `models`), `queries[q]` what each has resolved, loaded and bound, the registered workflow. `Send`, `ResolveSql`, `ResolvePreview`, `ReadModel`, `Load`, `BuildSources`, `Plan` (register and plan do not suspend), `Run`, `RunDirect`; `ChangeDataset`, `DropConnector`, `ChangeModel` |
| `SemanticQuery` | the translation of a semantic query into a SELECT | `relations`, `links` the model and its rows, `semantic` the query, `select` its translation (`CompileSemantic`). `FromRows` evaluates the joins on small tables |
| `FederationPlan` | the planner on a query of two tables, and what its stages then compute | `query`, `table` the inputs; `stages` the plan; `scanned`, `answer` its execution. `Optimize` makes the plan, `RemoteScan`, `LocalStage`, `RemoteFullQuery` run it; `Evaluate` is the reference: the query over the tables themselves |
| `FederationExec` | scheduler, stage executor, artifact store, cache labels | `content`, `published` the datasets; `manifest`, `whole`, `torn` the store; `run`, `task` the queries. Actions `Execute`, `NextBatch`, `Complete`, `CacheHit`, `ScanFile`, `Request`/`Answer`/`Store`, `Compute`, `StageFails`, `StageBroken`, `Crash`, and `Rewrite`/`Publish` for syncs |
| `BackgroundTasks` | `RuntimeBackgroundTaskManager` | one action per method and per event of an execution; `epoch` counts the generations of `_task_locks`, which `stop` clears |
| `PlanRouter` | `choose_route`, `build_steps`, `_coerce_llm_plan`, `_apply_tool_rewrites` | operators only: a question is the record of its signals, scores are in twentieths, a rewrite names an agent, a step and what it shall read |
| `Supervisor` | `SupervisorOrchestrator.handle`, on top of `PlanRouter` | preflight, planning by router or language model, one action per kind of step, the analyst's retries, the reasoning agent's evaluation with its heuristics and safeguards, the merge of overrides, the answer |
| `AgentTurn` | what a turn promises | abstract specification: a bounded number of calls, none after a refusal, then one outcome (`TurnSafe`), which comes (`TurnSpec`). `Supervisor` implements it (`ImplementsTurn`) |
| `Research` | the web search and deep research agents | the agenda of sub-questions, the evidence pool, steps taken, why it stopped, the report. `Search`, `Plan`, `GatherStep`, `TimeUp`, `Report` |
| `Analyst` | the analyst and the factory of its tools | the toolkit, the assets and refusals that come of it (`AddTool`, `Build`), then `Decline` or `Select`, `Run`, `Rewrite`, and the reply; `ran` remembers what was executed |
| `Answer` | chart, grounding facts and summary of a result | `Visualize`, `EnsureChart`, `Summarize`, `Deliver`; a claim is a record of what it says of which rows |
| `Conversation` | `ask_agent` on one thread | thread, messages, clarification state; calls with what they read. With a SQL store `BeginSql` reads the thread, `Merge` selects the row again and puts the reading over it, `Flush` writes what differs and takes the lock. The turn itself is one of `AgentTurn`'s outcomes |
| `LocalAuth` | accounts, sessions, the secret | a handler is a sequence of units of work; `mixed` records which parts of handlers overlapped |
| `Gateway` | the authentication of requests, the replies, the MCP tools | `jwks` the cached key set with its expiry, `published` the history of what the provider published, `gate[r]` a request between arrival, fetch of the keys and its operation. `Arrive`, `ArriveBare`, `Session`, `ProviderAnswers`, `ReceiveKeys`, `FetchFails`, `Operate`, `Tick` |
| `OdbcEndpoint` | connections with statements and portals | one action per message; a query suspends |
| `Hosting` | the lifespan, composing `LocalAuth` and `OdbcEndpoint` | startup and shutdown step by step, failing steps, end of the process, restart; `front` is the side a behaviour exercises, `waits` whether `wait_closed` waits for idle clients (Python 3.12.1 and later) |
| `VectorIndex` | the index of one dimension | row, files, values of the dimension, where the workspace has a model that no refresh gets past (`broken`), calls. With a SQL store `List` reads the row, and `BeginRefresh` or `BeginSearch` merges what was listed over the row of that moment; `BeginStopped` and `Abort` are refreshes that a model ends; `Fetch`, `Reset`, `Write` (four times: index and values of the empty and of the filled index), `SaveReady`, `OpenIndex`, `Search`, `Commit`, and the failures; `doubt` names the files whose rebuilds overlapped or ended without a commit, or whose row was stored as it had been listed before |
| `MC*` | instances for TLC | model values, sets, symmetry. Three of them explore several components in one run, one component per behaviour or side by side where they share no state: `MCQueries` (`RowMerge`, `FederationPlan`, `SemanticQuery`, `QueryPath`, `DatasetJobs`), `MCCatalog` (`DatasetCatalog`, `ConfiguredRuntime`) and `MCConversation` (`Conversation`, `Research`, `Analyst`, `Gateway`, `Answer`) |
| `DatasetProofs`, `CatalogProofs`, `QueriesProofs`, `SourceProofs`, `AgentsProofs`, `SupervisorProofs`, `HostingProofs`, `SequenceLemmas` | TLAPS proofs | `DatasetProofs` is about `DatasetSync` and `SemanticQuery`; `CatalogProofs` about `DatasetCatalog` and `ConfiguredRuntime`; `QueriesProofs` about `FederationExec`, `FederationPlan`, `QueryPath` and `DatasetJobs`; `SourceProofs` about `VectorIndex`, `ApiPaging` and `RowMerge`; `AgentsProofs` about `Conversation`, `Gateway`, `Analyst`, `Research` and `Answer`; `HostingProofs` about `Hosting`, `LocalAuth`, `OdbcEndpoint` and `BackgroundTasks`; `SequenceLemmas` holds the lemmas about folds, orders and maxima that several of them use |

Definitions whose comment begins with "Mutant of" are wrong variants of the one
that follows them. No specification uses them; they exist to show that a property
notices the mistake.

Abstractions. A source row is a primary key and the value of its cursor column, a
logical time; a cursor is such a time, 0 is None. In `DatasetSync` the source only
inserts and updates: neither an incremental sync nor the cursor could notice a
deletion. Columns, policies, revisions and lineage are committed with the state row
and are not told apart from it. In `FederationExec` data is the version of each
dataset that went into it, and a cache key is the revision of each input; a plan is a
set of scans and one local stage over them, or one remote stage, which is what
`PhysicalPlanner.build` yields. SQL text, metrics and runtime statistics are left
out. In `BackgroundTasks` an execution that is cancelled before its first step ends
at once, and a second `stop()` during the first is left out: the lifespan calls it
once. In `Supervisor` a question is the signals the router extracts from it, an
answer of a language model is any member of the instance's set, and the result of an
agent is what the reasoning agent tells apart (data, web results, error, refusal,
nothing). In `Research` how well a text fits a question is a constant; in `Analyst` a
question and a SQL text are known by the assets they name; in `Answer` a cell has a
text and what that is as a number and as a point in time. In `QueryPath` data is the
dataset and kind of row that a name was bound to. In `ConfiguredRuntime` a row is
known by its name and by who manages it, neither of which changes. In
`FederationPlan` a predicate is the set of values for which it is true, with the ways in
which it writes its columns (`bare` is one without a table), and the columns that are
only selected are one column. In `VectorIndex` the distinct values of
the dimension are a generation number, and a configuration names its files.

Faithfulness points that matter:

* `get_or_create_state` gives each unit of work its own copy of the row; `save`
  copies columns onto the tracked record, and the `UPDATE` sets those that changed.
  Hence `Commit` leaves the stored cursor alone when the sync did not move it, and
  `MarkFailed`, which saves a detached copy, does not. `DatasetCatalog` follows the same
  rule. A record that nobody holds any more is not tracked: `session.merge` selects the
  row again, copies every column of the earlier reading over it, and the `UPDATE` sets
  what differs from the row as merged, that is, from what was committed in between
  (`Merge` in `Conversation`, `Merge` and `Updated` in `VectorIndex`).
* A full refresh does not move the stored cursor (`Store` in `ApiPaging`, `NextCursor` in
  `DatasetSync`).
* `active_state` in the application's `sync_dataset` is assigned only after the
  runtime's `sync_dataset` returned; that is why `Fail` does not mark the state.
* `asyncio.gather` without `return_exceptions` passes on the first failure while the
  other tasks run on (`Fails` in `BackgroundTasks`, `AttemptFails` in
  `FederationExec`).
* The content-addressed artifact is not rewritten if its path exists
  (`WriteStageOutput`), also when the file there is torn.
* A synced dataset is read by DuckDB inside the process without suspending
  (`ScanFile`); a live source suspends between request, answer and resumption.
* The client-side filter of a declarative connector runs before the next offset is
  computed (`NextOffset`), and `since` goes with the first request only (`Listed`).
* The service that runs federated queries is shared and holds one workflow per
  workspace. A query registers its own and plans it without an `await` between, so
  `Plan` is one action, and what runs later is the plan.
* The reconciliation of the configuration keeps rows that the API manages
  (`Reconcile`), and the in-memory store is built anew at every start.
* The reasoning agent's overrides are merged into a context that keeps older ones
  (`MergeReasoning`), and a "routing" entry of the request hides them
  (`ExtractOverrides`), but not its tool rewrites, which every later plan applies last
  (`ApplyToolRewrites`).
* The age of a cached key set counts from the request that fetched it, not from the
  answer (`KeptUntil`), and an unknown key is not a reason to fetch again.
* Every authenticated request writes roles and status of its session back to the
  account (`SyncSession`).
* A refresh's files are written by a thread that a cancellation does not stop
  (`Cancel`, `Write` in `VectorIndex`), and `delete_index` loads the files first, so a
  torn file is never removed (`Reset`).

## 3. Runs

| Run | Shows | Bounds |
|---|---|---|
| `sync_concurrent` | two concurrent incremental syncs of a paged resource or a table, SQL or in-memory store: `CursorCovered` | 3 rows, pages of 1, budget 2 (smaller than the table, so the budget bites), times 1..2 (so rows share a cursor value), 1 fault |
| `sync_single` | one call at a time, both modes, descending listing: `RowsFresh`, and `Converges` under fairness | 3 rows, 3 pages, 1 fault |
| `paging` | `NothingMissed`, and `CatchesUp` under fairness | every pagination, filter and cursor type; 3 records, a fourth may appear, 3 stamps, 2 changes, pages of 2, budget 2 |
| `catalog` | `KeysUnique`, `ConnectorsAgree`, `FileOfSource` of the catalogue; `Restartable`, `StartKeeps` of the configured runtime | 2 workers, 5 calls, 2 names, 2 source keys, 2 dataset ids, 2 connector ids; 5 configurations (one that cannot be built, one without automatic upgrades, one with a connector that may not sync), 8 edits, starts and calls, both stores |
| `bg_tasks` | `ExclusivePerLock`, and `StartAndStopEnd` under fairness | 2 tasks, 3 executions, 2 stops |
| `queries` | `ActsAsMergeRows`; `PlanComputesQuery`; `SelectSound`, `CountsOnce`; `AliasDenotes`; `JobsTrue` | merge: batches of up to 2, files of up to 3 rows before a sync, two raw ids with the same identity, a blank one. Plans: tables of up to 2 rows, 2 join keys, a value or NULL, all joins, WHERE clauses of one or two predicates, two sources, one, another dialect, the ways to write a column. Semantic: 3 datasets, up to 3 relationships (a ring; one to a dataset the model lacks), 2 rows each. Queries: 2 at a time, 3 datasets of which two claim one alias, 1 change of the catalogue. Jobs: 2 at a time of 3, 2 selections, 2 templates, 2 CSV files, SQLite and PostgreSQL |
| `fed_concurrent` | `LabelSound`, `InputsPresent` | 2 queries of a join of 2 synced datasets, 2 versions, 2 faults, 1 crash |
| `fed_single` | `FreshResult` for queries one after the other, and `QueriesEnd` under fairness | 1 query slot, a join of a live and a synced dataset, 2 versions, 2 faults, 1 crash |
| `supervisor` | `PlansSound`, and the refinement `ImplementsTurn` | 3 iterations, 1 analyst retry, a selection of questions, constraints (one requires a visualization), plans and decisions that reaches every route; a decision has tool rewrites, one of them to a step no plan has |
| `conversation` | `ThreadIntact`, `ReportGrounded`, `OutcomeSettled`, `KeysFollowed`, `AnswerTrue`, and `AsksEnd` under fairness | thread: 2 overlapping calls, 3 in all, 2 clarification turns, 3 questions, both stores, 1 crash. Research: 8 facts, 4 steps, pages of 2. Analyst: 6 toolkits, 4 policies, 1 retry. Gateway: 2 requests, 3 arrivals, 2 keys, time to live 2, time to 3. Answers: tables of up to 6 rows |
| `hosting` | `AccountsUsable`, `RunsWhatWasBound`, `CleanEnd`, and `ShutdownEnds` under fairness | 2 handlers with 4 calls or 2 connections with 5 messages, 2 accounts, 2 secrets, 2 starts |
| `vectors` | `ReadyIsComplete`, `HitsTrue`, and `StaysFresh` under fairness | the scheduled refresh, a direct one, a search; a configuration with and one without an interval; 2 generations and none; a model that ends every refresh before this one, after it or nowhere; 2 events (changes of data or of models, direct refreshes, faults), which is a rebuild and one thing that goes wrong in it |

Why the bounds are enough. Two calls, queries or executions are what each of the
races needs, and the theorems of section 5 cover any number for most of the safety
properties. Two or three rows tell apart a row that was read, one that was not and
one that changed meanwhile; two versions tell old from new. The fault budget lets a
failure hit before and after each write. Three executions allow a startup, a
scheduled and an on-demand execution of one task at once. The restart budget of two
stops lets executions of two earlier generations survive. Two ids per name let a
dataset or connector be deleted and created again. Two clarification turns and three
questions allow one question too many. Three iterations
are a first pass, a retry and a last one. Eight changes of a configured runtime let it
start, be changed through the API, stop, be edited, and start twice more. Three
relationships between three datasets are the smallest ring. A time to live of two
lets a key be withdrawn while it is cached, before and after the cache expires.

What the properties except. Several properties hold only outside overlaps that the
code does not exclude. These exceptions are part of the properties (`Mixed`,
`doubt`, `passed`, `gaps`, `streak`, `Withdrawn`, `Redirected`, the history variables of
`DatasetCatalog`), so that a property says what the code does guarantee; what happens
inside them, and what else the models show that a reader of the code may not expect, is listed here.

Sync and paging:

* A sync stops after three pages and checkpoints their newest cursor; of a listing
  that begins with the newest rows the older ones are never read again.
* Of two overlapping syncs the slower one can put an old version of a row over a new
  one, while the cursor stays ahead of it.
* When the commit of a sync fails, `mark_failed` stores the cursor of the failed sync.
* With the in-memory store a sync that fails leaves the state RUNNING.
* A record that changes on a page already read, while a later page carries a newer
  stamp, is lost until it changes again or the dataset is refreshed in full; so are
  records behind the client-side filter with offset or record paging, and records that
  a deletion shifts to a page already read.

Catalogue and connectors:

* Two creations or updates, or an update or a sync beside a delete, can bind the same
  source twice; a sync or an update that overlaps a delete brings the row back.
* A connector can be deleted while a dataset is created on it; an update that overlaps
  a delete leaves the connector in the registry until the next start.
* A sync that starts after its dataset was moved to another connector, and that
  connector deleted, writes the connection of the contract it has read
  (`dataset.connection_id = connection_id`, `dataset_sync_service.py:568`) and so binds
  the dataset to a connector that is gone. The history variable `strayed` names it.
* A name or a source that is used again meets the old file or the old cursor.

Dataset jobs:

* A flush of a bulk job that violates a constraint leaves the session unusable: every
  later selection of the job fails as well.
* Overlapping bulk jobs can create two datasets from one selection; the names differ.
* A profile saves the row it loaded before it computed, over what was stored meanwhile.
* The parquet file of a conversion is written outside the unit of work, and a
  converted dataset is no longer a CSV dataset, so it can never be ingested again.

Configured runtime:

* An edit of the configuration can lock a runtime out: the API's datasets on a
  connector that the edit removes are orphans, at which the scheduling of syncs raises;
  a name or alias that the API took meanwhile is a conflict. The start fails until the
  configuration or the store is repaired by hand; the API, which could repair it, does
  not come up.
* An update through the API can lock it out too: PATCH of a connector replaces its
  capabilities (`connectors.py:378`) and nobody asks whether its synced datasets need
  them. The update is accepted and the runtime goes on; every later start raises where
  it reads the contract of such a dataset (`datasets.py:740`, `:857`). `Restartable`
  names this as the only such change, and says that the start then does fail.
* A configured dataset that was synced is PENDING_SYNC again after a restart.
* A model of the API hides the configured one of its name.
* A crash inside an upgrade of a SQLite store leaves a schema that is neither old nor
  new.

Tasks, queries, lifespan:

* `stop` clears the locks while a scheduled handler unwinds; after the next `start` a
  second handler of that task can run beside it.
* A query of the same SQL, planned before a sync, can relabel a scan's manifest between
  another query's scan and its join, which then returns the cached old join.
* A crash inside `pq.write_table` leaves an artifact that is never rewritten.
* A startup that raises before the lifespan's `try` leaves ODBC server or scheduler
  running until the process ends.

Queries and federation plans:

* A filter on one table goes into its scan whatever the join. Below an outer join a
  filter that NULLs pass (`LEFT JOIN b ... WHERE b.v IS NULL`) takes matching rows of `b`
  away before the join, so rows of the other side come back unmatched that the query
  does not contain.
* A scan belongs to an alias: another branch of a UNION or a CTE that uses the alias
  again reads the filtered rows.
* A column behind the table's name, or behind the alias in other letters, is missing
  from the scan, and the local stage, which resolves both, fails.
* A predicate whose columns name one table, and that also has a column of another table
  written without a name, is taken for a filter of the first; its scan does not know
  the column and fails.
* The shared query service holds one workflow per workspace. That overlapping queries do
  not run each other's is owed to the absence of an `await` between registering and
  planning, and to nothing else.
* With the in-memory store a dataset whose alias is taken is displaced to `alias_2`, so
  what a name denotes depends on the order of the datasets. Datasets that cannot be
  bound are skipped silently; a preview of a FEDERATED dataset whose default table was
  skipped shows the first one that was bound.
* A semantic query of metrics without a dimension or measure fails to choose a base; one
  that orders by a dataset it did not join raises a `KeyError`.

Agents and conversations:

* An error of the analyst is always terminal, so the reasoning agent's "retry due to
  analyst error" is never taken, nor is the loop's exhausted branch.
* The retry of a chart plan that had no analyst takes the chart route again although it
  is to be avoided (`router.py`, the rule for charts); it then asks the analyst. Every
  other retry takes another route (`RetryElsewhere`).
* The reasoning model's `tool_rewrites` stay in the context and are applied to every
  later plan, after the router has set the references. A rewrite that says no step takes
  the first one of its agent; `source_step_ref` may be any string, so an analyst or a
  document step can refer to a step that comes later, that is of another agent or that
  the plan does not have; it then runs without the source. `PlansSound` excepts these
  steps by name (`Redirected`) and no other.
* With a SQL store two overlapping questions can lose a clarification state. `ask_agent`
  reads the thread (`agents.py:44`) and saves that reading (`:68`); if another question
  commits between the reading and the merge, the older state is written over the newer,
  what was asked is forgotten, and the user can be asked the same again. `ThreadIntact`
  begins its count of questions anew at such a write; the row lock, which the flush
  takes, comes too late.
* With the in-memory store overlapping questions can lose a clarification update, and a
  turn that fails leaves the thread "processing".
* Analyst: names of refused assets are looked for in the question as asked, not as
  rewritten; a language model that fails while rewriting raises, and the first result is
  lost; datasets of files are allowed as datasets and "unknown ownership" inside a
  semantic model; of two datasets with one alias the last stays.
* Research: refined queries can push the question itself out of the queries tried; what
  the web agent's language model cites is not validated, unlike the citations of the
  deep research; every further query can add one page beyond twice the maximum;
  where a single page is all that may be kept, one page is not called a weak result.
* Answers: the agent execution service reads requests for charts in another way than
  the orchestrator, and amounts in pounds are not numbers to it (a mis-encoded pound sign);
  a tie "is higher"; a share is more than all when values are negative; a year column
  can be the measure of a trend; a text like `1234-56` makes the parser of times raise,
  and the grounding falls back, as it does for columns that mix dates and times.
  `generate_chat_response` has no caller.

Accounts and requests:

* Two overlapping updates, or an update and the write-back of a session, can leave no
  administrator; two first logins make two secrets, and the cookie of one of them is
  refused; two overlapping bootstraps can both succeed.
* A token without actor and subject runs as the default actor. A key that the cache does
  not know is not looked up again before the cache expires. A failing key endpoint is a
  500 rather than a 401, and so is every error of a SQL query or question; whether an
  error is a 404 or a 400 is decided by its text.

Vector indexes:

* A search that loads the index before and the values after a rebuild pairs old vectors
  with new values.
* With a SQL store, a refresh that dies or is rolled back after it rebuilt the files
  leaves a READY row over other files; without an interval nothing repairs it. A torn
  file can neither be loaded nor deleted, and every later refresh fails.
* With a SQL store a refresh that has nothing to do, or a mere search, lists the row,
  lets go of the record and merges what it listed over the row of a later moment. If a
  refresh committed in between, its FAILED becomes the old READY again, or its new
  READY and count become the old ones, over files that hold other values. Between two
  rebuilds this is the third exception of `ReadyIsComplete` (`Overwrites`).
* `refresh_workspace` takes all models of the workspace in one unit of work and has no
  `try` of its own. A unified model, which the API accepts and `load_semantic_model`
  refuses, a dimension whose vector connector is unknown, or a model whose workflow
  cannot be built ends the refresh every minute: the models after it are never
  refreshed, and those before it are, in their files, and are rolled back in their
  rows. `StaysFresh` holds while there is no such model.
* A forced refresh that fails leaves an index without an interval FAILED, and the files
  of an earlier configuration are never removed.

## 4. Fairness

* `DatasetSync`: weak fairness of the steps of a started call (the event loop runs
  it, and requests have timeouts) and of starting an incremental sync (the cadence).
  Faults are bounded, and so are changes of the source: "eventually quiet".
* `BackgroundTasks`: weak fairness of the first step of every execution, of the
  return of every handler, and of `start`/`stop` once what they gather is done.
  Nothing is assumed of the scheduler, of callers or of failures.
* `FederationExec`: weak fairness of the scheduler's loop and of every stage task;
  a live source answers or fails by its timeout. No query is assumed to start.
* `Supervisor`: weak fairness of the turn's next step: a call of a language model or
  of an agent returns or raises. The refinement mapping carries it to `AgentTurn`.
* `Conversation`: weak fairness of the steps of a call; none of starting one.
* `Hosting`: weak fairness of the steps of a shutdown and of the queries that run.
  Idle clients are not assumed to leave.
* `ApiPaging`: weak fairness of starting an incremental sync (the cadence) and of its
  pages; changes of the source are bounded.
* `VectorIndex`: weak fairness of the steps of the scheduled refresh and of its beginning,
  since it runs every minute; an interval passes eventually. Of the calls of others only
  the commit is driven: they may wait for an embedding as long as they like. A refresh
  that another model ends is a step as well, so a workspace with such a model is not
  assumed away; `StaysFresh` speaks of the time when there is none. Faults are bounded.

The other modules have safety properties only and assume no fairness.

## 5. Proofs

Every theorem holds for all values of the constants that satisfy the `ASSUME`s of
its module: any number of rows, calls, tasks, executions, queries, accounts,
connections, datasets, requests and so on. The assumptions say what kind of value a
constant is and, where the code bounds it, the bound (steps of a plan between 1
and 10); TLC evaluates them in every run.

| Theorem | Statement |
|---|---|
| `DatasetProofs!TypeCorrect` | `Spec => []TypeOK` |
| `DatasetProofs!CursorCoverage` | `IncrementalOnly => (Spec => []CursorCovered)` |
| `DatasetProofs!TornFiles` | `Spec => TornFileNeverSucceeds` |
| `DatasetProofs!SyncedRowsAreFresh` | `OneCall /\ WholeListing => (Spec => []RowsFresh)` |
| `DatasetProofs!SelectionsAreSound` | `SemanticSpec => []SelectSound` |
| `DatasetProofs!MeasuresCountOnce` | `SemanticSpec => []CountsOnce` |
| `QueriesProofs!TypeCorrect` | `Spec => []TypeOK` |
| `QueriesProofs!CacheLabels` | `Spec => []LabelSound` |
| `QueriesProofs!OutputsAreThere` | `Spec => []InputsPresent` |
| `QueriesProofs!PushdownIsFresh` | `Result \in Scans => (Spec => []FreshResult)` |
| `QueriesProofs!PlanIsTheQuery` | `PlanSpec => []PlanComputesQuery` |
| `QueriesProofs!NamesDenoteDatasets` | `QuerySpec => []AliasDenotes` |
| `QueriesProofs!JobsReportTruly` | `JobSpec => []JobsTrue` |
| `CatalogProofs!SourcesStayUnique` | `Spec => []KeysUnique` |
| `CatalogProofs!ConnectorsStayInStep` | `Spec => []ConnectorsAgree` |
| `CatalogProofs!PublishedFilesAreTheSource` | `Spec => []FileOfSource` |
| `CatalogProofs!NoLockout` | `CfgSpec => []Restartable` |
| `CatalogProofs!StartsKeepTheApi` | `CfgSpec => StartKeeps` |
| `SupervisorProofs!PlansAreSound` | `Spec => []PlansSound` |
| `SupervisorProofs!TurnsKeepTheirPromise` | `Spec => Turn!TurnSafe` |
| `AgentsProofs!ThreadsStayIntact` | `Spec => []ThreadIntact` |
| `AgentsProofs!KeysAreFollowed` | `GatewaySpec => []KeysFollowed` |
| `AgentsProofs!AnswersAreSettled` | `AnalystSpec => []OutcomeSettled` |
| `AgentsProofs!ReportsRestOnEvidence` | `ResearchSpec => []ReportGrounded` |
| `AgentsProofs!AnswersAreTrue` | `AnswerSpec => []AnswerTrue` |
| `HostingProofs!LocksExclude` | `TasksSpec => []ExclusivePerLock` |
| `HostingProofs!AccountsStayUsable` | `Spec => []AccountsUsable` |
| `HostingProofs!QueriesMeant` | `Spec => []RunsWhatWasBound` |
| `HostingProofs!EndsClean` | `Spec => []CleanEnd` |
| `SourceProofs!IndexIsComplete` | `Spec => []ReadyIsComplete` |
| `SourceProofs!HitsNameTheirValue` | `Spec => HitsTrue` |
| `SourceProofs!PagesMissNothing` | `PagingSpec => []NothingMissed` |
| `SourceProofs!MergesKeepVersions` | `MergeSpec => ActsAsMergeRows` |

The arguments, each with its inductive invariant:

`CursorCoverage`. `CursorCovered` speaks of the stored cursor only; a call that
commits later has loaded an older cursor and computed a newer one from what it read
while other calls rewrote the file. `CoverageInv` adds what every call knows: the file
covers the cursor it loaded; while it lists, every row is in the file, was read or is
still to come; every row older than its checkpoint was read or is in the file; once it
has written, the file covers its checkpoint. An incremental merge never removes a row
(`MergeRows`), so a step of one call keeps what the others know. The assumption
`IncrementalOnly` (only incremental calls, a source with a cursor, an ascending
listing) is needed: a full refresh beside another call can remove rows, and with a
descending listing the page budget loses rows (section 3).

`SyncedRowsAreFresh`. For one call at a time, full refreshes included. `FreshInv` says
of the call under way that each row it asked for and that is older than its checkpoint
was read in its current version or is still to come, with pages enough left for those,
and that a file it has written has all of them (`CallFresh`). The property is false for overlapping calls
(section 3), hence `OneCall`, and `WholeListing` says that the listing, the newest rows
first, fits into the page budget.

`LocksExclude`. `LockInv` adds to the property the types of the executions and that
what `_active_tasks` stores under a name is an execution that is not done. The latter
is needed because `CreateManaged` reuses free executions and `stop` cancels through
`_active_tasks`: without it a cancellation could turn a finished execution into one
that is unwinding. The only step that enters a handler, `Run`, takes the lock of the
current epoch and requires that no handler holds it; every other step keeps task and
lock of the handlers under way.

`CacheLabels`, `PushdownIsFresh`, `OutputsAreThere`. `CacheInv` says that revisions
never run ahead of content (a sync writes the file before it commits), that what a
query is bound to is behind the content, that a label in a manifest is at most the
version of the data it names, and that a finished or answered scan of a query is at
least as new as its binding. Freshness of local stages is false with concurrent
queries (section 3), hence the restriction to a remote result. `PresentInv` says that
nothing is torn until a process dies, that a stage which some query has finished has a
whole manifest (it is replaced, by this query, another one or a leftover task, and never
removed), and that a local stage is not begun before every scan of its query finished.

`PlanIsTheQuery`. Rows, predicates, keys and values are arbitrary. `PlanInv` says that
the stages hold the filters and columns the optimizer computed and that what has been
scanned could be scanned. That a plan computes its query is then a fact about joins: a
predicate pushed into a scan has the same truth on the scanned row as on the row of the
table (`ScanKeeps`), a row of the query's answer is in the plan's (`NoRowLost`), and the
plan adds none if no pushed filter of an inner side passes NULLs (`NoRowAdded`).

`NamesDenoteDatasets`. `PathInv` says of a query in each phase what it has resolved,
loaded and bound (`QuerySound`), and that the stored aliases are unique with a SQL
store. Aliases are derived one dataset after the other, and each keeps its own unless
an earlier one has it (`DeriveKeepsOwn`); what was resolved before an `await` still
names the same dataset after it, since a query keeps what it loaded.

`JobsReportTruly`. `JobInv` says that what a bulk job has flushed is distinct from what
is stored and is what it will report (`BulkSound`), that overlapping jobs are recorded
(`OverlapKnown`), and that the parquet file holds the CSV of the row for as long as no
two conversions overlapped (`FileSound`, `Crossing`).

`SourcesStayUnique`, `ConnectorsStayInStep`, `PublishedFilesAreTheSource`. An operation
commits what it checked when it began. `Known` says that the history knows every
overlap: two calls in flight of kinds that are exposed to each other are recorded as
a pair. Then each invariant is of the form "a recorded clash, or the property and,
for each call in flight, what is left of its check": for a writer that its source is
still free (`KeysHold`), for any call that its connector is stored and no deletion of
it is under way (`StoredHold`), for a sync that the file it wrote is of the source
that its row will have (`FilesHold`). `SyncsKeep` says that a sync keeps the row it
loaded apart from what a sync writes.

`NoLockout`, `StartsKeepTheApi`. `RuntimeInv` says what a runtime that serves from a
store has: the current schema, the configuration in force built and its rows stored,
no conflict of names and aliases, and for every synced dataset a registered connector
of a type that can be synced. API calls check their names against these rows, so they
keep it, and it implies that three of the four ways in which a start fails do not apply.
The fourth, a contract that is refused, then applies exactly if an update has withdrawn
the capability to sync (`Withdrawn`): names identify connectors, so the connector that
the next start finds for a dataset is the one that is registered. The invariant is lost by
an edit of the configuration only, and the property speaks of the configuration in force.

`PlansAreSound`, `TurnsKeepTheirPromise`. `SupInv` adds to the property that a pass of
the loop makes at most `max_steps` calls (`Paced`), that a refusal has ended the plan
(`Refusals`), that a plan to ask the user has asked, so that a retry's previous route
is never `Clarify` (`ClarifyAsks`), and what a retry asks of the next plan
(`RetryPending`). The bound of `AgentTurn`, the greatest product of iterations and
steps over the constraints, needs that the products are bounded and so have a maximum
(`GreatestOfBounded`). Tool rewrites keep the agents of a plan and the steps that draw,
and whatever else they change reads what a rewrite in force names (`RewritesRedirect`);
all other references are the router's. Every step of the supervisor is a call, an end or
a stutter of `AgentTurn`; that the turn ends is the fairness part of `ImplementsTurn` and
stays with TLC.

`ThreadsStayIntact`. `ConversationInv` says what the messages are made of (`LogSound`),
that with a SQL store the row of the thread is locked from the first flush to the
commit, so that one call at a time stands between the merge and the storing of the
clarification state (`LockSound`), that the state it was handed is the one it flushes,
its own earlier reading if that differs (`Handed`), and that the state knows the
questions the user was asked in a row (`StreakSound`). A stale reading that is flushed
ends the row (`StreakBefore`), which is the exception in the property.

`KeysAreFollowed`. `KeysInv` says that a fetched key set was published since its
request was sent, that a cached one was published since the time from which
its age counts, and that what was published at a time does not change. Overlapping
fetches may store the older of two sets last; its age is then older too.

`AnswersAreSettled`. `AnalystInv` says that every asset is admitted by the policy, that
no more than the budget was executed, and that the reply is the verdict on the last
execution.

`ReportsRestOnEvidence`. Each list of the research agents is a fold: pages are added
unless one has their address, evidence unless it is a near duplicate, so what a fold
keeps has no two alike, whatever it reads (`FoldStays`: a set that every step of a fold
stays in contains its result). A stable sort by scores is a permutation
(`OrderedSequence`), so ranking and cutting keep that. `ResearchInv` adds what the report
was validated against and the counts behind `weak`.

`AnswersAreTrue`. The rows of a result are ranked by a strict order, the cells' numbers
and then the rows' places, so a ranking lists each row once and descends
(`RankedDescends`). `AnswerInv` says that each claim is read off such a ranking or off
the first and last point of a trend (`Grounded`), that chart and note agree (`Drawn`,
`Noted`), and that the readers of a question differ only where a warning says so
(`Warned`, `ReadersAgree`).

`AccountsStayUsable`. `AuthInv` says of every handler what it has read and what is left
of it: the target of an update still leaves an administrator, the principal of a session
is what its account says (`RolesInv`), a handler that stores a secret found none
(`SecretsInv`); and that overlaps are recorded (`OverlapsSeen`).

`QueriesMeant`, `EndsClean`. `ConnInv` says that a portal whose statement was not
parsed again names the query it was bound to. `LifeInv` says for each phase of the
lifespan what has been started and what is undone.

`IndexIsComplete`, `HitsNameTheirValue`. `VectorInv` says for each phase of a refresh
what it has put into the files (`Contents`), that it is the only one that rebuilds
them, or the files are in doubt (`Alone`), and that the row it merged over is the stored one
(`Abreast`). A READY row is then complete, or a refresh that answers for it is under
way (`Complete`). A call that only lists and saves leaves the files alone: its commit
changes the row to one that is not READY, to the row as it is, or to a READY that it
had listed, and then the files are in doubt (`Overwrites`). Which of the three it is
depends on the identity of rows; one that is inserted takes an id that no call has, and
that there is one is the pigeonhole principle (`UnusedId`).

`PagesMissNothing`. `PagingInv` says, for the sync under way, which records its pages
have read or will still read. A listing is an order of the matching records
(`Positions`), a page the stretch of it that the request names (`AnswerIsNext`), and
the next request begins where the page ended, except where the client-side filter or a
change of the source moves it (`PageCovers`); those records are in `passed` and `gaps`.
A full refresh replaces the rows and keeps the cursor: it has read every record that was
not touched meanwhile, and what was touched is no older than the cursor it keeps.

`MergesKeepVersions`. What counts of a list of rows is the last version of each identity
(`LastCounts`); the merge has two lists, the rows of the dict and the extras. `Taken`
says of a prefix of the rows that the loops' lists show the same versions as the prefix:
`merged[key] = row` replaces what is seen of the row's identity and nothing else
(`PutRowCounts`), and extras have no identity. The merged list shows what the
old list followed by the batch shows, which is what `MergeRows` of `DatasetSync` says.

`SelectionsAreSound`, `MeasuresCountOnce`. The models are arbitrary: any number of
datasets, relationships in cycles, relationships to datasets the model lacks. The search
keeps that each dataset was queued once with a path to it and that every relationship of
a dataset taken from the queue was followed (`SearchRight`). It takes as many turns as
there are names, so a search that finds nothing has emptied its queue; what it visited
is then closed under relationships (`NotFoundIsApart`), and everything connected to the
base lies in it (`ConnectedWithin`). A plan keeps that each step joins one new dataset to
one that is joined (`StepsSound`); following a path never fails, since its first
dataset is joined (`FollowPath`). Aliases follow the steps (`AliasesFollowSteps`). For
the rows, `OneEach` says that there is one row for each row of the base;
a left join from the many to the one side keeps it (`JoinKeepsOneEach`).

What the attempts to prove showed. The translation of a semantic query also fails where
a path leads through a dataset that the model does not have, which a relationship may
name; the instance had no such relationship and has one now. The order in which a fold
over a set takes its elements, and the order of rows with equal scores, had been left
unspecified in `QueryPath`, `SemanticQuery`, `Research` and `Answer`; the code has an
order, which the models have now. A plan also fails where a predicate of one table has a
column of the other without a table (section 3), and a search for a single page never
calls itself weak; both had been outside the instances. `ConnectorsAgree` and
`FileOfSource` were not inductive: a sync can bring back the connection that an update
took from its dataset (`strayed`, section 3).
`RetryElsewhere` is false where the rule for charts applies to constraints that require
a visualization (section 3); the instance had no such constraint and has one now.

Only model-checked, and why:

* Liveness: `Converges`, `CatchesUp`, `StartAndStopEnd`, `QueriesEnd`, `AsksEnd`,
  `ShutdownEnds`, `StaysFresh` and the fairness of `ImplementsTurn`. Fairness and
  ENABLED are out of the prover's reach.
* `FreshResult` of a local stage with one query at a time. With concurrent queries it is
  false (section 3), so a proof would have to carry that one query runs at a time through
  every artifact the earlier queries left.

## 6. Plan

Done: the modules of section 2, their runs, and the theorems of section 5. Left, in
this order:

1. A proof of `FreshResult` of a local stage for one query at a time.
2. `SyncAndQuery`: `DatasetSync` and `FederationExec` composed, so that `Rewrite` and
   `Publish` are the steps of a sync.
3. `ScheduledSync`: `BackgroundTasks` with syncs as handlers; cancellation of a sync
   between writing the file and committing.
4. The missing operations of the partly modelled components: deleting and renaming
   threads, password reset, the in-memory catalogue, deleting a semantic model.

## 7. Not modelled

SQL rendering and transpiling are pure functions over syntax trees of a third-party
parser; they have no state, and their inputs are out of reach of a small instance. Of
the federation planner, the join order, join strategies and statistics are left out:
the plan records them and no stage reads them. SQL validation and the rendering and
redaction of results, which make up a large part of the query services, are pure as
well. FEDERATED datasets as assets of the analyst, and its fallback from temporal casts,
are left out. In `VectorIndex` embeddings and scores are left out, and with them that
the FAISS connector divides the vectors of a batch by the norm of the whole batch. In
`Answer` NaN does not occur.

The UI, the client and the command line, the declarations of HTTP routes and of API
models, the connector packages and the migration scripts are I/O, declarations and
serialisation. They are the larger part of the source: the map covers about a
quarter of its lines, and most of what remains keeps no state of its own. Prompts, and
what a language model answers, are choices of results in the modules of the agents.
`PROJECT.json` says for each component what is left out.
