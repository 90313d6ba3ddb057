# TLA+ models of the self-learning coding assistant

These modules model the backend's own logic. Three of them model the part that
decides: the orchestrator that walks a plan, the circuit breaker its runs share,
and the memory store they write to through one database transaction each. Five
more model what surrounds them: the inside of one subtask (model calls, retries,
tools, child processes), the maintenance of memories, the way of trace events to
table, stream and metrics, the ingestion of documents, and the index of a
project's symbols. TLC checks all of them on small instances. TLAPS proves all
of their safety properties for every size, and of each liveness property the
part that is safety: no step leads away from the end (section 4). That the steps
are taken stays with TLC.

Paths below are relative to `src/backend/app/` unless they start with `src/`.

## 1. The system

| Part | State it keeps | Operations | Talks to |
|---|---|---|---|
| Orchestrator (`orchestration/orchestrator.py`, `state.py`) | one `RunState` per request: status, list of subtasks, caps, failure streak | `run_stream`: classify, admit, plan, drive, finalise, remember, finish | agents, tools, memory, breaker; yields events to the chat route |
| Circuit breaker (`safety/guards.py`) | per intent: consecutive failures, `open_until` | `is_open`, `record_failure`, `record_success` | called twice by each run, at admission and at the end |
| Chat route (`api/routes/chat.py`) | none; owns the request's database session | starts a run, turns its events into SSE, turns an exception into an `error` event | orchestrator, short-term memory |
| Long-term memory (`memory/long_term.py`) | rows `memories`, unique per user and content; points of the vector store | `write`, `query`, `record_use`, `archive` | session, embedder, vector store |
| Episodic memory (`memory/episodic.py`) | rows `episodes` | `start`, `finish`, `query_similar` | session, embedder, vector store |
| Request session (`db/session.py`) | one transaction per request | commit, rollback, close | PostgreSQL |
| Lifecycle worker (`memory/lifecycle.py`) | none of its own | utility, deduplication and decay passes in one transaction | memories, vector store |
| Short-term memory (`memory/short_term.py`, `db/redis_client.py`) | capped list per session, token counters | push, get, `incr_tokens` | Redis |
| Tracer and persister (`observability/`) | subscribers, bounded queue | emit, subscribe, flush, shutdown | every part emits; rows in PostgreSQL |
| Tools and sandbox (`tools/`) | working directories, child processes | run with a timeout | called by `tool_executor` |
| RAG ingestion (`rag/`), project indexer (`project/`) | vector points; symbols and edges | ingest, search; index, query, neighbors | vector store, PostgreSQL |
| Learning (`learning/`) | calibration curve, samples, patterns, lessons | fit, apply, evolve, persist a reflection | sessions |
| Agents, router, LLM providers (`agents/`, `orchestration/router.py`, `llm/`) | none | prompt, call, parse, retry | external services |
| Frontend (`src/frontend/src`) | one chat state | send, cancel | chat route |

What is hard here:

* **A list that changes under its driver.** A reflection inserts subtasks in
  front of the one in hand, again and again; four caps (attempts, insertions,
  iterations, streak) have to fit together for the run to end and to end for the
  right reason.
* **Overlap.** Every request is a coroutine. A run asks the breaker at its
  start and answers at its end, all its awaits later.
* **Partial failure.** Handlers swallow exceptions: a failed memory write, a
  failed end of the episode, a vector call. What the database session looks like
  afterwards is decided elsewhere.
* **Two stores without a common transaction.** PostgreSQL rows and vector
  points, written in an order chosen to fail on the safe side.
* **Disconnects.** A client that goes away cancels the run at whichever await it
  is in, and the session then commits what the run had flushed.

What makes each part correct, in a line:

* Orchestrator: each subtask is driven at most once, the list grows only out of
  its budget, every run ends, the final status describes the work.
* Breaker: it opens only after the threshold of failures without a success,
  whoever reports when; it never stays open for ever.
* Memory store: a durable memory of a run has the run's episode, finished unless
  the client left, what was announced is durable exactly when the request
  committed, a visible row that names a point has one, no two requests block each
  other for ever.
* Lifecycle: merging keeps one memory of each cluster of near duplicates, a pass
  leaves no near duplicates among the rows it takes, decay spares what was in use
  and scored, a live memory keeps its point unless a pass failed.
* Tracer: every event reaches the table once and in order, or is accounted for as
  lost or dropped; a stream sees all of its trace; shutdown drains and ends.
* Ingestion: every line a chunker takes is in a point after an ingest (of a Python
  module with a docstring or definitions it takes only these), each point has its
  own text's vector, the statistics are true.
* Project index: the rows are those of one pass; answers put together from
  several statements still describe one tree.
* Attempt: a subtask passes only on its latest run of its tests, every metered
  reply of the model is traced, neither a tool's program nor a child on its output
  pipes runs on after the tool, and the subtask ends.

`PROJECT.json` lists each hazard with the line where it bites and the properties
about it.

## 2. The modules

```
RunContract          what a run shows to its surroundings (abstract)
  ^ implemented by           ^ each run of it implemented by
Orchestrator         BreakerFleet            MemoryStore
  MCOrchestrator       MCBreakerFleet          MCMemoryStore
  OrchestratorProofs   BreakerFleetProofs      MemoryStoreProofs

Attempt         Lifecycle         Tracing         Chunking       PythonGraph
  MCAttempt       MCLifecycle       MCTracing       Ingestion      ProjectIndex
  AttemptProofs   LifecycleProofs   TracingProofs     MCIngestion    MCProjectIndex
                                                    IngestionProofs  ProjectIndexProofs
```

`Chunking` and `PythonGraph` are pure: functions of a document and of a source
tree, which `Ingestion` and `ProjectIndex` use inside their actions. Each of the
five modules of the lower row has a `TypeOK`, which the runs leave out in favour of
properties that could fail for a reason; it is proved instead (`TypeCorrect`). A
module `...Proofs` extends the module it is about.

### RunContract

The abstract run: admission, planning, working, reporting, closed or lost; the
verdict, the outcome of its episode and its vote to the breaker. The two
detailed modules are held to it, so that the breaker's model and the driver's
model agree on what a run is.

### Orchestrator

One run of `_run_stream_inner` with `_run_subtask` and `_insert_subtasks`.
The coroutine can be interrupted only at an await, so an action is the code
between two awaits and `pc` names the await ahead.

| Variable | Code |
|---|---|
| `status`, `iterations`, `insertionsRemaining`, `streak`, `tokensUsed` | the fields of `RunState` |
| `order` | `state.subtasks`, as ids |
| `state`, `attempts`, `asked` | `SubtaskState.status`, `.attempts`, `Subtask.max_attempts`, by id |
| `completed`, `current` | `completed_ids`, the subtask in the driver's hand |
| `episode`, `vote`, `stream` | the episode row, what the breaker was told, how the client's stream ended |
| `ran`, `metered` | history: the driving order, the tokens really used |

| Action | Code |
|---|---|
| `Classify`, `Refuse`, `Admit`, `OpenEpisode` | the router's answer, the breaker check, `start_episode` |
| `PlanFails`, `Plan` | the two failing exits of the planner; the caps set from plan size and settings |
| `NextSubtask` | the head of the `while` loop: next subtask, end of the list, iteration cap |
| `BuildContext`, `SpecialistAnswers`, `SpecialistRaises`, `RunTools`, `EvaluatePasses`, `EvaluateFails`, `Reflect` | one attempt of `_run_subtask`; `Reflect` contains the insertion and the retry |
| `SettleSubtask` | back in the driver: completed, streak, token budget |
| `Finalize`, `ExtractMemories`, `CloseEpisode`, `Report` | the way out |
| `AgentRaises`, `Disconnect` | an exception nobody catches; the client goes away |

Abstracted: what agents say (any plan size up to `MaxPlan`, any verdict, up to
`MaxProposed` proposals), texts, tools, confidence, the agent that a subtask
names. Ids are numbers in order of creation: the code draws them with `uuid4`,
both for planned and for inserted subtasks, and only compares them.
`depends_on` is absent because the driver never reads it.

### BreakerFleet

Any number of runs, by slots that are reused, that share one breaker keyed by
intent. Of the clock it keeps `cool[k]`, the time left until `open_until`;
`consecutive[k]` is the counter of the code. `fails` and `overtaken` are history:
failures reported since the last success, and the runs in flight when the breaker
last tripped. `fails` wraps once past the threshold, as only its remainder and
whether it reached the threshold matter. Each step of a slot is a step of
`RunContract` (`RunsKeepContract`).

### MemoryStore

Requests (chat, `POST /memory`, `DELETE /memory/{id}`) with one session each.
`Select`, `Touch`, `Embed`, `Insert` are the awaits of `LongTermMemory.write`;
`DropPoint` and `FlushArchive` those of `archive`; `OpenEpisode` and
`FinishEpisode` those of `EpisodicMemory`; `Commit` and `CommitRaises` the two
ways out of `get_db_session`. `FlushFails` is what a failed flush does:
PostgreSQL rolls back, the SQLAlchemy session stays unusable until a rollback
that nobody makes before the end of the request, and the chat run, which caught
the exception, goes on with its next memory.

`Cut` is what happens to a request from outside. `Disconnect`: the client of a
chat run leaves. sse-starlette cancels its streaming tasks and returns, so nothing
is raised into `get_db_session`, which commits (`db/session.py:99`). A statement
that was under way takes its connection with it, and the session is broken; a
disconnect between statements, at a vector or model call or an event on its way,
commits what the run had flushed, and `gone` remembers it. `Abandon` is the
process that stops, or the database that ends the connection: a rollback.
`POST /memory` belongs to one user, `Demo` (`api/routes/memory.py:58`,
`api/routes/projects.py:25`); a chat request names any stored user.

External, modelled from how the code uses it: visibility and row locks of
PostgreSQL at READ COMMITTED, its deadlock detector (any transaction of the cycle
is the victim), the vector store (a call may fail before or after it was applied),
and FastAPI, which is taken to leave a dependency with `yield` after the response
was sent. `src/backend/pyproject.toml` admits any version from 0.110; those from
0.106 to 0.117 leave it before a streamed response begins. With them the session
of a chat run is committed and closed before its first statement, which then
begins a transaction that nobody commits; the model is of the other versions.

### Attempt

One call of `Orchestrator._run_subtask`, which `Orchestrator` takes as one answer
per agent, opened up: agents, provider, retries, meter, spans, tools, processes.

| Variable | Code |
|---|---|
| `specialist`, `provider` | the agent the plan named; `LLM_PROVIDER` |
| `pc`, `attempt`, `status` | the await in hand, the loop over attempts, how the subtask ended |
| `ask`, `try`, `usage` | `_llm_json`: first or second `complete()`, the attempt inside `with_retry`, `usage_total` |
| `meter`, `traced` | calls in `TokenMeter`, completions and embeddings; usage on END events |
| `embedded` | history: those of the metered calls that embed the query of a context |
| `calls`, `runs`, `workdir` | `tool_calls` still to run, `tool_runs`, the batch's directory |
| `proc` | `Sandbox.run`: the program, whether a child of its own holds the pipes (`holding`), whether one with output of its own runs (`loose`), whether the timeout fired |
| `seen` | history: how the last run of the two judged tools really went |

| Action | Code |
|---|---|
| `BuildContext`, `SilentReturns`, `JudgeByTools` | agents that ask no model, and the evaluator's verdict from tool runs; `Embed` is the up to three embeddings of a context's query |
| `ProviderFails`, `Garbled`, `Answer` | one provider call: an error, a response without the expected fields, a reply that is metered, parsed, and returned from the agent; `Conclude` and `AfterReflector` are the way back in `_run_subtask` |
| `RefuseTool`, `RefuseArgs`, `RefuseSource`, `FailInside`, `SpawnFails`, `RunInside` | a tool call that starts no process |
| `Spawn`, `Expire`, `Collect` | a tool call that does |
| `LeaveWorkdir`, `Cancel` | the end of the batch; the client leaves |
| `LeaderForks`, `Detach`, `LeaderExits`, `ChildExits` | external: what the started program does |

A reply is abstracted to what its readers tell apart: can JSON be pulled out of
it, is that an object, its confidence against the threshold, its tools, its
verdict. The local provider's replies are computed by the code: the smallest
value of the schema. `Networked` is `sandbox_network_default == "allow"`, with which
the registry has `web_search` too (`tools/registry.py:190`).

### Lifecycle

Passes of `LifecycleWorker.run_once` as transactions. `RecomputeUtility`, `Dedup`
and `Decay` are the three SELECTs with what they decide; `Write` keeps the
changed attributes for the flush, `LockRow` is one UPDATE of it, `DropPoints` the
vector calls in between, which may fail and are not undone; `Commit`, `Abort` and
`Deadlock` end a pass. The first two SELECTs have a LIMIT and so has the model:
`RecomputeUtility` reads any `UtilityBatch` live rows (800 in the code, in no order),
`Dedup` the `DedupBatch` oldest with a vector (200). A new score within 0.01 of the
stored one is not written, whatever the threshold between them: `Steady` are the
rows for which that can happen. `Deduplicated` runs the nested loops of `_dedup_pass` as
they are, with a row that goes on being compared after it was archived.
`TouchRead`, `TouchFlush`, `TouchCommit` are a request that remembers a known
content. History: `met` are the passes that overlapped, `scored` the rows in use
whose utility a pass brought up to date, `skipped` the near duplicates of groups it
could not embed.

Abstracted: a utility is a rank, zero below the archive threshold and growing with
the accesses; similarity is a graph on the rows, which are numbered by age; rows of
different user, project or kind are never compared, so only rows of one such
group count as similar.

### Tracing

The ready queue of the event loop is in the model, because the completeness of
the drain rests on its order. `OpenSpan` and `CloseSpan` are the two ends of
`trace_span`; `Emit` puts the event into the streams' queues at once and creates
the subscribers' tasks; `Deliver` runs them (metrics, then persister).
`FlushSome`, `InsertEnds`, `Resume`, `Interval` are the persister's loop; `Stop`,
`Drain`, `DrainEnds`, `StopTimesOut` its shutdown; `Subscribe`, `Show`,
`Disconnect` the stream of one trace. `emitted`, `lost`, `dropped`, `sealed`,
`since` and `counted` are history.

### Chunking and Ingestion

`Chunking` has the chunkers as functions of a language and of lines reduced to
kinds (blank, heading, definition, method, ...). In `Ingestion`, requests walk a
tree of files that `Edit` changes. A task is one file: `StartTask` (semaphore,
read, cut, cache lookups: no await in between), `AnswerBatch` once per batch of
misses, `Upsert`; `ReadFails`, a short or empty answer and `UpsertFails` (a call
that raises, before or after the collection has taken the points) are the
failures, each of which the code swallows. A vector is modelled by the text it is
of, so a misplaced one shows. `PointId` is the tuple the code hashes.

### PythonGraph and ProjectIndex

`PythonGraph` is `extract_python` and the resolution of names to rows: module
names, relative imports, aliases, symbols, edges with or without a target. In
`ProjectIndex` an index request is a transaction of two DELETEs (`DropEdges`,
`EdgesGone`, `DropSymbols`), which work row by row under READ COMMITTED, then
`Store` and `Commit`; the committed tables are sets of passes, as the rows of a
pass commit together. `vectors` are the points of symbols, written before the
commit and never deleted. `DeleteProject` waits for the locks and cascades. The
reader runs `neighbors` (`AskNeighbors`, `LevelOut` and `LevelIn` for the two
SELECTs of a level, `Neighbors`),
`architecture_map` (`AskMap`, `ArchitectureMap`) or `query` (`AskQuery`, `Nearest`,
`Query`).

## 3. The runs

| Run | Question | Instance |
|---|---|---|
| `orchestrator` | does a run keep its budgets, end, tell the truth about its work and keep `RunContract`? | plans of 1 or 2 subtasks, up to 3 proposals a reflection, depth 2, streak limit 2 |
| `breaker_fleet` | do late reports break the breaker? | 4 slots, one intent, threshold 2, cooldown 2 |
| `memory_store` | do overlapping writers keep rows, episodes and points together? | 2 requests of any kind, 2 users, 2 contents, up to 2 writes each |
| `attempt` | is a pass earned, each reply's usage traced, each program ended with its tool, and does the subtask end? | 5 kinds of specialist, 2 providers, 5 tool lists, network allowed, 2 attempts, 2 tries |
| `lifecycle` | do maintenance passes keep what they should, side by side and with users? | 2 passes, 4 memories, LIMITs of 3, 2 similarity graphs, 1 use |
| `tracing` | does every event arrive, once and in order, and does shutdown end? | 2 runs, 2 spans, queue 2, batch 1, 1 lost insert |
| `ingestion` | do overlapping ingests keep points, vectors and statistics true? | 2 requests, 2 projects, 2 files, 13 documents, 1 edit, 1 failure |
| `project_index` | do overlapping index requests replace each other, and do readers see one tree? | 3 requests, 4 trees, limit 2, depths 1 and 3 |
| `orchestrator_tokens` | is the token budget a bound? (no) | as above with tokens metered |
| `orchestrator_stuck` | is a stuck run a failure to the breaker? (no) | plans of up to 4 subtasks, streak limit 4 |
| `breaker_failures` | does repeated failure stop an intent? (no) | 2 slots, threshold 2 |
| `memory_points` | does a live memory have its point? (no) | as `memory_store` |

Why the bounds are enough. *Orchestrator*: depth 2 gives an insertion budget of
4, so a reflection can be granted in full, in part and not at all, inserted
subtasks fail and insert in turn, and the attempts asked for (-1 and 3) are
raised and cut. The streak limit of the code is 4; with plans this small 2 makes
it happen, with passes before and after. *Breaker*: with threshold 2, four slots
hold the two runs that trip it, one that reports late and one that asks
meanwhile. One intent, as the state of intents is separate; the theorems cover
any number. *Memory*: two contents are what two chat runs need to lock in
opposite orders; two requests suffice for a conflict, a deadlock, a disconnect or an
archive that races a writer.

*Attempt*: two attempts are what a stale verdict of the first needs, two tries
(four in the code) what a retried call needs; the tool lists hold a test run
followed by a program, two test runs with a write in between, an unknown tool, a
search; every tool that starts a program meets one that forks, detaches or overruns.
*Lifecycle*: four rows are one more than the two LIMITs; their near duplicates
form a triangle within the LIMIT, on which an archived row goes on winning, or a chain
that reaches beyond it; with two passes they overlap or follow each other. *Tracing*: a
queue of two with batches of one is filled, overflows and is drained over several
flushes while events are still being delivered; one name fills the counters' cap.
*Ingestion*: windows of two lines overlapping by one, batches and cache of two,
concurrency one per request (two requests give two tasks at a time), documents of
up to seven lines with each kind of line in each language that looks at it, among them a
module that is a docstring and statements.
*Project index*: three requests give one that has committed and two that overlap;
the trees have a chain of imports, a package with relative imports, aliases,
inheritance, methods and a file that does not parse, and more neighbors than the
limit; in one two files import functions of each other, for which there is no
edge. The symmetric sets are those whose members no definition tells apart.

What the passing properties say:

* `BudgetConserved`, `ProcessedOnce`, `CapIsSlack`: list length plus remaining
  budget is constant, ids are unique, no subtask is driven twice, and the
  iteration cap, `max(8, 2n + 2d)`, is never what ends a run: `n` plus the
  insertion budget, `max(1, 2d)`, stays below it whenever a subtask still waits.
* `StreakIsTrailingFailures`, `VerdictMatchesWork`: the counter equals the
  trailing failures of the driving order; success means that every subtask
  passed, failure that all were tried and failures prevail, an untried subtask
  that the streak aborted the run.
* `SettledStays`: no later step changes the verdict of a settled subtask or the
  relative order of the list. `Terminates`: every run ends.
* `ImplementsContract`: the run refines `RunContract` (stage from `pc`, verdict
  from `status` once it is final).
* `TripIsEarned`, `OnlyEarlierRunsInFlight`, `AcceptedAgain`: see the comments in
  `BreakerFleet`.
* `MemoriesHaveEpisode`, `AnnouncedAllOrNothing`: the handlers that swallow
  exceptions would look as if they could commit half a run. They cannot, because
  a failed flush spoils the session and the whole request rolls back. The cost is
  visible in the same model: everything the run remembered before is lost, after
  it was announced to the client. A client that leaves can: the memories flushed
  until then are committed, beside an episode that stays pending. The first property
  therefore asks for the episode, and for a finished one only of runs whose client
  stayed; the second holds for both.
* `PointBeforeRow`: a crash between the two stores leaves a point without a row
  and never a visible row without the point it names, unless an archive deleted
  it. `EveryRequestEnds`: lock waits end, also by the deadlock detector.

* `UsageTraced`, `PassIsEarned`, `HoldersWatched`, `SubtaskEnds` (`Attempt`):
  the model's replies are metered and traced alike except those of an agent that
  raises or is cancelled, and the embeddings of a context, metered by the same
  `TokenMeter`, are on no span: what the trace of a passed subtask is short of the
  meter is exactly these. A pass rests on the latest test run of this attempt, as it
  really went. Of the tool's program and a child that keeps its output pipes, only a
  cancelled run leaves one behind; a child that redirects its output is not waited
  for and may outlive `Sandbox.run` on any way out, also the kill. The workdir counts
  as left with its context; that `rmtree(ignore_errors=True)` removes every file is
  not claimed. A subtask ends unless a grandchild of a killed program holds the
  output pipe open for ever.
* `ClusterSurvives`, `SurvivorsDissimilar`, `LostOnlyByFailedPass`,
  `UsedDoNotDecay` (`Lifecycle`): the first only for passes that do not overlap:
  two that do can archive each other's winner. The second leaves out the rows
  that come after the 200 oldest and those of groups that could not be embedded; the
  last those beyond the 800 that were read and those whose score moved by 0.01 at
  most, which keep a stale utility and may decay while in use.
* `EventsAccounted`, `DrainStoresAll`, `StreamSeesAll`, `MetricsConsistent`,
  `ShutdownEnds` (`Tracing`): the second is what the ready queue is modelled for: a
  delivery that was ready before the loop exited is ahead of the drain.
* `StatsHonest`, `VectorsBelong`, `LinesFindable`, `OverwriteKeepsText`
  (`Ingestion`): the last says that an edited file's chunks never take the ids of
  the old ones, which therefore stay for ever. The lines of `LinesFindable`
  are those a chunker takes, `Undertaken`: of a Python module its docstring
  and its definitions, and every line only where it has neither or does not parse. The
  rest of a module with a docstring or a definition, its imports and statements,
  gets no windows and is in no point (`rag/chunking.py:56`, `:140`).
* `OldPassesReplaced`, `NeighborsExact`, `ClustersAreComponents`,
  `QueryOfOneIndex` (`ProjectIndex`): the first allows the rows of two requests that
  overlapped; the answers are compared with reference definitions: distance in the
  graph, and the groups of files that load each other by Python's rules (`Imports`:
  `import a.b` loads `a` and `a.b`, and so does `from a.b import c` when `c` is a function
  of `a.b`). The indexer keeps an import as an edge only if its full dotted name is a
  module, so it has none for a member's import, for `*` and to the packages on the
  way (`project/indexer.py:394`). `ClustersAreComponents` therefore says that a cluster
  never reaches beyond a group, and is the group where every import names in full all
  that it loads (`WholeNames`). It says nothing of trees in which a package imports
  relatively or an import leads beyond the outermost package (`PlainImports`, see
  below) or another symbol has the name of a module (`ModulesDistinct`:
  `pkg/__init__.py` with a function `m` beside `pkg/m.py`, where the edges find the symbol
  emitted later). Modules are named from the root of the tree, as the indexer does;
  another entry of `sys.path` below it is not considered.

Fairness. `Attempt`: weak fairness of the subtask's own steps (`Works`): provider
calls end by their request timeout, `wait_for` fires; none for the started
programs and their children, which may run for ever, nor for the client.
`Tracing`: weak fairness of the event loop and the persister's insert; none for
runs, streams or the start of a shutdown. `Lifecycle`, `Ingestion` and
`ProjectIndex` state no liveness. `Orchestrator`: weak fairness of the run's own
steps: agents and stores answer or raise (LLM calls have timeouts and bounded
retries, tools have timeouts). No fairness for `Disconnect`. `BreakerFleet`: only
time passes; no run need ever move, and no client need ever come back.
`MemoryStore`: weak fairness of each request's steps, which a lock wait disables;
none for `Disconnect` and `Abandon`.

### Where code and documentation disagree

* **Tokens** (`TokensBounded`). The header of `orchestrator.py` says that
  `LLM_MAX_TOKENS_PER_TASK` bounds the tokens of a run. `RunState.add_tokens` has
  no caller: `tokens_used` is 0 at the comparison.
* **Stuck runs** (`StuckRunIsAFailure`). The breaker is described as the last
  line of defense against runaway loops; a run its failure streak aborts is
  PARTIAL, and PARTIAL is reported as a success.
* **Planner failures** (`RepeatedFailureStops`). `src/ARCHITECTURE.md` section 11
  has the breaker stop orchestration on repeated failure; a run that fails in
  the planner is not reported.
* **Shared points** (`MemoryHasItsPoint`). The point id depends on the content
  alone, rows are per user: the second user's write takes the point over, and an
  archive by either removes it for both. TLC's trace is a `POST /memory`, which is
  always the user `demo`'s, and the chat run of another stored user.

Further places, found while modelling, where the code differs from what its
comments suggest or where a property had to be stated with an exception:

* *A disconnect in the memory phase* (`db/session.py:99`, `api/routes/chat.py:64`):
  the memories flushed so far are committed beside an episode that stays pending.
* *The LIMITs of a pass* (`memory/lifecycle.py:113`, `:148`): near duplicates beyond the
  200 oldest rows are not compared, at any number of passes, as long as these live;
  beyond the unordered 800, or within 0.01 (`:131`), a utility stays stale.
* *Modules with a docstring* (`rag/chunking.py:56`) get no windows: a module without
  definitions is indexed as its docstring alone, and the place of that chunk is
  lines 1 to 5 wherever the docstring ends (`:140`).
* *Overlapping index requests* (`project/indexer.py:107`, "keep indexing
  idempotent"): two requests that begin before either commits leave both their
  rows; `OldPassesReplaced` excludes just these.
* *Relative imports in `__init__.py`* (`project/ast_python.py:99`) are taken one
  level too high; `ClustersAreComponents` excludes trees that have them.
  `import a.b` binds `a` to `a.b` (line 88), and a call of a function of the same
  file never resolves (line 224).
* *`max_nodes`* (`project/indexer.py:323`) ends a level, not the search:
  `NeighborsExact` states how far beyond it goes.
* *"The index never duplicates"* (`rag/ingestion.py:246`) holds for an unchanged
  file; the chunks of an edited one stay beside the new. Ids omit project and user:
  an ingest of the same file elsewhere takes the points over.
* *A killed tool* (`tools/sandbox.py:165`): only the direct child is killed and the
  output is then awaited without a timeout; a child with output of its own
  survives the kill, and the normal end.
* *The trace's usage* (`agents/base.py:137`, `observability/tracing.py:222`) misses
  agents that raise and all embeddings (`agents/context_builder.py:98`, `:119`, `:143`);
  a response without the expected fields is charged by the
  provider, counted by nobody and retried (`llm/openai_provider.py:59`).
* *The local provider* (`llm/local_provider.py:156`) makes up `false` for every
  required boolean and no optional tool calls: with it no subtask ever passes.
* *A stream* (`api/routes/traces.py:140`) closes on the END event of its run; one
  that ends in ERROR leaves it pinging.
* *Retry of failed embeddings* (`memory/long_term.py:105`) is promised of the
  lifecycle worker, which selects only rows that have a `vector_id`.

## 4. What is proved

| Theorem | Module | Says, for every value of the constants |
|---|---|---|
| `TypeCorrect` | `OrchestratorProofs` | `TypeOK` |
| `BudgetAlwaysConserved` | `OrchestratorProofs` | `BudgetConserved` |
| `AlwaysProcessedOnce` | `OrchestratorProofs` | `ProcessedOnce` |
| `CapNeverReached` | `OrchestratorProofs` | `CapIsSlack` |
| `StreakAlwaysTrailing` | `OrchestratorProofs` | `StreakIsTrailingFailures` |
| `VerdictAlwaysMatches` | `OrchestratorProofs` | `VerdictMatchesWork` |
| `SettledAlwaysStays` | `OrchestratorProofs` | `SettledStays` (action property) |
| `RunImplementsContract` | `OrchestratorProofs` | `ImplementsContract` (refinement) |
| `AttemptsAlwaysBounded` | `OrchestratorProofs` | no subtask is tried more often than plan and depth allow |
| `EveryStepDescends` | `OrchestratorProofs` | the safety half of `Terminates` |
| `TypeCorrect` | `BreakerFleetProofs` | `TypeOK` |
| `TripAlwaysEarned` | `BreakerFleetProofs` | `TripIsEarned` |
| `NoRunSlipsIn` | `BreakerFleetProofs` | `OnlyEarlierRunsInFlight` |
| `EachRunKeepsContract` | `BreakerFleetProofs` | `RunsKeepContract` (each step of a slot is one of `RunContract`) |
| `RefusalAlwaysShrinks` | `BreakerFleetProofs` | the safety half of `AcceptedAgain` |
| `TypeCorrectness` | `MemoryStoreProofs` | `TypeOK` |
| `EpisodeBesideMemories` | `MemoryStoreProofs` | `MemoriesHaveEpisode` |
| `AnnouncementsHold` | `MemoryStoreProofs` | `AnnouncedAllOrNothing` |
| `PointsComeFirst` | `MemoryStoreProofs` | `PointBeforeRow` |
| `NobodyEverStuck` | `MemoryStoreProofs` | every chain of locks leads to a request that can go on |
| `EveryStepDescends` | `MemoryStoreProofs` | with it, the safety half of `EveryRequestEnds` |
| `TypeCorrect` | `AttemptProofs` | `TypeOK` |
| `UsageAlwaysTraced` | `AttemptProofs` | `UsageTraced` |
| `PassAlwaysEarned` | `AttemptProofs` | `PassIsEarned` |
| `HoldersAlwaysWatched` | `AttemptProofs` | `HoldersWatched` |
| `EveryStepDescends` | `AttemptProofs` | the safety half of `SubtaskEnds` |
| `TypeCorrect` | `LifecycleProofs` | `TypeOK` |
| `ClusterAlwaysSurvives` | `LifecycleProofs` | `ClusterSurvives` |
| `SurvivorsAlwaysDissimilar` | `LifecycleProofs` | `SurvivorsDissimilar` |
| `OnlyFailedPassesLose` | `LifecycleProofs` | `LostOnlyByFailedPass` |
| `UsedNeverDecay` | `LifecycleProofs` | `UsedDoNotDecay` |
| `TypeCorrect` | `TracingProofs` | `TypeOK` |
| `EventsAlwaysAccounted` | `TracingProofs` | `EventsAccounted` |
| `DrainAlwaysStoresAll` | `TracingProofs` | `DrainStoresAll` |
| `StreamAlwaysSeesAll` | `TracingProofs` | `StreamSeesAll` |
| `MetricsAlwaysConsistent` | `TracingProofs` | `MetricsConsistent` |
| `ShutdownAlwaysNearer` | `TracingProofs` | the safety half of `ShutdownEnds` |
| `TypeCorrect` | `IngestionProofs` | `TypeOK` |
| `StatsAlwaysHonest` | `IngestionProofs` | `StatsHonest` |
| `VectorsAlwaysBelong` | `IngestionProofs` | `VectorsBelong` |
| `LinesAlwaysFindable` | `IngestionProofs` | `LinesFindable` |
| `OverwritesAlwaysKeepText` | `IngestionProofs` | `OverwriteKeepsText` (action property) |
| `TypeCorrect` | `ProjectIndexProofs` | `TypeOK` |
| `OldPassesAlwaysReplaced` | `ProjectIndexProofs` | `OldPassesReplaced` |
| `QueryAlwaysOfOneIndex` | `ProjectIndexProofs` | `QueryOfOneIndex` |
| `NeighborsAlwaysExact` | `ProjectIndexProofs` | `NeighborsExact` |
| `ClustersAlwaysComponents` | `ProjectIndexProofs` | `ClustersAreComponents` |

They use the named assumptions of the modules only. Settings are natural numbers;
the streak limit, threshold and cooldown are positive (the code clamps the latter
two with `max(1, ...)`), as are the attempts of a subtask and the tries of a call,
and the tracer's queue, batch and cap on names, which are constants of the code or
parameters it only ever gets such values for; so are the window, batch, cache size
and concurrency of ingestion, whose overlap may exceed the window (the code then
steps by one line); so are the LIMITs of maintenance. The tree of an ingest is
finite and its files hold finite sequences of lines. A tree to be indexed is a
sequence of files, each with a sequence of imports and of definitions, in which
finitely many names are called or inherited (`SourceFiles`); nothing else is
assumed of it. Names that play a part of their own (the root span, the shared
bucket, nobody, no document) differ from the others. `config.py` does not validate the depth or
the token budget; a negative depth is outside of the theorems, and with one
`CapIsSlack` would be false for large plans.

*Orchestrator.* The invariant is built in layers, each proved on top of the one
below. `IShape` is `TypeOK` and `Shape`: which `pc` have a subtask in hand, that
it is not completed, that before the plan everything is empty. `TypeOK` alone is
not inductive: that `state[current]` exists needs a current subtask, that
`insertionsRemaining` stays natural needs `Accepted` to be at most what remains.
Lemmas on `InsertBefore` (its length, its elements, that it keeps them distinct)
carry `BudgetConserved` through `Reflect`. `Once` says that `ran` is injective
and that iterations, its length and the number of started ids agree;
counting the ids then bounds the iterations by the length of the list, which
`BudgetConserved` bounds by plan plus insertions, and the arithmetic of the caps
gives `CapIsSlack`. `Streak` adds that every settled subtask but the one in hand
has passed or failed. The last layer, `Work`, ties the status to the control
point and says why the driver stopped (`Stopped`: nothing waits, or the streak
reached its limit); as the iteration cap is never the reason, `Finalize` computes
from subtasks that are all settled unless it aborts, which is `VerdictMatchesWork`.
For `SettledStays` an insertion is shown to move every id behind it by the same
distance. The refinement maps each action to one step of `RunContract` or to a
stutter; its invariant is `Work`, which says what episode and status can be at
the steps that end a run.
`EveryStepDescends` is what can be proved of `Terminates`: four natural numbers
fall lexicographically with every step, the phases to come, the subtasks the run
may still drive (natural by `ProcessedOnce`), the attempts the one in hand may
still start (natural by `AttemptsAlwaysBounded`) and the awaits of this attempt.
An insertion costs an attempt and changes no coarser number, so no reflector can
keep a run going. What fairness adds, that a step is taken while the run is
open, is TLC's.

*Breaker.* `TypeOK`, `TripIsEarned` and `OnlyEarlierRunsInFlight` are inductive
together: a late failure increments `consecutive` and `fails` alike, a trip marks
every run in flight, and `Begin` needs a closed breaker. A slot keeps its contract
because it reports once, at its end, whatever the others did meanwhile.
`RefusalAlwaysShrinks` takes the runs of a refused intent that are in flight and
what is left of its cooldown: a report, which alone can lengthen the cooldown,
takes its run from the first, and `Begin` cannot add one.

*Memory store.* The properties speak of ended requests and committed rows; what
makes them inductive (`IInv`) speaks of those still running. `Held`: an
uncommitted row is locked by its author, who has not ended, so no other request
can insert over it. `Durable`: a committed row was committed by its author, so the
rollback of a running request removes only uncommitted rows. `Books`: a request
whose session is broken or rolled back has no rows, any other has exactly those it
announced. `Diary`: a chat run with a usable session has its pending episode until
it finishes it, and commits it finished, without rows, or pending after its client
left. `Points`: a point that was written stays until an archive records that it
took it. `Path` says which kinds of request reach which await, above all that an
archive only ever works on a committed row. The steps fall into seven classes
(`StepKinds`: quiet, locking, inserting, failing, dropping, committing,
disconnecting); `Others` shows that none of them changes what belongs to another
request, so each part is proved for the request that moves only.

`NobodyEverStuck` follows a chain of locks. Who waits, waits for a lock of a running
request (`LockHolders`), so the chain stays among the running ones; there
are fewer requests than places in it, so one comes twice (the library's pigeonhole
principle), and from there on the chain is a cycle, in which everyone may be
aborted. `EveryStepDescends` counts what is left of a request: the stages to come,
the contents to write, the awaits of this content.

*Attempt.* `Books` is the ledger: what was metered is what was traced plus the
usage of the agent awaited, which is one less than the calls it has made, plus the
embeddings. `Witnessed` says that the recorded runs of the two judged tools end in
what was really seen of them, so the evaluator's verdict from tool runs is about
the program and not about an earlier attempt. `NoTools`: a provider that names no
tool never gets one run. `Watched` with `InTool`: a program and who holds its
output belong to the call in hand, a workdir to its batch. `EveryStepDescends`: an
attempt, a stage of it, a call of the agent, a try or a wait for a program is used
up with each step, in this order of weight.

*Lifecycle.* The nested loops of `_dedup_pass` are recursive functions over the
pairs of a group. That they are defined everywhere, and what holds at every index
of them, is proved without an induction rule: if it failed anywhere there would be
a least index where it fails (`LeastNat`, from the well-foundedness of `<`), and
its predecessor contradicts it. `DeduplicatedFacts` is the result, for every
group: no two survivors are similar, and of each set of rows that is closed under
similarity and meets the group one row of the group survives. `Kept` lifts this to
committed and pending archivings together; it is `met = {}` that makes it
inductive, as the loser of one pass may be the winner of another beside it.
`Apart` needs no such exception: what others archive only removes survivors; that
a row is beyond the LIMIT it says with the rows that ever had a vector, which are
at least those that still live. `Taken` follows a missing point to the pass that
took it, `InUse` a scored row to the decay it escapes. `Archivers`, `Quiet` and
`Overlap` say who may have written what, by which locks.

*Tracing.* `Place` is a choice from a sequence that grows; the invariant speaks of
`Before(emitted, x, y)` instead, which stays true once it is, and turns it into
`Place` at the end. The two agree because no event is emitted twice, and nothing
follows the end of a run (`SpanInv`: a span's id is fresh, it ends once, the root
last). `MessageInv` says that at most one message wakes the persister, and
exactly when it is to be woken; `DrainInv`, that no delivery of an event
emitted before shutdown is behind the shutdown's message, so the last drain finds
them all in queue or batch. `AccountInv` carries the partition of the emitted
events over the steps of three kinds: they pass on, lose, or take an arrival.
`MetricInv` adds up counters; their sums are folds over finite sets, for which
`SumExists`, `SumSplit` and `SumSame` are proved by least counterexample on the
cardinality. `ShutdownAlwaysNearer` needs `Awake` besides, that the loop does not sleep
again once the stop flag is up; with `MessageInv` the message that resumes it has
one place in the ready queue, which appending leaves and taking the head
brings forward.

*Ingestion.* `IInv` describes each piece by what it is of: a vector in a task's hand
is its chunk's text or missing, and what is still to be asked for are positions
without one (`Types`), a point is the chunk its id names (`Stored`). `Counted` and
`Complete` speak of the files done so far, not only of requests that have
ended. Three groups of lemmas carry it. *Chunks* (`ChunksCut`, `ChunksCover`):
those of a document differ in kind, name or place, so their ids do, and they
cover the lines their chunker undertakes. For windows the least full one around a
line is kept, as an earlier full one that reached the end would hold the line too;
that there is one around it is arithmetic of the step (`LastMultiple`); sections
and definitions need that `InOrder` enumerates its set in order (`InOrderFacts`,
from cardinalities). *Folds* (`FoldExists`, `FoldStays`): what one step of
a `FoldLeft` keeps, all of it keeps, by least counterexample on its length;
`LookupsFacts` and `AnswersFacts` apply it to the cache. *Steps*: a task's step is one
of three, it goes on (`WorksStep`), ends without points (`FailsStep`) or upserts
(`UpsertStep`), where the ids it adds are new to its request because they hold the
file.

*Project index.* Of the requests: `Accounted` follows the rows an open
request has still to meet: a pass it knew of is gone, dropped, or in its snapshot.
`OwnLocks`: no two open requests have dropped the same row. `BothGo`: whoever
drops the edges of a pass drops its symbols. `Coherent` says of a query under way
that, of the passes committed when it asked, those whose rows are still there
neither replaced a row it has nor were replaced by one. The searches need one more
fact of them, `CommittedStays`: a committed pass keeps its tree, and rows that are
gone stay gone.

`NeighborsExact` is about several statements, so its invariant `Near` describes the
search after each level (`Searched`): the ids found are within the depth reached, at
most one over the limit for each level but the first, and either as many as the limit
or all there are, with every edge that leads out of them starting at the last ones.
It claims this only while the rows of the pass are there. The
levels of the reference `Ball` are a recursive function, which exists and has its
values by least counterexample (`WalkExists`, `WalkFacts`); its sets are finite as a
tree of finitely many files has finitely many edges (`GraphFinite`).

`ClustersAreComponents` is about one statement after another, so nearly all of its
proof is about operators. (1) What the extractor makes of a tree: its symbols hold
one module for each file, under its name (`TreeSymbolsFacts`), and in a tree as
the property describes two modules have an import edge exactly when an import of
the one names the other in full (`ImportsEdge`; a relative import of a file that is
no package names the same in both, `TargetIsPythonName`), which is one of those
Python loads (`NamedIsImported`). (2) The depth-first search: with a
stack `S` and the rows `seen` it ends with `seen` and `Reach(S, seen)`, the least
set that holds `S` and what it leads to outside of `seen`. That this solves the
recursion is `ReachStep` and `ReachSkip`; that nothing else does is shown by the least
counterexample, first in the number of unseen rows, then in the length of the stack
(`VisitUnique`), which is also why the search ends. (3) The sweep over all rows: as
adjacency is symmetric, nothing leads into a closed set, so a search that begins
outside of what has been seen does not notice it (`ReachOutside`), and the clusters are
the least closed sets around each row (`ClustersAre`). (4) Rows of one pass
correspond one to one to its files, closed sets of rows to sets of files that
no named import leaves or enters (`JoinedFiles`). (5) Fewer pairs make finer groups
(`FinerGroups`), so the clusters lie within the groups of all that Python loads
(`ClustersInGroups`). The invariant, `MInv`, only says that
the modules read are all those of some committed passes, finitely many.

Left to TLC, with the reason:

* Liveness (`Terminates`, `AcceptedAgain`, `EveryRequestEnds`, `SubtaskEnds`,
  `ShutdownEnds`): fairness and `ENABLED` are out of the prover's reach. Proved is
  the safety half of each: counts that fall with every step of their own, and
  that nobody waits for what cannot come. For the step from there to the
  property, that what is ready is taken, there is TLC only.
* The four claims that the code does not keep (section 3): TLC refutes them.

## 5. Not modelled

Not modelled, with reasons:

* *Learning* (`learning/`): calibrator, pattern evolver and reflection engine are
  constructed at startup and nothing calls their methods. (`ConfidenceCalibrator.fit`
  averages neighbors in one backward pass, line 150, which does not make the
  curve monotone in general.)
* *Safety* beyond the breaker: the checks on text, and `ExecutionGuard` and
  `RollbackArea`, which nothing calls.
* *Short-term memory*: single Redis commands whose results only feed prompts;
  its token counters have no caller. `record_use` of long-term memory has none
  either, nor has the lifecycle worker's timer or the summarizer.
* *Intent router, planner, memory agent*: one model call each; `Orchestrator` takes
  any answer of theirs.
* *Retrieval* (`rag/retriever.py`, `rag/service.py`) and the ranking in
  `LongTermMemory.query`: they read once and sort.
* *The JavaScript extractor* of the indexer: regular expressions, no edges.
* Texts of prompts and answers, HTTP bodies, prices, rendering, logging,
  settings, migrations, start-up; read-only routes.
* *Frontend*: the hook's callbacks run on one event loop and stop with the abort of
  its request; the components only render.

## 6. Checking

```
tlc -workers 2 -config Orchestrator.cfg MCOrchestrator
tlc -workers 2 -config ProjectIndex.cfg MCProjectIndex
tlapm OrchestratorProofs.tla
tlapm IngestionProofs.tla
tlapm MemoryStoreProofs.tla
tlapm TracingProofs.tla
tlapm ProjectIndexProofs.tla
```
