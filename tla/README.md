# A TLA+ verification of user-insight-bot

`user-insight-bot` segments the users of a shop by RFM, answers questions about the segments with
an LLM agent, watches the order data and starts analyses on its own. It is one Python process
(FastAPI, LangGraph, SQLite, optionally MySQL, Milvus and Postgres). This directory holds TLA+
modules translated from its source, TLC configurations that check them on small instances, and
TLAPS proofs for instances of any size. `PROJECT.json` maps every definition to source lines and
lists the runs, a mutant of the code for every property, the findings, the hazards and the theorems.

    tlc -workers 2 -config WatcherTasks.cfg MCWatcherTasks.tla     # any pair of "runs"
    tlapm WatcherTasksProofs.tla

## 1. How the program executes

All HTTP handlers and the three background tasks of the lifespan (watcher, flywheel, weekly report;
`api/main.py`) are coroutines of **one asyncio loop**: what a coroutine does between two `await`s is
one step, and nothing else on the loop sees the middle of it. Synchronous work blocks the loop.
Parallel to the loop there are threads: four for `/ask` (`api/routes.py`), two for watcher tasks
(`watcher/engine.py`), the default executor for LangGraph's sync nodes and moderation. Threads
interleave freely with each other and with the loop; locks (`threading.RLock`) guard the pipeline
cache and the data store. What survives the process: the SQLite files (tasks, shop, feedback, samples,
metrics), session checkpoints, snapshots, `dormant_reported.json`, reveal state, reports, the disk cache.

The grain of an action follows from this: a stretch of a coroutine from one `await` to the next, or,
in a thread, a stretch in which no shared variable is touched that another thread may touch.

## 2. Inventory

| Component | State | Operations | Interacts with | Hard because | Correct if |
|---|---|---|---|---|---|
| **Watcher tasks** (`watcher/task_manager.py`, `engine.py`, `routes.py`) | row status in SQLite; semaphore, pool, coroutines in memory | create, dispatch, run with timeout, ignore, retry, stop, resume | poll makes tasks, agents run them, flywheel and report read them | threads cannot be cancelled, final UPDATEs are unconditional, crashes, stop blocks the loop | rows follow the status machine, one agent per task, permits conserved, every run ends, pending work survives restarts |
| **Watcher poll** (`engine.py`, `events.py`, `dormant_state.py`) | fingerprint, snapshots, cooldowns (rows), reported users (file) | poll_once: recompute, diff, detect, suppress, merge, dispatch | pipeline cache, tasks; second caller: `POST /debug/trigger-event` | checks at the start of a poll are used after awaits; other callers write snapshots | one task per cooldown, users named once, changes noticed |
| **Pipeline cache** (`skills/user_segment.py`, `pipeline/funnel.py`) | RFM, segments, rules, time of computation | load and process, invalidate | chat tools (threads), `/stats`, watcher | double-checked locking, reads outside the lock | results whole, staleness bounded |
| **LLM fallback** (`llm/adapter.py`, `llm/bridge.py`) | place in the chain, retries, what was emitted | invoke, stream, retry, truncate, next provider | agent nodes | streams fail halfway, kinds of error alternate | bounded calls, an answer if any provider works, switches visible |
| **Agent graph** (`agent/agent.py`, `reflector.py`, `preprocessor.py`) | checkpoint per session | preprocess, llm_decide, tools, reflect, respond, fact_check | LLM, skills, fact checker, session store | state of earlier turns is still there; loops; two entry points | answers belong to the question and are checked against its data |
| **Ask routes** (`api/routes.py`) | session locks, ask pool | ask, stream, evict locks | agent graph, session store, tracer | lock looked up before it is entered, cancelled streams | a session's runs take turns, every request ends |
| **Orchestrator, tracer, memory** (`agent/orchestrator.py`, `tracer.py`, `memory.py`) | trace id of a singleton, trace per session, history, memory per session | three agent turns in a row, start and finish a trace, sweep | watcher tasks of type dormant | two pipelines at a time share the attribute and the tables | a pipeline's sessions are its own, traces end |
| **Session store** (`agent/session_store.py`) | one file per session, or Postgres | put, put_writes, get, sweep | LangGraph | crash between put_writes and put, sweep outside the lock | what a client was answered can be loaded |
| **Shop data store** (`api/data_store.py`, `store_db.py`, `ecommerce.py`) | users, products, orders, carts, counters; SQLite copy | register, CRUD, cart, checkout, pay, reset, restore | loader, recommendations | write-through table by table, refused writes are swallowed | a restart shows what was acknowledged; order numbers are unique |
| **Flywheel** (`flywheel/*`) | cursors, sample table, vectors | collect, score, store, index, retrieve | feedback, tasks, agent prompt | cursors against rows that appear late, partial failure | every eligible row is taken once, bad answers are no examples |
| **Rate limiter** (`api/middleware.py`) | windows and hashes per session | dispatch, sweep, evict | all `/ask` | the sweep against active sessions | the limit per window |
| **Order source** (`pipeline/data_loader.py`, `cache/ttl_cache.py`, `pipeline/reveal_state.py`) | table, cache file, reveal file | tiers MySQL, cache, Tianchi, mock; ensure, advance, force | pipeline, watcher, debug route | paging over a growing table, several writers, clock, lost file | results whole, the window follows the calendar |
| **Segmentation** (`pipeline/user_segmentation.py`, `segment_naming.py`, `profile.py`, `skills/user_segment.py`) | name cache, snapshot directory | choice of k, numbering, flow tags, names, snapshots, growth, trend | cache, poll, chat tools | names asked outside the lock, files named by the second, pruning under readers | names describe their segments, growth compares neighbours |
| **Weekly report** (`watcher/weekly_report.py`) | one file per week | backfill, schedule, generate, trigger | tasks, snapshots | restarts around the hour, failures | no week stays blank |
| **Fact checker** (`agent/fact_checker.py`) | none | three layers over a reply | agent graph, skills | overlapping patterns, rounding, a tree parsed from text | right claims pass, wrong ones are reported |
| **Skill library** (`skills/loader.py`, `base.py`, `selector.py`) | definitions by file time, registry | load, register, select, disclose | agent graph | files change while they are read, registry and library part | changes are seen, disclosed tools are bound |
| CDC consumer (`watcher/cdc_consumer.py`) | buffer | feed, flush | poll_once | debounce | never started by the application |
| Funnel, prompts, JSON repair, exporter, evaluation, UIs | none or per call | functions | agent | free text | defined outputs |

## 3. Modules

| Module | Models | Composition |
|---|---|---|
| `TaskLifecycle` | abstract: the status machine of the docstring of `watcher/task_manager.py` | |
| `WatcherTasks` | rows, runner coroutines, semaphore, thread pool, process | implements `TaskLifecycle` (`Lifecycle == INSTANCE TaskLifecycle WITH ...`, `FollowsLifecycle`) |
| `WatcherPoll` | poll, detection, cooldowns, dormant alert | takes a task's run as "ends well or badly" and a computation as one step |
| `PipelineCache` | the cache, its threads, the fingerprint | the detail of what `WatcherPoll` takes as one step |
| `LLMFallback` | one request through the provider chain | |
| `AgentGraph` | the graph over the turns of a session | takes an LLM request as the shape of its answer |
| `AskSessions` | lock table, waiters, ask pool, a session's checkpoint and trace | takes a turn as read, write, end |
| `Orchestrator` | two pipelines over the shared trace id, traces, memories | takes a turn as start, answer or failure |
| `SessionStore` | files of checkpoints and pending writes, sweep | one run per session, which `AskSessions` is about |
| `ShopPromise` | abstract: what a restart may show of the shop's data | |
| `DataStore` | dictionaries, write-through, seeding, restore | implements `ShopPromise` (`Promise == INSTANCE ShopPromise WITH ...`, `KeepsPromise`) |
| `Flywheel` | sources, cursors, scoring, library, index | |
| `Retrieval` | fusion of two rankings, grades, cut | reads what `Flywheel` fills |
| `OrderSource` | the tiers, the cache file, the reveal window | |
| `SegmentNaming`, `SegmentHistory` | k, numbering, tags and names; snapshots, growth, trend | |
| `RateLimiter`, `WeeklyReport`, `FactCheck`, `SkillLibrary` | the component of that name | |
| `WatcherTasksProofs`, `WatcherPollProofs`, `DataStoreProofs` | theorems | extend the module of that name |
| `AgentProofs` | theorems about `AgentGraph` and `LLMFallback` | extends both |
| `RequestProofs` | theorems about `PipelineCache` and `AskSessions` | extends both |
| `LibraryProofs` | theorems about `SessionStore` and `Flywheel` | extends both |
| `ServiceProofs` | theorems about `Orchestrator`, `OrderSource`, `RateLimiter`, `WeeklyReport` | extends all four |
| `RankingProofs` | theorems about `SegmentHistory`, `SegmentNaming`, `Retrieval`, `SkillLibrary`, `FactCheck` | extends all five |
| `MCRequests`, `MCServices`, `MCStores` | several components in one run | |
| `MCWatcherTasks`, `MCWatcherPoll` | instances for TLC | |

The components of a composite `MC` module share no variable in the code at the grain of its model. Its
variable `part` picks one of them initially; that one moves by its own next-state relation, the others rest in one of
their initial states. Every behaviour of each component is thus one of the run, and the run costs the sum of the
components' states and not their product. Constants of composed modules have names of their own for that reason
(`MaxFlyFaults`, `MaxWeekFaults`, ...).

Definitions announced by a comment "Mutant", and those `PROJECT.json` names as such (`FailUntraced`, `PageNewestFirst`, ...), are
plausible bugs against which the properties are tried; no specification uses them.

**WatcherTasks.** A row is `status[t]`; `coro[t]` is the `await` at which `_run_task` is suspended;
`permits`/`semq` are `_llm_semaphore` (FIFO); `job`/`jobq` are the executor's threads and queue.
`PollCreate` is `create_task` with the start of `_dispatch`; `BeginRun` is `set_running` up to the acquire;
`AcquireSemaphore`, `DeliverResult` and `Timeout` are the wake-ups of the coroutine; `JobStart`/`JobFinish`
are the threads, which go on after `wait_for` gave them up. `Stop` leads to `stopping`, in which the loop is
blocked in `ThreadPoolExecutor.shutdown(wait=True)`: nothing else on the loop runs until the last agent is
done, timeouts included. `Restart` is `engine.start` with `resume_pending`; the resumed coroutines have
their first step before the server accepts requests (`Serving`).

**WatcherPoll.** `PollStart` is `poll_once` from its start to its first `await`; `TaskEnds` the step from
there to the next one. Detection rules are a constant table `Detects[v][w]`, dormant users `DormantIn[v]`.
`recent[t]` counts the tasks polls made of a type that are inside the cooldown and not failed or timed out, which
is what `has_recent_task` asks SQLite. `OtherRecompute` is any chat tool or `/stats` request that
computes and thereby saves a snapshot. `alerts`, `seen` and `alone` are history variables.

**PipelineCache.** `Hit`, `Miss`, `Load`, `LoadFails`, `Publish`, `ReturnUsers`, `ReturnRules` cut
`_load_and_process` where it takes and releases the lock and, in the return statement, at each read of a
global; `Invalidate` is `invalidate_pipeline_cache`.

**LLMFallback.** `level` and `attempt` are the nested loops of `FallbackChain`; `out` is what the agent has
been handed. `healthy` providers never fail in this request; the others may do anything the code
distinguishes (`Kinds`).

**AgentGraph.** One action per node; `_fact_check_node` with its edge is three actions by verdict. A text is
the turn it was written in, whether `respond` may still reformat it, and whether the warning was appended.
`data` is the set of turns whose results are in `skill_results`.

**AskSessions.** `Ask` and `FetchForStream` are `_get_session_lock` by the two routes: an ask enters its lock in the
same step, a stream some steps later, when the response's generator first runs. A lock's waiters are a queue; a
released lock is free until the waiter that was woken runs, as in asyncio. Eviction happens in the step that makes a new
lock. `Disconnect` is the cancellation of a stream at any await. `orphaned` is a history variable: sessions whose lock was evicted while fetched or promised.

**Orchestrator.** `place[r]` is where a run's thread is in its turn; each action is the code between two accesses of
shared state (`traceId`, `active`, `history`, `memories`), none of which has a lock that spans more.

**DataStore.** An operation changes memory in one step (no await inside) and puts its writes in `todo`; each table's
write is a transaction of its own (`Write`), which may be refused (the code logs and goes on), and the process may end between
two. `Restore` is `_ensure_seeded` with `load_all`; the counters are recomputed as the code does. `doubtful` says of which tables SQLite lags.

**Flywheel.** `FlyStep` is the batch, source by source and row by row, of `_update_once_locked`; `cursors` are kept in
memory only. `Awaited = FALSE` is the code as it stands; `TRUE` is the body as it would run, which `stores` examines so that the
collector, scorer and store are checked in spite of the finding.

**SessionStore, OrderSource, SegmentHistory.** One action per file operation; a crash or a failing read may come between any two.
**SegmentNaming.** `Segmentations` is every result `perform_clustering` may have for the users of the instance, K-Means and
the gap statistic being any; `AskNames`/`LlmAnswers` are the two sides of the model call. **FactCheck**: a claim is one match of one
pattern; `Holds` says what it means, independently of the checker. **Retrieval**: the rankings are any two permutations.
**SkillLibrary**: `Stat`, `Rescan` cut `load` between looking at the file times and reading the files. **RateLimiter**, **WeeklyReport**: one action per request, timer or start. A session's
window is the set of the times of its requests: the model's clock moves with every request, so no two share a time, and the code's deques are in the order of time.
A printed tree is its sequence of lines; what the parser's stack of conditions is at a leaf is told without the stack (`Conditions`), and a sum over the segments as the number of
all their users, so that both can be proved about.

## 4. Runs

Deadlock is checked in the runs `tasks` and `tasks_retry`; elsewhere a finished request, a session without questions or a
clock at its bound is the intended end. States are the distinct ones.

| Run | Instance | States | Shows |
|---|---|---|---|
| `tasks` | 4 rows, 2 permits, 1 thread, loop and one debug request, 1 crash, fairness | 217,808 | `RunnerOwnsRow`, `NoDoubleExecution`, `PermitsConserved`, `FollowsLifecycle`, `AbandonedOnlyByExitOrRetry`, `RunEnds`, `PendingSurvivesRestart` |
| `requests` | see below, fairness | 241,714 | models: `CallsBounded`, `AnsweredIfAnyHealthy`, `SwitchIsMarked`; cache: `CacheWhole`, `FingerprintNotAhead`, `StaleReadsEnd`; asks: `TurnsKept`, `AskEnds`; graph: `CheckedAgainstOwnData`, `RelaxedFailuresMarked`, `StrictFailuresSpent`, `TurnEnds`; poll: `OncePerCooldown`, `DormantUserOnce`, `EvolutionCompared`, `DormantUsersReported` |
| `services` | see below | 1,662,843 | `RateKept`, `FusionAgrees`, `PagesFit`, `RevealedByCalendar`, `WeekNotBlank`, `VerdictRight`, `LibraryCatchesUp`, `DisclosedBound`, `NamesDescribe`, `GrowthOfNeighbours`, `TracesEnd` |
| `stores` | see below | 2,100,681 | `OrderIdsUnique`, `KeepsPromise`, `SampledOnce`, `NothingSkipped`, `DislikedNotTaught`, `SessionKept` |
| `tasks_retry` (violated) | 2 rows | | a retried row waits for a process restart |
| `poll_missed` (violated) | other callers | | a change computed by somebody else first is never compared |
| `cache_race` (violated) | a reader, a refresher, the poll | | a finished computation raises, or mixes two results |
| `agent_stale` (violated) | 3 turns | | an earlier turn's text is returned for this question |
| `store_wipe` (violated) | 1 product | | a shop without products is seeded over its orders |
| `flywheel_idle` (violated) | `Awaited = FALSE` | | no feedback ever reaches the library |
| `facts_thresholds` (violated) | two splits | | a threshold that stands in the tree is reported as missing |
| `orchestrator_shared` (violated) | 2 pipelines | | two runs of the graph in one session at a time |

A violated run checks one sentence of a document, comment or docstring, and TLC shows the code going against it.

Why these bounds are enough. *Tasks*: four rows exceed the two permits, two permits exceed the thread, so both queues fill
while a run that was given up holds the thread; two pollers make two creations interleave; one crash at
any point is followed by every recovery. *Models*: four providers (as shipped) and two retries let every kind of error alternate at one level
and a stream fail at each. *Cache*: the kinds of caller differ in what they do first; a second reader adds nothing to what a reader sees of
others. *Asks*: three requests are one that holds, one that waits and one that makes a new lock in a table of one, which evicts; one thread makes asks queue.
*Graph*: the third turn can find a text two turns old; twelve supersteps are room for a tool round and the regeneration two retries allow.
*Poll*: two changes give pairs of snapshots of equal data, of consecutive data and of data two apart; two NORMAL types are the least that
merge; four users at a threshold of two give batches below, at and above it; two restarts. *Rate limiter*: three sessions exceed the one window
the table may keep, the window of three seconds ends within the six of the clock. *Retrieval*: three samples can be in either, both or neither ranking. *Order source*:
three rows and pages of two give a full page, a partial one and growth between them; the window of four days grows from two past its end, over three calendar days
with two lost files. *Week*: three weeks of three slots, with faults enough to spoil each. *Facts*: the numbers include those on both sides of every
rounding boundary of the counts and averages. *Skills*: a tool, a guide, one edit at every moment of a load. *Names*: four users whose profiles have different tags,
k of two or three, a name table of two. *History*: three seconds and a retention of two make two savers meet in a second and a file vanish under a reader. *Traces*:
two runs are all the watcher's pool can hold. *Stores*: one user, two products (one seeded, one made at run time) and two orders with two faults of any kind at any point; two sources of two rows with a flush
every two; two sessions of two turns. The theorems of section 6 lift many of the invariants to all bounds.

## 5. Fairness

*WatcherTasks*: weak fairness of the loop's own steps (`BeginRun`, `AcquireSemaphore`, `Timeout`, `StopReturns`,
`Exit`) because asyncio runs what is ready and its timers fire, and of `Restart`, because somebody starts
the service again. None on the threads: an agent may hang in a model call for ever, and `RunEnds` holds all the same. Only
`tasks_retry` assumes that agents end, which makes its counterexample stronger. *WatcherPoll*: the loop
polls, tasks end, cooldowns and the cache TTL run out; nobody need order, ask or crash. *PipelineCache*: threads that
have begun go on, the TTL runs out. *AskSessions*: a request's coroutine or thread goes on; asyncio wakes waiters in order. *AgentGraph*: LangGraph runs node
after node; nobody need ask. *Flywheel* (`flywheel_idle` only): the timer runs its batches. The other components have no liveness property.

## 6. What is proved

Assumptions are the named `ASSUME`s of the modules (sizes are positive, sets of actors are disjoint); TLC evaluates them in every run.

* **WatcherTasks**, any number of rows, pollers, permits, threads and crashes: `TypeOK`,
  `RunnerOwnsRow`, `NoDoubleExecution`, `PermitsConserved`, `OrphanRunIsSettled`, the refinement
  `Spec => Lifecycle!Spec`, and, if the watcher is enabled, `AbandonedOnlyByExitOrRetry`. None of them is inductive alone. The UPDATE
  that settles a row looks at no status, so `FollowsLifecycle` needs that the row is "running"
  (`RunnerOwnsRow`); that ignore and retry cannot move it needs that a coroutine about to start has a pending row *and* that
  the loop is busy with it (`OneCreation`) or not yet serving; that a retry is no second execution
  needs that jobs without a listener belong to timed-out rows (`OrphanRunIsSettled`) and that queued jobs always have a listener
  (`QueuedIsAwaited`); restarts need that nothing is left of the process before (`DownIsEmpty`). `IInv` is their
  conjunction, preserved by one lemma per action.
* **WatcherPoll**, with the loop as the only poller, for any data, thresholds, users and restarts: `PollTypeOK`, `DormantUserOnce`,
  `OncePerCooldown`. Both look at users and cooldowns when a poll starts and use them after it awaited other tasks. `LoopInv` carries what was found over
  those awaits: what is still to be dispatched has an open cooldown and unmarked users, a user an alert named is marked, a task awaited counts.
  With a second poller the first part is false, and so are the properties. For any pollers the action property `EvolutionCompared`: by `CompareInv`
  the newest snapshot is of the data the last poll saw as long as nobody else recomputed, so the one saved next is compared with it.
* **PipelineCache**, any number of threads and changes: `TypeOK`, `CacheWhole`, `FingerprintNotAhead`. The last follows
  where the poll is: what it has in hand, or what has been published, is at least as new as its fingerprint (`PollInv`).
* **LLMFallback**, chains of any length and any number of retries: `TypeOK`, `AnsweredIfAnyHealthy`, `CallsBounded`, `SwitchIsMarked`. `Progress`
  says that the chain never passes a healthy provider and that all pieces handed out come from levels up to the present one; `Spending` adds up what the levels
  before have cost (nonlinear in two constants, hence the lemma `SpentSteps`); `Marked` says that others' contents have the marker behind them while a provider speaks.
* **AgentGraph**, sessions of any length and any limits: `TypeOK`, `CheckedAgainstOwnData`,
  `RelaxedFailuresMarked`, `StrictFailuresSpent`, `RegenerationsBounded`. Regenerations are bounded because each one was counted (`redone <= retries`)
  and the last count that sends an answer back is below the limit.
* **Orchestrator**, any number of pipelines: `TracesEnd`, even where sessions are shared: every way out of a turn ends the trace of
  its own session, whosever it is.
* **OrderSource**, any page size, table, step, window and calendar: `PagesFit` (`PagesInv`: while pages are to come, the rows so far are those below the
  offset, because the table only grew since the count) and `RevealedByCalendar` (`Paid`: the window is paid for up to its last advance, not up to today).
* **AskSessions**, any number of requests, sessions, threads and locks: `TurnsKept`. A run builds on all turns of its session (`BuildsOnAll`) because its lock has one holder
  (`OneHolder`), which needs that who is woken is first in the queue of a lock that is free (`WokenFirst`) and that a session has one lock unless it was evicted under its
  requests (`OneLock`, the exception the property names).
* **RateLimiter**, any number of sessions and questions, any window, limit, table size and cleanup interval: `RateKept`. A session's window is exactly what was let through
  since it was last forgotten, and so are its question hashes (`ClientKept`); counting by times is counting requests because no two share one (`TimesApart`).
* **WeeklyReport**, any number of weeks, hours and failures: `WeekNotBlank`, from `TimerStands`: a running scheduler still waits for this week's hour, or has passed it and left a
  report or a failure.
* **SessionStore**, any sessions, turns, crashes and failing reads: `SessionKept`. `FileKept` follows a run through its two file operations: what it loaded is no less than what was answered,
  what it has put is one turn more, and no sweep has judged a file that young.
* **Flywheel**, any rows, batches, faults and restarts: `SampledOnce`, `NothingSkipped`, `DislikedNotTaught`. One caller has a batch (`OneBatch`), what it has still to add is new (`BatchNew`),
  and it has every row of a source up to its last, or the library has (`Reached`): so a cursor may move to that last row. That a disliked answer is never positive rests on the arithmetic of
  the shipped weights (`SumBound`: the other signals add at most 10 hundredths to 50 - 40).
* **DataStore**, any users, products and faults: `OrderIdsUnique` and the refinement `Spec => KeepsPromise`. `StoreInv` has the ids of memory and disk together, since either may be restored.
  The refinement rests on `PromiseInv`: between the writes of one operation a table is as memory has it (`Written`) or as it was before (`Unwritten`), unless a write was
  refused; a lone row is the operation's whole change (`RowOnly`); while a seed is being written the flag is not (`SeedUnderWay`); and a database with the flag is
  recognised by the next process (`Recognised`). A crash between any two writes then shows what the promise allows.
* **SegmentHistory**, any savers' timing, retention and sizes: `GrowthOfNeighbours`. A snapshot known to be whole is whole still or was removed as the oldest of all (`WholeOrGone`), so what the reader's list
  lacks is older than all it has (`ListedOrOlder`); that the list is in the order of time is `Places` and `SortedList`, by the number of smaller elements.
* **SegmentNaming**, any users, clustering and cache: `NamesDescribe`. Entries fit their keys (`EntryFits`), and every segment has one of the five flow tags (`SegmentsTagged`, from the choice of the
  most frequent one and the bounds of k).
* **Retrieval**, any samples and lengths: `FusionAgrees`, if `3 * TopK <= K + 1` (as shipped, 3 and 60): two places within a list of that length weigh more than any single one (`TwoBeatOne`).
  Equal scores are broken by the place in the list, so the fused order is total (`PrecedesOrders`, `FusionSorts`).
* **SkillLibrary**, any files, skills and edits: `LibraryCatchesUp`, which has to hold while the times are being read as well (`ShownByTimes`), and `DisclosedBound`, from what the registry was filled with
  (`Registered`) and that nobody chooses before it was (`NothingChosen`).
* **FactCheck**, any segments, statistics, thresholds and claims, and any tree of the modelled shape (a split by recency with a leaf or one more split on each side): `VerdictRight`. The invariant only says that the verdict is the checker's. The content is in the lemmas about its
  operators: what rounds to n lies within half a unit of n and what lies inside half a unit rounds to it (`RoundedIsNear`, `RoundedFits`), a true claim passes each check (`TruthPasses`) and an untrue one
  fails its own (`UntruthIsFound`); every threshold the parser returns stands in the tree (`ThresholdsStand`), and where no two leaves share a class it returns every one (`ThresholdsRead`). The last is false without that
  condition, which `facts_thresholds` shows.

Every invariant that a passing run checks is thus a theorem, and so are the action properties and the two refinements. The theorems hold for the models; where a property names exceptions they are those the code
has. Left to TLC: liveness under fairness (`RunEnds`, `PendingSurvivesRestart`, `StaleReadsEnd`, `AskEnds`, `TurnEnds`, `DormantUsersReported`) and anything with ENABLED,
which the prover has no means for, and the counterexamples of the violated runs.

## 7. Where code and documents disagree

Shown by runs (see "findings" in `PROJECT.json` for the quotations): retried tasks are not run; a recompute by another caller hides a change from the
watcher; the pipeline's return statement reads globals after the lock was released (`None.copy()`, or users and rules of two computations);
an empty answer returns an earlier turn's text; a shop whose last product was deleted is seeded over its orders; the flywheel's coroutine is never awaited; only
the last leaf of a class keeps its thresholds; the orchestrator's shared trace id puts two runs in one session.

Met while modelling, without a run of their own:

* **Watcher.** `resume_pending` passes over rows that were "running" when the process died; they stay "running" for good (`Abandoned` counts them).
  With `WATCHER_ENABLED=false`, `POST /debug/trigger-event` still polls; `engine.start` never made the semaphore, and `set_running` comes before the
  semaphore and the `try`, so the row stays "running". `stop()` blocks the loop while the timeouts of the threads it waits for can only fire on that loop. Merged low-priority
  events have no cooldown, though `events.py:394` speaks of one. With a second poller neither `OncePerCooldown` nor `DormantUserOnce` holds. A failed read of
  `dormant_reported.json` counts as nobody reported, and the next mark overwrites the file.
* **Models and agent.** When all providers fail in a stream the chain emits its own failure text, so the bridge's non-streaming fallback (`llm/bridge.py:144`) is reached only
  after a stream that gave nothing at all; the tool calls of two providers may both be handed out. `max_tool_rounds` bounds nothing, only LangGraph's recursion limit
  does (`TurnEnds` rests on it); `fact_check_retries` is checkpointed and never reset, so the budget is the session's, and a strict answer goes out unmarked once it is spent.
* **Ask routes.** A disconnected client breaks the run off, though a comment near `agent.py:1117` says it runs on, and its trace is never finished; a lock that is free but fetched or promised is
  evicted (`orphaned`).
* **Session store.** `_sweep_expired` runs outside the lock: `put_writes` may then make a file without a checkpoint, on which the next turn fails with a `KeyError`. An unreadable file counts as no session.
* **Orchestrator.** A pipeline's result may carry another's trace id, and the second's trace is archived with the first's reply; the memory's sweep has no lock, so that a finished answer may turn
  into an error.
* **Shop.** JData product numbers of 1000 and more may be overwritten after a reseed; the item of a deleted product comes back with price 0.
* **Flywheel.** A task that completes behind the cursor is skipped until a restart; a failed query for duplicates counts as an empty library; the in-memory index loses its vectors at a
  restart; nothing writes `manual_annotations`; `fact_check_passed` never reaches the scorer. Without a model to grade them samples carry no `similarity`, and the filter drops all of them,
  against `retriever.py:313`.
* **Order source.** A failed read of the reveal file counts as uninitialised; `load_new_orders_since` has no caller; MySQL and cache tiers lack the shop's own orders; the fingerprint ignores which tier answered.
* **Weekly report.** The report made on Monday at nine covers Monday's nine hours alone; a failed one is not tried again before the next start; a crash leaves an empty file that is then reused.
* **Fact checker.** Rounding is half-to-even where the comment says half-up; "0 people more" is reported for equal segments; a layer reads only the first result that matches.
* **Skills.** A deleted file, or one with an older time, is unseen until a forced reload (`loader.py:25` says at once); `enabled: false` in a file is ignored at registration; a tool turned off is still
  disclosed; `reload_definitions` and `SkillRegistry.disable` have no caller.
* **Segments.** Snapshots are compared by segment number though k may differ; a name's cache key lacks the flow tags; the "high-value" skill takes the highest number (`user_segment.py:195`); a forced
  snapshot may still give "partial" (`user_segment.py:265`); `invalidate_segment_names` and `compute_rfm_incremental` have no caller.

## 8. Not modelled

Stateless text (prompts, wording, formatting, charts, JSON repair, guardrails, export), user interfaces (Gradio, Vue), offline evaluation and scripts; skills that
only query or call a model; token accounting, which decides nothing; the CDC consumer, which nothing starts and which would be one more caller of
`poll_once`. External, taken as any outcome: scikit-learn, Milvus, MySQL, Postgres, the model providers, LangGraph's order of calls. Partly modelled: of the middleware only the rate limiter
(the API key check and the exception handler are stateless); of the data loader the tiers and their order, not the cleaning of columns; of `llm` the chain and the bridge, not the wire format.
`retrieval` leaves out tokenising and embeddings.

## 9. Plan

1. Link `PipelineCache` and `WatcherPoll` by a refinement of the computation that the poll takes as one step.
2. The middle of `AgentGraph` and `FactCheck` composed: the verdict as the checker's and not any.
