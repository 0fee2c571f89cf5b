---------------------------- MODULE WatcherTasks -----------------------------
(***************************************************************************)
(* The life of a watcher task: watcher/task_manager.py (the rows),         *)
(* watcher/engine.py (the coroutines that run them) and watcher/routes.py  *)
(* (ignore and retry over HTTP).                                           *)
(*                                                                         *)
(* All coroutines share one asyncio loop, so the code between two awaits   *)
(* is one step of the loop; agent runs are jobs of a ThreadPoolExecutor    *)
(* and proceed in parallel with it.  The rows are in SQLite and survive    *)
(* the process; everything else is lost with it.                           *)
(***************************************************************************)
EXTENDS Integers, Sequences, SequencesExt, FiniteSets

CONSTANTS
  MaxTasks,       \* bound: rows ever inserted
  Loop,           \* the polling loop of WatcherEngine.start
  DebugPollers,   \* requests of POST /debug/trigger-event in flight at a time
  SemLimit,       \* LLM_CONCURRENCY_LIMIT
  PoolSize,       \* AUTO_TASK_POOL_SIZE
  MaxCrashes,     \* bound: crashes of the process
  WatcherEnabled  \* WATCHER_ENABLED: whether the lifespan calls engine.start

ASSUME TasksAssumption ==
  /\ MaxTasks \in Nat \ {0}
  /\ Loop \notin DebugPollers
  /\ SemLimit \in Nat \ {0}
  /\ PoolSize \in Nat \ {0}
  /\ MaxCrashes \in Nat
  /\ WatcherEnabled \in BOOLEAN

Tasks   == 1..MaxTasks      \* AUTOINCREMENT ids
NoTask  == 0
Pollers == DebugPollers \cup {Loop}

VARIABLES
  status,     \* watcher_tasks.status per row ("none": not inserted yet)
  phase,      \* of the process: up, stopping (inside stop()), closing, down
  busy,       \* the row whose _dispatch is between create_task and set_running
  awaits,     \* the row whose _run_task each poll_once is awaiting
  coro,       \* where the coroutine that runs a row is suspended
  permits,    \* free permits of _llm_semaphore
  semq,       \* coroutines waiting in its acquire, first come first served
  job,        \* the thread-pool job of a row
  jobq,       \* the executor's work queue
  crashes     \* crashes so far

engine == <<phase, busy, awaits, coro, permits, semq, job, jobq, crashes>>
vars   == <<status, engine>>

Settled    == {"completed", "failed", "timeout"}
Retryable  == {"failed", "timeout"}
TaskStatus == {"none", "pending", "running", "ignored"} \cup Settled

\* "created": poll_once made the row and is about to start it; "scheduled":
\* start() made an asyncio task for a row it resumes; "waitSem": suspended in
\* the semaphore's acquire; "waitJob": holds a permit and awaits the executor.
CoroState == {"none", "created", "scheduled", "waitSem", "waitJob"}

\* "answered" and "raised": the thread is done, the loop has not seen it yet.
JobState == {"none", "queued", "running", "answered", "raised"}

LoopFree == phase = "up" /\ busy = NoTask

\* No HTTP request is served before the coroutines start() scheduled have had
\* their first step: they are in the ready queue before the server socket is.
Serving == LoopFree /\ \A t \in Tasks : coro[t] # "scheduled"

Executing == {t \in Tasks : job[t] = "running"}

\* A queue holds a task at most once.
Without(q, t) ==
  IF \E i \in 1..Len(q) : q[i] = t
  THEN RemoveAt(q, CHOOSE i \in 1..Len(q) : q[i] = t)
  ELSE q

Release(t) == awaits' = [p \in Pollers |-> IF awaits[p] = t THEN NoTask ELSE awaits[p]]

-----------------------------------------------------------------------------
(* poll_once: one _dispatch after the other.  Which events a poll finds is  *)
(* the subject of WatcherPoll; here any poller may have one more.           *)

\* create_task: INSERT with the default status and the next row id.
PollCreate(p, t) ==
  /\ LoopFree
  /\ awaits[p] = NoTask
  /\ IF p = Loop THEN WatcherEnabled ELSE Serving
  /\ status[t] = "none"
  /\ \A u \in 1..(t - 1) : status[u] # "none"
  /\ status' = [status EXCEPT ![t] = "pending"]
  /\ coro' = [coro EXCEPT ![t] = "created"]
  /\ awaits' = [awaits EXCEPT ![p] = t]
  /\ busy' = t
  /\ UNCHANGED <<phase, permits, semq, job, jobq, crashes>>

\* asyncio.Semaphore.acquire: a free permit is taken at once, unless earlier
\* coroutines wait for one; then loop.run_in_executor queues the job.
EnterSemaphore(t) ==
  IF permits > 0 /\ semq = <<>>
  THEN /\ coro' = [coro EXCEPT ![t] = "waitJob"]
       /\ permits' = permits - 1
       /\ job' = [job EXCEPT ![t] = "queued"]
       /\ jobq' = Append(jobq, t)
       /\ UNCHANGED <<semq, awaits>>
  ELSE /\ coro' = [coro EXCEPT ![t] = "waitSem"]
       /\ semq' = Append(semq, t)
       /\ UNCHANGED <<permits, job, jobq, awaits>>

\* Without engine.start there is no semaphore object: "async with None" raises
\* outside the try block, and the coroutine ends without touching the row again.
FailWithoutSemaphore(t) ==
  /\ coro' = [coro EXCEPT ![t] = "none"]
  /\ Release(t)
  /\ UNCHANGED <<permits, semq, job, jobq>>

\* First step of _run_single and _run_orchestrated: set_running is an UPDATE
\* that matches the row only while it is pending, and nobody looks whether it did.
BeginRun(t) ==
  /\ phase = "up"
  /\ \/ coro[t] = "created" /\ busy = t
     \/ coro[t] = "scheduled" /\ busy = NoTask
  /\ status' = [status EXCEPT ![t] = IF @ = "pending" THEN "running" ELSE @]
  /\ busy' = NoTask
  /\ IF WatcherEnabled THEN EnterSemaphore(t) ELSE FailWithoutSemaphore(t)
  /\ UNCHANGED <<phase, crashes>>

\* The longest waiter gets a released permit and submits its job.
AcquireSemaphore(t) ==
  /\ LoopFree
  /\ coro[t] = "waitSem"
  /\ semq # <<>> /\ t = Head(semq)
  /\ permits > 0
  /\ semq' = Tail(semq)
  /\ permits' = permits - 1
  /\ coro' = [coro EXCEPT ![t] = "waitJob"]
  /\ job' = [job EXCEPT ![t] = "queued"]
  /\ jobq' = Append(jobq, t)
  /\ UNCHANGED <<status, phase, busy, awaits, crashes>>

\* Mutant of FinishRun: the permit is kept.
FinishRunKeepingPermit(t, outcome) ==
  /\ phase \in {"up", "closing"} /\ busy = NoTask
  /\ coro[t] = "waitJob"
  /\ status' = [status EXCEPT ![t] = outcome]
  /\ coro' = [coro EXCEPT ![t] = "none"]
  /\ Release(t)
  /\ UNCHANGED <<phase, busy, permits, semq, crashes>>

\* The coroutine leaves "async with": the row gets its last status (the UPDATEs
\* of set_completed, set_failed and set_timeout have no condition on the old
\* one), the permit is released, and the poll that awaited it goes on.
FinishRun(t, outcome) ==
  /\ phase \in {"up", "closing"} /\ busy = NoTask
  /\ coro[t] = "waitJob"
  /\ status' = [status EXCEPT ![t] = outcome]
  /\ coro' = [coro EXCEPT ![t] = "none"]
  /\ permits' = permits + 1
  /\ Release(t)
  /\ UNCHANGED <<phase, busy, semq, crashes>>

\* Mutant: an exception of the agent ends the coroutine without set_failed.
DeliverResultUncaught(t) ==
  /\ \/ job[t] = "answered" /\ FinishRun(t, "completed")
     \/ job[t] = "raised" /\ FinishRun(t, status[t])
  /\ job' = [job EXCEPT ![t] = "none"]
  /\ UNCHANGED jobq

\* The executor's result reaches the loop.
DeliverResult(t) ==
  /\ \/ job[t] = "answered" /\ FinishRun(t, "completed")
     \/ job[t] = "raised" /\ FinishRun(t, "failed")
  /\ job' = [job EXCEPT ![t] = "none"]
  /\ UNCHANGED jobq

\* asyncio.wait_for gives up.  A job still in the executor's queue is cancelled
\* and will not run; a running one goes on in its thread, its result dropped.
Timeout(t) ==
  /\ FinishRun(t, "timeout")
  /\ job' = [job EXCEPT ![t] = IF @ = "running" THEN @ ELSE "none"]
  /\ jobq' = Without(jobq, t)

-----------------------------------------------------------------------------
(* The thread pool.                                                         *)

JobStart(t) ==
  /\ phase \in {"up", "stopping"}
  /\ job[t] = "queued"
  /\ jobq # <<>> /\ t = Head(jobq)
  /\ Cardinality(Executing) < PoolSize
  /\ job' = [job EXCEPT ![t] = "running"]
  /\ jobq' = Tail(jobq)
  /\ UNCHANGED <<status, phase, busy, awaits, coro, permits, semq, crashes>>

\* _ask_agent_internal or the orchestrator returns or raises; nobody is left to
\* hear the result of a run that was given up.
JobFinish(t) ==
  /\ phase \in {"up", "stopping"}
  /\ job[t] = "running"
  /\ \E result \in {"answered", "raised"} :
       job' = [job EXCEPT ![t] = IF coro[t] = "waitJob" THEN result ELSE "none"]
  /\ UNCHANGED <<status, phase, busy, awaits, coro, permits, semq, jobq, crashes>>

-----------------------------------------------------------------------------
(* PATCH /tasks/{id}/ignore and /retry.                                     *)

\* Mutant: ignore_task without "AND status='pending'".
IgnoreAnyStatus(t) ==
  /\ Serving
  /\ status[t] # "none"
  /\ status' = [status EXCEPT ![t] = "ignored"]
  /\ UNCHANGED engine

Ignore(t) ==
  /\ Serving
  /\ status[t] = "pending"
  /\ status' = [status EXCEPT ![t] = "ignored"]
  /\ UNCHANGED engine

\* Mutants of Retry: any row may be retried; the row is dispatched at once.
RetryAnyStatus(t) ==
  /\ Serving
  /\ status[t] # "none"
  /\ status' = [status EXCEPT ![t] = "pending"]
  /\ UNCHANGED engine

RetryAndDispatch(t) ==
  /\ Serving
  /\ status[t] \in Retryable
  /\ status' = [status EXCEPT ![t] = "pending"]
  /\ coro' = [coro EXCEPT ![t] = "scheduled"]
  /\ UNCHANGED <<phase, busy, awaits, permits, semq, job, jobq, crashes>>

\* The row is pending again; no coroutine is made for it.
Retry(t) ==
  /\ Serving
  /\ status[t] \in Retryable
  /\ status' = [status EXCEPT ![t] = "pending"]
  /\ UNCHANGED engine

-----------------------------------------------------------------------------
(* The process.                                                             *)

\* SIGTERM: the server drains its requests, then the lifespan calls stop(),
\* which blocks the loop in ThreadPoolExecutor.shutdown(wait=True); the
\* executor still runs what is queued (cancel_futures=False).  An engine that was
\* never started is not stopped.
Stop ==
  /\ Serving
  /\ \A p \in DebugPollers : awaits[p] = NoTask
  /\ phase' = IF WatcherEnabled THEN "stopping" ELSE "closing"
  /\ UNCHANGED <<status, busy, awaits, coro, permits, semq, job, jobq, crashes>>

\* Mutant: the cancelled run keeps its permit.
StopReturnsKeepingPermit ==
  LET t == awaits[Loop] IN
  /\ phase = "stopping"
  /\ jobq = <<>> /\ Executing = {}
  /\ phase' = "closing"
  /\ awaits' = [awaits EXCEPT ![Loop] = NoTask]
  /\ IF t = NoTask
     THEN UNCHANGED <<coro, semq, job>>
     ELSE /\ coro' = [coro EXCEPT ![t] = "none"]
          /\ semq' = Without(semq, t)
          /\ job' = [job EXCEPT ![t] = "none"]
  /\ UNCHANGED <<status, busy, permits, jobq, crashes>>

\* shutdown returns; watcher_task.cancel() ends the polling loop and the run it
\* awaits.  CancelledError is no Exception: the row keeps its status.  (Waiters
\* of the semaphore that still get a permit submit to the loop's default
\* executor; the loop closes before an agent answers, so they change no row.)
StopReturns ==
  LET t == awaits[Loop] IN
  /\ phase = "stopping"
  /\ jobq = <<>> /\ Executing = {}
  /\ phase' = "closing"
  /\ awaits' = [awaits EXCEPT ![Loop] = NoTask]
  /\ IF t = NoTask
     THEN UNCHANGED <<coro, permits, semq, job>>
     ELSE /\ coro' = [coro EXCEPT ![t] = "none"]
          /\ permits' = permits + (IF coro[t] = "waitJob" THEN 1 ELSE 0)
          /\ semq' = Without(semq, t)
          /\ job' = [job EXCEPT ![t] = "none"]
  /\ UNCHANGED <<status, busy, jobq, crashes>>

\* Whatever is not in SQLite is gone.
ProcessEnds ==
  /\ phase' = "down"
  /\ busy' = NoTask
  /\ awaits' = [p \in Pollers |-> NoTask]
  /\ coro' = [t \in Tasks |-> "none"]
  /\ permits' = SemLimit
  /\ semq' = <<>>
  /\ job' = [t \in Tasks |-> "none"]
  /\ jobq' = <<>>
  /\ UNCHANGED status

Exit == phase = "closing" /\ ProcessEnds /\ UNCHANGED crashes

Crash ==
  /\ phase \in {"up", "stopping", "closing"}
  /\ crashes < MaxCrashes
  /\ ProcessEnds
  /\ crashes' = crashes + 1

\* Mutant: start() does not resume.
RestartAfresh ==
  /\ phase = "down"
  /\ phase' = "up"
  /\ UNCHANGED <<status, busy, awaits, coro, permits, semq, job, jobq, crashes>>

\* engine.start: resume_pending selects the rows that are pending, and only them.
Restart ==
  /\ phase = "down"
  /\ phase' = "up"
  /\ coro' = [t \in Tasks |-> IF WatcherEnabled /\ status[t] = "pending"
                              THEN "scheduled" ELSE "none"]
  /\ UNCHANGED <<status, busy, awaits, permits, semq, job, jobq, crashes>>

-----------------------------------------------------------------------------
Init ==
  /\ status = [t \in Tasks |-> "none"]
  /\ phase = "up"
  /\ busy = NoTask
  /\ awaits = [p \in Pollers |-> NoTask]
  /\ coro = [t \in Tasks |-> "none"]
  /\ permits = SemLimit
  /\ semq = <<>>
  /\ job = [t \in Tasks |-> "none"]
  /\ jobq = <<>>
  /\ crashes = 0

Next ==
  \/ \E t \in Tasks, p \in Pollers : PollCreate(p, t)
  \/ \E t \in Tasks :
       \/ BeginRun(t) \/ AcquireSemaphore(t) \/ DeliverResult(t) \/ Timeout(t)
       \/ JobStart(t) \/ JobFinish(t)
       \/ Ignore(t) \/ Retry(t)
  \/ Stop \/ StopReturns \/ Exit \/ Crash \/ Restart

Spec == Init /\ [][Next]_vars

\* The loop runs what is ready and its timers fire, and somebody starts the
\* service again after it went down.  No fairness on the threads (an agent may
\* hang in a model call), on pollers, on users, or on stops and crashes.
LoopFairness ==
  /\ \A t \in Tasks : /\ WF_vars(BeginRun(t))
                      /\ WF_vars(AcquireSemaphore(t))
                      /\ WF_vars(Timeout(t))
  /\ WF_vars(StopReturns) /\ WF_vars(Exit) /\ WF_vars(Restart)

FairSpec == Spec /\ LoopFairness

\* Moreover every agent run that starts ends.
AgentFairness == \A t \in Tasks : WF_vars(JobStart(t)) /\ WF_vars(JobFinish(t))

FairAgentsSpec == FairSpec /\ AgentFairness

-----------------------------------------------------------------------------
(* Properties.                                                              *)

\* Every variable has its type, in every state.
TypeOK ==
  /\ status \in [Tasks -> TaskStatus]
  /\ phase \in {"up", "stopping", "closing", "down"}
  /\ busy \in Tasks \cup {NoTask}
  /\ awaits \in [Pollers -> Tasks \cup {NoTask}]
  /\ coro \in [Tasks -> CoroState]
  /\ permits \in 0..SemLimit
  /\ semq \in Seq(Tasks)
  /\ job \in [Tasks -> JobState]
  /\ jobq \in Seq(Tasks)
  /\ crashes \in 0..MaxCrashes

Suspended == {t \in Tasks : coro[t] \in {"waitSem", "waitJob"}}
Holders   == {t \in Tasks : coro[t] = "waitJob"}

\* While a coroutine runs a task, its row says "running": nobody moves a row
\* under its runner, although the final UPDATEs do not look at the old status.
\* It rests on the status guards of ignore_task and retry_task and on start()
\* scheduling the resumed rows before the server accepts requests.
RunnerOwnsRow ==
  \A t \in Tasks :
    /\ coro[t] \in {"waitSem", "waitJob"} => status[t] = "running"
    /\ coro[t] \in {"created", "scheduled"} => status[t] = "pending"

\* No task has two agents at work on its session: a run never starts while an
\* earlier one, given up by wait_for, still occupies a thread of the pool.
NoDoubleExecution ==
  \A t \in Tasks : coro[t] \in {"created", "scheduled", "waitSem"} => job[t] = "none"

\* Every way out of "async with _llm_semaphore" (answer, exception, timeout,
\* cancellation by the lifespan) gives the permit back.
PermitsConserved == permits + Cardinality(Holders) = SemLimit

\* A thread that works for no one works for a task that timed out: the row was
\* settled, and at most re-queued or ignored since.
OrphanRunIsSettled ==
  \A t \in Tasks : job[t] = "running" /\ coro[t] # "waitJob"
    => status[t] \in {"timeout", "pending", "ignored"}

\* The rows follow the status machine of the module docstring.
Lifecycle == INSTANCE TaskLifecycle WITH Tasks <- Tasks, status <- status
FollowsLifecycle == Lifecycle!Spec

\* A row that is neither settled nor ignored and that no coroutine will move.
Abandoned(t) == status[t] \in {"pending", "running"} /\ coro[t] = "none"

\* A task is only ever abandoned by the end of its process or by a retry,
\* which puts the row back without anyone to run it.
AbandonedOnlyByExitOrRetry ==
  [][\A t \in Tasks : Abandoned(t)' /\ ~Abandoned(t)
       => phase' \in {"closing", "down"} \/ Retry(t)]_vars

\* A run ends while the process serves, even if no agent ever answers and the
\* pool is full of runs that were given up: the timeouts see to it.
RunEnds == \A t \in Tasks : t \in Suspended ~> t \notin Suspended \/ phase # "up"

\* A pending row found at a restart is started, whatever order the crash, the
\* restart and the recovery come in.
PendingSurvivesRestart ==
  \A t \in Tasks : phase = "down" /\ status[t] = "pending" ~> status[t] # "pending"

\* Not true: a retried task leaves "pending" (it stays until a restart).
RetriedTaskRuns == \A t \in Tasks : status[t] = "pending" ~> status[t] # "pending"
=============================================================================
