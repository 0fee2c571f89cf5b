------------------------- MODULE WatcherTasksProofs --------------------------
(***************************************************************************)
(* Theorems about WatcherTasks for any number of rows, pollers, permits    *)
(* and threads.                                                            *)
(***************************************************************************)
EXTENDS WatcherTasks, FiniteSetTheorems, SequenceTheorems, TLAPS

(* What the invariants need besides each other.                             *)

\* Only the row the loop is busy with is between create_task and set_running.
OneCreation == \A t \in Tasks : coro[t] = "created" => busy = t

\* A row that was never inserted has neither a coroutine nor a job.
NoRowNoRun == \A t \in Tasks : status[t] = "none" => coro[t] = "none" /\ job[t] = "none"

\* A job that waits for a thread has a coroutine that waits for it.
QueuedIsAwaited == \A t \in Tasks : job[t] = "queued" => coro[t] = "waitJob"

\* Nothing of a process is left when it is down.
DownIsEmpty ==
  phase = "down" => /\ \A t \in Tasks : coro[t] = "none" /\ job[t] = "none"
                    /\ permits = SemLimit

Control ==
  /\ RunnerOwnsRow
  /\ NoDoubleExecution
  /\ OrphanRunIsSettled
  /\ OneCreation
  /\ NoRowNoRun
  /\ QueuedIsAwaited
  /\ DownIsEmpty

\* The inductive invariant.
IInv == TypeOK /\ Control /\ PermitsConserved

-----------------------------------------------------------------------------
\* A queue stays a queue of tasks when one is taken out of it.
LEMMA WithoutType ==
  ASSUME NEW q \in Seq(Tasks), NEW t \in Tasks
  PROVE  Without(q, t) \in Seq(Tasks)
<1>1. CASE \E i \in 1..Len(q) : q[i] = t
  <2> DEFINE k == CHOOSE i \in 1..Len(q) : q[i] = t
  <2>1. k \in 1..Len(q)
    BY <1>1
  <2>2. Len(q) \in Nat
    BY LenProperties
  <2>3. Without(q, t) = RemoveAt(q, k)
    BY <1>1 DEF Without
  <2> HIDE DEF k
  <2>4. SubSeq(q, 1, k - 1) \in Seq(Tasks)
    BY <2>1, <2>2, SubSeqProperties
  <2>5. SubSeq(q, k + 1, Len(q)) \in Seq(Tasks)
    BY <2>1, <2>2, SubSeqProperties
  <2>6. QED
    BY <2>3, <2>4, <2>5, ConcatProperties DEF RemoveAt
<1>2. CASE ~ \E i \in 1..Len(q) : q[i] = t
  BY <1>2 DEF Without
<1>3. QED
  BY <1>1, <1>2

\* There are finitely many tasks, so finitely many hold a permit.
LEMMA HoldersFinite == IsFiniteSet(Tasks) /\ IsFiniteSet(Holders)
<1>1. IsFiniteSet(Tasks)
  BY FS_Interval, TasksAssumption DEF Tasks
<1>2. Holders \subseteq Tasks
  BY DEF Holders
<1>3. QED
  BY <1>1, <1>2, FS_Subset

\* A coroutine that takes a permit, and one that gives it back, keep the sum.
LEMMA PermitTaken ==
  ASSUME TypeOK, PermitsConserved, NEW t \in Tasks,
         t \notin Holders, Holders' = Holders \cup {t}, permits' = permits - 1
  PROVE  PermitsConserved'
<1>1. Cardinality(Holders \cup {t}) = Cardinality(Holders) + 1
  BY HoldersFinite, FS_AddElement
<1>2. Cardinality(Holders) \in Nat
  BY HoldersFinite, FS_CardinalityType
<1>3. QED
  BY <1>1, <1>2, TasksAssumption DEF TypeOK, PermitsConserved

LEMMA PermitReturned ==
  ASSUME TypeOK, PermitsConserved, NEW t \in Tasks,
         t \in Holders, Holders' = Holders \ {t}, permits' = permits + 1
  PROVE  PermitsConserved' /\ permits' \in 0..SemLimit
<1>1. Cardinality(Holders \ {t}) = Cardinality(Holders) - 1
  BY HoldersFinite, FS_RemoveElement
<1>2. Cardinality(Holders) \in Nat /\ Cardinality(Holders \ {t}) \in Nat
  BY HoldersFinite, FS_CardinalityType, FS_Subset, FS_RemoveElement
<1>3. QED
  BY <1>1, <1>2, TasksAssumption DEF TypeOK, PermitsConserved

LEMMA InitIInv == Init => IInv
<1> SUFFICES ASSUME Init PROVE IInv
  OBVIOUS
<1>1. TypeOK
  BY TasksAssumption, EmptySeq DEF Init, TypeOK, TaskStatus, CoroState, JobState, Pollers, NoTask, Tasks
<1>2. Control
  BY DEF Init, Control, RunnerOwnsRow, NoDoubleExecution, OrphanRunIsSettled,
         OneCreation, NoRowNoRun, QueuedIsAwaited, DownIsEmpty
<1>3. Holders = {}
  BY DEF Init, Holders
<1>4. PermitsConserved
  BY <1>3, FS_EmptySet, TasksAssumption DEF Init, PermitsConserved
<1>5. QED
  BY <1>1, <1>2, <1>4 DEF IInv
-----------------------------------------------------------------------------
(* One lemma per action: it preserves the invariant.                        *)

\* The new row is pending and its coroutine about to start.
LEMMA PollCreateKeeps ==
  ASSUME IInv, NEW t \in Tasks, NEW p \in Pollers, PollCreate(p, t)
  PROVE  IInv'
<1>1. TypeOK'
  BY DEF IInv, TypeOK, TaskStatus, CoroState, PollCreate
<1>2. coro[t] = "none" /\ job[t] = "none" /\ phase = "up"
  BY DEF IInv, Control, NoRowNoRun, PollCreate, LoopFree
<1>3. \A u \in Tasks : coro[u] # "created"
  BY DEF IInv, Control, OneCreation, PollCreate, LoopFree, NoTask, Tasks
<1>4. Control'
  BY <1>2, <1>3
  DEF IInv, TypeOK, Control, RunnerOwnsRow, NoDoubleExecution, OrphanRunIsSettled,
      OneCreation, NoRowNoRun, QueuedIsAwaited, DownIsEmpty, PollCreate
<1>5. Holders' = Holders /\ permits' = permits
  BY <1>2 DEF Holders, IInv, TypeOK, PollCreate
<1>6. QED
  BY <1>1, <1>4, <1>5 DEF IInv, PermitsConserved

\* A thread takes the head of the queue.
LEMMA JobStartKeeps ==
  ASSUME IInv, NEW t \in Tasks, JobStart(t)
  PROVE  IInv'
<1>1. TypeOK'
  BY HeadTailProperties DEF IInv, TypeOK, TaskStatus, Settled, CoroState, JobState,
        JobStart
<1>2. Control'
  BY DEF IInv, TypeOK, TaskStatus, Settled, CoroState, JobState, Control, RunnerOwnsRow, NoDoubleExecution, OrphanRunIsSettled,
        OneCreation, NoRowNoRun, QueuedIsAwaited, DownIsEmpty,
        JobStart
<1>3. PermitsConserved'
  <2>1. Holders' = Holders /\ permits' = permits
    BY DEF Holders, IInv, TypeOK, JobStart
  <2>2. QED
    BY <2>1 DEF IInv, PermitsConserved
<1>4. QED
  BY <1>1, <1>2, <1>3 DEF IInv

\* A thread ends its run.
LEMMA JobFinishKeeps ==
  ASSUME IInv, NEW t \in Tasks, JobFinish(t)
  PROVE  IInv'
<1>1. TypeOK'
  BY DEF IInv, TypeOK, TaskStatus, Settled, CoroState, JobState,
        JobFinish
<1>2. Control'
  BY DEF IInv, TypeOK, TaskStatus, Settled, CoroState, JobState, Control, RunnerOwnsRow, NoDoubleExecution, OrphanRunIsSettled,
        OneCreation, NoRowNoRun, QueuedIsAwaited, DownIsEmpty,
        JobFinish
<1>3. PermitsConserved'
  <2>1. Holders' = Holders /\ permits' = permits
    BY DEF Holders, IInv, TypeOK, JobFinish
  <2>2. QED
    BY <2>1 DEF IInv, PermitsConserved
<1>4. QED
  BY <1>1, <1>2, <1>3 DEF IInv

\* A pending row a request can see has no coroutine, so it may be ignored.
LEMMA IgnoreKeeps ==
  ASSUME IInv, NEW t \in Tasks, Ignore(t)
  PROVE  IInv'
<1>1. TypeOK'
  BY DEF IInv, TypeOK, TaskStatus, Settled, CoroState, JobState,
        Ignore, Serving, LoopFree, NoTask, Tasks, engine
<1>2. Control'
  BY DEF IInv, TypeOK, TaskStatus, Settled, CoroState, JobState, Control, RunnerOwnsRow, NoDoubleExecution, OrphanRunIsSettled,
        OneCreation, NoRowNoRun, QueuedIsAwaited, DownIsEmpty,
        Ignore, Serving, LoopFree, NoTask, Tasks, engine
<1>3. PermitsConserved'
  <2>1. Holders' = Holders /\ permits' = permits
    BY DEF Holders, IInv, TypeOK, Ignore, engine
  <2>2. QED
    BY <2>1 DEF IInv, PermitsConserved
<1>4. QED
  BY <1>1, <1>2, <1>3 DEF IInv

\* A failed or timed-out row has no coroutine, so it may be pending again.
LEMMA RetryKeeps ==
  ASSUME IInv, NEW t \in Tasks, Retry(t)
  PROVE  IInv'
<1>1. TypeOK'
  BY DEF IInv, TypeOK, TaskStatus, Settled, CoroState, JobState,
        Retry, Retryable, Serving, LoopFree, engine
<1>2. Control'
  BY DEF IInv, TypeOK, TaskStatus, Settled, CoroState, JobState, Control, RunnerOwnsRow, NoDoubleExecution, OrphanRunIsSettled,
        OneCreation, NoRowNoRun, QueuedIsAwaited, DownIsEmpty,
        Retry, Retryable, Serving, LoopFree, engine
<1>3. PermitsConserved'
  <2>1. Holders' = Holders /\ permits' = permits
    BY DEF Holders, IInv, TypeOK, Retry, engine
  <2>2. QED
    BY <2>1 DEF IInv, PermitsConserved
<1>4. QED
  BY <1>1, <1>2, <1>3 DEF IInv

\* stop() touches no row.
LEMMA StopKeeps ==
  ASSUME IInv, Stop
  PROVE  IInv'
<1>1. TypeOK'
  BY DEF IInv, TypeOK, TaskStatus, Settled, CoroState, JobState,
        Stop
<1>2. Control'
  BY DEF IInv, TypeOK, TaskStatus, Settled, CoroState, JobState, Control, RunnerOwnsRow, NoDoubleExecution, OrphanRunIsSettled,
        OneCreation, NoRowNoRun, QueuedIsAwaited, DownIsEmpty,
        Stop
<1>3. PermitsConserved'
  <2>1. Holders' = Holders /\ permits' = permits
    BY DEF Holders, IInv, TypeOK, Stop
  <2>2. QED
    BY <2>1 DEF IInv, PermitsConserved
<1>4. QED
  BY <1>1, <1>2, <1>3 DEF IInv

\* A restart schedules the pending rows only.
LEMMA RestartKeeps ==
  ASSUME IInv, Restart
  PROVE  IInv'
<1>1. TypeOK'
  BY DEF IInv, TypeOK, TaskStatus, Settled, CoroState, JobState,
        Restart
<1>2. Control'
  BY DEF IInv, TypeOK, TaskStatus, Settled, CoroState, JobState, Control, RunnerOwnsRow, NoDoubleExecution, OrphanRunIsSettled,
        OneCreation, NoRowNoRun, QueuedIsAwaited, DownIsEmpty,
        Restart
<1>3. PermitsConserved'
  <2>1. Holders = {} /\ Holders' = {} /\ permits' = permits
    BY DEF IInv, Control, DownIsEmpty, Restart, Holders
  <2>2. QED
    BY <2>1 DEF IInv, PermitsConserved
<1>4. QED
  BY <1>1, <1>2, <1>3 DEF IInv

\* The end of the process leaves the rows and nothing else.
LEMMA ProcessEndsKeeps ==
  ASSUME IInv, ProcessEnds, crashes' \in 0..MaxCrashes
  PROVE  IInv'
<1>1. TypeOK'
  BY TasksAssumption, EmptySeq DEF IInv, TypeOK, TaskStatus, Settled, CoroState, JobState,
        ProcessEnds
<1>2. Control'
  BY DEF IInv, TypeOK, TaskStatus, Settled, CoroState, JobState, Control, RunnerOwnsRow, NoDoubleExecution, OrphanRunIsSettled,
        OneCreation, NoRowNoRun, QueuedIsAwaited, DownIsEmpty,
        ProcessEnds
<1>3. PermitsConserved'
  <2>1. Holders' = {} /\ permits' = SemLimit
    BY DEF ProcessEnds, Holders
  <2>2. QED
    BY <2>1, FS_EmptySet, TasksAssumption DEF PermitsConserved
<1>4. QED
  BY <1>1, <1>2, <1>3 DEF IInv

\* The semaphore lets a coroutine in or queues it.
LEMMA EnterSemaphoreKeeps ==
  ASSUME IInv, NEW t \in Tasks, t \notin Holders, EnterSemaphore(t)
  PROVE  /\ awaits' = awaits
         /\ permits' \in 0..SemLimit
         /\ semq' \in Seq(Tasks) /\ jobq' \in Seq(Tasks)
         /\ PermitsConserved'
<1>1. CASE permits > 0 /\ semq = <<>>
  <2>1. Holders' = Holders \cup {t} /\ permits' = permits - 1
    BY <1>1 DEF EnterSemaphore, Holders, IInv, TypeOK
  <2>2. PermitsConserved'
    BY <2>1, PermitTaken DEF IInv
  <2>3. permits' \in 0..SemLimit
    BY <1>1, <2>1, TasksAssumption DEF IInv, TypeOK
  <2>4. semq' = semq /\ awaits' = awaits /\ jobq' = Append(jobq, t)
    BY <1>1 DEF EnterSemaphore
  <2>5. QED
    BY <2>2, <2>3, <2>4, AppendProperties DEF IInv, TypeOK
<1>2. CASE ~(permits > 0 /\ semq = <<>>)
  <2>1. Holders' = Holders /\ permits' = permits
    BY <1>2 DEF EnterSemaphore, Holders, IInv, TypeOK
  <2>2. semq' = Append(semq, t) /\ awaits' = awaits /\ jobq' = jobq
    BY <1>2 DEF EnterSemaphore
  <2>3. jobq \in Seq(Tasks) /\ semq \in Seq(Tasks) /\ permits \in 0..SemLimit
    BY DEF IInv, TypeOK
  <2>4. semq' \in Seq(Tasks)
    BY <2>2, <2>3, AppendProperties
  <2>5. PermitsConserved'
    BY <2>1 DEF IInv, PermitsConserved
  <2>6. QED
    BY <2>1, <2>2, <2>3, <2>4, <2>5
<1>3. QED
  BY <1>1, <1>2

\* set_running finds the row pending, and the coroutine goes to the semaphore.
LEMMA BeginRunKeeps ==
  ASSUME IInv, NEW t \in Tasks, BeginRun(t)
  PROVE  IInv'
<1>1. /\ coro[t] \in {"created", "scheduled"}
      /\ status[t] = "pending" /\ job[t] = "none" /\ phase = "up"
  BY DEF BeginRun, IInv, Control, RunnerOwnsRow, NoDoubleExecution
<1>2. t \notin Holders
  BY <1>1 DEF Holders
<1>3. \A u \in Tasks \ {t} : coro[u] # "created"
  BY DEF BeginRun, IInv, Control, OneCreation, NoTask, Tasks
<1>4. status' = [status EXCEPT ![t] = "running"] /\ busy' = NoTask
      /\ UNCHANGED <<phase, crashes>>
  BY <1>1 DEF BeginRun
<1>5. CASE WatcherEnabled
  <2>1. EnterSemaphore(t)
    BY <1>5 DEF BeginRun
  <2>2. /\ awaits' = awaits /\ permits' \in 0..SemLimit
        /\ semq' \in Seq(Tasks) /\ jobq' \in Seq(Tasks) /\ PermitsConserved'
    BY <1>2, <2>1, EnterSemaphoreKeeps
  <2>3. \/ /\ coro' = [coro EXCEPT ![t] = "waitJob"]
           /\ job' = [job EXCEPT ![t] = "queued"]
        \/ /\ coro' = [coro EXCEPT ![t] = "waitSem"]
           /\ job' = job
    BY <2>1 DEF EnterSemaphore
  <2>4. TypeOK'
    BY <1>4, <2>2, <2>3 DEF IInv, TypeOK, TaskStatus, CoroState, JobState
  <2>5. Control'
    BY <1>1, <1>3, <1>4, <2>3
    DEF IInv, TypeOK, Control, RunnerOwnsRow, NoDoubleExecution, OrphanRunIsSettled,
        OneCreation, NoRowNoRun, QueuedIsAwaited, DownIsEmpty
  <2>6. QED
    BY <2>2, <2>4, <2>5 DEF IInv
<1>6. CASE ~WatcherEnabled
  <2>1. /\ coro' = [coro EXCEPT ![t] = "none"]
        /\ awaits' = [p \in Pollers |-> IF awaits[p] = t THEN NoTask ELSE awaits[p]]
        /\ UNCHANGED <<permits, semq, job, jobq>>
    BY <1>6 DEF BeginRun, FailWithoutSemaphore, Release
  <2>2. TypeOK'
    BY <1>4, <2>1 DEF IInv, TypeOK, TaskStatus, CoroState
  <2>3. Control'
    BY <1>1, <1>3, <1>4, <2>1
    DEF IInv, TypeOK, Control, RunnerOwnsRow, NoDoubleExecution, OrphanRunIsSettled,
        OneCreation, NoRowNoRun, QueuedIsAwaited, DownIsEmpty
  <2>4. Holders' = Holders
    BY <1>1, <2>1 DEF Holders, IInv, TypeOK
  <2>5. QED
    BY <2>1, <2>2, <2>3, <2>4 DEF IInv, PermitsConserved
<1>7. QED
  BY <1>5, <1>6

\* A waiter takes a released permit.
LEMMA AcquireSemaphoreKeeps ==
  ASSUME IInv, NEW t \in Tasks, AcquireSemaphore(t)
  PROVE  IInv'
<1>1. job[t] = "none" /\ status[t] = "running"
  BY DEF AcquireSemaphore, IInv, Control, NoDoubleExecution, RunnerOwnsRow
<1>2. TypeOK'
  BY HeadTailProperties, AppendProperties, TasksAssumption
  DEF AcquireSemaphore, IInv, TypeOK, CoroState, JobState
<1>3. Control'
  BY <1>1
  DEF IInv, TypeOK, Control, RunnerOwnsRow, NoDoubleExecution, OrphanRunIsSettled,
      OneCreation, NoRowNoRun, QueuedIsAwaited, DownIsEmpty, AcquireSemaphore, LoopFree
<1>4. Holders' = Holders \cup {t} /\ t \notin Holders /\ permits' = permits - 1
  BY DEF AcquireSemaphore, Holders, IInv, TypeOK
<1>5. QED
  BY <1>2, <1>3, <1>4, PermitTaken DEF IInv

\* A run that ends leaves its row settled and its permit free.
LEMMA FinishRunKeeps ==
  ASSUME IInv, NEW t \in Tasks, NEW outcome \in Settled, FinishRun(t, outcome),
         job' \in [Tasks -> JobState], jobq' \in Seq(Tasks),
         \A u \in Tasks \ {t} : job'[u] = job[u],
         job'[t] \in {"none", "running"},
         job'[t] = "running" => outcome = "timeout"
  PROVE  IInv'
<1>1. Holders' = Holders \ {t} /\ t \in Holders /\ permits' = permits + 1
  BY DEF FinishRun, Holders, IInv, TypeOK
<1>2. PermitsConserved' /\ permits' \in 0..SemLimit
  BY <1>1, PermitReturned DEF IInv
<1>3. TypeOK'
  BY <1>2 DEF FinishRun, Release, IInv, TypeOK, TaskStatus, Settled, CoroState
<1>4. status[t] = "running" /\ phase # "down"
  BY DEF FinishRun, IInv, Control, RunnerOwnsRow
<1>5. /\ status' = [status EXCEPT ![t] = outcome]
      /\ coro' = [coro EXCEPT ![t] = "none"]
      /\ phase' = phase /\ busy' = busy
  BY DEF FinishRun
<1>6. Control'
  BY <1>4, <1>5
  DEF IInv, TypeOK, Control, RunnerOwnsRow, NoDoubleExecution, OrphanRunIsSettled,
      OneCreation, NoRowNoRun, QueuedIsAwaited, DownIsEmpty, Settled
<1>7. QED
  BY <1>2, <1>3, <1>6 DEF IInv

LEMMA DeliverResultKeeps ==
  ASSUME IInv, NEW t \in Tasks, DeliverResult(t)
  PROVE  IInv'
<1>1. PICK outcome \in Settled : FinishRun(t, outcome)
  BY DEF DeliverResult, Settled
<1>2. /\ job' \in [Tasks -> JobState] /\ jobq' \in Seq(Tasks)
      /\ \A u \in Tasks \ {t} : job'[u] = job[u]
      /\ job'[t] = "none"
  BY DEF DeliverResult, IInv, TypeOK, JobState
<1>3. QED
  BY <1>1, <1>2, FinishRunKeeps

LEMMA TimeoutKeeps ==
  ASSUME IInv, NEW t \in Tasks, Timeout(t)
  PROVE  IInv'
<1>1. FinishRun(t, "timeout")
  BY DEF Timeout
<1>2. jobq' \in Seq(Tasks)
  BY WithoutType DEF Timeout, IInv, TypeOK
<1>3. /\ job' \in [Tasks -> JobState]
      /\ \A u \in Tasks \ {t} : job'[u] = job[u]
      /\ job'[t] \in {"none", "running"}
  BY DEF Timeout, IInv, TypeOK, JobState
<1>4. "timeout" \in Settled
  BY DEF Settled
<1>5. QED
  BY <1>1, <1>2, <1>3, <1>4, FinishRunKeeps

\* The cancelled run of the polling loop gives its permit back if it has one.
LEMMA StopReturnsKeeps ==
  ASSUME IInv, StopReturns
  PROVE  IInv'
<1> DEFINE t == awaits[Loop]
<1>1. t \in Tasks \cup {NoTask}
  BY DEF IInv, TypeOK, Pollers
<1>2. CASE t = NoTask
  <2>1. /\ phase' = "closing" /\ awaits' = [awaits EXCEPT ![Loop] = NoTask]
        /\ UNCHANGED <<coro, permits, semq, job, status, busy, jobq, crashes>>
    BY <1>2 DEF StopReturns
  <2>2. TypeOK'
    BY <2>1 DEF IInv, TypeOK
  <2>3. Control'
    BY <2>1
    DEF IInv, Control, RunnerOwnsRow, NoDoubleExecution, OrphanRunIsSettled,
        OneCreation, NoRowNoRun, QueuedIsAwaited, DownIsEmpty
  <2>4. Holders' = Holders
    BY <2>1 DEF Holders
  <2>5. QED
    BY <2>1, <2>2, <2>3, <2>4 DEF IInv, PermitsConserved
<1>3. CASE t # NoTask
  <2>1. t \in Tasks
    BY <1>1, <1>3
  <2>2. /\ phase' = "closing" /\ awaits' = [awaits EXCEPT ![Loop] = NoTask]
        /\ coro' = [coro EXCEPT ![t] = "none"]
        /\ permits' = permits + (IF coro[t] = "waitJob" THEN 1 ELSE 0)
        /\ semq' = Without(semq, t)
        /\ job' = [job EXCEPT ![t] = "none"]
        /\ UNCHANGED <<status, busy, jobq, crashes>>
        /\ Executing = {}
    BY <1>3 DEF StopReturns
  <2> HIDE DEF t
  <2>3. PermitsConserved' /\ permits' \in 0..SemLimit
    <3>1. CASE coro[t] = "waitJob"
      <4>1. Holders' = Holders \ {t} /\ t \in Holders /\ permits' = permits + 1
        BY <2>1, <2>2, <3>1 DEF Holders, IInv, TypeOK
      <4>2. QED
        BY <2>1, <4>1, PermitReturned DEF IInv
    <3>2. CASE coro[t] # "waitJob"
      <4>1. Holders' = Holders /\ permits' = permits
        BY <2>1, <2>2, <3>2 DEF Holders, IInv, TypeOK
      <4>2. QED
        BY <4>1 DEF IInv, TypeOK, PermitsConserved
    <3>3. QED
      BY <3>1, <3>2
  <2>4. semq' \in Seq(Tasks)
    BY <2>1, <2>2, WithoutType DEF IInv, TypeOK
  <2>5. TypeOK'
    BY <2>1, <2>2, <2>3, <2>4 DEF IInv, TypeOK, CoroState, JobState
  <2>6. \A u \in Tasks : job[u] # "running"
    BY <2>2 DEF Executing
  <2>7. Control'
    BY <2>1, <2>2, <2>6
    DEF IInv, TypeOK, Control, RunnerOwnsRow, NoDoubleExecution, OrphanRunIsSettled,
        OneCreation, NoRowNoRun, QueuedIsAwaited, DownIsEmpty
  <2>8. QED
    BY <2>3, <2>5, <2>7 DEF IInv
<1>4. QED
  BY <1>2, <1>3

-----------------------------------------------------------------------------
LEMMA NextKeepsIInv == IInv /\ [Next]_vars => IInv'
<1> SUFFICES ASSUME IInv, [Next]_vars PROVE IInv'
  OBVIOUS
<1>1. ASSUME NEW t \in Tasks, NEW p \in Pollers, PollCreate(p, t) PROVE IInv'
  BY <1>1, PollCreateKeeps
<1>2. ASSUME NEW t \in Tasks, BeginRun(t) PROVE IInv'
  BY <1>2, BeginRunKeeps
<1>3. ASSUME NEW t \in Tasks, AcquireSemaphore(t) PROVE IInv'
  BY <1>3, AcquireSemaphoreKeeps
<1>4. ASSUME NEW t \in Tasks, DeliverResult(t) PROVE IInv'
  BY <1>4, DeliverResultKeeps
<1>5. ASSUME NEW t \in Tasks, Timeout(t) PROVE IInv'
  BY <1>5, TimeoutKeeps
<1>6. ASSUME NEW t \in Tasks, JobStart(t) PROVE IInv'
  BY <1>6, JobStartKeeps
<1>7. ASSUME NEW t \in Tasks, JobFinish(t) PROVE IInv'
  BY <1>7, JobFinishKeeps
<1>8. ASSUME NEW t \in Tasks, Ignore(t) PROVE IInv'
  BY <1>8, IgnoreKeeps
<1>9. ASSUME NEW t \in Tasks, Retry(t) PROVE IInv'
  BY <1>9, RetryKeeps
<1>10. CASE Stop
  BY <1>10, StopKeeps
<1>11. CASE StopReturns
  BY <1>11, StopReturnsKeeps
<1>12. CASE Exit
  BY <1>12, ProcessEndsKeeps DEF Exit, IInv, TypeOK
<1>13. CASE Crash
  <2>1. ProcessEnds /\ crashes' \in 0..MaxCrashes
    BY <1>13, TasksAssumption DEF Crash, IInv, TypeOK
  <2>2. QED
    BY <2>1, ProcessEndsKeeps
<1>14. CASE Restart
  BY <1>14, RestartKeeps
<1>15. CASE UNCHANGED vars
  BY <1>15
  DEF vars, engine, IInv, TypeOK, Control, PermitsConserved, Holders, RunnerOwnsRow,
      NoDoubleExecution, OrphanRunIsSettled, OneCreation, NoRowNoRun,
      QueuedIsAwaited, DownIsEmpty
<1>16. QED
  BY <1>1, <1>2, <1>3, <1>4, <1>5, <1>6, <1>7, <1>8, <1>9, <1>10, <1>11, <1>12,
     <1>13, <1>14, <1>15 DEF Next

LEMMA InductiveInvariant == Spec => []IInv
BY InitIInv, NextKeepsIInv, PTL DEF Spec

\* Types, for any number of tasks, pollers, permits and threads.
THEOREM TypeCorrect == Spec => []TypeOK
<1>1. IInv => TypeOK
  BY DEF IInv
<1>2. QED
  BY <1>1, InductiveInvariant, PTL

\* No row moves under the coroutine that runs it.
THEOREM RunnerOwnsItsRow == Spec => []RunnerOwnsRow
<1>1. IInv => RunnerOwnsRow
  BY DEF IInv, Control
<1>2. QED
  BY <1>1, InductiveInvariant, PTL

\* A task never has two agents at work.
THEOREM OneAgentPerTask == Spec => []NoDoubleExecution
<1>1. IInv => NoDoubleExecution
  BY DEF IInv, Control
<1>2. QED
  BY <1>1, InductiveInvariant, PTL

\* No permit of the semaphore is lost or made up.
THEOREM SemaphoreConserved == Spec => []PermitsConserved
<1>1. IInv => PermitsConserved
  BY DEF IInv
<1>2. QED
  BY <1>1, InductiveInvariant, PTL

\* A run without a listener belongs to a task that timed out.
THEOREM OrphanRunsAreSettled == Spec => []OrphanRunIsSettled
<1>1. IInv => OrphanRunIsSettled
  BY DEF IInv, Control
<1>2. QED
  BY <1>1, InductiveInvariant, PTL

-----------------------------------------------------------------------------
(* WatcherTasks implements TaskLifecycle: every step is a step of the row's  *)
(* status machine or leaves the rows alone.                                  *)

LEMMA StepFollowsLifecycle == IInv /\ [Next]_vars => [Lifecycle!Next]_status
<1> SUFFICES ASSUME IInv, [Next]_vars, status' # status PROVE Lifecycle!Next
  OBVIOUS
<1> USE DEF Lifecycle!Next, Lifecycle!Move
<1>1. ASSUME NEW t \in Tasks, NEW p \in Pollers, PollCreate(p, t) PROVE Lifecycle!Next
  BY <1>1 DEF PollCreate, Lifecycle!Create
<1>2. ASSUME NEW t \in Tasks, BeginRun(t) PROVE Lifecycle!Next
  <2>1. status[t] = "pending"
    BY <1>2 DEF BeginRun, IInv, Control, RunnerOwnsRow
  <2>2. QED
    BY <1>2, <2>1 DEF BeginRun, Lifecycle!Start
<1>3. ASSUME NEW t \in Tasks, NEW outcome \in Settled, FinishRun(t, outcome)
      PROVE  Lifecycle!Next
  <2>1. status[t] = "running"
    BY <1>3 DEF FinishRun, IInv, Control, RunnerOwnsRow
  <2>2. QED
    BY <1>3, <2>1 DEF FinishRun, Lifecycle!Settle, Lifecycle!Settled, Settled
<1>4. ASSUME NEW t \in Tasks, DeliverResult(t) \/ Timeout(t) PROVE Lifecycle!Next
  BY <1>3, <1>4 DEF DeliverResult, Timeout, Settled
<1>5. ASSUME NEW t \in Tasks, Ignore(t) PROVE Lifecycle!Next
  BY <1>5 DEF Ignore, Lifecycle!Ignore
<1>6. ASSUME NEW t \in Tasks, Retry(t) PROVE Lifecycle!Next
  BY <1>6 DEF Retry, Retryable, Lifecycle!Retry, Lifecycle!Retryable
<1>7. QED
  BY <1>1, <1>2, <1>4, <1>5, <1>6
  DEF Next, vars, AcquireSemaphore, JobStart, JobFinish, Stop, StopReturns, Exit,
      Crash, Restart, ProcessEnds

\* The rows follow the status machine that task_manager.py documents.
THEOREM ImplementsLifecycle == Spec => FollowsLifecycle
<1>1. Init => Lifecycle!Init
  BY DEF Init, Lifecycle!Init
<1>2. QED
  BY <1>1, InductiveInvariant, StepFollowsLifecycle, PTL
  DEF Spec, FollowsLifecycle, Lifecycle!Spec

\* A step abandons a task only if it ends the process or retries the task.
LEMMA StepAbandons ==
  WatcherEnabled /\ IInv /\ [Next]_vars =>
    \A t \in Tasks : Abandoned(t)' /\ ~Abandoned(t)
      => phase' \in {"closing", "down"} \/ Retry(t)
<1> SUFFICES ASSUME WatcherEnabled, IInv, [Next]_vars, NEW u \in Tasks,
                    Abandoned(u)', ~Abandoned(u), phase' \notin {"closing", "down"}
             PROVE  Retry(u)
  OBVIOUS
<1> USE DEF Abandoned
<1>1. ASSUME NEW t \in Tasks, NEW p \in Pollers, PollCreate(p, t) PROVE FALSE
  BY <1>1 DEF PollCreate, IInv, TypeOK
<1>2. ASSUME NEW t \in Tasks, BeginRun(t) PROVE FALSE
  <2>1. coro'[t] # "none" /\ \A v \in Tasks \ {t} : coro'[v] = coro[v]
    BY <1>2 DEF BeginRun, EnterSemaphore, IInv, TypeOK
  <2>2. \A v \in Tasks \ {t} : status'[v] = status[v]
    BY <1>2 DEF BeginRun, IInv, TypeOK
  <2>3. QED
    BY <2>1, <2>2
<1>3. ASSUME NEW t \in Tasks, AcquireSemaphore(t) PROVE FALSE
  BY <1>3 DEF AcquireSemaphore, IInv, TypeOK
<1>4. ASSUME NEW t \in Tasks, NEW outcome \in Settled, FinishRun(t, outcome) PROVE FALSE
  BY <1>4 DEF FinishRun, Settled, IInv, TypeOK
<1>5. ASSUME NEW t \in Tasks, DeliverResult(t) \/ Timeout(t) PROVE FALSE
  BY <1>4, <1>5 DEF DeliverResult, Timeout, Settled
<1>6. ASSUME NEW t \in Tasks, JobStart(t) \/ JobFinish(t) PROVE FALSE
  BY <1>6 DEF JobStart, JobFinish
<1>7. ASSUME NEW t \in Tasks, Ignore(t) PROVE FALSE
  BY <1>7 DEF Ignore, engine, IInv, TypeOK
<1>8. ASSUME NEW t \in Tasks, Retry(t) PROVE Retry(u)
  BY <1>8 DEF Retry, engine, IInv, TypeOK
<1>9. ~Stop /\ ~StopReturns /\ ~Exit /\ ~Crash
  BY DEF Stop, StopReturns, Exit, Crash, ProcessEnds
<1>10. CASE Restart
  BY <1>10 DEF Restart, IInv, Control, DownIsEmpty
<1>11. CASE UNCHANGED vars
  BY <1>11 DEF vars, engine
<1>12. QED
  BY <1>1, <1>2, <1>3, <1>5, <1>6, <1>7, <1>8, <1>9, <1>10, <1>11 DEF Next

\* With the watcher enabled, only the end of the process and a retry leave a task
\* to no one.
THEOREM NoSilentAbandon ==
  ASSUME WatcherEnabled
  PROVE  Spec => AbandonedOnlyByExitOrRetry
BY InductiveInvariant, StepAbandons, PTL DEF Spec, AbandonedOnlyByExitOrRetry
=============================================================================
