----------------------------- MODULE AskSessions -----------------------------
(***************************************************************************)
(* POST /ask and /ask/stream of api/routes.py: a request gets the lock of  *)
(* its session from a bounded table, runs the graph while holding it (an   *)
(* ask in a thread of _ask_executor, a stream on the event loop), and the  *)
(* checkpoint file of the session (agent/session_store.py) and its active  *)
(* trace (agent/tracer.py) are what the lock protects.  asyncio.Lock is    *)
(* external: a released lock is free until the waiter that was woken runs. *)
(***************************************************************************)
EXTENDS Integers, Sequences, FiniteSets

CONSTANTS
  Asks,          \* number of requests
  Sessions,
  Default,       \* the session "default" (or none given), with a lock of its own
  LocksMax,      \* _SESSION_LOCKS_MAX: 512
  AskThreads     \* threads of _ask_executor: 4

ASSUME AskAssumption == 
  Default \in Sessions /\ Asks \in Nat /\ AskThreads \in Nat \ {0} /\ LocksMax \in Nat \ {0}

\* Requests, in the order they arrive.
Requests == 1..Asks

VARIABLES
  at,         \* where each request is
  session, kind,
  lockOf,     \* the lock a request has fetched, named by the request it was made for
  lockTable,  \* _session_locks
  held,       \* locks that are held
  waiters,    \* per lock: requests in its queue
  file,       \* turns in the session's checkpoint
  base,       \* turns in the checkpoint a run began with
  old,        \* sessions whose file is past its time to live
  trace,      \* _trace_store: the session's active trace
  expired,    \* history: turns that were swept
  orphaned    \* history: sessions whose lock was evicted while somebody meant to take it

askVars == <<at, session, kind, lockOf, lockTable, held, waiters, file, base, old, trace, expired, orphaned>>

None        == 0
DefaultLock == Asks + 1
Locks       == Requests \cup {DefaultLock}
Ended   == {"done", "failed", "gone"}
Runs(s) == {r \in Requests : session[r] = s /\ at[r] = "running"}

AskInit ==
  /\ at = [r \in Requests |-> "new"]
  /\ session = [r \in Requests |-> Default]
  /\ kind = [r \in Requests |-> "ask"]
  /\ lockOf = [r \in Requests |-> None]
  /\ lockTable = [s \in Sessions |-> None]
  /\ held = {}
  /\ waiters = [l \in Locks |-> <<>>]
  /\ file = [s \in Sessions |-> {}]
  /\ base = [r \in Requests |-> {}]
  /\ old = {}
  /\ trace = [s \in Sessions |-> None]
  /\ expired = {}
  /\ orphaned = {}

-----------------------------------------------------------------------------
(* The lock table.                                                          *)

\* Mutant: whatever is in the table goes.
EvictAll == [s \in Sessions |-> None]

\* Locks that nobody holds go.
EvictIdle == [s \in Sessions |-> IF lockTable[s] \in held THEN lockTable[s] ELSE None]

WantedLocks == {lockOf[r] : r \in {q \in Requests : at[q] \in {"fetched", "waiting", "woken"}}}

\* _get_session_lock for request r of session s.
GetLock(r, s) ==
  IF s = Default THEN lockOf' = [lockOf EXCEPT ![r] = DefaultLock] /\ UNCHANGED <<lockTable, orphaned>>
  ELSE IF lockTable[s] # None
  THEN lockOf' = [lockOf EXCEPT ![r] = lockTable[s]] /\ UNCHANGED <<lockTable, orphaned>>
  ELSE LET full == Cardinality({x \in Sessions : lockTable[x] # None}) >= LocksMax
           left == IF full THEN EvictIdle ELSE lockTable
       IN /\ lockOf' = [lockOf EXCEPT ![r] = r]
          /\ lockTable' = [left EXCEPT ![s] = r]
          /\ orphaned' = orphaned \cup {x \in Sessions :
               left[x] # lockTable[x] /\ lockTable[x] \in WantedLocks \ held}

\* A free lock without a queue is taken at once, else the request queues.
Enter(r, l) ==
  IF l \notin held /\ waiters[l] = <<>>
  THEN /\ held' = held \cup {l}
       /\ at' = [at EXCEPT ![r] = "queued"]
       /\ UNCHANGED waiters
  ELSE /\ waiters' = [waiters EXCEPT ![l] = Append(@, r)]
       /\ at' = [at EXCEPT ![r] = "waiting"]
       /\ UNCHANGED held

\* The first in the queue is woken and stays in it until it runs.
Wake(places, queue) ==
  IF queue = <<>> THEN places ELSE [places EXCEPT ![Head(queue)] = "woken"]

\* The queue without one of those in it.
Dropped(queue, r) ==
  LET place == CHOOSE i \in DOMAIN queue : queue[i] = r
  IN  [i \in 1..(Len(queue) - 1) |-> IF i < place THEN queue[i] ELSE queue[i + 1]]

Release(r, place) ==
  /\ held' = held \ {lockOf[r]}
  /\ at' = Wake([at EXCEPT ![r] = place], waiters[lockOf[r]])
  /\ UNCHANGED waiters

-----------------------------------------------------------------------------
Arrives(r) == at[r] = "new" /\ \A q \in 1..(r - 1) : at[q] # "new"

\* ask: after the moderation of the question the lock is fetched and entered at once.
Ask(r, s) ==
  /\ Arrives(r)
  /\ session' = [session EXCEPT ![r] = s]
  /\ GetLock(r, s)
  /\ Enter(r, lockOf'[r])
  /\ UNCHANGED <<kind, file, base, old, trace, expired>>

\* ask_stream: the lock is fetched, and entered when the response begins to be sent.
FetchForStream(r, s) ==
  /\ Arrives(r)
  /\ session' = [session EXCEPT ![r] = s]
  /\ kind' = [kind EXCEPT ![r] = "stream"]
  /\ GetLock(r, s)
  /\ at' = [at EXCEPT ![r] = "fetched"]
  /\ UNCHANGED <<held, waiters, file, base, old, trace, expired>>

BeginStream(r) ==
  /\ at[r] = "fetched"
  /\ Enter(r, lockOf[r])
  /\ UNCHANGED <<session, kind, lockOf, lockTable, file, base, old, trace, expired, orphaned>>

TakeLock(r) ==
  /\ at[r] = "woken"
  /\ held' = held \cup {lockOf[r]}
  /\ waiters' = [waiters EXCEPT ![lockOf[r]] = Tail(@)]
  /\ at' = [at EXCEPT ![r] = "queued"]
  /\ UNCHANGED <<session, kind, lockOf, lockTable, file, base, old, trace, expired, orphaned>>

\* The graph starts from the session's checkpoint; an ask needs a thread.
RunStarts(r) ==
  /\ at[r] = "queued"
  /\ kind[r] = "ask" => Cardinality({q \in Requests : at[q] = "running" /\ kind[q] = "ask"}) < AskThreads
  /\ at' = [at EXCEPT ![r] = "running"]
  /\ base' = [base EXCEPT ![r] = file[session[r]]]
  /\ trace' = [trace EXCEPT ![session[r]] = r]
  /\ UNCHANGED <<session, kind, lockOf, lockTable, held, waiters, file, old, expired, orphaned>>

\* put replaces the session's file as a whole, and every ten minutes removes the files
\* of sessions that were not written for SESSION_TTL_DAYS.
Put(r) ==
  \E swept \in {{}, old \ {session[r]}} :
    /\ file' = [s \in Sessions |-> IF s = session[r] THEN base[r] \cup {r}
                                   ELSE IF s \in swept THEN {} ELSE file[s]]
    /\ old' = old \ (swept \cup {session[r]})
    /\ expired' = expired \cup UNION {file[s] : s \in swept}

\* The run ends with an answer in the checkpoint; finish_trace ends the session's trace.
RunEnds(r) ==
  /\ at[r] = "running"
  /\ Put(r)
  /\ trace' = [trace EXCEPT ![session[r]] = None]
  /\ Release(r, "done")
  /\ UNCHANGED <<session, kind, lockOf, lockTable, base, orphaned>>

\* Mutant: an exception leaves the lock taken.
RunFailsHolding(r) ==
  /\ at[r] = "running"
  /\ at' = [at EXCEPT ![r] = "failed"]
  /\ trace' = [trace EXCEPT ![session[r]] = None]
  /\ UNCHANGED <<session, kind, lockOf, lockTable, held, waiters, file, base, old, expired, orphaned>>

RunFails(r) ==
  /\ at[r] = "running"
  /\ trace' = [trace EXCEPT ![session[r]] = None]
  /\ Release(r, "failed")
  /\ UNCHANGED <<session, kind, lockOf, lockTable, file, base, old, expired, orphaned>>

\* The client of a stream goes away: CancelledError at its await.  A run is broken off,
\* its trace stays; a place in the queue is given up, and a wake-up passed on.
Disconnect(r) ==
  /\ kind[r] = "stream"
  /\ LET l == lockOf[r]
         queue == Dropped(waiters[l], r)
     IN \/ at[r] \in {"queued", "running"} /\ Release(r, "gone")
        \/ /\ at[r] = "fetched"
           /\ at' = [at EXCEPT ![r] = "gone"]
           /\ UNCHANGED <<held, waiters>>
        \/ /\ at[r] \in {"waiting", "woken"}
           /\ waiters' = [waiters EXCEPT ![l] = queue]
           /\ at' = LET left == [at EXCEPT ![r] = "gone"] IN
                    IF l \in held THEN left ELSE Wake(left, queue)
           /\ UNCHANGED held
  /\ UNCHANGED <<session, kind, lockOf, lockTable, file, base, old, trace, expired, orphaned>>

\* Time passes without a request to the session.
Ages(s) ==
  /\ file[s] # {}
  /\ s \notin old
  /\ \A r \in Requests : session[r] = s => at[r] \in Ended \cup {"new"}
  /\ old' = old \cup {s}
  /\ UNCHANGED <<at, session, kind, lockOf, lockTable, held, waiters, file, base, trace, expired, orphaned>>

AskStep(r) == BeginStream(r) \/ TakeLock(r) \/ RunStarts(r) \/ RunEnds(r) \/ RunFails(r)

AskNext ==
  \/ \E r \in Requests, s \in Sessions : Ask(r, s) \/ FetchForStream(r, s)
  \/ \E r \in Requests : AskStep(r) \/ Disconnect(r)
  \/ \E s \in Sessions : Ages(s)

AskSpec == AskInit /\ [][AskNext]_askVars

-----------------------------------------------------------------------------
\* The answer a client was given is in its session's checkpoint for the next turn to
\* build on, until it expires: no other run of the session overwrites it with what it
\* read before.  The code's one exception is named: a lock is evicted that is free at
\* this moment but was fetched by a stream or promised to a waiter ("正被 async with 持有
\* 的锁会跳过", routes.py, looks at the holder only), and two runs of a session overlap.
TurnsKept ==
  \A r \in Requests : at[r] = "done" =>
    r \in file[session[r]] \cup expired \/ session[r] \in orphaned

\* Every request ends, whoever fails or goes away before it.
AskEnds == \A r \in Requests : at[r] # "new" ~> at[r] \in Ended
=============================================================================
