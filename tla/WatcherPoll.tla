----------------------------- MODULE WatcherPoll -----------------------------
(***************************************************************************)
(* What a poll of the watcher finds and which tasks it makes of it:        *)
(* WatcherEngine.poll_once, watcher/events.py and watcher/dormant_state.py *)
(* with the pipeline and its snapshots as the data source.                    *)
(*                                                                         *)
(* Everything in poll_once up to the first await (recompute, compare the   *)
(* last two snapshots, detect, suppress, merge, first create_task) is one  *)
(* step of the event loop; the events left over are dispatched one by one, *)
(* each after the task before it ended.  How a task runs is the subject of *)
(* WatcherTasks: here it ends well or badly.                               *)
(***************************************************************************)
EXTENDS Integers, Sequences, FiniteSets

CONSTANTS
  Pollers,       \* concurrent poll_once calls: the loop, debug requests
  OtherCallers,  \* whether chat agents or /stats recompute the pipeline too
  MaxChanges,    \* bound: changes of the order data
  HighTypes,     \* HIGH event types found by comparing snapshots
  NormalTypes,   \* NORMAL event types
  Merged,        \* merged_low_priority
  Dormant,       \* high_value_dormant
  Idle,          \* no task
  Users,         \* users of the most valuable segment
  MinUsers,      \* HIGH_VALUE_DORMANT_MIN_USERS
  Detects,       \* Detects[v][w]: event types detect_events finds between data v and w
  DormantIn,     \* DormantIn[v]: users past HIGH_VALUE_DORMANT_DAYS in data v
  MaxRecent,     \* bound: tasks of one type inside their cooldown
  MaxCrashes     \* bound: restarts of the process

DataVersions == 0..MaxChanges
Expired     == -1
Types    == HighTypes \cup NormalTypes \cup {Merged, Dormant}
Limited  == NormalTypes \cup {Merged, Dormant}   \* types a cooldown is asked about

ASSUME PollAssumption ==
  /\ Pollers # {} /\ OtherCallers \in BOOLEAN
  /\ MaxChanges \in Nat /\ MinUsers \in Nat \ {0}
  /\ MaxRecent \in Nat \ {0} /\ MaxCrashes \in Nat
  /\ HighTypes \cap NormalTypes = {} /\ Merged # Dormant
  /\ {Merged, Dormant, Idle} \cap (HighTypes \cup NormalTypes) = {}
  /\ Idle \notin {Merged, Dormant}
  /\ IsFiniteSet(Users) /\ IsFiniteSet(NormalTypes) /\ IsFiniteSet(Pollers)
  /\ Detects \in [DataVersions -> [DataVersions -> SUBSET (HighTypes \cup NormalTypes)]]
  /\ \A v \in DataVersions : Detects[v][v] = {}
  /\ DormantIn \in [DataVersions -> SUBSET Users]

VARIABLES
  dataNow,   \* version of the order data
  snaps,     \* data versions of the two latest snapshots on disk
  cachedAt,  \* version in the in-memory pipeline cache, Expired if expired
  lastSeenFp, \* _last_fingerprint of the engine
  todo,      \* events a poll still has to dispatch
  newDormant, \* new_dormant_ids of the dormant event a poll found
  cur,       \* type of the task a poll awaits
  recent,    \* tasks polls made, per type, in cooldown and not failed or timed out
  reported,  \* dormant_reported.json
  alerts,    \* history: how many dormant tasks named a user
  seen,      \* history: the version the last poll saw
  alone,     \* history: nobody else has recomputed since that poll
  crashes

pollVars == <<dataNow, snaps, cachedAt, lastSeenFp, todo, newDormant, cur, recent, reported, alerts,
          seen, alone, crashes>>

TwoLatest(s) == IF Len(s) > 2 THEN Tail(s) ELSE s

\* HIGH events come first (merge_low_priority), the dormant one behind the others.
Rank(e) == IF e \in HighTypes THEN 1 ELSE IF e = Dormant THEN 2 ELSE 3
First(events) == {e \in events : \A f \in events : Rank(e) <= Rank(f)}

\* Mutant: the cooldown is not asked.
NormalsUnsuppressed(found) ==
  LET survivors == found \cap NormalTypes
  IN IF Cardinality(survivors) > 1 THEN {Merged} ELSE survivors

\* should_suppress and merge_low_priority: NORMAL events in their cooldown are
\* dropped, two or more that remain become one event of another type.
Normals(found) ==
  LET survivors == {t \in found \cap NormalTypes : recent[t] = 0}
  IN IF Cardinality(survivors) > 1 THEN {Merged} ELSE survivors

DormantEventStrict(new) ==
  IF Cardinality(new) > MinUsers /\ recent[Dormant] = 0 THEN {Dormant} ELSE {}

\* detect_high_value_dormant and its own cooldown.
DormantEvent(new) ==
  IF Cardinality(new) >= MinUsers /\ recent[Dormant] = 0 THEN {Dormant} ELSE {}

\* Mutant: users are not marked when their task is made.
DispatchUnmarked(p, e, count) ==
  /\ cur' = [cur EXCEPT ![p] = e]
  /\ IF e \in Limited
     THEN count[e] < MaxRecent /\ recent' = [count EXCEPT ![e] = @ + 1]
     ELSE recent' = count
  /\ alerts' = [u \in Users |-> IF e = Dormant /\ u \in newDormant'[p] /\ alerts[u] < 2
                                THEN alerts[u] + 1 ELSE alerts[u]]
  /\ UNCHANGED reported

\* _dispatch up to its await: the row is made, dormant users are marked.
Dispatch(p, e, count) ==
  /\ cur' = [cur EXCEPT ![p] = e]
  /\ IF e \in Limited
     THEN count[e] < MaxRecent /\ recent' = [count EXCEPT ![e] = @ + 1]
     ELSE recent' = count
  /\ IF e = Dormant
     THEN /\ reported' = reported \cup newDormant'[p]
          /\ alerts' = [u \in Users |-> IF u \in newDormant'[p] /\ alerts[u] < 2
                                        THEN alerts[u] + 1 ELSE alerts[u]]
     ELSE UNCHANGED <<reported, alerts>>

\* The rest of the poll: dispatch the first event, keep the others.
DispatchFirst(p, events, count) ==
  IF events = {}
  THEN /\ cur' = [cur EXCEPT ![p] = Idle]
       /\ todo' = [todo EXCEPT ![p] = {}]
       /\ recent' = count
       /\ UNCHANGED <<reported, alerts>>
  ELSE \E e \in First(events) :
         /\ todo' = [todo EXCEPT ![p] = events \ {e}]
         /\ Dispatch(p, e, count)

\* compute_snapshot_diff and detect_events on the two latest snapshots.
Noticed(pair) == Detects[pair[1]][pair[2]]

\* Users past the threshold that load_reported does not list.
NewDormant(v) == DormantIn[v] \ reported

RecomputesOnExpiry == cachedAt = Expired   \* mutant: the fingerprint is ignored

\* _load_and_process computes when forced or when the cache has expired, and
\* then saves a snapshot.
Recomputes == dataNow # lastSeenFp \/ cachedAt = Expired

PollStart(p) ==
  LET rfm   == IF Recomputes THEN dataNow ELSE cachedAt
      now   == IF Recomputes THEN TwoLatest(Append(snaps, dataNow)) ELSE snaps
      new   == NewDormant(rfm)
      found == Noticed(now)
  IN
  /\ cur[p] = Idle
  /\ cachedAt' = rfm
  /\ snaps' = now
  /\ lastSeenFp' = dataNow
  /\ seen' = dataNow
  /\ alone' = TRUE
  /\ IF Len(now) < 2
     THEN UNCHANGED <<todo, newDormant, cur, recent, reported, alerts>>
     ELSE /\ newDormant' = [newDormant EXCEPT ![p] = new]
          /\ DispatchFirst(p, (found \cap HighTypes) \cup DormantEvent(new) \cup Normals(found),
                           recent)
  /\ UNCHANGED <<dataNow, crashes>>

\* The awaited task ends; failed and timed-out rows do not count for the
\* cooldown.  In the same step the poll dispatches its next event or returns.
TaskEnds(p) ==
  /\ cur[p] # Idle
  /\ UNCHANGED <<dataNow, snaps, cachedAt, lastSeenFp, newDormant, seen, alone, crashes>>
  /\ \E completed \in BOOLEAN :
       DispatchFirst(p, todo[p],
         IF completed \/ cur[p] \notin Limited THEN recent
         ELSE [recent EXCEPT ![cur[p]] = @ - 1])

-----------------------------------------------------------------------------
(* The surroundings.                                                        *)

\* Orders are placed, days are revealed: the fingerprint changes.
OrdersMove ==
  /\ dataNow < MaxChanges
  /\ dataNow' = dataNow + 1
  /\ UNCHANGED <<snaps, cachedAt, lastSeenFp, todo, newDormant, cur, recent, reported, alerts,
                 seen, alone, crashes>>

\* PIPELINE_CACHE_TTL elapses or invalidate_pipeline_cache is called.
CacheExpires ==
  /\ cachedAt # Expired
  /\ cachedAt' = Expired
  /\ UNCHANGED <<dataNow, snaps, lastSeenFp, todo, newDormant, cur, recent, reported, alerts,
                 seen, alone, crashes>>

\* A chat agent's tool or a statistics request computes and saves a snapshot.
OtherRecompute ==
  /\ OtherCallers /\ cachedAt = Expired
  /\ cachedAt' = dataNow
  /\ snaps' = TwoLatest(Append(snaps, dataNow))
  /\ alone' = FALSE
  /\ UNCHANGED <<dataNow, lastSeenFp, todo, newDormant, cur, recent, reported, alerts, seen, crashes>>

\* A row leaves its cooldown window; the windows are longer than a run.
CooldownEnds(t) ==
  /\ recent[t] > Cardinality({p \in Pollers : cur[p] = t})
  /\ recent' = [recent EXCEPT ![t] = @ - 1]
  /\ UNCHANGED <<dataNow, snaps, cachedAt, lastSeenFp, todo, newDormant, cur, reported, alerts, seen, alone, crashes>>

\* The process dies and starts again: rows (a running one keeps its status),
\* snapshots and the reported users are on disk.
Restart ==
  /\ crashes < MaxCrashes
  /\ crashes' = crashes + 1
  /\ cachedAt' = Expired /\ lastSeenFp' = Expired
  /\ todo' = [p \in Pollers |-> {}]
  /\ newDormant' = [p \in Pollers |-> {}]
  /\ cur' = [p \in Pollers |-> Idle]
  /\ UNCHANGED <<dataNow, snaps, recent, reported, alerts, seen, alone>>

PollInit ==
  /\ dataNow = 0
  /\ snaps = <<>>
  /\ cachedAt = Expired
  /\ lastSeenFp = Expired
  /\ todo = [p \in Pollers |-> {}]
  /\ newDormant = [p \in Pollers |-> {}]
  /\ cur = [p \in Pollers |-> Idle]
  /\ recent = [t \in Limited |-> 0]
  /\ reported = {}
  /\ alerts = [u \in Users |-> 0]
  /\ seen = Expired
  /\ alone = FALSE
  /\ crashes = 0

PollNext ==
  \/ \E p \in Pollers : PollStart(p) \/ TaskEnds(p)
  \/ \E t \in Limited : CooldownEnds(t)
  \/ OrdersMove \/ CacheExpires \/ OtherRecompute \/ Restart

PollSpec == PollInit /\ [][PollNext]_pollVars

\* The loop polls for ever, tasks end (by their timeout at the latest, see
\* WatcherTasks), time passes.  Nobody has to order, ask or crash.
PollFairSpec ==
  /\ PollSpec
  /\ \A p \in Pollers : WF_pollVars(PollStart(p)) /\ WF_pollVars(TaskEnds(p))
  /\ \A t \in Limited : WF_pollVars(CooldownEnds(t))
  /\ WF_pollVars(CacheExpires)

-----------------------------------------------------------------------------
(* Properties.                                                              *)

PollTypeOK ==
  /\ dataNow \in DataVersions
  /\ snaps \in Seq(DataVersions) /\ Len(snaps) <= 2
  /\ cachedAt \in DataVersions \cup {Expired} /\ lastSeenFp \in DataVersions \cup {Expired}
  /\ seen \in DataVersions \cup {Expired} /\ alone \in BOOLEAN
  /\ todo \in [Pollers -> SUBSET Types]
  /\ newDormant \in [Pollers -> SUBSET Users]
  /\ cur \in [Pollers -> Types \cup {Idle}]
  /\ recent \in [Limited -> 0..MaxRecent]
  /\ reported \subseteq Users
  /\ alerts \in [Users -> 0..2]
  /\ crashes \in 0..MaxCrashes

\* A NORMAL event that is dispatched by itself gets one task per cooldown, and so
\* does the dormant alert, although a HIGH event; even if the task was interrupted by
\* a restart or the poll was long under way with HIGH events when it came to it.
\* (With one poller.)
OncePerCooldown == \A t \in NormalTypes \cup {Dormant} : recent[t] <= 1

\* No user is named by two dormant alerts, across polls and restarts.
DormantUserOnce == \A u \in Users : alerts[u] <= 1

\* A poll that finds new data compares it with the data the poll before it saw,
\* across restarts and expiries of the cache, unless another caller recomputed
\* between the two polls.
EvolutionCompared ==
  [][seen' # seen /\ seen # Expired /\ alone => snaps' = <<seen, seen'>>]_pollVars

\* Not true: whoever else recomputes, the watcher compares every change.
NoEvolutionMissed ==
  [][seen' # seen /\ seen # Expired => snaps'[1] # snaps'[2]]_pollVars

\* Once the data stays as it is, all but a batch below the threshold get reported.
DormantUsersReported == <>[](Cardinality(DormantIn[dataNow] \ reported) < MinUsers)
=============================================================================
