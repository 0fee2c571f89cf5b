------------------------------ MODULE Flywheel ------------------------------
(***************************************************************************)
(* The flywheel: FlywheelScheduler collects what the sources have gained   *)
(* since its cursors (scheduler.py, collector.py), scores it (scorer.py)   *)
(* and puts it into the sample library (store.py) and, when it is good,    *)
(* into the vector store (vector_store.py) from which later questions take *)
(* their examples.  The tables of the sources are filled by others.        *)
(***************************************************************************)
EXTENDS Integers, FiniteSets

CONSTANTS
  Sources,     \* those of "feedback", "auto_task", "manual" that are in use
  Rows,        \* ids per source
  Awaited,     \* whether update_once awaits its body: FALSE in the code (README)
  FlushEvery,  \* _AUTO_FLUSH_INTERVAL
  MaxFlyFaults    \* bound on crashes, failed queries and refused writes

ASSUME FlywheelAssumption ==
  /\ Sources \subseteq {"feedback", "auto_task", "manual"} /\ Rows \in Nat
  /\ Awaited \in BOOLEAN /\ FlushEvery \in Nat \ {0} /\ MaxFlyFaults \in Nat

Callers == {"loop", "trigger"}
Keys    == Sources \X (1..Rows)      \* ext_key
SourceRank(s) == CASE s = "feedback" -> 0 [] s = "auto_task" -> 1 [] s = "manual" -> 2
Before(k, l) == SourceRank(k[1]) < SourceRank(l[1]) \/ (k[1] = l[1] /\ k[2] <= l[2])

VARIABLES
  rows,      \* rows the sources show: keys
  disliked,  \* feedback rows with rating "down"
  cursors,   \* _cursors
  batch,     \* per caller: collected samples that are still to be added
  added,     \* per caller: samples of its batch that were added
  copies,    \* sample_library: rows per key, 2 stands for more
  backend,   \* the vector store: "milvus", or "memory" after a failed connection
  vectors,   \* keys it finds
  durable,   \* those on disk
  dirty,     \* _dirty_count modulo the interval
  flyFaults,
  blind,     \* history: keys collected when the library could not be read
  late       \* history: rows that showed up after a later one was collected

flyVars == <<rows, disliked, cursors, batch, added, copies, backend, vectors, durable, dirty,
             flyFaults, blind, late>>

FlyInit ==
  /\ rows = {} /\ disliked = {}
  /\ cursors = [s \in Sources |-> 0]
  /\ batch = [c \in Callers |-> {}] /\ added = [c \in Callers |-> {}]
  /\ copies = [k \in Keys |-> 0]
  /\ backend \in {"milvus", "memory"}
  /\ vectors = {} /\ durable = {} /\ dirty = 0
  /\ flyFaults = 0 /\ blind = {} /\ late = {}

FlyFault == flyFaults < MaxFlyFaults /\ flyFaults' = flyFaults + 1

\* Ids of a source that were collected in this process.
Taken(s) == {cursors[s]} \cup {k[2] : k \in {l \in UNION {batch[c] \cup added[c] : c \in Callers} : l[1] = s}}

\* Annotations and feedback get their ids as they are made; a task shows up when it
\* completes, whatever its id.
Appears(k) ==
  /\ k \notin rows
  /\ k[1] # "auto_task" => \A i \in 1..(k[2] - 1) : <<k[1], i>> \in rows
  /\ rows' = rows \cup {k}
  /\ disliked' \in {disliked} \cup (IF k[1] = "feedback" THEN {disliked \cup {k}} ELSE {})
  /\ late' = IF \E i \in Taken(k[1]) : k[2] <= i THEN late \cup {k} ELSE late
  /\ UNCHANGED <<cursors, batch, added, copies, backend, vectors, durable, dirty, flyFaults, blind>>

-----------------------------------------------------------------------------
(* score_sample, in hundredths with the shipped weights.  A reply's shape, a  *)
(* question that is an alert or too short and the like are its features.      *)

Features == {"alert", "no_narrative", "template", "vague", "efficient", "inefficient", "short", "refusal"}

Weight(f) ==
  CASE f = "alert" -> -40 [] f = "no_narrative" -> -20 [] f = "template" -> -15
    [] f = "vague" -> -25 [] f = "efficient" -> 10 [] f = "inefficient" -> -10
    [] f = "short" -> -30 [] f = "refusal" -> -20

\* What a sample of this source can have: the tool rounds and the alert text are a task's.
Possible(s, F) ==
  /\ ~({"efficient", "inefficient"} \subseteq F) /\ ~({"no_narrative", "template"} \subseteq F)
  /\ s # "auto_task" => F \cap {"alert", "efficient", "inefficient"} = {}

Adds(f, F) == IF f \in F THEN Weight(f) ELSE 0
SumOf(F) ==
  Adds("alert", F) + Adds("no_narrative", F) + Adds("template", F) + Adds("vague", F)
    + Adds("efficient", F) + Adds("inefficient", F) + Adds("short", F) + Adds("refusal", F)

\* Mutant: no rating weighs more than the rest of the answer.
RatingMild(rating) == CASE rating = "up" -> 30 [] rating = "down" -> 0 [] rating = "none" -> 0

RatingWeight(rating) == CASE rating = "up" -> 30 [] rating = "down" -> -40 [] rating = "none" -> 0
SourceWeight(s)      == IF s = "manual" THEN 20 ELSE 0

Positive(s, rating, F) == 50 + SumOf(F) + RatingWeight(rating) + SourceWeight(s) >= 50

\* The verdicts a sample may get: only feedback is rated "up" or "down".
Scored == [s \in Sources |-> [rating \in {"up", "down", "none"} |->
             {Positive(s, rating, F) : F \in {G \in SUBSET Features : Possible(s, G)}}]]

Verdicts(k) == Scored[k[1]][IF k[1] # "feedback" THEN "none" ELSE IF k \in disliked THEN "down" ELSE "up"]

-----------------------------------------------------------------------------
(* update_once: under the lock, by the timer and by POST /flywheel/trigger.  *)

LockFree == \A c \in Callers : batch[c] = {} /\ added[c] = {}

\* What collect_all gives when the library shows these keys and some sources fail.
Found(existing, failing) ==
  {k \in rows : k[1] \notin failing /\ k[2] > cursors[k[1]]} \ existing

InLibrary == {k \in Keys : copies[k] > 0}

Collected(c) ==
  \/ /\ batch' = [batch EXCEPT ![c] = Found(InLibrary, {})]
     /\ UNCHANGED <<flyFaults, blind>>
  \/ \E failing \in SUBSET Sources \ {{}} :
       /\ FlyFault
       /\ batch' = [batch EXCEPT ![c] = Found(InLibrary, failing)]
       /\ UNCHANGED blind
  \/ /\ FlyFault                                    \* "collector_dedup_fallback"
     /\ batch' = [batch EXCEPT ![c] = Found({}, {})]
     /\ blind' = blind \cup Found({}, {})

\* Mutant: the trigger does not take the lock.
CollectUnlocked(c) ==
  /\ batch[c] = {} /\ added[c] = {}
  /\ Collected(c)
  /\ UNCHANGED <<rows, disliked, cursors, added, copies, backend, vectors, durable, dirty, late>>

Collect(c) ==
  /\ Awaited
  /\ LockFree
  /\ Collected(c)
  /\ UNCHANGED <<rows, disliked, cursors, added, copies, backend, vectors, durable, dirty, late>>

\* Milvus is flushed at every FlushEvery-th insert.
Insert(k) ==
  /\ vectors' = vectors \cup {k}
  /\ dirty' = (dirty + 1) % FlushEvery
  /\ durable' = IF dirty' = 0 /\ backend = "milvus" THEN vectors' ELSE durable

\* add_sample: the row, then for a good one the vector, whose failure is only logged.
Add(c) ==
  \E k \in batch[c] :
    /\ \A l \in batch[c] : Before(k, l)
    /\ batch' = [batch EXCEPT ![c] = @ \ {k}]
    /\ added' = [added EXCEPT ![c] = @ \cup {k}]
    /\ copies' = [copies EXCEPT ![k] = IF @ = 2 THEN 2 ELSE @ + 1]
    /\ \/ TRUE \in Verdicts(k) /\ Insert(k) /\ UNCHANGED flyFaults
       \/ TRUE \in Verdicts(k) /\ FlyFault /\ UNCHANGED <<vectors, durable, dirty>>
       \/ FALSE \in Verdicts(k) /\ UNCHANGED <<vectors, durable, dirty, flyFaults>>
    /\ UNCHANGED <<rows, disliked, cursors, backend, blind, late>>

\* A refused write ends the batch; the cursors stay.
AddFails(c) ==
  /\ batch[c] # {}
  /\ FlyFault
  /\ batch' = [batch EXCEPT ![c] = {}] /\ added' = [added EXCEPT ![c] = {}]
  /\ UNCHANGED <<rows, disliked, cursors, copies, backend, vectors, durable, dirty, blind, late>>

\* Mutant: one cursor for all sources.
EndBatchShared(c) ==
  /\ batch[c] = {} /\ added[c] # {}
  /\ LET top == CHOOSE i \in {k[2] : k \in added[c]} : \A k \in added[c] : k[2] <= i
     IN cursors' = [s \in Sources |-> IF cursors[s] < top THEN top ELSE cursors[s]]
  /\ added' = [added EXCEPT ![c] = {}]
  /\ UNCHANGED <<rows, disliked, batch, copies, backend, vectors, durable, dirty, flyFaults, blind, late>>

\* Each source's cursor goes to its highest id of the batch.
EndBatch(c) ==
  /\ batch[c] = {} /\ added[c] # {}
  /\ cursors' = [s \in Sources |->
       CHOOSE i \in {cursors[s]} \cup {k[2] : k \in {l \in added[c] : l[1] = s}} :
         /\ i >= cursors[s]
         /\ \A k \in added[c] : k[1] = s => k[2] <= i]
  /\ added' = [added EXCEPT ![c] = {}]
  /\ UNCHANGED <<rows, disliked, batch, copies, backend, vectors, durable, dirty, flyFaults, blind, late>>

\* The next process: cursors at 0, the vectors that are on disk, if Milvus starts.
Restarted(saved) ==
  /\ cursors' = [s \in Sources |-> 0]
  /\ batch' = [c \in Callers |-> {}] /\ added' = [c \in Callers |-> {}]
  /\ late' = {} /\ dirty' = 0
  /\ backend' \in {"milvus", "memory"}
  /\ vectors' = IF backend' = "milvus" THEN saved ELSE {}
  /\ durable' = saved
  /\ UNCHANGED <<rows, disliked, copies, blind>>

FlyCrash == FlyFault /\ Restarted(durable)

\* lifespan closes the store, which flushes it.
Shutdown ==
  /\ LockFree /\ FlyFault
  /\ Restarted(IF backend = "milvus" THEN vectors ELSE durable)

FlyStep(c) == Collect(c) \/ Add(c) \/ EndBatch(c)

FlyNext ==
  \/ \E k \in Keys : Appears(k)
  \/ \E c \in Callers : FlyStep(c) \/ AddFails(c)
  \/ FlyCrash \/ Shutdown

FlySpec == FlyInit /\ [][FlyNext]_flyVars

\* The timer runs update_once again and again, and a batch ends.
FlyFairSpec == FlySpec /\ WF_flyVars(\E c \in Callers : FlyStep(c))

-----------------------------------------------------------------------------
\* Timer and trigger, restarts with all cursors at 0 and batches that broke off never
\* put a sample into the library twice, unless the library could not be asked what it
\* has: that the collector takes for empty.
SampledOnce == \A k \in Keys \ blind : copies[k] <= 1

\* What a cursor has passed is in the library: no row is skipped for a failed source, a
\* refused write or another source's ids.  The exception is named: a task that completed
\* after a later one was collected is skipped until the next restart, though update_once
\* says it handles "non-monotonic external IDs safely".
NothingSkipped == \A k \in rows \ late : k[2] <= cursors[k[1]] => copies[k] > 0

\* An answer the user disliked is never an example for later ones.
DislikedNotTaught == vectors \cap disliked = {}

\* Feedback reaches the library in the end, whatever fails on the way.
FeedbackUsed == \A k \in Keys : (k[1] = "feedback" /\ k \in rows) ~> copies[k] > 0
=============================================================================
