----------------------------- MODULE LibraryProofs -----------------------------
(***************************************************************************)
(* What the service keeps from one question to the next, for every number  *)
(* of sessions, turns, rows and faults: the state of a session             *)
(* (SessionStore), and the library of samples (Flywheel).                  *)
(***************************************************************************)
EXTENDS SessionStore, Flywheel, WellFoundedInduction, TLAPS

Checkpoints == Nat \cup {NoTurn}

SessTypes ==
  /\ store \in Stores
  /\ opened \in {NoStore, store}
  /\ saved \in [Stores -> [Threads ->
       [turn : Checkpoints, pending : BOOLEAN, aged : BOOLEAN, there : BOOLEAN]]]
  /\ step \in [Threads -> {"idle", "loaded", "written"}]
  /\ turns \in [Threads -> Nat]
  /\ doomed \in [Threads -> Threads \cup {NoTarget}]
  /\ answered \in [Threads -> Nat]

\* A run and a sweep end with their process.
RunsOpened == \A s \in Threads : step[s] # "idle" \/ doomed[s] # NoTarget => opened = store

\* The file of a session in the configured store, and the run that is writing it: the
\* file of a run that has put is young, so no sweep has judged it since.
FileKept(s) ==
  /\ saved[store][s].turn # NoTurn
  /\ s \notin lapsed => saved[store][s].turn >= answered[s]
  /\ s \notin lapsed /\ step[s] = "loaded" => turns[s] >= answered[s]
  /\ step[s] = "written" =>
       /\ saved[store][s].there /\ ~saved[store][s].aged
       /\ saved[store][s].turn = turns[s] + 1
       /\ ~Judged(s)

FilesKept == \A s \in Threads \ raced : FileKept(s)

SessIInv == SessTypes /\ RunsOpened /\ FilesKept

-----------------------------------------------------------------------------
LEMMA SessInitial == SessInit => SessIInv
  BY SessionAssumption DEF SessInit, SessIInv, SessTypes, RunsOpened, FilesKept, FileKept,
     Checkpoints, NoSession, NoTurn, NoTarget, NoStore

LEMMA SessTypesStep == SessTypes /\ RunsOpened /\ [SessNext]_sessVars => SessTypes'
<1> SUFFICES ASSUME SessTypes, RunsOpened, [SessNext]_sessVars PROVE SessTypes'
  OBVIOUS
<1> USE DEF SessTypes, Checkpoints, Stored, Written, NoTurn
<1>1. CASE UNCHANGED sessVars
  BY <1>1 DEF sessVars
<1>2. ASSUME NEW s \in Threads, GetTuple(s) PROVE SessTypes'
  <2>1. opened = store
    BY <1>2 DEF GetTuple
  <2>2. saved[store][s].turn \in Nat
    BY <1>2, <2>1 DEF GetTuple
  <2> QED
    BY <1>2, <2>1, <2>2 DEF GetTuple
<1>3. ASSUME NEW s \in Threads, ReadFails(s) PROVE SessTypes'
  BY <1>3 DEF ReadFails
<1>4. ASSUME NEW s \in Threads, PutCheckpoint(s) PROVE SessTypes'
  <2>1. opened = store
    BY <1>4 DEF PutCheckpoint, RunsOpened
  <2> QED
    BY <1>4, <2>1 DEF PutCheckpoint
<1>5. ASSUME NEW s \in Threads, PutWrites(s) PROVE SessTypes'
  <2>1. opened = store
    BY <1>5 DEF PutWrites, RunsOpened
  <2>2. (IF saved[store][s].there THEN saved[store][s].turn ELSE NoTurn) \in Checkpoints
    OBVIOUS
  <2> QED
    BY <1>5, <2>1, <2>2 DEF PutWrites
<1>6. ASSUME NEW s \in Threads, NEW f \in Threads, Judge(s, f) PROVE SessTypes'
  BY <1>6 DEF Judge
<1>7. ASSUME NEW s \in Threads, RemoveAged(s) PROVE SessTypes'
  <2>1. opened = store
    BY <1>7 DEF RemoveAged, RunsOpened
  <2>2. doomed[s] \in Threads
    BY <1>7 DEF RemoveAged
  <2> QED
    BY <1>7, <2>1, <2>2 DEF RemoveAged, NoSession
<1>8. ASSUME NEW s \in Threads, TurnEnds(s) PROVE SessTypes'
  BY <1>8 DEF TurnEnds
<1>9. ASSUME NEW s \in Threads, TurnFails(s) PROVE SessTypes'
  BY <1>9 DEF TurnFails
<1>10. ASSUME NEW s \in Threads, Expires(s) PROVE SessTypes'
  <2> DEFINE Files == [turn : Checkpoints, pending : BOOLEAN, aged : BOOLEAN, there : BOOLEAN]
             old   == [saved["json"][s] EXCEPT !.aged = TRUE]
  <2>1. saved \in [Stores -> [Threads -> Files]] /\ "json" \in Stores
    BY DEF Stores
  <2>2. saved["json"][s] \in Files
    BY <2>1
  <2>3. old \in Files
    BY <2>2
  <2>4. saved' = [saved EXCEPT !["json"] = [saved["json"] EXCEPT ![s] = old]]
    BY <1>10 DEF Expires
  <2> HIDE DEF old, Files
  <2>5. saved' \in [Stores -> [Threads -> Files]]
    BY <2>1, <2>3, <2>4
  <2> QED
    BY <1>10, <2>5 DEF Expires, Files
<1>11. CASE Open
  BY <1>11 DEF Open
<1>12. CASE SessCrash
  BY <1>12 DEF SessCrash
<1> QED
  BY <1>1, <1>2, <1>3, <1>4, <1>5, <1>6, <1>7, <1>8, <1>9, <1>10, <1>11, <1>12 DEF SessNext

LEMMA RunsOpenedStep == SessTypes /\ RunsOpened /\ [SessNext]_sessVars => RunsOpened'
<1> SUFFICES ASSUME SessTypes, RunsOpened, [SessNext]_sessVars PROVE RunsOpened'
  OBVIOUS
<1> USE DEF RunsOpened
<1>1. CASE UNCHANGED sessVars
  BY <1>1 DEF sessVars
<1>2. ASSUME NEW s \in Threads,
             PutCheckpoint(s) \/ PutWrites(s) \/ RemoveAged(s) \/ TurnEnds(s) \/ TurnFails(s)
               \/ Expires(s)
      PROVE  RunsOpened'
  BY <1>2 DEF PutCheckpoint, PutWrites, RemoveAged, TurnEnds, TurnFails, Expires, SessTypes
<1>3. ASSUME NEW s \in Threads, GetTuple(s) \/ ReadFails(s) \/ \E f \in Threads : Judge(s, f)
      PROVE  RunsOpened'
  BY <1>3 DEF GetTuple, ReadFails, Judge, SessTypes, NoStore
<1>4. CASE Open
  BY <1>4 DEF Open
<1>5. CASE SessCrash
  BY <1>5 DEF SessCrash
<1> QED
  BY <1>1, <1>2, <1>3, <1>4, <1>5 DEF SessNext

\* No step of a session, of another session's sweep or of the process loses a file.
LEMMA FilesKeptStep ==
  SessTypes /\ RunsOpened /\ FilesKept /\ [SessNext]_sessVars => FilesKept'
<1> SUFFICES ASSUME SessTypes, RunsOpened, FilesKept, [SessNext]_sessVars,
                    NEW t \in Threads, t \notin raced'
             PROVE  FileKept(t)'
  BY DEF FilesKept
<1>0. t \notin raced => FileKept(t)
  BY DEF FilesKept
<1> USE DEF SessTypes, Checkpoints, Stored, Written, FileKept, Judged, NoTurn
<1>1. CASE UNCHANGED sessVars
  BY <1>0, <1>1 DEF sessVars
<1>2. ASSUME NEW s \in Threads, GetTuple(s) PROVE FileKept(t)'
  <2>1. opened = store
    BY <1>2 DEF GetTuple
  <2> QED
    BY <1>0, <1>2, <2>1 DEF GetTuple
<1>3. ASSUME NEW s \in Threads, ReadFails(s) PROVE FileKept(t)'
  BY <1>0, <1>3 DEF ReadFails
<1>4. ASSUME NEW s \in Threads, PutCheckpoint(s) PROVE FileKept(t)'
  <2>1. opened = store
    BY <1>4 DEF PutCheckpoint, RunsOpened
  <2>2. t \notin raced
    BY <1>4 DEF PutCheckpoint
  <2>3. CASE s # t
    BY <1>0, <1>4, <2>1, <2>2, <2>3 DEF PutCheckpoint
  <2>4. CASE s = t
    <3>1. ~Judged(t)
      BY <1>4, <2>4 DEF PutCheckpoint
    <3>2. t \notin lapsed => turns[t] + 1 >= answered[t]
      BY <1>0, <1>4, <2>2, <2>4 DEF PutCheckpoint
    <3> QED
      BY <1>4, <2>1, <2>4, <3>1, <3>2 DEF PutCheckpoint
  <2> QED
    BY <2>3, <2>4
<1>5. ASSUME NEW s \in Threads, PutWrites(s) PROVE FileKept(t)'
  <2>1. opened = store
    BY <1>5 DEF PutWrites, RunsOpened
  <2>2. t \notin raced
    BY <1>5 DEF PutWrites
  <2> QED
    BY <1>0, <1>5, <2>1, <2>2 DEF PutWrites
<1>6. ASSUME NEW s \in Threads, NEW f \in Threads, Judge(s, f) PROVE FileKept(t)'
  <2>1. opened = store
    BY <1>6 DEF Judge, NoStore
  <2> QED
    BY <1>0, <1>6, <2>1 DEF Judge
<1>7. ASSUME NEW s \in Threads, RemoveAged(s) PROVE FileKept(t)'
  <2>1. opened = store
    BY <1>7 DEF RemoveAged, RunsOpened
  <2>2. CASE doomed[s] = t
    <3>1. step[t] # "written"
      BY <1>0, <1>7, <2>2 DEF RemoveAged
    <3> QED
      BY <1>0, <1>7, <2>1, <2>2, <3>1 DEF RemoveAged, NoSession
  <2>3. CASE doomed[s] # t
    BY <1>0, <1>7, <2>1, <2>3, SessionAssumption DEF RemoveAged, NoTarget
  <2> QED
    BY <2>2, <2>3
<1>8. ASSUME NEW s \in Threads, TurnEnds(s) PROVE FileKept(t)'
  BY <1>0, <1>8 DEF TurnEnds
<1>9. ASSUME NEW s \in Threads, TurnFails(s) PROVE FileKept(t)'
  BY <1>0, <1>9 DEF TurnFails
<1>10. ASSUME NEW s \in Threads, Expires(s) PROVE FileKept(t)'
  BY <1>0, <1>10 DEF Expires, Stores
<1>11. CASE Open
  BY <1>0, <1>11 DEF Open
<1>12. CASE SessCrash
  BY <1>0, <1>12, SessionAssumption DEF SessCrash, NoTarget
<1> QED
  BY <1>1, <1>2, <1>3, <1>4, <1>5, <1>6, <1>7, <1>8, <1>9, <1>10, <1>11, <1>12 DEF SessNext

\* Files and runs agree at every moment, for any number of sessions.
THEOREM SessionInvariance == SessSpec => []SessIInv
<1>1. SessIInv /\ [SessNext]_sessVars => SessIInv'
  BY SessTypesStep, RunsOpenedStep, FilesKeptStep DEF SessIInv
<1> QED
  BY <1>1, SessInitial, PTL DEF SessSpec

\* A session keeps the turns its client was answered (agent/session_store.py), outside
\* the exceptions SessionKept names.
THEOREM SessionsKept == SessSpec => []SessionKept
<1>1. SessIInv => SessionKept
  BY DEF SessIInv, SessTypes, FilesKept, FileKept, SessionKept, Stored
<1> QED
  BY <1>1, SessionInvariance, PTL
-----------------------------------------------------------------------------
(* The flywheel.                                                             *)

LEMMA LeastNat ==
  ASSUME NEW S, S \subseteq Nat, S # {}
  PROVE  \E x \in S : \A y \in S : x <= y
<1>1. \E x \in S : \A y \in S : ~ (<<y, x>> \in OpToRel(<, Nat))
  BY NatLessThanWellFounded, WFMin
<1>2. \A x, y \in Nat : y < x => <<y, x>> \in OpToRel(<, Nat)
  BY DEF OpToRel
<1>3. \E x \in S : \A y \in S : ~ (y < x)
  BY <1>1, <1>2, Zenon
<1> QED
  BY <1>3

LEMMA GreatestNat ==
  ASSUME NEW b \in Nat, NEW S, S \subseteq 0..b, S # {}
  PROVE  \E x \in S : \A y \in S : x >= y
<1> DEFINE D == {b - x : x \in S}
<1>1. D \subseteq Nat /\ D # {}
  <2>1. \A x \in S : b - x \in Nat
    OBVIOUS
  <2> QED
    BY <2>1
<1>2. PICK d \in D : \A y \in D : d <= y
  BY <1>1, LeastNat
<1>3. PICK m \in S : d = b - m
  BY <1>2
<1>4. ASSUME NEW x \in S PROVE m >= x
  <2>1. b - m <= b - x
    BY <1>2, <1>3
  <2> QED
    BY <2>1
<1> QED
  BY <1>4

\* Nothing but a rating weighs as much as a dislike does.
LEMMA SumBound ==
  ASSUME NEW F PROVE SumOf(F) \in Int /\ SumOf(F) <= 10
<1> DEFINE a == Adds("alert", F)
           b == Adds("no_narrative", F)
           c == Adds("template", F)
           d == Adds("vague", F)
           e == Adds("efficient", F)
           f == Adds("inefficient", F)
           g == Adds("short", F)
           h == Adds("refusal", F)
<1>1. /\ a \in Int /\ a <= 0 /\ b \in Int /\ b <= 0 /\ c \in Int /\ c <= 0
      /\ d \in Int /\ d <= 0 /\ e \in Int /\ e <= 10
  BY DEF Adds, Weight
<1>2. f \in Int /\ f <= 0 /\ g \in Int /\ g <= 0 /\ h \in Int /\ h <= 0
  BY DEF Adds, Weight
<1>3. SumOf(F) = a + b + c + d + e + f + g + h
  BY DEF SumOf
<1> HIDE DEF a, b, c, d, e, f, g, h
<1> QED
  BY <1>1, <1>2, <1>3

LEMMA DislikedFails ==
  ASSUME NEW k \in Keys, k[1] = "feedback", k \in disliked
  PROVE  TRUE \notin Verdicts(k)
<1>1. "feedback" \in Sources
  BY DEF Keys
<1>2. \A F \in SUBSET Features : ~ Positive("feedback", "down", F)
  <2> SUFFICES ASSUME NEW F \in SUBSET Features PROVE ~ Positive("feedback", "down", F)
    OBVIOUS
  <2>1. RatingWeight("down") = -40 /\ SourceWeight("feedback") = 0
    BY DEF RatingWeight, SourceWeight
  <2> QED
    BY <2>1, SumBound DEF Positive
<1>3. Verdicts(k) = Scored["feedback"]["down"]
  BY DEF Verdicts
<1>4. Scored["feedback"]["down"]
        = {Positive("feedback", "down", F) : F \in {G \in SUBSET Features : Possible("feedback", G)}}
  BY <1>1 DEF Scored
<1> QED
  BY <1>2, <1>3, <1>4

-----------------------------------------------------------------------------
FlyTypes ==
  /\ rows \subseteq Keys
  /\ disliked \subseteq rows /\ \A k \in disliked : k[1] = "feedback"
  /\ cursors \in [Sources -> 0..Rows]
  /\ batch \in [Callers -> SUBSET rows] /\ added \in [Callers -> SUBSET rows]
  /\ copies \in [Keys -> 0..2]
  /\ vectors \subseteq rows /\ durable \subseteq rows

\* The lock: one caller at a time has a batch.
OneBatch ==
  \A c, d \in Callers : c # d => batch[c] \cup added[c] = {} \/ batch[d] \cup added[d] = {}

\* What a batch still has to add is not in the library.
BatchNew == \A c \in Callers : \A k \in batch[c] \ blind : copies[k] = 0

\* A batch has every row of a source up to the last it has of it, or the library has.
Reached ==
  \A c \in Callers : \A l \in batch[c] \cup added[c], k \in rows \ late :
    k[1] = l[1] /\ k[2] <= l[2] => copies[k] > 0 \/ k \in batch[c]

NotTaught == vectors \cap disliked = {} /\ durable \cap disliked = {}

FlyIInv ==
  FlyTypes /\ OneBatch /\ BatchNew /\ Reached /\ NotTaught /\ SampledOnce /\ NothingSkipped

LEMMA FlyInitial == FlyInit => FlyIInv
<1> SUFFICES ASSUME FlyInit PROVE FlyIInv
  OBVIOUS
<1> USE FlywheelAssumption DEF FlyInit
<1>1. FlyTypes
  BY DEF FlyTypes
<1>2. OneBatch /\ BatchNew
  BY DEF OneBatch, BatchNew, Callers
<1>3. Reached /\ NotTaught /\ NothingSkipped
  BY DEF Reached, NotTaught, NothingSkipped
<1>4. SampledOnce
  BY DEF SampledOnce
<1> QED
  BY <1>1, <1>2, <1>3, <1>4 DEF FlyIInv

\* What every way to collect has in common.
LEMMA CollectedFacts ==
  ASSUME FlyTypes, NEW c \in Callers, LockFree, Collected(c)
  PROVE  \E new \in SUBSET rows :
           /\ batch' = [batch EXCEPT ![c] = new]
           /\ \A k \in new : k \in blind' \/ copies[k] = 0
           /\ \A l \in new, k \in rows :
                k[1] = l[1] /\ k[2] > cursors[k[1]] => k \in new \/ copies[k] > 0
           /\ blind \subseteq blind'
<1>1. \A k \in rows : k \in InLibrary <=> copies[k] > 0
  BY DEF InLibrary, FlyTypes
<1>2. \A k \in rows : k \notin InLibrary => copies[k] = 0
  BY DEF InLibrary, FlyTypes
<1>3. CASE batch' = [batch EXCEPT ![c] = Found(InLibrary, {})] /\ UNCHANGED blind
  <2>1. Found(InLibrary, {}) \in SUBSET rows
    BY DEF Found
  <2> WITNESS Found(InLibrary, {}) \in SUBSET rows
  <2> QED
    BY <1>1, <1>2, <1>3 DEF Found
<1>4. ASSUME NEW failing \in SUBSET Sources,
             batch' = [batch EXCEPT ![c] = Found(InLibrary, failing)], UNCHANGED blind
      PROVE  \E new \in SUBSET rows :
           /\ batch' = [batch EXCEPT ![c] = new]
           /\ \A k \in new : k \in blind' \/ copies[k] = 0
           /\ \A l \in new, k \in rows :
                k[1] = l[1] /\ k[2] > cursors[k[1]] => k \in new \/ copies[k] > 0
           /\ blind \subseteq blind'
  <2>1. Found(InLibrary, failing) \in SUBSET rows
    BY DEF Found
  <2> WITNESS Found(InLibrary, failing) \in SUBSET rows
  <2> QED
    BY <1>1, <1>2, <1>4 DEF Found
<1>5. CASE /\ batch' = [batch EXCEPT ![c] = Found({}, {})]
           /\ blind' = blind \cup Found({}, {})
  <2>1. Found({}, {}) \in SUBSET rows
    BY DEF Found
  <2> WITNESS Found({}, {}) \in SUBSET rows
  <2> QED
    BY <1>5 DEF Found
<1> QED
  BY <1>3, <1>4, <1>5 DEF Collected

LEMMA CollectKeeps == ASSUME FlyIInv, NEW c \in Callers, Collect(c) PROVE FlyIInv'
<1> USE DEF FlyIInv
<1>1. PICK new \in SUBSET rows :
           /\ batch' = [batch EXCEPT ![c] = new]
           /\ \A k \in new : k \in blind' \/ copies[k] = 0
           /\ \A l \in new, k \in rows :
                k[1] = l[1] /\ k[2] > cursors[k[1]] => k \in new \/ copies[k] > 0
           /\ blind \subseteq blind'
  BY CollectedFacts DEF Collect
<1>2. UNCHANGED <<rows, disliked, cursors, added, copies, vectors, durable, late>>
  BY DEF Collect
<1>3. \A d \in Callers : batch[d] = {} /\ added[d] = {}
  BY DEF Collect, LockFree
<1>4. batch' \in [Callers -> SUBSET rows] /\ batch'[c] = new /\ \A d \in Callers \ {c} : batch'[d] = {}
  BY <1>1, <1>3 DEF FlyTypes
<1>5. FlyTypes'
  BY <1>2, <1>4 DEF FlyTypes
<1>6. OneBatch'
  BY <1>2, <1>3, <1>4 DEF OneBatch
<1>7. BatchNew'
  BY <1>1, <1>2, <1>4 DEF BatchNew
<1>8. Reached'
  <2> SUFFICES ASSUME NEW d \in Callers, NEW l \in batch'[d], NEW k \in rows \ late,
                      k[1] = l[1], k[2] <= l[2]
               PROVE  copies[k] > 0 \/ k \in batch'[d]
    BY <1>2, <1>3 DEF Reached
  <2>1. d = c /\ l \in new
    BY <1>4
  <2>2. CASE k[2] <= cursors[k[1]]
    BY <2>2 DEF NothingSkipped
  <2>3. CASE k[2] > cursors[k[1]]
    BY <1>1, <1>4, <2>1, <2>3
  <2>4. k[2] \in Int /\ cursors[k[1]] \in Int
    BY DEF FlyTypes, Keys
  <2> QED
    BY <2>2, <2>3, <2>4
<1>9. NotTaught' /\ NothingSkipped'
  BY <1>2 DEF NotTaught, NothingSkipped
<1>10. SampledOnce'
  BY <1>1, <1>2 DEF SampledOnce
<1> QED
  BY <1>5, <1>6, <1>7, <1>8, <1>9, <1>10

LEMMA AddKeeps == ASSUME FlyIInv, NEW c \in Callers, Add(c) PROVE FlyIInv'
<1> USE DEF FlyIInv
<1>1. PICK k \in batch[c] :
        /\ batch' = [batch EXCEPT ![c] = @ \ {k}]
        /\ added' = [added EXCEPT ![c] = @ \cup {k}]
        /\ copies' = [copies EXCEPT ![k] = IF @ = 2 THEN 2 ELSE @ + 1]
        /\ \/ TRUE \in Verdicts(k) /\ Insert(k)
           \/ UNCHANGED <<vectors, durable>>
        /\ UNCHANGED <<rows, disliked, cursors, blind, late>>
  BY DEF Add
<1>2. k \in rows /\ k \in Keys
  BY DEF FlyTypes
<1>3. /\ copies' \in [Keys -> 0..2]
      /\ copies'[k] > 0
      /\ copies[k] = 0 => copies'[k] = 1
      /\ \A l \in Keys : l # k => copies'[l] = copies[l]
  BY <1>1, <1>2 DEF FlyTypes
<1>4. /\ batch' \in [Callers -> SUBSET rows] /\ added' \in [Callers -> SUBSET rows]
      /\ batch'[c] = batch[c] \ {k} /\ added'[c] = added[c] \cup {k}
      /\ \A d \in Callers \ {c} : batch'[d] = batch[d] /\ added'[d] = added[d]
  BY <1>1, <1>2 DEF FlyTypes
<1>5. vectors' \subseteq vectors \cup {k} /\ durable' \subseteq durable \cup vectors \cup {k}
  BY <1>1 DEF Insert
<1>6. k \in disliked => UNCHANGED <<vectors, durable>>
  BY <1>1, <1>2, DislikedFails DEF FlyTypes
<1>7. FlyTypes'
  <2>1. vectors' \subseteq rows /\ durable' \subseteq rows
    BY <1>2, <1>5 DEF FlyTypes
  <2> QED
    BY <1>1, <1>3, <1>4, <2>1 DEF FlyTypes
<1>8. OneBatch'
  <2>1. \A d \in Callers : d # c => batch[d] \cup added[d] = {}
    BY DEF OneBatch
  <2>2. \A d \in Callers : d # c => batch'[d] \cup added'[d] = {}
    BY <1>4, <2>1
  <2> QED
    BY <2>2 DEF OneBatch
<1>9. BatchNew'
  <2> SUFFICES ASSUME NEW d \in Callers, NEW l \in batch'[d] \ blind' PROVE copies'[l] = 0
    BY DEF BatchNew
  <2>1. l \in batch[d] \ blind /\ l \in Keys
    BY <1>1, <1>4 DEF FlyTypes
  <2>2. l # k
    BY <1>4, <2>1 DEF OneBatch
  <2> QED
    BY <1>3, <2>1, <2>2 DEF BatchNew
<1>10. Reached'
  <2> SUFFICES ASSUME NEW d \in Callers, NEW l \in batch'[d] \cup added'[d],
                      NEW m \in rows' \ late', m[1] = l[1], m[2] <= l[2]
               PROVE  copies'[m] > 0 \/ m \in batch'[d]
    BY DEF Reached
  <2>1. l \in batch[d] \cup added[d] /\ m \in rows \ late /\ m \in Keys
    BY <1>1, <1>4 DEF FlyTypes
  <2>2. copies[m] > 0 \/ m \in batch[d]
    BY <2>1 DEF Reached
  <2>3. CASE m = k
    BY <1>3, <2>3
  <2>4. CASE m # k
    BY <1>3, <1>4, <2>1, <2>2, <2>4
  <2> QED
    BY <2>3, <2>4
<1>11. NotTaught'
  BY <1>1, <1>5, <1>6 DEF NotTaught
<1>12. SampledOnce'
  <2> SUFFICES ASSUME NEW l \in Keys \ blind' PROVE copies'[l] <= 1
    BY DEF SampledOnce
  <2>1. CASE l = k
    BY <1>1, <1>3, <2>1 DEF BatchNew
  <2>2. CASE l # k
    BY <1>1, <1>3, <2>2 DEF SampledOnce
  <2> QED
    BY <2>1, <2>2
<1>13. NothingSkipped'
  <2> SUFFICES ASSUME NEW m \in rows' \ late', m[2] <= cursors'[m[1]] PROVE copies'[m] > 0
    BY DEF NothingSkipped
  <2>1. m \in Keys /\ copies[m] > 0
    BY <1>1 DEF NothingSkipped, FlyTypes
  <2> QED
    BY <1>3, <2>1
<1> QED
  BY <1>7, <1>8, <1>9, <1>10, <1>11, <1>12, <1>13

\* The highest id of a batch's source exists, and is what the cursor becomes.
LEMMA EndBatchKeeps == ASSUME FlyIInv, NEW c \in Callers, EndBatch(c) PROVE FlyIInv'
<1> USE DEF FlyIInv
<1> DEFINE Ids(s) == {cursors[s]} \cup {k[2] : k \in {l \in added[c] : l[1] = s}}
           Top(s, i) == i >= cursors[s] /\ \A k \in added[c] : k[1] = s => k[2] <= i
<1>1. /\ cursors' = [s \in Sources |-> CHOOSE i \in Ids(s) : Top(s, i)]
      /\ added' = [added EXCEPT ![c] = {}]
      /\ UNCHANGED <<rows, disliked, batch, copies, vectors, durable, blind, late>>
  BY DEF EndBatch
<1>2. batch[c] = {} /\ added[c] \subseteq rows /\ \A k \in added[c] : k[2] \in 1..Rows
  BY DEF EndBatch, FlyTypes, Keys
<1>3. ASSUME NEW s \in Sources PROVE cursors'[s] \in Ids(s) /\ Ids(s) \subseteq 0..Rows
  <2>1. Ids(s) \subseteq 0..Rows /\ Ids(s) # {}
    <3>1. cursors[s] \in 0..Rows
      BY DEF FlyTypes
    <3> QED
      BY <1>2, <3>1
  <2>2. PICK i \in Ids(s) : \A j \in Ids(s) : i >= j
    <3> HIDE DEF Ids
    <3> QED
      BY <2>1, GreatestNat, FlywheelAssumption
  <2>3. Top(s, i)
    BY <2>2
  <2> HIDE DEF Ids, Top
  <2>4. (CHOOSE j \in Ids(s) : Top(s, j)) \in Ids(s)
    BY <2>2, <2>3
  <2> QED
    BY <1>1, <2>1, <2>4
<1>4. cursors' \in [Sources -> 0..Rows]
  <2> HIDE DEF Ids, Top
  <2>1. \A s \in Sources : cursors'[s] \in 0..Rows
    BY <1>3
  <2> QED
    BY <1>1, <2>1
<1>5. /\ added' \in [Callers -> SUBSET rows] /\ added'[c] = {}
      /\ \A d \in Callers \ {c} : added'[d] = added[d]
  BY <1>1 DEF FlyTypes
<1>6. FlyTypes'
  BY <1>1, <1>4, <1>5 DEF FlyTypes
<1>7. OneBatch' /\ BatchNew'
  BY <1>1, <1>2, <1>5 DEF OneBatch, BatchNew
<1>8. Reached'
  BY <1>1, <1>2, <1>5 DEF Reached
<1>9. NotTaught' /\ SampledOnce'
  BY <1>1 DEF NotTaught, SampledOnce
<1>10. NothingSkipped'
  <2> SUFFICES ASSUME NEW m \in rows \ late, m[2] <= cursors'[m[1]] PROVE copies[m] > 0
    BY <1>1 DEF NothingSkipped
  <2>1. m[1] \in Sources
    BY DEF FlyTypes, Keys
  <2>2. CASE cursors'[m[1]] = cursors[m[1]]
    BY <2>2 DEF NothingSkipped
  <2>3. CASE cursors'[m[1]] # cursors[m[1]]
    <3>1. PICK l \in added[c] : l[1] = m[1] /\ l[2] = cursors'[m[1]]
      BY <1>3, <2>1, <2>3
    <3> QED
      BY <1>2, <3>1 DEF Reached
  <2> QED
    BY <2>2, <2>3
<1> QED
  BY <1>6, <1>7, <1>8, <1>9, <1>10

LEMMA AppearsKeeps == ASSUME FlyIInv, NEW k \in Keys, Appears(k) PROVE FlyIInv'
<1> USE DEF FlyIInv
<1>1. /\ k \notin rows /\ rows' = rows \cup {k}
      /\ disliked' \in {disliked} \cup (IF k[1] = "feedback" THEN {disliked \cup {k}} ELSE {})
      /\ late \subseteq late'
      /\ k \notin late' => \A i \in Taken(k[1]) : ~ (k[2] <= i)
      /\ UNCHANGED <<cursors, batch, added, copies, vectors, durable, blind>>
  BY DEF Appears
<1>2. disliked' \subseteq disliked \cup {k} /\ (disliked' # disliked => k[1] = "feedback")
  BY <1>1
<1>3. k \notin vectors /\ k \notin durable
  BY <1>1 DEF FlyTypes
<1>4. FlyTypes'
  BY <1>1, <1>2 DEF FlyTypes
<1>5. OneBatch' /\ BatchNew' /\ SampledOnce'
  BY <1>1 DEF OneBatch, BatchNew, SampledOnce
<1>6. NotTaught'
  BY <1>1, <1>2, <1>3 DEF NotTaught
<1>7. Reached'
  <2> SUFFICES ASSUME NEW c \in Callers, NEW l \in batch[c] \cup added[c],
                      NEW m \in rows' \ late', m[1] = l[1], m[2] <= l[2]
               PROVE  copies[m] > 0 \/ m \in batch[c]
    BY <1>1 DEF Reached
  <2>1. CASE m = k
    <3>1. l[2] \in Taken(k[1])
      BY <2>1 DEF Taken
    <3> QED
      BY <1>1, <2>1, <3>1
  <2>2. CASE m # k
    BY <1>1, <2>2 DEF Reached
  <2> QED
    BY <2>1, <2>2
<1>8. NothingSkipped'
  <2> SUFFICES ASSUME NEW m \in rows' \ late', m[2] <= cursors[m[1]] PROVE copies[m] > 0
    BY <1>1 DEF NothingSkipped
  <2>1. CASE m = k
    <3>1. cursors[k[1]] \in Taken(k[1])
      BY DEF Taken
    <3> QED
      BY <1>1, <2>1, <3>1
  <2>2. CASE m # k
    BY <1>1, <2>2 DEF NothingSkipped
  <2> QED
    BY <2>1, <2>2
<1> QED
  BY <1>4, <1>5, <1>6, <1>7, <1>8

LEMMA AddFailsKeeps == ASSUME FlyIInv, NEW c \in Callers, AddFails(c) PROVE FlyIInv'
<1> USE DEF FlyIInv
<1>1. /\ batch' = [batch EXCEPT ![c] = {}] /\ added' = [added EXCEPT ![c] = {}]
      /\ UNCHANGED <<rows, disliked, cursors, copies, vectors, durable, blind, late>>
  BY DEF AddFails
<1>2. /\ batch' \in [Callers -> SUBSET rows] /\ added' \in [Callers -> SUBSET rows]
      /\ batch'[c] = {} /\ added'[c] = {}
      /\ \A d \in Callers \ {c} : batch'[d] = batch[d] /\ added'[d] = added[d]
  BY <1>1 DEF FlyTypes
<1>3. FlyTypes'
  BY <1>1, <1>2 DEF FlyTypes
<1>4. OneBatch' /\ BatchNew' /\ Reached'
  BY <1>1, <1>2 DEF OneBatch, BatchNew, Reached
<1>5. NotTaught' /\ SampledOnce' /\ NothingSkipped'
  BY <1>1 DEF NotTaught, SampledOnce, NothingSkipped
<1> QED
  BY <1>3, <1>4, <1>5

LEMMA RestartKeeps ==
  ASSUME FlyIInv, NEW saved0 \in SUBSET (vectors \cup durable), Restarted(saved0) PROVE FlyIInv'
<1> USE DEF FlyIInv
<1>1. /\ cursors' = [s \in Sources |-> 0]
      /\ batch' = [c \in Callers |-> {}] /\ added' = [c \in Callers |-> {}]
      /\ vectors' \subseteq saved0 /\ durable' = saved0
      /\ UNCHANGED <<rows, disliked, copies, blind>>
  BY DEF Restarted
<1>2. FlyTypes'
  BY <1>1, FlywheelAssumption DEF FlyTypes
<1>3. OneBatch' /\ BatchNew' /\ Reached'
  BY <1>1 DEF OneBatch, BatchNew, Reached
<1>4. NotTaught' /\ SampledOnce'
  BY <1>1 DEF NotTaught, SampledOnce
<1>5. NothingSkipped'
  <2> SUFFICES ASSUME NEW m \in rows, m[2] <= cursors'[m[1]] PROVE FALSE
    BY <1>1 DEF NothingSkipped
  <2>1. m[1] \in Sources /\ m[2] \in 1..Rows
    BY DEF FlyTypes, Keys
  <2> QED
    BY <1>1, <2>1, FlywheelAssumption
<1> QED
  BY <1>2, <1>3, <1>4, <1>5

LEMMA FlyStepKeeps == FlyIInv /\ [FlyNext]_flyVars => FlyIInv'
<1> SUFFICES ASSUME FlyIInv, [FlyNext]_flyVars PROVE FlyIInv'
  OBVIOUS
<1>1. CASE UNCHANGED flyVars
  BY <1>1 DEF flyVars, FlyIInv, FlyTypes, OneBatch, BatchNew, Reached, NotTaught, SampledOnce,
     NothingSkipped
<1>2. ASSUME NEW k \in Keys, Appears(k) PROVE FlyIInv'
  BY <1>2, AppearsKeeps
<1>3. ASSUME NEW c \in Callers, FlyStep(c) \/ AddFails(c) PROVE FlyIInv'
  BY <1>3, CollectKeeps, AddKeeps, EndBatchKeeps, AddFailsKeeps DEF FlyStep
<1>4. CASE FlyCrash
  BY <1>4, RestartKeeps DEF FlyCrash
<1>5. CASE Shutdown
  <2>1. (IF backend = "milvus" THEN vectors ELSE durable) \in SUBSET (vectors \cup durable)
    OBVIOUS
  <2> QED
    BY <1>5, <2>1, RestartKeeps DEF Shutdown
<1> QED
  BY <1>1, <1>2, <1>3, <1>4, <1>5 DEF FlyNext

\* Collector, lock, library and index agree, for any sources, rows and faults.
THEOREM FlywheelInvariance == FlySpec => []FlyIInv
BY FlyInitial, FlyStepKeeps, PTL DEF FlySpec

\* Restarts, retried batches and two callers never add a sample twice (collector.py and
\* store.py), unless the library could not be read.
THEOREM SamplesOnce == FlySpec => []SampledOnce
<1>1. FlyIInv => SampledOnce
  BY DEF FlyIInv
<1> QED
  BY <1>1, FlywheelInvariance, PTL

\* What a cursor has passed is in the library (_update_once_locked).
THEOREM CursorsSkipNothing == FlySpec => []NothingSkipped
<1>1. FlyIInv => NothingSkipped
  BY DEF FlyIInv
<1> QED
  BY <1>1, FlywheelInvariance, PTL

\* With the shipped weights of scorer.py nothing outweighs a dislike, so no disliked
\* answer gets into the index, on disk or in memory.
THEOREM DislikesNeverTaught == FlySpec => []DislikedNotTaught
<1>1. FlyIInv => DislikedNotTaught
  BY DEF FlyIInv, NotTaught, DislikedNotTaught
<1> QED
  BY <1>1, FlywheelInvariance, PTL
=============================================================================
