---------------------------- MODULE RequestProofs ----------------------------
(***************************************************************************)
(* Two things requests share: the pipeline cache and the sessions.         *)
(* PipelineCache: types, the integrity of what is cached and that the      *)
(* watcher's fingerprint never runs ahead of the computations, for any     *)
(* number of threads and of changes of the data.  AskSessions: turns are   *)
(* kept, for any number of requests, sessions, locks and threads.          *)
(***************************************************************************)
EXTENDS PipelineCache, AskSessions, TLAPS

(* The pipeline cache.                                                      *)

\* A worker about to publish has a result in hand.
HasResult == \A w \in Workers : place[w] = "publish" => inHand[w] \in Versions

\* Between its fingerprint and its end a poll gets to a state in which data as
\* new as the fingerprint has been published.
PollInv ==
  /\ polled <= data
  /\ place[Poll] = "ask" => polled <= newest
  /\ place[Poll] = "publish" => polled <= inHand[Poll]
  /\ place[Poll] \in {"return", "rules"} => polled <= newest

CacheIInv == CacheTypeOK /\ HasResult /\ CacheWhole /\ FingerprintNotAhead /\ PollInv

LEMMA CacheInitInv == CacheInit => CacheIInv
<1> SUFFICES ASSUME CacheInit PROVE CacheIInv
  OBVIOUS
<1> USE CacheAssumption DEF CacheInit, Versions, NoVersion, Empty
<1>1. Poll \in Workers
  BY DEF Workers
<1>2. CacheTypeOK
  <2>1. fresh => cache # Empty
    BY Zenon
  <2>2. cache \in [rfm : Versions \cup {NoVersion}, rules : Versions \cup {NoVersion}]
    OBVIOUS
  <2>3. /\ place \in [Workers -> {"idle", "ask", "load", "publish", "return", "rules"}]
        /\ inHand \in [Workers -> Versions \cup {NoVersion}]
    OBVIOUS
  <2>4. fresh \in BOOLEAN /\ torn \in BOOLEAN
    OBVIOUS
  <2> QED
    BY <2>1, <2>2, <2>3, <2>4 DEF CacheTypeOK
<1>3. HasResult /\ FingerprintNotAhead
  BY DEF HasResult, FingerprintNotAhead
<1>4. CacheWhole
  BY DEF CacheWhole
<1>5. PollInv
  BY <1>1 DEF PollInv
<1> QED
  BY <1>2, <1>3, <1>4, <1>5 DEF CacheIInv

LEMMA CacheStepInv == CacheIInv /\ [CacheNext]_cacheVars => CacheIInv'
<1> SUFFICES ASSUME CacheIInv, [CacheNext]_cacheVars PROVE CacheIInv'
  OBVIOUS
<1> USE CacheAssumption DEF CacheIInv, CacheTypeOK, HasResult, CacheWhole, FingerprintNotAhead,
        PollInv, Whole, Empty, NoVersion, Versions, Goto
<1>w. Poll \in Workers
  BY DEF Workers
<1>1. CASE PollBegins
  BY <1>1, <1>w DEF PollBegins
<1>2. ASSUME NEW w \in Workers, Invalidate(w) PROVE CacheIInv'
  BY <1>2, <1>w DEF Invalidate
<1>3. ASSUME NEW w \in Workers, Hit(w) PROVE CacheIInv'
  BY <1>3, <1>w DEF Hit, MayCall, Remember
<1>4. ASSUME NEW w \in Workers, Miss(w) PROVE CacheIInv'
  BY <1>4, <1>w DEF Miss, MayCall
<1>5. ASSUME NEW w \in Workers, Load(w) PROVE CacheIInv'
  BY <1>5, <1>w DEF Load
<1>6. ASSUME NEW w \in Workers, LoadFails(w) PROVE CacheIInv'
  BY <1>6, <1>w DEF LoadFails
<1>7. ASSUME NEW w \in Workers, Publish(w) PROVE CacheIInv'
  BY <1>7, <1>w DEF Publish
<1>8. ASSUME NEW w \in Workers, ReturnUsers(w) PROVE CacheIInv'
  BY <1>8, <1>w DEF ReturnUsers
<1>9. ASSUME NEW w \in Workers, ReturnRules(w) PROVE CacheIInv'
  BY <1>9, <1>w DEF ReturnRules, Remember
<1>10. CASE DataChanges
  BY <1>10, <1>w DEF DataChanges
<1>11. CASE Expire
  BY <1>11, <1>w DEF Expire
<1>12. CASE UNCHANGED cacheVars
  BY <1>12, <1>w DEF cacheVars
<1> QED
  BY <1>1, <1>2, <1>3, <1>4, <1>5, <1>6, <1>7, <1>8, <1>9, <1>10, <1>11, <1>12
     DEF CacheNext, WorkerStep

\* The cache is whole or empty, and the fingerprint the poll has in hand is no newer than what it
\* computes from (skills/user_segment.py, watcher/engine.py).
THEOREM CacheInvariance == CacheSpec => []CacheIInv
BY CacheInitInv, CacheStepInv, PTL DEF CacheSpec

\* All variables keep their types, and a fresh cache is never empty
\* (_load_and_process, invalidate_pipeline_cache).
THEOREM CacheTypeCorrect == CacheSpec => []CacheTypeOK
BY CacheInvariance, PTL DEF CacheIInv

\* The lock never shows users of one computation with the rules of another.
THEOREM CacheIsWhole == CacheSpec => []CacheWhole
BY CacheInvariance, PTL DEF CacheIInv

\* poll_once reads the fingerprint before the data, so the one it remembers is
\* never newer than the newest published result.
THEOREM FingerprintIsHonest == CacheSpec => []FingerprintNotAhead
BY CacheInvariance, PTL DEF CacheIInv

-----------------------------------------------------------------------------
(* Sessions.                                                                *)

Waits     == {"waiting", "woken"}
Holds     == {"queued", "running"}
Active    == Waits \cup Holds \cup {"fetched"}

AskTypes ==
  /\ at \in [Requests -> {"new"} \cup Active \cup Ended]
  /\ session \in [Requests -> Sessions]
  /\ lockOf \in [Requests -> Locks \cup {None}]
  /\ lockTable \in [Sessions -> Locks \cup {None}] /\ lockTable[Default] = None
  /\ held \subseteq Locks
  /\ waiters \in [Locks -> Seq(Requests)]
  /\ file \in [Sessions -> SUBSET Requests]
  /\ base \in [Requests -> SUBSET Requests]
  /\ \A r \in Requests : at[r] \in Active => lockOf[r] \in Locks

\* A queue holds, once each, the requests that wait for its lock.
Queues ==
  /\ \A l \in Locks : \A i \in DOMAIN waiters[l] :
       at[waiters[l][i]] \in Waits /\ lockOf[waiters[l][i]] = l
  /\ \A l \in Locks : \A i, j \in DOMAIN waiters[l] : waiters[l][i] = waiters[l][j] => i = j
  /\ \A r \in Requests : at[r] \in Waits => \E i \in DOMAIN waiters[lockOf[r]] : waiters[lockOf[r]][i] = r

\* Who was woken is first in the queue of a lock that is free.
WokenFirst ==
  \A r \in Requests : at[r] = "woken" => lockOf[r] \notin held /\ waiters[lockOf[r]][1] = r

\* A lock has one holder.
OneHolder ==
  /\ \A r \in Requests : at[r] \in Holds => lockOf[r] \in held
  /\ \A r, q \in Requests : at[r] \in Holds /\ at[q] \in Holds /\ lockOf[r] = lockOf[q] => r = q

\* A session has one lock, but for those whose lock was evicted under its requests.
OneLock ==
  \A r \in Requests : at[r] \in Active /\ session[r] \notin orphaned =>
    lockOf[r] = IF session[r] = Default THEN DefaultLock ELSE lockTable[session[r]]

\* A run builds on all that its session's file has.
BuildsOnAll ==
  \A r \in Requests : at[r] = "running" /\ session[r] \notin orphaned => file[session[r]] \subseteq base[r]

AskInv == AskTypes /\ Queues /\ WokenFirst /\ OneHolder /\ OneLock /\ BuildsOnAll /\ TurnsKept

LEMMA AskInitInv == AskInit => AskInv
<1> SUFFICES ASSUME AskInit PROVE AskInv
  OBVIOUS
<1> USE AskAssumption DEF AskInit
<1>1. None \notin Locks /\ <<>> \in Seq(Requests)
  BY DEF None, Locks, Requests, DefaultLock
<1>2. AskTypes
  BY <1>1 DEF AskTypes, Active, Waits, Holds, Ended
<1>3. Queues /\ WokenFirst /\ OneHolder
  BY DEF Queues, WokenFirst, OneHolder, Waits, Holds
<1>4. OneLock /\ BuildsOnAll /\ TurnsKept
  BY DEF OneLock, BuildsOnAll, TurnsKept, Active, Waits, Holds
<1> QED
  BY <1>2, <1>3, <1>4 DEF AskInv

\* A queue that one leaves has the others in their order.
LEMMA DroppedIs ==
  ASSUME NEW queue \in Seq(Requests), NEW k \in DOMAIN queue,
         \A i, j \in DOMAIN queue : queue[i] = queue[j] => i = j
  PROVE  LET D == Dropped(queue, queue[k])
         IN  /\ D \in Seq(Requests)
             /\ \A i \in DOMAIN D : \E j \in DOMAIN queue : D[i] = queue[j] /\ j # k
             /\ \A i, j \in DOMAIN D : D[i] = D[j] => i = j
             /\ \A j \in DOMAIN queue : j # k => \E i \in DOMAIN D : D[i] = queue[j]
             /\ k # 1 => D # <<>> /\ D[1] = queue[1]
<1> DEFINE D == [i \in 1..(Len(queue) - 1) |-> IF i < k THEN queue[i] ELSE queue[i + 1]]
<1>1. Dropped(queue, queue[k]) = D
  <2>1. k = CHOOSE i \in DOMAIN queue : queue[i] = queue[k]
    OBVIOUS
  <2> QED
    BY <2>1 DEF Dropped
<1>2. Len(queue) \in Nat /\ DOMAIN queue = 1..Len(queue) /\ k \in Nat /\ k >= 1
  OBVIOUS
<1>3. DOMAIN D = 1..(Len(queue) - 1) /\ D \in Seq(Requests)
  <2>1. \A i \in 1..(Len(queue) - 1) : i \in DOMAIN queue /\ i + 1 \in DOMAIN queue
    BY <1>2
  <2>2. \A i \in 1..(Len(queue) - 1) : D[i] \in Requests
    BY <2>1
  <2>3. Len(queue) - 1 \in Nat
    BY <1>2
  <2> QED
    BY <2>2, <2>3
<1>4. \A i \in DOMAIN D : \/ i < k /\ D[i] = queue[i] /\ i \in DOMAIN queue
                          \/ i >= k /\ D[i] = queue[i + 1] /\ i + 1 \in DOMAIN queue
  BY <1>2, <1>3
<1>5. \A i \in DOMAIN D : \E j \in DOMAIN queue : D[i] = queue[j] /\ j # k
  BY <1>2, <1>3, <1>4
<1>6. \A i, j \in DOMAIN D : D[i] = D[j] => i = j
  <2> SUFFICES ASSUME NEW i \in DOMAIN D, NEW j \in DOMAIN D, D[i] = D[j] PROVE i = j
    OBVIOUS
  <2>1. i \in Nat /\ j \in Nat
    BY <1>3
  <2> HIDE DEF D
  <2> QED
    BY <2>1, <1>2, <1>4
<1>7. \A j \in DOMAIN queue : j # k => \E i \in DOMAIN D : D[i] = queue[j]
  <2> SUFFICES ASSUME NEW j \in DOMAIN queue, j # k PROVE \E i \in DOMAIN D : D[i] = queue[j]
    OBVIOUS
  <2>1. CASE j < k
    BY <2>1, <1>2, <1>3
  <2>2. CASE j > k
    <3>1. j - 1 \in DOMAIN D /\ j - 1 >= k /\ (j - 1) + 1 = j
      BY <2>2, <1>2, <1>3
    <3>2. D[j - 1] = queue[j]
      BY <3>1
    <3> QED
      BY <3>1, <3>2
  <2> QED
    BY <2>1, <2>2, <1>2
<1>8. k # 1 => D # <<>> /\ D[1] = queue[1]
  BY <1>2, <1>3
<1> HIDE DEF D
<1> QED
  BY <1>1, <1>3, <1>5, <1>6, <1>7, <1>8

\* What a request that enters a lock does to locks and queues.
LEMMA EnterKeeps ==
  ASSUME AskInv, NEW r \in Requests, at[r] \in {"new", "fetched"}, NEW l \in Locks, Enter(r, l),
         lockOf' = [lockOf EXCEPT ![r] = l]
  PROVE  /\ at' \in [Requests -> {"new"} \cup Active \cup Ended] /\ at'[r] \in Active \ {"running"}
         /\ \A q \in Requests \ {r} : at'[q] = at[q]
         /\ held' \subseteq Locks /\ waiters' \in [Locks -> Seq(Requests)]
         /\ Queues' /\ WokenFirst' /\ OneHolder'
<1>t. /\ at \in [Requests -> {"new"} \cup Active \cup Ended] /\ waiters \in [Locks -> Seq(Requests)]
      /\ held \subseteq Locks /\ lockOf \in [Requests -> Locks \cup {None}]
      /\ at[r] \notin Waits \cup Holds /\ {"new", "fetched", "woken"} \cap Holds = {}
      /\ Queues /\ WokenFirst /\ OneHolder
      /\ \A q \in Requests : at[q] \in Active => lockOf[q] \in Locks
  BY DEF AskInv, AskTypes, Waits, Holds
<1>1. CASE l \notin held /\ waiters[l] = <<>>
  <2>1. held' = held \cup {l} /\ at' = [at EXCEPT ![r] = "queued"] /\ waiters' = waiters
    BY <1>1 DEF Enter
  <2>2. Queues'
    BY <2>1, <1>t DEF Queues, Waits
  <2>3. WokenFirst'
    <3> SUFFICES ASSUME NEW q \in Requests, at'[q] = "woken"
                 PROVE  lockOf'[q] \notin held' /\ waiters'[lockOf'[q]][1] = q
      BY DEF WokenFirst
    <3>1. q # r /\ at[q] = "woken" /\ lockOf'[q] = lockOf[q]
      BY <2>1, <1>t
    <3>2. lockOf[q] # l
      BY <3>1, <1>1, <1>t DEF Queues, Waits
    <3> QED
      BY <2>1, <3>1, <3>2, <1>t DEF WokenFirst
  <2>4. OneHolder'
    BY <2>1, <1>1, <1>t DEF OneHolder, Holds
  <2> QED
    BY <2>1, <2>2, <2>3, <2>4, <1>t DEF Active, Waits, Holds
<1>2. CASE ~(l \notin held /\ waiters[l] = <<>>)
  <2>1. held' = held /\ at' = [at EXCEPT ![r] = "waiting"]
        /\ waiters' = [waiters EXCEPT ![l] = Append(@, r)]
    BY <1>2 DEF Enter
  <2>2. /\ waiters'[l] \in Seq(Requests) /\ Len(waiters[l]) \in Nat
        /\ DOMAIN waiters[l] = 1..Len(waiters[l]) /\ DOMAIN waiters'[l] = 1..(Len(waiters[l]) + 1)
        /\ \A i \in DOMAIN waiters[l] : waiters'[l][i] = waiters[l][i]
        /\ waiters'[l][Len(waiters[l]) + 1] = r
        /\ \A m \in Locks \ {l} : waiters'[m] = waiters[m]
    BY <2>1, <1>t
  <2>3. \A m \in Locks : \A i \in DOMAIN waiters[m] : waiters[m][i] # r /\ waiters[m][i] \in Requests
    BY <1>t DEF Queues
  <2>4. \A i \in DOMAIN waiters'[l] : i \in DOMAIN waiters[l] \/ i = Len(waiters[l]) + 1
    BY <2>2
  <2>q. \A q \in Requests \ {r} : at'[q] = at[q] /\ lockOf'[q] = lockOf[q]
    BY <2>1, <1>t
  <2>r. at'[r] = "waiting" /\ lockOf'[r] = l
    BY <2>1, <1>t
  <2>5. Queues'
    <3>1. ASSUME NEW m \in Locks, NEW i \in DOMAIN waiters'[m]
          PROVE  at'[waiters'[m][i]] \in Waits /\ lockOf'[waiters'[m][i]] = m
      <4>1. CASE m = l
        BY <4>1, <2>2, <2>3, <2>4, <2>q, <2>r, <1>t DEF Queues, Waits
      <4>2. CASE m # l
        BY <4>2, <2>2, <2>3, <2>q, <1>t DEF Queues
      <4> QED
        BY <4>1, <4>2
    <3>2. ASSUME NEW m \in Locks, NEW i \in DOMAIN waiters'[m], NEW k \in DOMAIN waiters'[m],
                 waiters'[m][i] = waiters'[m][k]
          PROVE  i = k
      <4>1. CASE m = l
        <5>1. CASE i \in DOMAIN waiters[l] /\ k \in DOMAIN waiters[l]
          BY <5>1, <4>1, <3>2, <2>2, <1>t DEF Queues
        <5>2. CASE i = Len(waiters[l]) + 1 \/ k = Len(waiters[l]) + 1
          BY <5>2, <4>1, <3>2, <2>2, <2>3, <2>4
        <5> QED
          BY <5>1, <5>2, <4>1, <2>4
      <4>2. CASE m # l
        BY <4>2, <3>2, <2>2, <1>t DEF Queues
      <4> QED
        BY <4>1, <4>2
    <3>3. ASSUME NEW q \in Requests, at'[q] \in Waits
          PROVE  \E i \in DOMAIN waiters'[lockOf'[q]] : waiters'[lockOf'[q]][i] = q
      <4>1. CASE q = r
        <5>1. Len(waiters[l]) + 1 \in DOMAIN waiters'[l]
          BY <2>2
        <5> QED
          BY <4>1, <5>1, <2>2, <2>r
      <4>2. CASE q # r
        <5>1. /\ lockOf'[q] = lockOf[q] /\ lockOf[q] \in Locks
              /\ \E i \in DOMAIN waiters[lockOf[q]] : waiters[lockOf[q]][i] = q
          BY <4>2, <3>3, <2>q, <1>t DEF Queues, Active
        <5>2. DOMAIN waiters[lockOf[q]] \subseteq DOMAIN waiters'[lockOf[q]]
          BY <2>2, <5>1
        <5> QED
          BY <5>1, <5>2, <2>2
      <4> QED
        BY <4>1, <4>2
    <3> QED
      BY <3>1, <3>2, <3>3 DEF Queues
  <2>6. WokenFirst'
    <3> SUFFICES ASSUME NEW q \in Requests, at'[q] = "woken"
                 PROVE  lockOf'[q] \notin held' /\ waiters'[lockOf'[q]][1] = q
      BY DEF WokenFirst
    <3>1. q # r /\ at[q] = "woken" /\ lockOf'[q] = lockOf[q] /\ lockOf[q] \in Locks
      BY <2>r, <2>q, <1>t DEF Active, Waits
    <3>2. \E i \in DOMAIN waiters[lockOf[q]] : waiters[lockOf[q]][i] = q
      BY <3>1, <1>t DEF Queues, Waits
    <3>3. 1 \in DOMAIN waiters[lockOf[q]]
      BY <3>1, <3>2, <1>t
    <3> QED
      BY <3>1, <3>3, <2>1, <2>2, <1>t DEF WokenFirst
  <2>7. OneHolder'
    <3>1. \A q \in Requests : at'[q] \in Holds => q # r /\ at[q] \in Holds
      BY <2>q, <2>r DEF Holds
    <3> QED
      BY <3>1, <2>1, <2>q, <1>t DEF OneHolder
  <2> QED
    BY <2>1, <2>2, <2>5, <2>6, <2>7, <1>t DEF Active, Waits, Holds
<1> QED
  BY <1>1, <1>2

\* What a holder that goes does to locks and queues.
LEMMA ReleaseKeeps ==
  ASSUME AskInv, NEW r \in Requests, at[r] \in Holds, NEW ending \in Ended, Release(r, ending),
         lockOf' = lockOf
  PROVE  /\ at' \in [Requests -> {"new"} \cup Active \cup Ended] /\ at'[r] = ending
         /\ \A q \in Requests \ {r} : at'[q] = at[q] \/ (at[q] = "waiting" /\ at'[q] = "woken")
         /\ held' \subseteq Locks /\ waiters' = waiters
         /\ Queues' /\ WokenFirst' /\ OneHolder'
<1> DEFINE l == lockOf[r]
<1>t. /\ at \in [Requests -> {"new"} \cup Active \cup Ended] /\ waiters \in [Locks -> Seq(Requests)]
      /\ held \subseteq Locks /\ l \in Locks /\ l \in held
      /\ {"new", "fetched", "woken", "waiting"} \cap Holds = {} /\ (Waits \cup Holds) \cap Ended = {}
      /\ Queues /\ WokenFirst /\ OneHolder
      /\ \A q \in Requests : at[q] \in Active => lockOf[q] \in Locks
  BY DEF AskInv, AskTypes, Waits, Holds, Active, Ended, OneHolder
<1> DEFINE left == [at EXCEPT ![r] = ending]
<1>1. held' = held \ {l} /\ at' = Wake(left, waiters[l]) /\ waiters' = waiters
  BY DEF Release
<1>2. left \in [Requests -> {"new"} \cup Active \cup Ended] /\ left[r] = ending
      /\ \A q \in Requests \ {r} : left[q] = at[q]
  BY <1>t
<1>h. ASSUME waiters[l] # <<>>
      PROVE  Head(waiters[l]) = waiters[l][1] /\ 1 \in DOMAIN waiters[l] /\ waiters[l][1] \in Requests
  BY <1>h, <1>t
<1>3. /\ waiters[l] = <<>> => at' = left
      /\ waiters[l] # <<>> => at' = [left EXCEPT ![waiters[l][1]] = "woken"]
  BY <1>1, <1>h DEF Wake
<1> HIDE DEF l, left
<1>4. waiters[l] # <<>> =>
        LET h == waiters[l][1] IN h \in Requests /\ h # r /\ lockOf[h] = l /\ at[h] = "waiting"
  <2> SUFFICES ASSUME waiters[l] # <<>>, NEW h, h = waiters[l][1]
               PROVE  h \in Requests /\ h # r /\ lockOf[h] = l /\ at[h] = "waiting"
    OBVIOUS
  <2>1. h \in Requests /\ at[h] \in Waits /\ lockOf[h] = l
    BY <1>h, <1>t DEF Queues
  <2>2. at[h] # "woken"
    BY <2>1, <1>t DEF WokenFirst
  <2> QED
    BY <2>1, <2>2, <1>t DEF Waits, Holds
<1>5. /\ at' \in [Requests -> {"new"} \cup Active \cup Ended] /\ at'[r] = ending
      /\ \A q \in Requests \ {r} :
           at'[q] = at[q] \/ (at[q] = "waiting" /\ at'[q] = "woken" /\ lockOf[q] = l /\ q = waiters[l][1])
  <2>1. CASE waiters[l] = <<>>
    BY <2>1, <1>2, <1>3
  <2>2. CASE waiters[l] # <<>>
    BY <2>2, <1>2, <1>3, <1>4 DEF Active, Waits
  <2> QED
    BY <2>1, <2>2
<1>6. Queues'
  <2>1. \A q \in Requests : at'[q] \in Waits <=> at[q] \in Waits
    BY <1>5, <1>t DEF Waits
  <2>2. \A m \in Locks : \A i \in DOMAIN waiters[m] : waiters[m][i] \in Requests
    BY <1>t
  <2> QED
    BY <2>1, <2>2, <1>1, <1>t DEF Queues
<1>7. WokenFirst'
  <2> SUFFICES ASSUME NEW q \in Requests, at'[q] = "woken"
               PROVE  lockOf[q] \notin held' /\ waiters[lockOf[q]][1] = q
    BY <1>1 DEF WokenFirst
  <2>1. q # r
    BY <1>5, <1>t DEF Waits, Ended
  <2>2. CASE at[q] = "woken"
    BY <2>2, <1>1, <1>t DEF WokenFirst
  <2>3. CASE at[q] # "woken"
    BY <2>1, <2>3, <1>1, <1>5
  <2> QED
    BY <2>2, <2>3
<1>8. OneHolder'
  <2>1. \A q \in Requests : at'[q] \in Holds => q # r /\ at[q] \in Holds
    BY <1>5, <1>t DEF Holds, Ended
  <2>2. \A q \in Requests : at[q] \in Holds /\ q # r => lockOf[q] # l
    BY <1>t DEF OneHolder, l
  <2> QED
    BY <2>1, <2>2, <1>1, <1>t DEF OneHolder
<1> QED
  BY <1>1, <1>5, <1>6, <1>7, <1>8, <1>t

\* Files and bases are looked at by the holders of locks, who are alone in their session.
LEMMA AloneInSession ==
  ASSUME AskInv, NEW r \in Requests, NEW q \in Requests, at[r] \in Holds, at[q] \in Holds,
         session[r] = session[q], session[r] \notin orphaned
  PROVE  r = q
<1>1. lockOf[r] = lockOf[q]
  BY DEF AskInv, OneLock, Active
<1> QED
  BY <1>1 DEF AskInv, OneHolder

\* The lock a request is given, and those that are evicted for it.
LEMMA GetLockIs ==
  ASSUME AskInv, NEW r \in Requests, at[r] = "new", NEW s \in Sessions, GetLock(r, s)
  PROVE  /\ \E l \in Locks : lockOf' = [lockOf EXCEPT ![r] = l]
         /\ lockOf'[r] = IF s = Default THEN DefaultLock ELSE lockTable'[s]
         /\ lockTable' \in [Sessions -> Locks \cup {None}] /\ lockTable'[Default] = None
         /\ orphaned \subseteq orphaned'
         /\ \A q \in Requests : at[q] \in Active /\ session[q] \notin orphaned' =>
              lockOf[q] = IF session[q] = Default THEN DefaultLock ELSE lockTable'[session[q]]
<1>t. /\ lockOf \in [Requests -> Locks \cup {None}] /\ r \in Locks /\ DefaultLock \in Locks
      /\ lockTable \in [Sessions -> Locks \cup {None}] /\ lockTable[Default] = None
      /\ session \in [Requests -> Sessions] /\ Default \in Sessions /\ None \notin Locks
      /\ \A q \in Requests : at[q] \in Active => lockOf[q] \in Locks
      /\ \A q \in Requests : at[q] \in Active /\ session[q] \notin orphaned =>
           lockOf[q] = IF session[q] = Default THEN DefaultLock ELSE lockTable[session[q]]
  BY AskAssumption DEF AskInv, AskTypes, OneLock, Locks, DefaultLock, None, Requests
<1>1. CASE s = Default
  <2>1. lockOf' = [lockOf EXCEPT ![r] = DefaultLock] /\ UNCHANGED <<lockTable, orphaned>>
    BY <1>1 DEF GetLock
  <2> QED
    BY <2>1, <1>1, <1>t
<1>2. CASE s # Default /\ lockTable[s] # None
  <2>1. lockOf' = [lockOf EXCEPT ![r] = lockTable[s]] /\ UNCHANGED <<lockTable, orphaned>>
    BY <1>2 DEF GetLock
  <2> QED
    BY <2>1, <1>2, <1>t
<1>3. CASE s # Default /\ lockTable[s] = None
  <2> DEFINE full == Cardinality({x \in Sessions : lockTable[x] # None}) >= LocksMax
             left == IF full THEN EvictIdle ELSE lockTable
  <2>1. /\ lockOf' = [lockOf EXCEPT ![r] = r]
        /\ lockTable' = [left EXCEPT ![s] = r]
        /\ orphaned' = orphaned \cup {x \in Sessions :
             left[x] # lockTable[x] /\ lockTable[x] \in WantedLocks \ held}
    BY <1>3 DEF GetLock
  <2>2. /\ left \in [Sessions -> Locks \cup {None}]
        /\ \A x \in Sessions : left[x] = lockTable[x] \/ (lockTable[x] \notin held /\ left[x] = None)
    BY <1>t DEF EvictIdle
  <2> HIDE DEF full, left
  <2>3. ASSUME NEW q \in Requests, at[q] \in Active, session[q] \notin orphaned'
        PROVE  lockOf[q] = IF session[q] = Default THEN DefaultLock ELSE lockTable'[session[q]]
    <3>1. /\ lockOf[q] = IF session[q] = Default THEN DefaultLock ELSE lockTable[session[q]]
          /\ lockOf[q] \in Locks /\ session[q] \in Sessions
      BY <2>1, <2>3, <1>t
    <3>2. CASE session[q] # Default
      <4>1. session[q] # s
        BY <3>1, <3>2, <1>3, <1>t
      <4>2. lockOf[q] \in WantedLocks \/ lockOf[q] \in held
        BY <2>3 DEF AskInv, OneHolder, WantedLocks, Active, Waits, Holds
      <4>3. left[session[q]] = lockTable[session[q]]
        BY <2>1, <2>2, <2>3, <3>1, <3>2, <4>2
      <4> QED
        BY <2>1, <2>2, <3>1, <3>2, <4>1, <4>3
    <3> QED
      BY <3>1, <3>2
  <2>4. lockTable'[Default] = None
    BY <2>1, <2>2, <1>3, <1>t
  <2> QED
    BY <2>1, <2>2, <2>3, <2>4, <1>3, <1>t
<1> QED
  BY <1>1, <1>2, <1>3

\* A step that no run ends with: files and bases are as they were.
LEMMA FilesKept ==
  ASSUME AskInv, UNCHANGED <<file, base, expired>>, orphaned \subseteq orphaned',
         \A q \in Requests : at'[q] \in {"running", "done"} => at'[q] = at[q] /\ session'[q] = session[q]
  PROVE  BuildsOnAll' /\ TurnsKept'
BY DEF AskInv, BuildsOnAll, TurnsKept

LEMMA ArriveInv ==
  ASSUME AskInv, NEW r \in Requests, NEW s \in Sessions, Ask(r, s) \/ FetchForStream(r, s)
  PROVE  AskInv'
<1>1. /\ at[r] = "new" /\ session' = [session EXCEPT ![r] = s] /\ GetLock(r, s)
      /\ UNCHANGED <<file, base, expired>>
  BY DEF Ask, FetchForStream, Arrives
<1>t. /\ session \in [Requests -> Sessions] /\ lockOf \in [Requests -> Locks \cup {None}]
      /\ at \in [Requests -> {"new"} \cup Active \cup Ended]
      /\ file \in [Sessions -> SUBSET Requests] /\ base \in [Requests -> SUBSET Requests]
      /\ \A q \in Requests : at[q] \in Active => lockOf[q] \in Locks
      /\ held \subseteq Locks /\ waiters \in [Locks -> Seq(Requests)]
  BY DEF AskInv, AskTypes
<1>2. PICK l \in Locks : lockOf' = [lockOf EXCEPT ![r] = l]
  BY <1>1, GetLockIs
<1>3. lockOf'[r] = l /\ \A q \in Requests \ {r} : lockOf'[q] = lockOf[q] /\ session'[q] = session[q]
  BY <1>1, <1>2, <1>t
<1>4. /\ at' \in [Requests -> {"new"} \cup Active \cup Ended] /\ at'[r] \in Active \ {"running"}
      /\ \A q \in Requests \ {r} : at'[q] = at[q]
      /\ held' \subseteq Locks /\ waiters' \in [Locks -> Seq(Requests)]
      /\ Queues' /\ WokenFirst' /\ OneHolder'
  <2>1. CASE Ask(r, s)
    BY <2>1, <1>1, <1>2, <1>3, EnterKeeps DEF Ask
  <2>2. CASE FetchForStream(r, s)
    <3>1. at' = [at EXCEPT ![r] = "fetched"] /\ UNCHANGED <<held, waiters>>
      BY <2>2 DEF FetchForStream
    <3>2. /\ Queues /\ \A q \in Requests : at'[q] \in Waits <=> at[q] \in Waits /\ q # r
          /\ at'[r] \notin Waits /\ at[r] \notin Waits
      BY <3>1, <1>1, <1>t DEF AskInv, Waits
    <3>x. \A m \in Locks : \A i \in DOMAIN waiters[m] : waiters[m][i] \in Requests \ {r}
      BY <3>2, <1>t DEF Queues
    <3>3. Queues'
      BY <3>1, <3>2, <3>x, <1>3 DEF Queues
    <3>4. WokenFirst' /\ OneHolder'
      BY <3>1, <1>3, <1>1, <1>t DEF AskInv, WokenFirst, OneHolder, Holds
    <3> QED
      BY <3>1, <3>3, <3>4, <1>t DEF Active
  <2> QED
    BY <2>1, <2>2
<1>5. /\ lockOf'[r] = IF s = Default THEN DefaultLock ELSE lockTable'[s]
      /\ lockTable' \in [Sessions -> Locks \cup {None}] /\ lockTable'[Default] = None
      /\ orphaned \subseteq orphaned'
      /\ \A q \in Requests : at[q] \in Active /\ session[q] \notin orphaned' =>
           lockOf[q] = IF session[q] = Default THEN DefaultLock ELSE lockTable'[session[q]]
  BY <1>1, GetLockIs
<1>6. AskTypes'
  BY <1>1, <1>2, <1>3, <1>4, <1>5, <1>t DEF AskTypes
<1>7. OneLock'
  BY <1>1, <1>3, <1>4, <1>5, <1>t DEF OneLock
<1>8. BuildsOnAll' /\ TurnsKept'
  BY <1>1, <1>3, <1>4, <1>5, FilesKept DEF Active, Waits, Holds
<1> QED
  BY <1>4, <1>6, <1>7, <1>8 DEF AskInv

\* A step that gives nobody a lock and makes nobody active.
LEMMA LocksKept ==
  ASSUME AskInv, UNCHANGED <<session, lockOf, lockTable>>, orphaned \subseteq orphaned',
         \A q \in Requests : at'[q] \in Active => at[q] \in Active
  PROVE  OneLock'
BY DEF AskInv, OneLock

LEMMA BeginStreamInv ==
  ASSUME AskInv, NEW r \in Requests, BeginStream(r)
  PROVE  AskInv'
<1>1. /\ at[r] = "fetched" /\ Enter(r, lockOf[r])
      /\ UNCHANGED <<session, lockOf, lockTable, file, base, expired, orphaned>>
  BY DEF BeginStream
<1>2. lockOf[r] \in Locks /\ lockOf' = [lockOf EXCEPT ![r] = lockOf[r]]
  BY <1>1 DEF AskInv, AskTypes, Active
<1>3. /\ at' \in [Requests -> {"new"} \cup Active \cup Ended] /\ at'[r] \in Active \ {"running"}
      /\ \A q \in Requests \ {r} : at'[q] = at[q]
      /\ held' \subseteq Locks /\ waiters' \in [Locks -> Seq(Requests)]
      /\ Queues' /\ WokenFirst' /\ OneHolder'
  BY <1>1, <1>2, EnterKeeps
<1>4. AskTypes'
  BY <1>1, <1>2, <1>3 DEF AskInv, AskTypes
<1>5. OneLock'
  BY <1>1, <1>3, LocksKept DEF Active
<1>6. BuildsOnAll' /\ TurnsKept'
  BY <1>1, <1>3, FilesKept DEF Active, Waits, Holds
<1> QED
  BY <1>3, <1>4, <1>5, <1>6 DEF AskInv

\* A run that ends, fails or is broken off.
LEMMA RunOverInv ==
  ASSUME AskInv, NEW r \in Requests, at[r] \in Holds, NEW ending \in Ended, Release(r, ending),
         UNCHANGED <<session, lockOf, lockTable, base, orphaned>>,
         file' \in [Sessions -> SUBSET Requests],
         \/ ending # "done" /\ UNCHANGED <<file, expired>>
         \/ ending = "done" /\ at[r] = "running" /\ Put(r)
  PROVE  AskInv'
<1>1. /\ at' \in [Requests -> {"new"} \cup Active \cup Ended] /\ at'[r] = ending
      /\ \A q \in Requests \ {r} : at'[q] = at[q] \/ (at[q] = "waiting" /\ at'[q] = "woken")
      /\ held' \subseteq Locks /\ waiters' = waiters
      /\ Queues' /\ WokenFirst' /\ OneHolder'
  BY ReleaseKeeps
<1>2. Active \cap Ended = {}
  BY DEF Active, Waits, Holds, Ended
<1>3. AskTypes'
  BY <1>1, <1>2 DEF AskInv, AskTypes, Active, Waits
<1>4. OneLock'
  BY <1>1, <1>2, LocksKept DEF Active, Waits
<1>5. BuildsOnAll' /\ TurnsKept'
  <2>1. CASE ending # "done" /\ UNCHANGED <<file, expired>>
    BY <1>1, <1>2, <2>1, FilesKept DEF Active, Holds, Ended
  <2>2. CASE ending = "done" /\ at[r] = "running" /\ Put(r)
    <3>1. PICK swept \in {{}, old \ {session[r]}} :
            /\ file' = [s \in Sessions |-> IF s = session[r] THEN base[r] \cup {r}
                                           ELSE IF s \in swept THEN {} ELSE file[s]]
            /\ expired' = expired \cup UNION {file[s] : s \in swept}
      BY <2>2 DEF Put
    <3>2. /\ session \in [Requests -> Sessions] /\ file \in [Sessions -> SUBSET Requests]
      BY DEF AskInv, AskTypes
    <3>3. BuildsOnAll'
      <4> SUFFICES ASSUME NEW q \in Requests, at'[q] = "running", session[q] \notin orphaned
                   PROVE  file'[session[q]] \subseteq base[q]
        BY DEF BuildsOnAll
      <4>1. q # r /\ at[q] = "running"
        BY <1>1, <1>2, <2>2 DEF Active, Holds, Waits
      <4>2. session[q] # session[r]
        BY <4>1, <2>2, AloneInSession DEF Holds
      <4>3. file[session[q]] \subseteq base[q]
        BY <4>1 DEF AskInv, BuildsOnAll
      <4> QED
        BY <4>2, <4>3, <3>1, <3>2
    <3>4. TurnsKept'
      <4> SUFFICES ASSUME NEW q \in Requests, at'[q] = "done", session[q] \notin orphaned
                   PROVE  q \in file'[session[q]] \cup expired'
        BY DEF TurnsKept
      <4>1. CASE q = r
        BY <4>1, <3>1, <3>2
      <4>2. CASE q # r
        <5>1. q \in file[session[q]] \cup expired
          BY <4>2, <1>1 DEF AskInv, TurnsKept
        <5>2. CASE session[q] = session[r]
          <6>1. file[session[r]] \subseteq base[r]
            BY <5>2, <2>2 DEF AskInv, BuildsOnAll
          <6> QED
            BY <5>1, <5>2, <6>1, <3>1, <3>2
        <5>3. CASE session[q] # session[r]
          <6>1. session[q] \in Sessions
            BY <3>2
          <6>2. session[q] \notin swept => file'[session[q]] = file[session[q]]
            BY <5>3, <6>1, <3>1
          <6>3. session[q] \in swept => file[session[q]] \subseteq expired'
            BY <3>1
          <6> QED
            BY <5>1, <6>2, <6>3, <3>1
        <5> QED
          BY <5>2, <5>3
      <4> QED
        BY <4>1, <4>2
    <3> QED
      BY <3>3, <3>4
  <2> QED
    BY <2>1, <2>2
<1> QED
  BY <1>1, <1>3, <1>4, <1>5 DEF AskInv

\* Who was woken takes the lock and leaves the queue.
LEMMA TakeLockInv ==
  ASSUME AskInv, NEW r \in Requests, TakeLock(r)
  PROVE  AskInv'
<1> DEFINE l == lockOf[r]
<1>1. /\ at[r] = "woken" /\ held' = held \cup {l} /\ waiters' = [waiters EXCEPT ![l] = Tail(@)]
      /\ at' = [at EXCEPT ![r] = "queued"]
      /\ UNCHANGED <<session, lockOf, lockTable, file, base, expired, orphaned>>
  BY DEF TakeLock
<1>t. /\ at \in [Requests -> {"new"} \cup Active \cup Ended] /\ waiters \in [Locks -> Seq(Requests)]
      /\ held \subseteq Locks /\ l \in Locks
      /\ Queues /\ WokenFirst /\ OneHolder
      /\ \A q \in Requests : at[q] \in Active => lockOf[q] \in Locks
  BY <1>1 DEF AskInv, AskTypes, Active, Waits
<1>2. l \notin held /\ waiters[l][1] = r /\ \E i \in DOMAIN waiters[l] : waiters[l][i] = r
  BY <1>1, <1>t DEF WokenFirst, Queues, Waits
<1> HIDE DEF l
<1>3. /\ waiters[l] # <<>> /\ Tail(waiters[l]) \in Seq(Requests) /\ Len(waiters[l]) \in Nat
      /\ DOMAIN waiters[l] = 1..Len(waiters[l]) /\ DOMAIN Tail(waiters[l]) = 1..(Len(waiters[l]) - 1)
      /\ \A i \in DOMAIN Tail(waiters[l]) : Tail(waiters[l])[i] = waiters[l][i + 1]
  BY <1>2, <1>t
<1>4. /\ \A i \in DOMAIN waiters'[l] : /\ i \in Nat /\ i + 1 \in DOMAIN waiters[l] /\ i + 1 # 1
                                       /\ waiters'[l][i] = waiters[l][i + 1]
      /\ \A m \in Locks \ {l} : waiters'[m] = waiters[m]
      /\ waiters' \in [Locks -> Seq(Requests)]
  BY <1>1, <1>3, <1>t
<1>5. \A i \in DOMAIN waiters'[l] : waiters'[l][i] # r
  BY <1>2, <1>3, <1>4, <1>t DEF Queues
<1>6. \A m \in Locks : \A i \in DOMAIN waiters[m] : waiters[m][i] \in Requests
  BY <1>t
<1>q. /\ at'[r] = "queued" /\ \A q \in Requests \ {r} : at'[q] = at[q]
      /\ at' \in [Requests -> {"new"} \cup Active \cup Ended]
  BY <1>1, <1>t DEF Active, Holds
<1>7. Queues'
  <2>1. ASSUME NEW m \in Locks, NEW i \in DOMAIN waiters'[m]
        PROVE  at'[waiters'[m][i]] \in Waits /\ lockOf[waiters'[m][i]] = m
    <3>1. CASE m = l
      BY <3>1, <1>4, <1>5, <1>6, <1>q, <1>t DEF Queues
    <3>2. CASE m # l
      <4>1. waiters[m][i] # r
        BY <3>2, <1>4, <1>t DEF Queues, l
      <4> QED
        BY <3>2, <4>1, <1>4, <1>6, <1>q, <1>t DEF Queues
    <3> QED
      BY <3>1, <3>2
  <2>2. ASSUME NEW m \in Locks, NEW i \in DOMAIN waiters'[m], NEW k \in DOMAIN waiters'[m],
               waiters'[m][i] = waiters'[m][k]
        PROVE  i = k
    <3>1. CASE m = l
      <4>1. i + 1 = k + 1
        BY <3>1, <2>2, <1>4, <1>t DEF Queues
      <4> QED
        BY <3>1, <4>1, <1>4
    <3>2. CASE m # l
      BY <3>2, <2>2, <1>4, <1>t DEF Queues
    <3> QED
      BY <3>1, <3>2
  <2>3. ASSUME NEW q \in Requests, at'[q] \in Waits
        PROVE  \E i \in DOMAIN waiters'[lockOf[q]] : waiters'[lockOf[q]][i] = q
    <3>1. q # r /\ at[q] \in Waits /\ lockOf[q] \in Locks
      BY <2>3, <1>q, <1>t DEF Waits, Active
    <3>2. PICK i \in DOMAIN waiters[lockOf[q]] : waiters[lockOf[q]][i] = q
      BY <3>1, <1>t DEF Queues
    <3>3. CASE lockOf[q] = l
      <4>1. i # 1 /\ i \in Nat /\ i - 1 \in DOMAIN Tail(waiters[l]) /\ (i - 1) + 1 = i
        BY <3>1, <3>2, <3>3, <1>2, <1>3
      <4>2. Tail(waiters[l])[i - 1] = q
        BY <3>2, <3>3, <4>1, <1>3
      <4>3. waiters'[l] = Tail(waiters[l])
        BY <1>1, <1>t
      <4> QED
        BY <3>3, <4>1, <4>2, <4>3
    <3>4. CASE lockOf[q] # l
      BY <3>1, <3>2, <3>4, <1>4
    <3> QED
      BY <3>3, <3>4
  <2> QED
    BY <1>1, <2>1, <2>2, <2>3 DEF Queues
<1>8. WokenFirst'
  <2> SUFFICES ASSUME NEW q \in Requests, at'[q] = "woken"
               PROVE  lockOf[q] \notin held' /\ waiters'[lockOf[q]][1] = q
    BY <1>1 DEF WokenFirst
  <2>1. q # r /\ at[q] = "woken" /\ lockOf[q] \in Locks
    BY <1>q, <1>t DEF Active, Waits
  <2>2. lockOf[q] # l
    BY <2>1, <1>2, <1>t DEF WokenFirst
  <2> QED
    BY <2>1, <2>2, <1>1, <1>4, <1>t DEF WokenFirst
<1>9. OneHolder'
  <2>1. \A q \in Requests : at'[q] \in Holds => q = r \/ at[q] \in Holds
    BY <1>q
  <2>2. \A q \in Requests : at[q] \in Holds => lockOf[q] # l
    BY <1>2, <1>t DEF OneHolder
  <2> QED
    BY <2>1, <2>2, <1>1, <1>t DEF OneHolder, l
<1>10. AskTypes'
  <2>1. \A q \in Requests : at'[q] \in Active => at[q] \in Active
    BY <1>1, <1>q DEF Active, Waits
  <2>2. held' \subseteq Locks
    BY <1>1, <1>t
  <2> QED
    BY <2>1, <2>2, <1>1, <1>4, <1>q, <1>t DEF AskInv, AskTypes
<1>11. OneLock'
  BY <1>1, <1>q, LocksKept DEF Active, Waits
<1>12. BuildsOnAll' /\ TurnsKept'
  BY <1>1, <1>q, FilesKept
<1> QED
  BY <1>7, <1>8, <1>9, <1>10, <1>11, <1>12 DEF AskInv

LEMMA RunStartsInv ==
  ASSUME AskInv, NEW r \in Requests, RunStarts(r)
  PROVE  AskInv'
<1>1. /\ at[r] = "queued" /\ at' = [at EXCEPT ![r] = "running"]
      /\ base' = [base EXCEPT ![r] = file[session[r]]]
      /\ UNCHANGED <<session, lockOf, lockTable, held, waiters, file, expired, orphaned>>
  BY DEF RunStarts
<1>t. /\ at \in [Requests -> {"new"} \cup Active \cup Ended] /\ waiters \in [Locks -> Seq(Requests)]
      /\ session \in [Requests -> Sessions] /\ file \in [Sessions -> SUBSET Requests]
      /\ base \in [Requests -> SUBSET Requests]
  BY DEF AskInv, AskTypes
<1>2. /\ \A q \in Requests : /\ at'[q] \in Waits <=> at[q] \in Waits
                             /\ at'[q] = "woken" <=> at[q] = "woken"
                             /\ at'[q] \in Holds <=> at[q] \in Holds
                             /\ at'[q] \in Active <=> at[q] \in Active
                             /\ at'[q] = "done" <=> at[q] = "done"
                             /\ at'[q] = "running" => at[q] = "running" \/ q = r
      /\ at' \in [Requests -> {"new"} \cup Active \cup Ended]
  BY <1>1, <1>t DEF Waits, Holds, Active
<1>3. AskTypes'
  BY <1>1, <1>2, <1>t DEF AskInv, AskTypes
<1>4. Queues'
  <2>1. \A m \in Locks : \A i \in DOMAIN waiters[m] : waiters[m][i] \in Requests
    BY <1>t
  <2> QED
    BY <2>1, <1>1, <1>2 DEF AskInv, Queues
<1>5. WokenFirst' /\ OneHolder' /\ OneLock'
  BY <1>1, <1>2 DEF AskInv, WokenFirst, OneHolder, OneLock
<1>6. BuildsOnAll' /\ TurnsKept'
  BY <1>1, <1>2, <1>t DEF AskInv, BuildsOnAll, TurnsKept
<1> QED
  BY <1>3, <1>4, <1>5, <1>6 DEF AskInv

\* A stream that gives up its place in a queue passes a wake-up on.
LEMMA LeaveQueueInv ==
  ASSUME AskInv, NEW r \in Requests, at[r] \in Waits,
         waiters' = [waiters EXCEPT ![lockOf[r]] = Dropped(waiters[lockOf[r]], r)],
         at' = LET left == [at EXCEPT ![r] = "gone"] IN
               IF lockOf[r] \in held THEN left ELSE Wake(left, Dropped(waiters[lockOf[r]], r)),
         UNCHANGED <<session, lockOf, lockTable, held, file, base, expired, orphaned>>
  PROVE  AskInv'
<1> DEFINE l == lockOf[r]
           queue == Dropped(waiters[l], r)
           left == [at EXCEPT ![r] = "gone"]
<1>t. /\ at \in [Requests -> {"new"} \cup Active \cup Ended] /\ waiters \in [Locks -> Seq(Requests)]
      /\ l \in Locks /\ Queues /\ WokenFirst /\ OneHolder
      /\ \A q \in Requests : at[q] \in Active => lockOf[q] \in Locks
  BY DEF AskInv, AskTypes, Active
<1>1. PICK k \in DOMAIN waiters[l] : waiters[l][k] = r
  BY <1>t DEF Queues
<1>2. /\ queue \in Seq(Requests)
      /\ \A i \in DOMAIN queue : \E j \in DOMAIN waiters[l] : queue[i] = waiters[l][j] /\ j # k
      /\ \A i, j \in DOMAIN queue : queue[i] = queue[j] => i = j
      /\ \A j \in DOMAIN waiters[l] : j # k => \E i \in DOMAIN queue : queue[i] = waiters[l][j]
      /\ k # 1 => queue # <<>> /\ queue[1] = waiters[l][1]
  <2>1. \A i, j \in DOMAIN waiters[l] : waiters[l][i] = waiters[l][j] => i = j
    BY <1>t DEF Queues
  <2>2. waiters[l] \in Seq(Requests)
    BY <1>t
  <2> HIDE DEF l
  <2>3. LET D == Dropped(waiters[l], waiters[l][k])
        IN  /\ D \in Seq(Requests)
            /\ \A i \in DOMAIN D : \E j \in DOMAIN waiters[l] : D[i] = waiters[l][j] /\ j # k
            /\ \A i, j \in DOMAIN D : D[i] = D[j] => i = j
            /\ \A j \in DOMAIN waiters[l] : j # k => \E i \in DOMAIN D : D[i] = waiters[l][j]
            /\ k # 1 => D # <<>> /\ D[1] = waiters[l][1]
    BY <2>1, <2>2, DroppedIs
  <2>4. queue = Dropped(waiters[l], waiters[l][k])
    BY <1>1
  <2> HIDE DEF queue
  <2> QED
    BY <2>3, <2>4
<1>3. \A i \in DOMAIN queue : queue[i] \in Requests /\ queue[i] # r /\ at[queue[i]] \in Waits
                              /\ lockOf[queue[i]] = l
  BY <1>1, <1>2, <1>t DEF Queues
<1>4. waiters'[l] = queue /\ \A m \in Locks \ {l} : waiters'[m] = waiters[m]
  BY <1>t
<1>5. /\ left \in [Requests -> {"new"} \cup Active \cup Ended] /\ left[r] = "gone"
      /\ \A q \in Requests \ {r} : left[q] = at[q]
  BY <1>t DEF Ended
<1>6. queue # <<>> => Head(queue) = queue[1] /\ 1 \in DOMAIN queue
  BY <1>2
<1>7. at' = IF l \in held \/ queue = <<>> THEN left ELSE [left EXCEPT ![queue[1]] = "woken"]
  BY <1>6 DEF Wake
<1>u. /\ UNCHANGED <<session, lockOf, lockTable, held, file, base, expired, orphaned>>
      /\ waiters' \in [Locks -> Seq(Requests)]
  BY <1>2, <1>t
<1> HIDE DEF queue, left, l
<1>8. /\ at' \in [Requests -> {"new"} \cup Active \cup Ended] /\ at'[r] = "gone"
      /\ \A q \in Requests \ {r} :
           \/ at'[q] = at[q]
           \/ at[q] \in Waits /\ at'[q] = "woken" /\ lockOf[q] = l /\ l \notin held /\ q = queue[1]
              /\ queue # <<>>
  BY <1>3, <1>5, <1>6, <1>7 DEF Active, Waits
<1>9. /\ \A q \in Requests : at'[q] \in Waits <=> at[q] \in Waits /\ q # r
      /\ \A q \in Requests : at'[q] \in Active => at[q] \in Active
      /\ \A q \in Requests : at'[q] \in Holds \cup {"running", "done"} => q # r /\ at'[q] = at[q]
  BY <1>8 DEF Waits, Active, Holds
<1>10. Queues'
  <2>1. ASSUME NEW m \in Locks, NEW i \in DOMAIN waiters'[m]
        PROVE  at'[waiters'[m][i]] \in Waits /\ lockOf[waiters'[m][i]] = m
    <3>1. CASE m = l
      BY <3>1, <1>3, <1>4, <1>9
    <3>2. CASE m # l
      <4>1. waiters[m][i] # r /\ waiters[m][i] \in Requests /\ waiters'[m] = waiters[m]
        BY <3>2, <1>4, <1>t DEF Queues, l
      <4>2. at[waiters[m][i]] \in Waits /\ lockOf[waiters[m][i]] = m
        BY <4>1, <1>t DEF Queues
      <4> QED
        BY <4>1, <4>2, <1>9
    <3> QED
      BY <3>1, <3>2
  <2>2. ASSUME NEW m \in Locks, NEW i \in DOMAIN waiters'[m], NEW j \in DOMAIN waiters'[m],
               waiters'[m][i] = waiters'[m][j]
        PROVE  i = j
    <3>1. CASE m = l
      BY <3>1, <2>2, <1>2, <1>4
    <3>2. CASE m # l
      BY <3>2, <2>2, <1>4, <1>t DEF Queues
    <3> QED
      BY <3>1, <3>2
  <2>3. ASSUME NEW q \in Requests, at'[q] \in Waits
        PROVE  \E i \in DOMAIN waiters'[lockOf[q]] : waiters'[lockOf[q]][i] = q
    <3>1. q # r /\ at[q] \in Waits /\ lockOf[q] \in Locks
      BY <2>3, <1>9, <1>t DEF Active
    <3>2. PICK j \in DOMAIN waiters[lockOf[q]] : waiters[lockOf[q]][j] = q
      BY <3>1, <1>t DEF Queues
    <3>3. CASE lockOf[q] = l
      BY <3>1, <3>2, <3>3, <1>1, <1>2, <1>4
    <3>4. CASE lockOf[q] # l
      BY <3>1, <3>2, <3>4, <1>4
    <3> QED
      BY <3>3, <3>4
  <2>4. lockOf' = lockOf
    BY <1>u
  <2> QED
    <3>1. \A m \in Locks : \A i \in DOMAIN waiters'[m] :
            at'[waiters'[m][i]] \in Waits /\ lockOf'[waiters'[m][i]] = m
      BY <2>1, <2>4
    <3>2. \A q \in Requests : at'[q] \in Waits =>
            \E i \in DOMAIN waiters'[lockOf'[q]] : waiters'[lockOf'[q]][i] = q
      BY <2>3, <2>4
    <3>3. \A m \in Locks : \A i, j \in DOMAIN waiters'[m] : waiters'[m][i] = waiters'[m][j] => i = j
      BY <2>2
    <3> QED
      BY <3>1, <3>2, <3>3 DEF Queues
<1>11. WokenFirst'
  <2> SUFFICES ASSUME NEW q \in Requests, at'[q] = "woken"
               PROVE  lockOf[q] \notin held /\ waiters'[lockOf[q]][1] = q
    BY <1>u DEF WokenFirst
  <2>1. q # r /\ at[q] \in Waits /\ lockOf[q] \in Locks
    BY <1>9, <1>t DEF Waits, Active
  <2>2. CASE at[q] = "woken"
    <3>1. lockOf[q] \notin held /\ waiters[lockOf[q]][1] = q
      BY <2>2, <1>t DEF WokenFirst
    <3>2. lockOf[q] = l => k # 1
      BY <2>1, <3>1, <1>1
    <3> QED
      BY <2>1, <3>1, <3>2, <1>2, <1>4
  <2>3. CASE at[q] # "woken"
    BY <2>1, <2>3, <1>4, <1>8
  <2> QED
    BY <2>2, <2>3
<1>12. OneHolder'
  BY <1>9, <1>u, <1>t DEF OneHolder
<1>13. AskTypes'
  BY <1>8, <1>9, <1>u, <1>t DEF AskInv, AskTypes
<1>14. OneLock'
  BY <1>9, <1>u, LocksKept
<1>15. BuildsOnAll' /\ TurnsKept'
  BY <1>9, <1>u, FilesKept
<1> QED
  BY <1>10, <1>11, <1>12, <1>13, <1>14, <1>15 DEF AskInv

\* A step that leaves locks and files alone and ends what nobody waits for.
LEMMA OutsideInv ==
  ASSUME AskInv, UNCHANGED <<session, lockOf, lockTable, held, waiters, file, base, expired, orphaned>>,
         at' \in [Requests -> {"new"} \cup Active \cup Ended],
         \A q \in Requests : at'[q] = at[q] \/ (at[q] = "fetched" /\ at'[q] = "gone")
  PROVE  AskInv'
<1>1. /\ \A q \in Requests : /\ at'[q] \in Waits <=> at[q] \in Waits
                             /\ at'[q] = "woken" <=> at[q] = "woken"
                             /\ at'[q] \in Holds <=> at[q] \in Holds
                             /\ at'[q] \in Active => at[q] \in Active
                             /\ at'[q] \in {"running", "done"} => at'[q] = at[q]
  BY DEF Waits, Holds, Active
<1>2. Queues'
  <2>1. \A m \in Locks : \A i \in DOMAIN waiters[m] : waiters[m][i] \in Requests
    BY DEF AskInv, AskTypes
  <2> QED
    BY <2>1, <1>1 DEF AskInv, Queues
<1>3. WokenFirst' /\ OneHolder' /\ AskTypes'
  BY <1>1 DEF AskInv, WokenFirst, OneHolder, AskTypes
<1>4. OneLock' /\ BuildsOnAll' /\ TurnsKept'
  BY <1>1, LocksKept, FilesKept
<1> QED
  BY <1>2, <1>3, <1>4 DEF AskInv

\* A lock has one holder and its queue those who wait, and a run builds on all turns answered
\* before it (api/routes.py:_get_session_lock).
THEOREM AskInvariance == AskSpec => []AskInv
<1>1. AskInv /\ [AskNext]_askVars => AskInv'
  <2> SUFFICES ASSUME AskInv, [AskNext]_askVars PROVE AskInv'
    OBVIOUS
  <2>t. /\ file \in [Sessions -> SUBSET Requests] /\ base \in [Requests -> SUBSET Requests]
        /\ at \in [Requests -> {"new"} \cup Active \cup Ended]
        /\ {"done", "failed", "gone"} \subseteq Ended
    BY DEF AskInv, AskTypes, Ended
  <2>1. ASSUME NEW r \in Requests, NEW s \in Sessions, Ask(r, s) \/ FetchForStream(r, s) PROVE AskInv'
    BY <2>1, ArriveInv
  <2>2. ASSUME NEW r \in Requests, BeginStream(r) \/ TakeLock(r) \/ RunStarts(r) PROVE AskInv'
    BY <2>2, BeginStreamInv, TakeLockInv, RunStartsInv
  <2>3. ASSUME NEW r \in Requests, RunEnds(r) PROVE AskInv'
    <3>1. /\ at[r] = "running" /\ Put(r) /\ Release(r, "done")
          /\ UNCHANGED <<session, lockOf, lockTable, base, orphaned>>
      BY <2>3 DEF RunEnds
    <3>2. file' \in [Sessions -> SUBSET Requests]
      BY <3>1, <2>t DEF Put
    <3> QED
      BY <3>1, <3>2, <2>t, RunOverInv DEF Holds
  <2>4. ASSUME NEW r \in Requests, RunFails(r) PROVE AskInv'
    <3>1. /\ at[r] = "running" /\ Release(r, "failed")
          /\ UNCHANGED <<session, lockOf, lockTable, file, base, expired, orphaned>>
      BY <2>4 DEF RunFails
    <3> QED
      BY <3>1, <2>t, RunOverInv DEF Holds
  <2>5. ASSUME NEW r \in Requests, Disconnect(r) PROVE AskInv'
    <3>1. UNCHANGED <<session, lockOf, lockTable, file, base, expired, orphaned>>
      BY <2>5 DEF Disconnect
    <3>2. CASE at[r] \in {"queued", "running"} /\ Release(r, "gone")
      BY <3>1, <3>2, <2>t, RunOverInv DEF Holds
    <3>3. CASE at[r] = "fetched" /\ at' = [at EXCEPT ![r] = "gone"] /\ UNCHANGED <<held, waiters>>
      BY <3>1, <3>3, <2>t, OutsideInv
    <3>4. CASE /\ at[r] \in {"waiting", "woken"}
               /\ waiters' = [waiters EXCEPT ![lockOf[r]] = Dropped(waiters[lockOf[r]], r)]
               /\ at' = LET left == [at EXCEPT ![r] = "gone"] IN
                        IF lockOf[r] \in held THEN left ELSE Wake(left, Dropped(waiters[lockOf[r]], r))
               /\ UNCHANGED held
      BY <3>1, <3>4, LeaveQueueInv DEF Waits
    <3> QED
      BY <2>5, <3>2, <3>3, <3>4 DEF Disconnect
  <2>6. ASSUME NEW s \in Sessions, Ages(s) PROVE AskInv'
    BY <2>6, <2>t, OutsideInv DEF Ages
  <2>7. CASE UNCHANGED askVars
    BY <2>7, <2>t, OutsideInv DEF askVars
  <2> QED
    BY <2>1, <2>2, <2>3, <2>4, <2>5, <2>6, <2>7 DEF AskNext, AskStep
<1> QED
  BY AskInitInv, <1>1, PTL DEF AskSpec

\* Turns: what a client was answered is in its session's checkpoint, whatever requests
\* race for the lock, end, fail or go away, until it expires or its lock was evicted.
THEOREM AnsweredTurnsKept == AskSpec => []TurnsKept
<1>1. AskInv => TurnsKept
  BY DEF AskInv
<1> QED
  BY <1>1, AskInvariance, PTL
=============================================================================
