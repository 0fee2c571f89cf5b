---------------------------- MODULE PipelineCache ----------------------------
(***************************************************************************)
(* The process-wide result of the data pipeline, shared by threads:        *)
(* _load_and_process and invalidate_pipeline_cache of                      *)
(* skills/user_segment.py, their callers, and the fingerprint by which the *)
(* watcher decides to recompute (watcher/engine.py, poll_once).            *)
(*                                                                         *)
(* Chat tools run in executor threads, HTTP handlers and the watcher on    *)
(* the event loop's thread; the lock covers the fast path, the publication *)
(* and the invalidation, but neither the computation nor the reads of the  *)
(* return statement.  WatcherPoll takes a computation as one step.         *)
(***************************************************************************)
EXTENDS Integers

CONSTANTS
  Readers,     \* threads that call _load_and_process()
  Refreshers,  \* threads that invalidate first: refresh_pipeline, ?force=true
  Poll,        \* the watcher's poll
  MaxVersion   \* bound: changes of the order data

Workers  == Readers \cup Refreshers \cup {Poll}
Versions == 0..MaxVersion
NoVersion     == -1
Empty    == [rfm |-> NoVersion, rules |-> NoVersion]
Whole    == {[rfm |-> v, rules |-> v] : v \in Versions}

ASSUME CacheAssumption ==
  /\ MaxVersion \in Nat
  /\ Readers \cap Refreshers = {} /\ Poll \notin Readers \cup Refreshers

VARIABLES
  data,    \* version of the order data
  cache,   \* _cached_rfm (and _cached_segments, the same object), _cached_rules
  fresh,   \* age of _cached_at below PIPELINE_CACHE_TTL
  place,      \* where a worker is
  inHand,    \* version of the object a worker has in hand
  torn,    \* history: a call that computed has raised or returned parts of two results
  polled,  \* fp of the poll under way
  lastFp,  \* _last_fingerprint
  newest   \* history: the newest version ever published

cacheVars == <<data, cache, fresh, place, inHand, torn, polled, lastFp, newest>>

CacheInit ==
  /\ data = 0
  /\ cache = Empty
  /\ fresh = FALSE
  /\ place = [w \in Workers |-> "idle"]
  /\ inHand = [w \in Workers |-> NoVersion]
  /\ torn = FALSE
  /\ polled = NoVersion
  /\ lastFp = NoVersion
  /\ newest = NoVersion

\* Mutant: the TTL is not looked at.
ValidAtAnyAge == cache # Empty

\* The fast path's condition; the "very fresh" second check never adds to it.
Valid == cache # Empty /\ fresh

Goto(w, label) == place' = [place EXCEPT ![w] = label]

\* Mutant: the fingerprint is read when the poll is through.
RememberLate(w) == lastFp' = IF w = Poll THEN data ELSE lastFp

\* A poll that ends without an exception remembers the fingerprint it read first.
Remember(w) == lastFp' = IF w = Poll THEN polled ELSE lastFp

-----------------------------------------------------------------------------
(* The callers.                                                             *)

\* A call without force may begin: a tool's at any time, the poll's after it
\* read the fingerprint.
MayCall(w) == place[w] = "ask" \/ (w \in Readers /\ place[w] = "idle")

\* data_fingerprint; a changed one forces the computation.
PollBegins ==
  /\ place[Poll] = "idle"
  /\ polled' = data
  /\ Goto(Poll, IF data # lastFp THEN "load" ELSE "ask")
  /\ UNCHANGED <<data, cache, fresh, inHand, torn, lastFp, newest>>

\* invalidate_pipeline_cache, then a forced call.
Invalidate(w) ==
  /\ w \in Refreshers
  /\ place[w] = "idle"
  /\ cache' = Empty
  /\ fresh' = FALSE
  /\ Goto(w, "load")
  /\ UNCHANGED <<data, inHand, torn, polled, lastFp, newest>>

-----------------------------------------------------------------------------
(* _load_and_process.                                                       *)

\* The fast path copies all three objects under the lock.
Hit(w) ==
  /\ MayCall(w)
  /\ Valid
  /\ Goto(w, "idle")
  /\ Remember(w)
  /\ UNCHANGED <<data, cache, fresh, inHand, torn, polled, newest>>

Miss(w) ==
  /\ MayCall(w)
  /\ ~Valid
  /\ Goto(w, "load")
  /\ UNCHANGED <<data, cache, fresh, inHand, torn, polled, lastFp, newest>>

\* load_orders_with_join takes the data as it is now; the computation and
\* save_snapshot follow, outside the lock.
Load(w) ==
  /\ place[w] = "load"
  /\ inHand' = [inHand EXCEPT ![w] = data]
  /\ Goto(w, "publish")
  /\ UNCHANGED <<data, cache, fresh, torn, polled, lastFp, newest>>

\* DatabaseError or ComputationError: the caller gets the exception, the cache
\* stays, a poll keeps its old fingerprint.
LoadFails(w) ==
  /\ place[w] = "load"
  /\ Goto(w, "idle")
  /\ UNCHANGED <<data, cache, fresh, inHand, torn, polled, lastFp, newest>>

\* Mutant: the rules are kept.
PublishUsersOnly(w) ==
  /\ place[w] = "publish"
  /\ cache' = [cache EXCEPT !.rfm = inHand[w]]
  /\ fresh' = TRUE
  /\ newest' = IF inHand[w] > newest THEN inHand[w] ELSE newest
  /\ inHand' = [inHand EXCEPT ![w] = NoVersion]
  /\ Goto(w, "return")
  /\ UNCHANGED <<data, torn, polled, lastFp>>

\* The last to publish wins, however long ago it loaded its data and whatever
\* was published or invalidated since.
Publish(w) ==
  /\ place[w] = "publish"
  /\ cache' = [rfm |-> inHand[w], rules |-> inHand[w]]
  /\ fresh' = TRUE
  /\ newest' = IF inHand[w] > newest THEN inHand[w] ELSE newest
  /\ inHand' = [inHand EXCEPT ![w] = NoVersion]
  /\ Goto(w, "return")
  /\ UNCHANGED <<data, torn, polled, lastFp>>

\* The return statement reads the globals one after the other, without the lock;
\* on NoVersion the copy raises.
ReturnUsers(w) ==
  /\ place[w] = "return"
  /\ inHand' = [inHand EXCEPT ![w] = cache.rfm]
  /\ torn' = (torn \/ cache.rfm = NoVersion)
  /\ Goto(w, IF cache.rfm = NoVersion THEN "idle" ELSE "rules")
  /\ UNCHANGED <<data, cache, fresh, polled, lastFp, newest>>

ReturnRules(w) ==
  /\ place[w] = "rules"
  /\ torn' = (torn \/ cache.rules # inHand[w])
  /\ inHand' = [inHand EXCEPT ![w] = NoVersion]
  /\ Goto(w, "idle")
  /\ IF cache.rules = NoVersion THEN UNCHANGED lastFp ELSE Remember(w)
  /\ UNCHANGED <<data, cache, fresh, polled, newest>>

-----------------------------------------------------------------------------
DataChanges ==
  /\ data < MaxVersion
  /\ data' = data + 1
  /\ UNCHANGED <<cache, fresh, place, inHand, torn, polled, lastFp, newest>>

\* PIPELINE_CACHE_TTL has passed since the publication.
Expire ==
  /\ fresh
  /\ fresh' = FALSE
  /\ UNCHANGED <<data, cache, place, inHand, torn, polled, lastFp, newest>>

WorkerStep(w) ==
  \/ Hit(w) \/ Miss(w) \/ Load(w) \/ LoadFails(w) \/ Publish(w)
  \/ ReturnUsers(w) \/ ReturnRules(w)

CacheNext ==
  \/ \E w \in Workers : WorkerStep(w) \/ Invalidate(w)
  \/ PollBegins \/ DataChanges \/ Expire

CacheSpec == CacheInit /\ [][CacheNext]_cacheVars

\* Threads are scheduled and time passes; nobody is obliged to call.
CacheFairSpec ==
  /\ CacheSpec
  /\ \A w \in Workers : WF_cacheVars(place[w] # "idle" /\ WorkerStep(w))
  /\ WF_cacheVars(Expire)

-----------------------------------------------------------------------------
(* Properties.                                                              *)

CacheTypeOK ==
  /\ data \in Versions
  /\ cache \in [rfm : Versions \cup {NoVersion}, rules : Versions \cup {NoVersion}]
  /\ fresh \in BOOLEAN
  /\ fresh => cache # Empty
  /\ place \in [Workers -> {"idle", "ask", "load", "publish", "return", "rules"}]
  /\ inHand \in [Workers -> Versions \cup {NoVersion}]
  /\ torn \in BOOLEAN
  /\ polled \in Versions \cup {NoVersion}
  /\ lastFp \in Versions \cup {NoVersion}
  /\ newest \in Versions \cup {NoVersion}

\* Whoever takes the lock finds users and rules of one computation, or nothing.
CacheWhole == cache \in Whole \cup {Empty}

\* The watcher never holds a change for done that nobody has computed yet: the
\* fingerprint is read before the data, so a change between the two is found by
\* the next poll.
FingerprintNotAhead == lastFp <= newest

\* A result computed from old data may be published last and be served; once
\* the data stays as it is, such reads end, the fingerprint notwithstanding.
StaleReadsEnd == <>[][\A w \in Workers : Hit(w) => cache.rfm = data]_cacheVars

\* Not true: a call that computed returns one whole result, whatever the other
\* threads do.
ResultsWhole == ~torn
=============================================================================
