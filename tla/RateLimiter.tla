----------------------------- MODULE RateLimiter -----------------------------
(***************************************************************************)
(* RateLimitMiddleware of api/middleware.py: per session a sliding window  *)
(* of accepted requests and of the bodies last seen, and the sweep that    *)
(* bounds the memory both take.  dispatch awaits only before and after, so *)
(* a request is one step.                                                  *)
(***************************************************************************)
EXTENDS Integers, FiniteSets

CONSTANTS
  Clients,          \* session ids
  Questions,        \* bodies of requests, by hash
  RateLimit,        \* CHAT_RATE_LIMIT
  RateWindow,       \* CHAT_RATE_WINDOW
  CleanupInterval,  \* _CLEANUP_INTERVAL
  MaxWindows,       \* _MAX_WINDOW_ENTRIES
  LastSecond        \* bound on the clock

ASSUME RateAssumption ==
  /\ RateLimit \in Nat \ {0} /\ RateWindow \in Nat
  /\ CleanupInterval \in Nat \ {0} /\ MaxWindows \in Nat \ {0}

VARIABLES
  clock,
  known,     \* the sessions of _windows
  windows,   \* _windows: per session the times of accepted requests
  hashes,    \* _query_hashes: per session <<time, question>>
  counted,   \* _request_count, modulo the interval
  accepted,  \* history: <<session, question, time>> of requests that were let through
  forgotten  \* history: per session, when the sweep last dropped it

rateVars == <<clock, known, windows, hashes, counted, accepted, forgotten>>

Never == -1

RateInit ==
  /\ clock = 0
  /\ known = {}
  /\ windows = [c \in Clients |-> {}] /\ hashes = [c \in Clients |-> {}]
  /\ counted = 0
  /\ accepted = {}
  /\ forgotten = [c \in Clients |-> Never]

\* What is left after the expired entries are popped from the left.
Window(c)       == {t \in windows[c] : t >= clock - RateWindow}
RecentHashes(c) == {h \in hashes[c] : h[1] >= clock - RateWindow}

-----------------------------------------------------------------------------
(* _cleanup_stale_sessions.                                                  *)

\* By _last_activity, which is lowest for an empty window.
AsRecent(w, k, d) == \A t \in w[d] : \E u \in w[k] : t <= u

\* Sessions whose window and hashes are both empty go in any case.
Fresh(seen, w) == {c \in seen : w[c] # {} \/ hashes[c] # {}}

\* Above the cap the sessions that were active last stay: what can be left of them.
Kept(fresh, w) ==
  IF Cardinality(fresh) <= MaxWindows THEN {fresh}
  ELSE {K \in SUBSET fresh :
          /\ Cardinality(K) = MaxWindows
          /\ \A k \in K, d \in fresh \ K : AsRecent(w, k, d)}

\* A session that goes leaves nothing behind.
Only(K, f) == [c \in Clients |-> IF c \in K THEN f[c] ELSE {}]

-----------------------------------------------------------------------------
(* dispatch of a request of session c with body q.  time.time() tells any   *)
(* two requests apart.                                                      *)

Tick == clock < LastSecond /\ clock' = clock + 1

\* The window is full: 429.
Limited(c) ==
  /\ Tick
  /\ Cardinality(Window(c)) >= RateLimit
  /\ known' = known \cup {c}
  /\ windows' = [windows EXCEPT ![c] = Window(c)]
  /\ UNCHANGED <<hashes, counted, accepted, forgotten>>

\* The request is entered, and every CleanupInterval-th one cleans up.
Entered(c) == [windows EXCEPT ![c] = Window(c) \cup {clock}]

Counts(c) ==
  /\ Tick
  /\ Cardinality(Window(c)) < RateLimit
  /\ counted' = (counted + 1) % CleanupInterval
  /\ LET seen == known \cup {c}
     IN /\ known' \in IF counted' = 0 THEN Kept(Fresh(seen, Entered(c)), Entered(c)) ELSE {seen}
        /\ forgotten' = [x \in Clients |-> IF x \in seen \ known' THEN clock ELSE forgotten[x]]

Repeated(c, q) == \E h \in RecentHashes(c) : h[2] = q

\* Mutant: the request that was turned down stays in the window.
DuplicateCounted(c, q) ==
  /\ Counts(c)
  /\ Repeated(c, q)
  /\ windows' = Only(known', Entered(c))
  /\ hashes' = Only(known', [hashes EXCEPT ![c] = RecentHashes(c)])
  /\ UNCHANGED accepted

\* A body of the window again: 429, and the request leaves the window.
Duplicate(c, q) ==
  /\ Counts(c)
  /\ Repeated(c, q)
  /\ windows' = Only(known', [windows EXCEPT ![c] = Window(c)])
  /\ hashes' = Only(known', [hashes EXCEPT ![c] = RecentHashes(c)])
  /\ UNCHANGED accepted

Accept(c, q) ==
  /\ Counts(c)
  /\ ~Repeated(c, q)
  /\ windows' = Only(known', Entered(c))
  /\ hashes' = Only(known', [hashes EXCEPT ![c] = RecentHashes(c) \cup {<<clock, q>>}])
  /\ accepted' = {a \in accepted : a[3] >= clock' - RateWindow} \cup {<<c, q, clock>>}

Passes ==
  /\ Tick
  /\ UNCHANGED <<known, windows, hashes, counted, accepted, forgotten>>

RateNext ==
  \/ \E c \in Clients : Limited(c)
  \/ \E c \in Clients, q \in Questions : Duplicate(c, q) \/ Accept(c, q)
  \/ Passes

RateSpec == RateInit /\ [][RateNext]_rateVars

-----------------------------------------------------------------------------
\* Requests of c that were let through in the window that ends now, since the sweep last
\* dropped what was known of it.
Let(c) == {a \in accepted : a[1] = c /\ a[3] >= clock - RateWindow /\ a[3] > forgotten[c]}

\* A session's window is exactly what was let through: at most CHAT_RATE_LIMIT requests,
\* no two alike, and what was turned down, for whatever reason, takes no place in it.
RateKept ==
  \A c \in Clients :
    /\ Window(c) = {a[3] : a \in Let(c)}
    /\ Cardinality(Let(c)) <= RateLimit
    /\ \A a, b \in Let(c) : a[2] = b[2] => a = b

=============================================================================
