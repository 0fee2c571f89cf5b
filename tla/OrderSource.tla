----------------------------- MODULE OrderSource -----------------------------
(***************************************************************************)
(* Where the pipeline's orders come from: load_orders_with_join with its   *)
(* tiers (pipeline/data_loader.py), the file cache (cache/ttl_cache.py)    *)
(* and the window of the JData set that is revealed day by day             *)
(* (pipeline/reveal_state.py), which loader, watcher and debug endpoint    *)
(* move.  Orders are numbered by date; the tables, CSV files and the shop's *)
(* orders are changed by others.  DATA_SOURCE is "tianchi", which has all   *)
(* tiers, and the reveal is switched on.                                   *)
(***************************************************************************)
EXTENDS Integers, Sequences

CONSTANTS
  MaxRows,   \* bound on the rows of MySQL
  PageSize,    \* DATA_PAGE_SIZE
  Ttl,         \* CACHE_TTL_SECONDS, in days
  Preheat, Step,    \* TIANCHI_REVEAL_PREHEAT_DAYS and _STEP
  Spans,       \* days the CSV files may span; 0: they are missing or empty
  LastDay,     \* bound on the calendar
  MaxSrcFaults    \* bound on failed reads and writes of files

ASSUME SourceAssumption ==
  /\ MaxRows \in Nat /\ PageSize \in Nat \ {0} /\ Ttl \in Nat
  /\ Preheat \in Nat /\ Step \in Nat \ {0} /\ Spans \subseteq Nat /\ LastDay \in Nat /\ MaxSrcFaults \in Nat

VARIABLES
  day,
  table,     \* rows of the table: 1..table
  cached,    \* the cache file: Missing or [rows, since]
  span,      \* days the CSV files span
  reveal,    \* tianchi_reveal.json: [revealed, total, last]
  loader,    \* the load: [pc, total, offset, rows], pc the tier it is at
  loaded,    \* its last result: [tier, rows]
  described, \* what the debug endpoint has read: a target, or Nothing
  srcFaults,
  start      \* history: [day, window] of the last initialisation or force_set

srcVars == <<day, table, cached, span, reveal, loader, loaded, described, srcFaults, start>>

Missing == [rows |-> <<>>, since |-> -1]
Nothing == -1
DefaultState == [revealed |-> 0, total |-> 0, last |-> Nothing]   \* DEFAULT_STATE
Least(a, b) == IF a < b THEN a ELSE b
Most(a, b)  == IF a > b THEN a ELSE b
SrcFault == srcFaults < MaxSrcFaults /\ srcFaults' = srcFaults + 1
Idle == [pc |-> "idle", total |-> 0, offset |-> 0, rows |-> <<>>]

SrcInit ==
  /\ day = 0
  /\ table = 1
  /\ cached = Missing
  /\ span \in Spans
  /\ reveal = DefaultState
  /\ loader = Idle
  /\ loaded = [tier |-> "none", rows |-> <<>>]
  /\ described = Nothing
  /\ srcFaults = 0
  /\ start = [day |-> 0, window |-> 0]

-----------------------------------------------------------------------------
(* _try_mysql_joined: the count, then a query of its own for every page.     *)

CountRows ==
  /\ loader.pc = "idle"
  /\ loader' = [pc |-> "mysql", total |-> table, offset |-> 0, rows |-> <<>>]
  /\ UNCHANGED <<day, table, cached, span, reveal, loaded, described, srcFaults, start>>

\* Mutant: the newest orders first.
PageNewestFirst(offset) ==
  [i \in 1..Least(PageSize, Most(0, table - offset)) |-> table + 1 - offset - i]

\* ORDER BY order_date LIMIT PageSize OFFSET offset, on the table as it is now.
Page(offset) == [i \in 1..Least(PageSize, Most(0, table - offset)) |-> offset + i]

ReadPage ==
  /\ loader.pc = "mysql" /\ loader.offset < loader.total
  /\ loader' = [loader EXCEPT !.offset = @ + PageSize, !.rows = @ \o Page(loader.offset)]
  /\ UNCHANGED <<day, table, cached, span, reveal, loaded, described, srcFaults, start>>

\* A result with rows is written to the cache file; a failed write is only logged.
MySqlDone ==
  /\ loader.pc = "mysql" /\ loader.offset >= loader.total
  /\ loaded' = [tier |-> "mysql", rows |-> loader.rows]
  /\ loader' = Idle
  /\ \/ cached' = (IF loader.rows = <<>> THEN cached ELSE [rows |-> loader.rows, since |-> day])
        /\ UNCHANGED srcFaults
     \/ SrcFault /\ cached' = Missing            \* a file cut short cannot be read
  /\ UNCHANGED <<day, table, span, reveal, described, start>>

\* The connection or a page fails: the pages so far are dropped.
MySqlFails ==
  /\ loader.pc = "mysql"
  /\ loader' = [Idle EXCEPT !.pc = "cache"]
  /\ UNCHANGED <<day, table, cached, span, reveal, loaded, described, srcFaults, start>>

\* TTLCache.get; a file that is too old is removed.
CacheHit ==
  /\ loader.pc = "cache" /\ cached # Missing /\ day - cached.since <= Ttl
  /\ loaded' = [tier |-> "cache", rows |-> cached.rows]
  /\ loader' = Idle
  /\ UNCHANGED <<day, table, cached, span, reveal, described, srcFaults, start>>

CacheMiss ==
  /\ loader.pc = "cache"
  /\ \/ cached = Missing /\ UNCHANGED <<cached, srcFaults>>
     \/ cached # Missing /\ day - cached.since > Ttl /\ cached' = Missing /\ UNCHANGED srcFaults
     \/ cached # Missing /\ SrcFault /\ UNCHANGED cached
  /\ loader' = [loader EXCEPT !.pc = "tianchi"]
  /\ UNCHANGED <<day, table, span, reveal, loaded, described, start>>

-----------------------------------------------------------------------------
(* The window.  load_state gives the file's state, or the default when it     *)
(* cannot be read.  A save that fails is as if the call had not been made.   *)

Read(s) ==
  \/ s = reveal /\ UNCHANGED srcFaults
  \/ s = DefaultState /\ reveal # DefaultState /\ SrcFault
Save(s) == reveal' = s

\* Where the calendar starts to count: at an initialisation, after a lost file included.
Started(s) == start' = [day |-> day, window |-> s.revealed]

Initialised(n) == [revealed |-> Most(1, Least(Preheat, n)), total |-> n, last |-> day]
Fitted(s, n)   == IF s.total = n THEN s ELSE [s EXCEPT !.total = n, !.revealed = Least(@, n)]

\* ensure_state on an initialised state.
Advanced(s, n) ==
  LET f == Fitted(s, n) IN
  IF f.last = Nothing THEN [f EXCEPT !.last = day]
  ELSE IF day > f.last /\ f.revealed < n
  THEN [f EXCEPT !.revealed = Least(n, @ + Step), !.last = day] ELSE f

\* _try_tianchi: without orders in the files the chain goes on, else the window is cut
\* after ensure_state, and what the shop has sold is put in.
Tianchi ==
  /\ loader.pc = "tianchi" /\ span > 0
  /\ \E s \in {reveal, DefaultState} :
       /\ Read(s)
       /\ IF s.revealed <= 0
          THEN Save(Initialised(span)) /\ Started(Initialised(span))
          ELSE Save(Advanced(s, span)) /\ UNCHANGED start
  /\ loaded' = [tier |-> "tianchi", rows |-> <<>>]
  /\ loader' = Idle
  /\ UNCHANGED <<day, table, cached, span, described>>

\* The last tier is generated.
Mock ==
  /\ loader.pc = "tianchi" /\ span = 0
  /\ loaded' = [tier |-> "mock", rows |-> <<>>]
  /\ loader' = Idle
  /\ UNCHANGED <<day, table, cached, span, reveal, described, srcFaults, start>>

\* Mutant: the watcher moves on at every poll.
MaybeAdvanceAgain ==
  /\ reveal.revealed > 0 /\ reveal.total > 0 /\ reveal.revealed < reveal.total
  /\ Save([reveal EXCEPT !.revealed = Least(reveal.total, @ + Step), !.last = day])
  /\ UNCHANGED <<day, table, cached, span, loader, loaded, described, srcFaults, start>>

\* maybe_advance, by the watcher's poll: once per day, never before the first load.
MaybeAdvance ==
  /\ reveal.revealed > 0 /\ reveal.total > 0 /\ reveal.revealed < reveal.total
  /\ reveal.last = Nothing \/ day > reveal.last
  /\ Save([reveal EXCEPT !.revealed = Least(reveal.total, @ + Step), !.last = day])
  /\ UNCHANGED <<day, table, cached, span, loader, loaded, described, srcFaults, start>>

\* POST /debug/reveal-advance reads the state under the lock and sets it under it later.
Describe ==
  /\ described = Nothing
  /\ reveal.total = 0 => reveal.revealed <= Preheat        \* a bound
  /\ described' \in (IF reveal.total > 0
       THEN {Least(Preheat, reveal.total), Least(reveal.total, reveal.revealed + 1)}
       ELSE {Preheat, reveal.revealed + 1})
  /\ UNCHANGED <<day, table, cached, span, reveal, loader, loaded, srcFaults, start>>

\* Then the pipeline's caches are cleared, the cache file included.
ForceSet ==
  /\ described # Nothing
  /\ LET n == IF reveal.total > 0 THEN Least(described, reveal.total) ELSE described
         s == [reveal EXCEPT !.revealed = n, !.last = day]
     IN Save(s) /\ Started(s)
  /\ described' = Nothing
  /\ cached' = Missing
  /\ UNCHANGED <<day, table, span, loader, loaded, srcFaults>>

-----------------------------------------------------------------------------
(* Others: a day passes, an order is made, the CSV files are replaced.       *)

DayPasses ==
  /\ day < LastDay
  /\ day' = day + 1
  /\ UNCHANGED <<table, cached, span, reveal, loader, loaded, described, srcFaults, start>>

OrderMade ==
  /\ table < MaxRows
  /\ table' = table + 1
  /\ UNCHANGED <<day, cached, span, reveal, loader, loaded, described, srcFaults, start>>

FilesReplaced ==
  /\ span' \in Spans \ {span}
  /\ SrcFault
  /\ UNCHANGED <<day, table, cached, reveal, loader, loaded, described, start>>

SrcNext ==
  \/ CountRows \/ ReadPage \/ MySqlDone \/ MySqlFails
  \/ CacheHit \/ CacheMiss \/ Tianchi \/ Mock
  \/ MaybeAdvance \/ Describe \/ ForceSet
  \/ DayPasses \/ OrderMade \/ FilesReplaced

SrcSpec == SrcInit /\ [][SrcNext]_srcVars

-----------------------------------------------------------------------------
\* Pages are queries of their own and orders are made between them: a result, from the
\* cache too, has each order once and all up to some moment, so that no user's frequency
\* or spending counts an order twice.
PagesFit == loaded.rows = [i \in 1..Len(loaded.rows) |-> i]

\* However many loads and polls a day sees, the window has grown by the calendar: at most
\* Step for each day since it was set.  And it is never wider than its data.
RevealedByCalendar ==
  /\ reveal.revealed <= start.window + Step * (day - start.day)
  /\ reveal.total > 0 => reveal.revealed <= reveal.total
=============================================================================
