---------------------------- MODULE ServiceProofs -----------------------------
(***************************************************************************)
(* The services around the agent, for any number of pipelines, pages,      *)
(* sessions and weeks: no trace stays under way after its turn             *)
(* (Orchestrator); a load that pages through a growing table has each      *)
(* order once, and the revealed window grows by the calendar               *)
(* (OrderSource); a session's rate window is what was let through          *)
(* (RateLimiter); and no Monday is left without its report (WeeklyReport). *)
(***************************************************************************)
EXTENDS Orchestrator, OrderSource, RateLimiter, WeeklyReport,
        Functions, FiniteSetTheorems, SequenceTheorems, TLAPS

-----------------------------------------------------------------------------
(* Traces.                                                                   *)

Outside == {"waits", "between", "done", "failed"}
Inside  == {"decide", "sweeps", "answered", "sweeps at the end"}

TraceTypeOK ==
  /\ place \in [Runs -> Outside \cup Inside]
  /\ session = [r \in Runs |-> session[r]]

\* A trace under way is one of a turn's session; run by run a turn ends with the trace of
\* its own session, so that it never leaves one behind that nobody else would end.
TraceInv == TraceTypeOK /\ TracesEnd

\* What Drop leaves in the domain.
LEMMA DropDomain ==
  ASSUME NEW f, NEW key
  PROVE  DOMAIN Drop(f, key) = DOMAIN f \ {key}
BY DEF Drop, Restrict

\* After finish_trace the session has no trace under way, and none is new.
LEMMA FinishTraceEnds ==
  ASSUME NEW s, NEW reply, FinishTrace(s, reply)
  PROVE  DOMAIN active' = DOMAIN active \ {s}
BY DropDomain DEF FinishTrace

\* A turn that ends with its session's trace: the other turns' traces may go on.
LEMMA TurnEnds ==
  ASSUME TraceInv, NEW r \in Runs, NEW there \in {"done", "between", "failed"},
         Go(r, there), session' = session, DOMAIN active' = DOMAIN active \ {session[r]}
  PROVE  place' \in [Runs -> Outside \cup Inside] /\ TracesEnd'
<1>t. place \in [Runs -> Outside \cup Inside]
  BY DEF TraceInv, TraceTypeOK
<1>1. place' \in [Runs -> Outside \cup Inside] /\ \A q \in Runs : q # r => place'[q] = place[q]
  BY <1>t DEF Go, Outside
<1>2. TracesEnd'
  <2> SUFFICES ASSUME NEW s \in DOMAIN active'
               PROVE  \E q \in Runs : InTurn(q)' /\ session'[q] = s
    BY DEF TracesEnd
  <2>1. PICK q \in Runs : InTurn(q) /\ session[q] = s
    BY DEF TraceInv, TracesEnd
  <2>2. q # r
    BY <2>1
  <2> QED
    BY <1>1, <2>1, <2>2 DEF InTurn
<1> QED
  BY <1>1, <1>2

\* A step within a turn or between turns, which starts no trace and ends none.
LEMMA TurnGoesOn ==
  ASSUME TraceInv, NEW r \in Runs, NEW there \in Outside \cup Inside, Go(r, there),
         InTurn(r) => there \in Inside,
         session' = session, DOMAIN active' \subseteq DOMAIN active
  PROVE  place' \in [Runs -> Outside \cup Inside] /\ TracesEnd'
<1>t. place \in [Runs -> Outside \cup Inside]
  BY DEF TraceInv, TraceTypeOK
<1>1. /\ place' \in [Runs -> Outside \cup Inside] /\ place'[r] = there
      /\ \A q \in Runs : q # r => place'[q] = place[q]
  BY <1>t DEF Go
<1>2. \A q \in Runs : InTurn(q) => InTurn(q)'
  BY <1>1 DEF InTurn, Inside
<1>3. TracesEnd'
  BY <1>2 DEF TraceInv, TracesEnd
<1> QED
  BY <1>1, <1>3

LEMMA TraceInitInv == OrchInit => TraceInv
<1> SUFFICES ASSUME OrchInit PROVE TraceInv
  OBVIOUS
<1>1. place \in [Runs -> Outside \cup Inside]
  BY DEF OrchInit, Outside
<1>2. session = [r \in Runs |-> session[r]]
  BY DEF OrchInit
<1>3. DOMAIN active = {}
  BY DEF OrchInit
<1> QED
  BY <1>1, <1>2, <1>3 DEF TraceInv, TraceTypeOK, TracesEnd

\* One step per action.
LEMMA TraceStepInv == TraceInv /\ [OrchNext]_orchVars => TraceInv'
<1> SUFFICES ASSUME TraceInv, [OrchNext]_orchVars PROVE TraceInv'
  OBVIOUS
<1>t. TraceTypeOK /\ TracesEnd
  BY DEF TraceInv
<1>1. ASSUME NEW r \in Runs, RunPipeline(r) PROVE TraceInv'
  <2>1. /\ Go(r, "between") /\ ~InTurn(r) /\ session' = session
        /\ DOMAIN active' \subseteq DOMAIN active
    BY <1>1 DEF RunPipeline, InTurn
  <2>2. place' \in [Runs -> Outside \cup Inside] /\ TracesEnd'
    BY <2>1, TurnGoesOn DEF Outside
  <2> QED
    BY <1>1, <1>t, <2>2 DEF RunPipeline, TraceInv, TraceTypeOK
<1>2. ASSUME NEW r \in Runs, StartTrace(r) PROVE TraceInv'
  <2> DEFINE s == <<traceId, phase[r]>>
  <2>1. /\ session' = [session EXCEPT ![r] = s]
        /\ active' = Put(active, s, [of |-> r, spans |-> {}])
        /\ place' = [place EXCEPT ![r] = "decide"] /\ place[r] = "between"
    BY <1>2 DEF StartTrace, Go
  <2> HIDE DEF s
  <2>3. TraceTypeOK'
    BY <2>1, <1>t DEF TraceTypeOK, Outside, Inside
  <2>4. /\ place'[r] = "decide" /\ session'[r] = s
        /\ \A q \in Runs : q # r => place'[q] = place[q] /\ session'[q] = session[q]
    BY <2>1, <1>t DEF TraceTypeOK
  <2>5. TracesEnd'
    <3> SUFFICES ASSUME NEW x \in DOMAIN active'
                 PROVE  \E q \in Runs : InTurn(q)' /\ session'[q] = x
      BY DEF TracesEnd
    <3>1. x \in DOMAIN active \/ x = s
      <4>1. DOMAIN active' = DOMAIN active \cup {s}
        BY <2>1 DEF Put
      <4> QED
        BY <4>1
    <3>2. CASE x = s
      BY <3>2, <2>4 DEF InTurn
    <3>3. CASE x \in DOMAIN active
      <4>1. PICK q \in Runs : InTurn(q) /\ session[q] = x
        BY <3>3, <1>t DEF TracesEnd
      <4>2. q # r
        BY <4>1, <2>1 DEF InTurn
      <4> QED
        BY <4>1, <4>2, <2>4 DEF InTurn
    <3> QED
      BY <3>1, <3>2, <3>3
  <2> QED
    BY <2>3, <2>5 DEF TraceInv
<1>3. ASSUME NEW r \in Runs, ListExpired(r) PROVE TraceInv'
  <2>1. PICK there \in {"sweeps", "sweeps at the end"} : Go(r, there)
    BY <1>3 DEF ListExpired
  <2>2. session' = session /\ active' = active
    BY <1>3 DEF ListExpired
  <2>3. place' \in [Runs -> Outside \cup Inside] /\ TracesEnd'
    BY <2>1, <2>2, TurnGoesOn DEF Inside
  <2> QED
    BY <2>2, <2>3, <1>t DEF TraceInv, TraceTypeOK
<1>4. ASSUME NEW r \in Runs, Forget(r) PROVE TraceInv'
  BY <1>4, <1>t DEF Forget, TraceInv, TraceTypeOK, TracesEnd, InTurn
<1>5. ASSUME NEW r \in Runs, Answer(r) PROVE TraceInv'
  <2>1. /\ Go(r, "answered") /\ session' = session
        /\ DOMAIN active' = DOMAIN active
    BY <1>5 DEF Answer
  <2>2. place' \in [Runs -> Outside \cup Inside] /\ TracesEnd'
    BY <2>1, TurnGoesOn DEF Inside
  <2> QED
    BY <2>1, <2>2, <1>t DEF TraceInv, TraceTypeOK
<1>6. ASSUME NEW r \in Runs, EndTurn(r) PROVE TraceInv'
  <2>1. /\ FinishTrace(session[r], r) /\ session' = session
        /\ Go(r, IF phase[r] = LastPhase THEN "done" ELSE "between")
    BY <1>6 DEF EndTurn
  <2>2. DOMAIN active' = DOMAIN active \ {session[r]}
    BY <2>1, FinishTraceEnds
  <2>3. PICK there \in {"done", "between", "failed"} : Go(r, there)
    BY <2>1
  <2>4. place' \in [Runs -> Outside \cup Inside] /\ TracesEnd'
    BY <2>1, <2>2, <2>3, TurnEnds
  <2> QED
    BY <2>1, <2>4, <1>t DEF TraceInv, TraceTypeOK
<1>7. ASSUME NEW r \in Runs, Fail(r) PROVE TraceInv'
  <2>1. /\ FinishTrace(session[r], "error") /\ Go(r, "failed")
        /\ session' = session
    BY <1>7 DEF Fail
  <2>2. DOMAIN active' = DOMAIN active \ {session[r]}
    BY <2>1, FinishTraceEnds
  <2>3. place' \in [Runs -> Outside \cup Inside] /\ TracesEnd'
    BY <2>1, <2>2, TurnEnds
  <2> QED
    BY <2>1, <2>3, <1>t DEF TraceInv, TraceTypeOK
<1>8. CASE HourPasses
  BY <1>8, <1>t DEF HourPasses, TraceInv, TraceTypeOK, TracesEnd, InTurn
<1>9. CASE ClearTraces
  BY <1>9, <1>t DEF ClearTraces, TraceInv, TraceTypeOK, TracesEnd, InTurn
<1>10. CASE UNCHANGED orchVars
  BY <1>10, <1>t DEF orchVars, TraceInv, TraceTypeOK, TracesEnd, InTurn
<1> QED
  BY <1>1, <1>2, <1>3, <1>4, <1>5, <1>6, <1>7, <1>8, <1>9, <1>10 DEF OrchNext, OrchStep

\* However the turns of however many pipelines interleave, answer, fail or sweep the
\* memory under one another, every trace under way belongs to a turn that is under way
\* (src/agent/tracer.py:184-207, finish_trace on every way out of a turn).
THEOREM TracesAlwaysEnd == OrchSpec => []TracesEnd
<1>1. OrchInit => TraceInv
  BY TraceInitInv
<1>2. TraceInv /\ [OrchNext]_orchVars => TraceInv'
  BY TraceStepInv
<1>3. TraceInv => TracesEnd
  BY DEF TraceInv
<1> QED
  BY <1>1, <1>2, <1>3, PTL DEF OrchSpec

-----------------------------------------------------------------------------
(* The pages.                                                               *)

\* Each order once, in order, and none left out before the last.
Numbered(s) == s \in Seq(Nat) /\ \A i \in 1..Len(s) : s[i] = i

Loads == [pc : {"idle", "mysql", "cache", "tianchi"}, total : Nat, offset : Nat, rows : Seq(Nat)]

\* As long as there are pages to come, the rows so far are those below the offset: the
\* table has only grown since the count, so that every page but the last was full.
PagesInv ==
  /\ table \in Nat
  /\ loader \in Loads
  /\ Numbered(loader.rows) /\ Numbered(cached.rows) /\ Numbered(loaded.rows)
  /\ loader.pc = "mysql" =>
       loader.total <= table /\ (loader.offset < loader.total => Len(loader.rows) = loader.offset)

LEMMA EmptyNumbered == Numbered(<<>>)
BY DEF Numbered

\* A page read where the rows end continues them.
LEMMA PageContinues ==
  ASSUME NEW s, Numbered(s), table \in Nat, Len(s) < table
  PROVE  /\ Numbered(s \o Page(Len(s)))
         /\ Len(s) + PageSize <= table => Len(s \o Page(Len(s))) = Len(s) + PageSize
<1> DEFINE n == Len(s)
           m == Least(PageSize, Most(0, table - n))
<1>1. n \in Nat /\ PageSize \in Nat /\ m \in Nat /\ (n + PageSize <= table => m = PageSize)
  BY SourceAssumption DEF Numbered, Least, Most
<1>2. Page(n) = [i \in 1..m |-> n + i]
  BY DEF Page
<1> HIDE DEF n, m
<1>3. Page(n) \in Seq(Nat) /\ Len(Page(n)) = m /\ \A i \in 1..m : Page(n)[i] = n + i
  BY <1>1, <1>2
<1>4. s \in Seq(Nat) /\ Len(s) = n /\ \A i \in 1..n : s[i] = i
  BY DEF Numbered, n
<1>5. /\ s \o Page(n) \in Seq(Nat) /\ Len(s \o Page(n)) = n + m
      /\ \A i \in 1..(n + m) : (s \o Page(n))[i] = IF i <= n THEN s[i] ELSE Page(n)[i - n]
  BY <1>1, <1>3, <1>4, ConcatProperties
<1>6. \A i \in 1..(n + m) : (s \o Page(n))[i] = i
  <2> SUFFICES ASSUME NEW i \in 1..(n + m) PROVE (s \o Page(n))[i] = i
    OBVIOUS
  <2>1. CASE i <= n
    BY <2>1, <1>1, <1>4, <1>5
  <2>2. CASE i > n
    <3>1. i - n \in 1..m
      BY <2>2, <1>1
    <3> QED
      BY <2>2, <3>1, <1>1, <1>3, <1>5
  <2>3. i \in Nat /\ n \in Nat
    BY <1>1
  <2>4. i <= n \/ i > n
    BY <2>3
  <2> QED
    BY <2>1, <2>2, <2>4
<1> QED
  BY <1>1, <1>4, <1>5, <1>6 DEF Numbered

LEMMA IdleLoad == Idle \in Loads /\ Idle.pc = "idle" /\ Idle.rows = <<>>
BY DEF Idle, Loads

LEMMA PagesInit == SrcInit => PagesInv
BY EmptyNumbered, IdleLoad DEF SrcInit, PagesInv, Missing

LEMMA PagesStep == PagesInv /\ [SrcNext]_srcVars => PagesInv'
<1> SUFFICES ASSUME PagesInv, [SrcNext]_srcVars PROVE PagesInv'
  OBVIOUS
<1> USE DEF PagesInv
<1>t. loader.total \in Nat /\ loader.offset \in Nat /\ loader.rows \in Seq(Nat) /\ table \in Nat
  BY DEF Loads
<1>1. CASE CountRows
  BY <1>1, EmptyNumbered DEF CountRows, Loads
<1>2. CASE ReadPage
  <2>1. /\ Len(loader.rows) = loader.offset /\ loader.pc = "mysql" /\ loader.offset < table
        /\ loader.offset \in Nat /\ loader.total \in Nat
        /\ loader' = [loader EXCEPT !.offset = @ + PageSize, !.rows = @ \o Page(loader.offset)]
        /\ table' = table /\ cached' = cached /\ loaded' = loaded
    BY <1>2, <1>t DEF ReadPage
  <2>2. /\ Numbered(loader.rows \o Page(loader.offset))
        /\ loader.offset + PageSize <= table =>
             Len(loader.rows \o Page(loader.offset)) = loader.offset + PageSize
    BY <2>1, PageContinues
  <2>3. loader.offset + PageSize \in Nat
    BY <2>1, SourceAssumption
  <2>4. loader.rows \o Page(loader.offset) \in Seq(Nat)
    BY <2>2 DEF Numbered
  <2>5. /\ loader' \in Loads /\ loader'.pc = "mysql" /\ loader'.total = loader.total
        /\ loader'.offset = loader.offset + PageSize
        /\ loader'.rows = loader.rows \o Page(loader.offset)
    BY <2>1, <2>3, <2>4 DEF Loads
  <2>6. loader.total <= table /\ table \in Nat /\ PageSize \in Nat
    BY <2>1, SourceAssumption
  <2>7. loader'.offset < loader'.total => Len(loader'.rows) = loader'.offset
    <3> SUFFICES ASSUME loader'.offset < loader'.total PROVE Len(loader'.rows) = loader'.offset
      OBVIOUS
    <3>1. loader.offset + PageSize < loader.total
      BY <2>5
    <3>2. loader.offset + PageSize <= table
      BY <3>1, <2>6, <1>t
    <3> QED
      BY <3>2, <2>2, <2>5
  <2> QED
    BY <2>1, <2>2, <2>5, <2>6, <2>7
<1>3. CASE MySqlDone
  BY <1>3, EmptyNumbered, IdleLoad DEF MySqlDone, Missing
<1>4. CASE MySqlFails
  <2>1. loader' \in Loads /\ loader'.pc = "cache" /\ loader'.rows = <<>>
    <3>1. loader' = [pc |-> "cache", total |-> 0, offset |-> 0, rows |-> <<>>]
      BY <1>4 DEF MySqlFails, Idle
    <3> QED
      BY <3>1 DEF Loads
  <2> QED
    BY <1>4, <2>1, EmptyNumbered DEF MySqlFails
<1>5. CASE CacheHit
  BY <1>5, EmptyNumbered, IdleLoad DEF CacheHit
<1>6. CASE CacheMiss
  <2>1. loader' \in Loads /\ loader'.pc = "tianchi" /\ loader'.rows = loader.rows
    BY <1>6 DEF CacheMiss, Loads
  <2> QED
    BY <1>6, <2>1, EmptyNumbered DEF CacheMiss, Missing
<1>7. CASE Tianchi \/ Mock
  <2>1. loader' = Idle /\ loaded'.rows = <<>> /\ UNCHANGED <<table, cached>>
    BY <1>7 DEF Tianchi, Mock
  <2> QED
    BY <2>1, EmptyNumbered, IdleLoad
<1>8. CASE MaybeAdvance \/ Describe \/ DayPasses \/ FilesReplaced
  BY <1>8 DEF MaybeAdvance, Describe, DayPasses, FilesReplaced
<1>9. CASE ForceSet
  BY <1>9, EmptyNumbered DEF ForceSet, Missing
<1>10. CASE OrderMade
  BY <1>10, <1>t DEF OrderMade
<1>11. CASE UNCHANGED srcVars
  BY <1>11 DEF srcVars
<1> QED
  BY <1>1, <1>2, <1>3, <1>4, <1>5, <1>6, <1>7, <1>8, <1>9, <1>10, <1>11 DEF SrcNext

\* A result of the loader, from the tables page by page or from the cache file, has every
\* order up to some moment exactly once, although orders are made between its pages
\* (_try_mysql_joined).
THEOREM LoadsAreWhole == SrcSpec => []PagesFit
<1>1. PagesInv => PagesFit
  <2> SUFFICES ASSUME PagesInv PROVE loaded.rows = [i \in 1..Len(loaded.rows) |-> i]
    BY DEF PagesFit
  <2>1. loaded.rows \in Seq(Nat) /\ \A i \in 1..Len(loaded.rows) : loaded.rows[i] = i
    BY DEF PagesInv, Numbered
  <2> QED
    BY <2>1
<1> QED
  BY <1>1, PagesInit, PagesStep, PTL DEF SrcSpec

-----------------------------------------------------------------------------
(* The window.                                                              *)

States == [revealed : Nat, total : Nat, last : Nat \cup {Nothing}]

\* A state of the window is paid for: it has grown by at most Step for each day from
\* the last initialisation or force_set to its last advance.
Paid(s) ==
  /\ s \in States
  /\ s.revealed > 0 =>
       /\ s.last \in start.day..day
       /\ s.revealed <= start.window + Step * (s.last - start.day)
  /\ s.total > 0 => s.revealed <= s.total

RevealInv ==
  /\ day \in Nat /\ span \in Nat /\ described \in Nat \cup {Nothing}
  /\ start.day \in 0..day /\ start.window \in Nat
  /\ Paid(reveal)

\* The days' arithmetic.
LEMMA Days ==
  ASSUME NEW a \in Nat, NEW b \in Nat
  PROVE  /\ Step * a \in Nat /\ Step * 0 = 0
         /\ a <= b => Step * a <= Step * b
         /\ a < b => Step * a + Step <= Step * b
<1>1. Step \in Nat
  BY SourceAssumption
<1>2. \A k, n, m \in Nat : k * n \in Nat /\ k * 0 = 0 /\ (n <= m => k * n <= k * m)
  BY SMT
<1>3. \A k, n \in Nat : k * (n + 1) = k * n + k
  BY SMT
<1>4. ASSUME a < b PROVE Step * a + Step <= Step * b
  <2>1. a + 1 \in Nat /\ a + 1 <= b
    BY <1>4
  <2>2. Step * (a + 1) <= Step * b
    BY <2>1, <1>1, <1>2
  <2> QED
    BY <2>2, <1>1, <1>3
<1> QED
  BY <1>1, <1>2, <1>4

\* One more step of a window whose last advance was before today.
LEMMA AdvancePaid ==
  ASSUME RevealInv, NEW s, Paid(s), s.revealed > 0, s.last < day, NEW n \in Nat,
         s.total > 0 => Least(n, s.revealed + Step) <= s.total
  PROVE  Paid([s EXCEPT !.revealed = Least(n, @ + Step), !.last = day])
<1> DEFINE a == s.last - start.day
           b == day - start.day
           t == [s EXCEPT !.revealed = Least(n, @ + Step), !.last = day]
<1>1. /\ s \in States /\ Step \in Nat /\ day \in Nat /\ start.day \in Nat /\ start.window \in Nat
      /\ s.last \in Nat /\ start.day <= s.last /\ s.revealed \in Nat
      /\ s.revealed <= start.window + Step * a
  BY SourceAssumption DEF RevealInv, Paid, States
<1>2. a \in Nat /\ b \in Nat /\ a < b
  BY <1>1
<1>3. Step * a \in Nat /\ Step * b \in Nat /\ Step * a + Step <= Step * b
  BY <1>2, Days
<1>4. Least(n, s.revealed + Step) \in Nat /\ Least(n, s.revealed + Step) <= s.revealed + Step
  BY <1>1 DEF Least
<1>5. t \in States /\ t.revealed = Least(n, s.revealed + Step) /\ t.last = day /\ t.total = s.total
  BY <1>1, <1>4 DEF States
<1> HIDE DEF a, t
<1>6. t.revealed <= start.window + Step * b
  BY <1>1, <1>3, <1>4, <1>5
<1>7. t.last \in start.day..day
  BY <1>1, <1>5 DEF RevealInv
<1>8. t.revealed <= start.window + Step * (t.last - start.day)
  BY <1>5, <1>6
<1>9. Paid(t)
  BY <1>5, <1>7, <1>8 DEF Paid
<1> QED
  BY <1>9 DEF t

\* ensure_state keeps the window paid.
LEMMA AdvancedPaid ==
  ASSUME RevealInv, NEW s, Paid(s), s.revealed > 0, NEW n \in Nat \ {0}
  PROVE  Paid(Advanced(s, n))
<1> DEFINE f == Fitted(s, n)
<1>1. Paid(f) /\ f.total = n /\ f.revealed > 0
  <2>1. CASE s.total = n
    BY <2>1 DEF Fitted
  <2>2. CASE s.total # n
    <3>1. /\ s \in States /\ f = [s EXCEPT !.total = n, !.revealed = Least(@, n)]
      BY <2>2 DEF Fitted, Paid
    <3>2. Least(s.revealed, n) \in Nat /\ Least(s.revealed, n) > 0
          /\ Least(s.revealed, n) <= s.revealed /\ Least(s.revealed, n) <= n
      BY <3>1 DEF Least, States
    <3>3. f \in States /\ f.total = n /\ f.revealed = Least(s.revealed, n) /\ f.last = s.last
      BY <3>1, <3>2 DEF States
    <3>4. s.last \in start.day..day /\ s.revealed <= start.window + Step * (s.last - start.day)
      BY DEF Paid
    <3>5. start.window + Step * (s.last - start.day) \in Nat
      <4>1. s.last - start.day \in Nat /\ start.window \in Nat
        BY <3>4 DEF RevealInv
      <4> QED
        BY <4>1, Days
    <3>6. f.revealed <= start.window + Step * (f.last - start.day)
      BY <3>1, <3>2, <3>3, <3>4, <3>5 DEF States
    <3> HIDE DEF f
    <3> QED
      BY <3>2, <3>3, <3>4, <3>6 DEF Paid
  <2> QED
    BY <2>1, <2>2
<1> HIDE DEF f
<1>2. f.last # Nothing
  BY <1>1 DEF Paid, RevealInv, Nothing
<1>3. CASE day > f.last /\ f.revealed < n
  <2>1. Least(n, f.revealed + Step) <= f.total
    BY <1>1, SourceAssumption DEF Least, Paid, States
  <2>2. Paid([f EXCEPT !.revealed = Least(n, @ + Step), !.last = day])
    BY <1>1, <1>3, <2>1, AdvancePaid
  <2> QED
    BY <1>2, <1>3, <2>2 DEF Advanced, f
<1>4. CASE ~(day > f.last /\ f.revealed < n)
  BY <1>1, <1>2, <1>4 DEF Advanced, f
<1> QED
  BY <1>3, <1>4

\* A window that has just been set owes nothing to days before.
LEMMA FreshPaid ==
  ASSUME day \in Nat, NEW s \in States, s.last = day, Started(s), day' = day,
         s.total > 0 => s.revealed <= s.total
  PROVE  start'.day \in 0..day' /\ start'.window \in Nat
         /\ (reveal' = s => Paid(reveal)')
<1>1. start' = [day |-> day, window |-> s.revealed] /\ s.revealed \in Nat
  BY DEF Started, States
<1>2. day - day = 0 /\ Step * 0 = 0
  BY Days
<1>3. ASSUME reveal' = s PROVE Paid(reveal)'
  <2>1. reveal'.last \in start'.day..day'
    BY <1>1, <1>3
  <2>2. reveal'.revealed <= start'.window + Step * (reveal'.last - start'.day)
    BY <1>1, <1>2, <1>3
  <2> QED
    BY <1>3, <2>1, <2>2 DEF Paid
<1> QED
  BY <1>1, <1>3

LEMMA RevealInit == SrcInit => RevealInv
BY SourceAssumption DEF SrcInit, RevealInv, Paid, States, DefaultState, Nothing

LEMMA RevealStep == RevealInv /\ [SrcNext]_srcVars => RevealInv'
<1> SUFFICES ASSUME RevealInv, [SrcNext]_srcVars PROVE RevealInv'
  OBVIOUS
<1>t. /\ day \in Nat /\ span \in Nat /\ described \in Nat \cup {Nothing}
      /\ start.day \in 0..day /\ start.window \in Nat /\ Paid(reveal)
      /\ reveal \in States
  BY DEF RevealInv, Paid
<1>1. CASE CountRows \/ ReadPage \/ MySqlDone \/ MySqlFails \/ CacheHit \/ CacheMiss \/ Mock \/ OrderMade
  <2>1. UNCHANGED <<day, span, reveal, described, start>>
    BY <1>1 DEF CountRows, ReadPage, MySqlDone, MySqlFails, CacheHit, CacheMiss, Mock, OrderMade
  <2> QED
    BY <2>1 DEF RevealInv, Paid
<1>2. CASE Tianchi
  <2>1. PICK s \in {reveal, DefaultState} :
          IF s.revealed <= 0
          THEN Save(Initialised(span)) /\ Started(Initialised(span))
          ELSE Save(Advanced(s, span)) /\ UNCHANGED start
    BY <1>2 DEF Tianchi
  <2>2. span \in Nat \ {0} /\ UNCHANGED <<day, span, described>>
    BY <1>2, <1>t DEF Tianchi
  <2>3. CASE s.revealed <= 0
    <3> DEFINE i == Initialised(span)
    <3>1. i \in States /\ i.last = day /\ i.revealed <= i.total
      BY <2>2, <1>t, SourceAssumption DEF Initialised, States, Most, Least
    <3>2. reveal' = i /\ Started(i)
      BY <2>1, <2>3 DEF Save
    <3> HIDE DEF i
    <3> QED
      BY <1>t, <2>2, <3>1, <3>2, FreshPaid DEF RevealInv
  <2>4. CASE ~(s.revealed <= 0)
    <3>1. s = reveal /\ s.revealed > 0
      BY <2>4, <1>t DEF DefaultState, States
    <3>2. Paid(Advanced(reveal, span))
      BY <3>1, <2>2, <1>t, AdvancedPaid
    <3>3. reveal' = Advanced(reveal, span) /\ start' = start
      BY <2>1, <2>4, <3>1 DEF Save
    <3> QED
      BY <1>t, <2>2, <3>2, <3>3 DEF RevealInv, Paid
  <2> QED
    BY <2>3, <2>4
<1>3. CASE MaybeAdvance
  <2> DEFINE s == [reveal EXCEPT !.revealed = Least(reveal.total, @ + Step), !.last = day]
  <2>1. /\ reveal.revealed > 0 /\ (reveal.last = Nothing \/ day > reveal.last)
        /\ reveal' = s /\ UNCHANGED <<day, span, described, start>>
    BY <1>3 DEF MaybeAdvance, Save
  <2>2. reveal.last < day
    BY <2>1, <1>t DEF Paid, Nothing
  <2>3. Least(reveal.total, reveal.revealed + Step) <= reveal.total /\ reveal.total \in Nat
    BY <1>t, SourceAssumption DEF Least, States
  <2>4. Paid(s)
    <3>1. reveal.total > 0 => Least(reveal.total, reveal.revealed + Step) <= reveal.total
      BY <2>3
    <3> QED
      BY <2>1, <2>2, <2>3, <3>1, <1>t, AdvancePaid
  <2> HIDE DEF s
  <2> QED
    BY <1>t, <2>1, <2>4 DEF RevealInv, Paid
<1>4. CASE Describe
  <2>1. described' \in Nat
    BY <1>4, <1>t, SourceAssumption DEF Describe, Least, States
  <2> QED
    BY <1>4, <1>t, <2>1 DEF Describe, RevealInv, Paid
<1>5. CASE ForceSet
  <2> DEFINE n == IF reveal.total > 0 THEN Least(described, reveal.total) ELSE described
             s == [reveal EXCEPT !.revealed = n, !.last = day]
  <2>1. described \in Nat /\ reveal' = s /\ Started(s) /\ described' = Nothing
        /\ UNCHANGED <<day, span>>
    BY <1>5, <1>t DEF ForceSet, Save
  <2>2. n \in Nat /\ (reveal.total > 0 => n <= reveal.total)
    BY <2>1, <1>t DEF Least, States
  <2> HIDE DEF n
  <2>3. s \in States /\ s.last = day /\ (s.total > 0 => s.revealed <= s.total)
    BY <2>2, <1>t DEF States
  <2> HIDE DEF s
  <2> QED
    BY <1>t, <2>1, <2>3, FreshPaid DEF RevealInv
<1>6. CASE DayPasses
  <2>1. day' = day + 1 /\ UNCHANGED <<span, reveal, described, start>>
    BY <1>6 DEF DayPasses
  <2>2. Paid(reveal)'
    BY <2>1, <1>t DEF Paid
  <2> QED
    BY <2>1, <2>2, <1>t DEF RevealInv
<1>7. CASE FilesReplaced
  <2>1. span' \in Nat /\ UNCHANGED <<day, reveal, described, start>>
    BY <1>7, SourceAssumption DEF FilesReplaced
  <2> QED
    BY <2>1, <1>t DEF RevealInv, Paid
<1>8. CASE UNCHANGED srcVars
  BY <1>8, <1>t DEF srcVars, RevealInv, Paid
<1> QED
  BY <1>1, <1>2, <1>3, <1>4, <1>5, <1>6, <1>7, <1>8 DEF SrcNext

\* However many loads, polls and debug requests move the window on one day, and
\* whenever the state's file is lost, the window has grown by at most Step for each day
\* since it was set, and is never wider than its data (ensure_state, maybe_advance and
\* force_set of pipeline/reveal_state.py).
THEOREM WindowFollowsCalendar == SrcSpec => []RevealedByCalendar
<1>1. RevealInv => RevealedByCalendar
  <2> SUFFICES ASSUME RevealInv PROVE RevealedByCalendar
    OBVIOUS
  <2>1. day - start.day \in Nat /\ start.window \in Nat /\ reveal \in States
    BY DEF RevealInv, Paid
  <2>2. Step * (day - start.day) \in Nat
    BY <2>1, Days
  <2>3. CASE reveal.revealed > 0
    <3>1. /\ reveal.last - start.day \in Nat /\ reveal.last - start.day <= day - start.day
          /\ reveal.revealed <= start.window + Step * (reveal.last - start.day)
      BY <2>3 DEF RevealInv, Paid
    <3>2. Step * (reveal.last - start.day) \in Nat
          /\ Step * (reveal.last - start.day) <= Step * (day - start.day)
      BY <2>1, <3>1, Days
    <3> QED
      BY <2>1, <2>2, <3>1, <3>2 DEF RevealedByCalendar, RevealInv, Paid, States
  <2>4. CASE ~(reveal.revealed > 0)
    BY <2>1, <2>2, <2>4 DEF RevealedByCalendar, RevealInv, Paid, States
  <2> QED
    BY <2>3, <2>4
<1> QED
  BY <1>1, RevealInit, RevealStep, PTL DEF SrcSpec

-----------------------------------------------------------------------------
(* The rate limiter.                                                         *)

\* Times lie before the clock, and what the limiter does not know has no entries.
RateTypes ==
  /\ clock \in Nat
  /\ known \subseteq Clients
  /\ windows \in [Clients -> SUBSET (0..(clock - 1))]
  /\ hashes \in [Clients -> SUBSET ((0..(clock - 1)) \X Questions)]
  /\ accepted \subseteq Clients \X Questions \X (0..(clock - 1))
  /\ IsFiniteSet(accepted)
  /\ forgotten \in [Clients -> Never..(clock - 1)]
  /\ \A c \in Clients \ known : windows[c] = {} /\ hashes[c] = {}

\* time.time() tells two requests apart.
TimesApart == \A a, b \in accepted : a[3] = b[3] => a = b

\* What the limiter knows of a session is what was let through: RateKept, and the same
\* for the bodies seen.
ClientKept(c) ==
  /\ Window(c) = {a[3] : a \in Let(c)}
  /\ RecentHashes(c) = {<<a[3], a[2]>> : a \in Let(c)}
  /\ Cardinality(Let(c)) <= RateLimit
  /\ \A a, b \in Let(c) : a[2] = b[2] => a = b

RateIInv == RateTypes /\ TimesApart /\ \A c \in Clients : ClientKept(c)

LEMMA RateInitial == RateInit => RateIInv
<1> SUFFICES ASSUME RateInit PROVE RateIInv
  OBVIOUS
<1> USE DEF RateInit
<1>1. RateTypes
  BY FS_EmptySet DEF RateTypes, Never
<1>2. TimesApart
  BY DEF TimesApart
<1>3. ASSUME NEW c \in Clients PROVE ClientKept(c)
  <2>1. Let(c) = {} /\ Window(c) = {} /\ RecentHashes(c) = {}
    BY <1>3 DEF Let, Window, RecentHashes
  <2> QED
    BY <2>1, FS_EmptySet, RateAssumption DEF ClientKept
<1> QED
  BY <1>1, <1>2, <1>3 DEF RateIInv

\* The sweep never drops the session whose request set it off: it was active last.
LEMMA CallerStays ==
  ASSUME RateTypes, NEW c \in Clients, Counts(c)
  PROVE  c \in known' /\ known' \subseteq known \cup {c}
<1> DEFINE seen == known \cup {c}
           w == Entered(c)
           fresh == Fresh(seen, w)
<1>1. clock \in w[c] /\ \A k \in Clients \ {c} : w[k] \subseteq 0..(clock - 1)
  BY DEF RateTypes, Entered
<1>2. c \in fresh /\ fresh \subseteq seen
  BY <1>1 DEF Fresh
<1>3. CASE known' = seen \/ known' = fresh
  BY <1>2, <1>3
<1>4. CASE /\ known' \in SUBSET fresh
           /\ Cardinality(known') = MaxWindows
           /\ \A k \in known', d \in fresh \ known' : AsRecent(w, k, d)
  <2>1. PICK k : k \in known'
    BY <1>4, FS_EmptySet, RateAssumption
  <2>2. ASSUME c \notin known' PROVE FALSE
    <3>1. PICK u \in w[k] : clock <= u
      BY <1>1, <1>2, <1>4, <2>1, <2>2 DEF AsRecent
    <3>2. k \in Clients \ {c}
      BY <1>2, <1>4, <2>1, <2>2 DEF RateTypes
    <3>3. u \in 0..(clock - 1) /\ clock \in Nat
      BY <1>1, <3>1, <3>2 DEF RateTypes
    <3> QED
      BY <3>1, <3>3
  <2> QED
    BY <1>2, <1>4, <2>2
<1> QED
  BY <1>3, <1>4 DEF Counts, Kept

\* A second later a session has what is still recent of what it had.
LEMMA ClientAges ==
  ASSUME RateTypes, NEW c \in Clients, ClientKept(c),
         clock' = clock + 1, forgotten'[c] = forgotten[c],
         \A a \in accepted : a[3] >= clock' - RateWindow => a \in accepted',
         \A a \in accepted' : a[1] = c => a \in accepted,
         Window(c) \subseteq windows'[c], windows'[c] \subseteq windows[c],
         RecentHashes(c) \subseteq hashes'[c], hashes'[c] \subseteq hashes[c]
  PROVE  ClientKept(c)'
<1> DEFINE young(t) == t >= clock' - RateWindow
<1>0. clock \in Nat /\ RateWindow \in Nat
  BY RateAssumption DEF RateTypes
<1>1. Let(c)' = {a \in Let(c) : young(a[3])}
  <2>1. \A a \in accepted : a[3] \in Int
    BY DEF RateTypes
  <2> QED
    BY <1>0, <2>1 DEF Let
<1>2. Window(c)' = {t \in Window(c) : young(t)}
  <2>1. \A t \in windows[c] : t \in Int
    BY DEF RateTypes
  <2> QED
    BY <1>0, <2>1 DEF Window
<1>3. RecentHashes(c)' = {h \in RecentHashes(c) : young(h[1])}
  <2>1. \A h \in hashes[c] : h[1] \in Int
    BY DEF RateTypes
  <2> QED
    BY <1>0, <2>1 DEF RecentHashes
<1>4. Cardinality(Let(c)') <= RateLimit
  <2>1. IsFiniteSet(Let(c)) /\ Let(c)' \in SUBSET Let(c)
    BY <1>1, FS_Subset DEF Let, RateTypes
  <2>2. Cardinality(Let(c)') \in Nat /\ Cardinality(Let(c)) \in Nat
    BY <2>1, FS_Subset, FS_CardinalityType
  <2>3. Cardinality(Let(c)') <= Cardinality(Let(c))
    BY <2>1, FS_Subset
  <2> QED
    BY <2>2, <2>3, RateAssumption DEF ClientKept
<1> HIDE DEF young
<1>5. Window(c)' = {a[3] : a \in Let(c)'}
  BY <1>1, <1>2 DEF ClientKept
<1>6. RecentHashes(c)' = {<<a[3], a[2]>> : a \in Let(c)'}
  BY <1>1, <1>3 DEF ClientKept
<1>7. \A a, b \in Let(c)' : a[2] = b[2] => a = b
  BY <1>1 DEF ClientKept
<1> QED
  BY <1>4, <1>5, <1>6, <1>7 DEF ClientKept

\* A session that the sweep drops has nothing, and counts as having had nothing.
LEMMA ClientDropped ==
  ASSUME RateTypes, NEW c \in Clients, forgotten'[c] = clock,
         \A a \in accepted' : a[1] = c => a[3] \in 0..(clock - 1),
         windows'[c] = {}, hashes'[c] = {}
  PROVE  ClientKept(c)'
<1>1. clock \in Nat
  BY DEF RateTypes
<1>2. Let(c)' = {} /\ Window(c)' = {} /\ RecentHashes(c)' = {}
  BY <1>1 DEF Let, Window, RecentHashes
<1> QED
  BY <1>2, FS_EmptySet, RateAssumption DEF ClientKept

\* The window has as many times as requests were let through.
LEMMA WindowCounts ==
  ASSUME RateTypes, TimesApart, NEW c \in Clients, ClientKept(c)
  PROVE  Cardinality(Let(c)) <= Cardinality(Window(c))
<1> DEFINE f == [a \in Let(c) |-> a[3]]
<1>1. IsFiniteSet(Window(c))
  <2>1. IsFiniteSet(0..(clock - 1))
    BY FS_Interval DEF RateTypes
  <2> QED
    BY <2>1, FS_Subset DEF Window, RateTypes
<1>2. f \in [Let(c) -> Window(c)]
  BY DEF ClientKept
<1>3. \A a, b \in Let(c) : f[a] = f[b] => a = b
  BY DEF TimesApart, Let
<1> HIDE DEF f
<1>4. f \in Injection(Let(c), Window(c))
  BY <1>2, <1>3 DEF Injection, IsInjective
<1> QED
  BY <1>1, <1>4, FS_Injection

\* An accepted request joins what is still recent, and is like none of it.
LEMMA ClientAccepted ==
  ASSUME RateTypes, TimesApart, NEW c \in Clients, ClientKept(c), NEW q \in Questions,
         clock' = clock + 1, forgotten'[c] = forgotten[c],
         accepted' = {a \in accepted : a[3] >= clock' - RateWindow} \cup {<<c, q, clock>>},
         windows'[c] = Window(c) \cup {clock},
         hashes'[c] = RecentHashes(c) \cup {<<clock, q>>},
         ~Repeated(c, q), Cardinality(Window(c)) < RateLimit
  PROVE  ClientKept(c)'
<1> DEFINE young(t) == t >= clock' - RateWindow
           new == <<c, q, clock>>
           last == IF young(clock) THEN {new} ELSE {}
<1>0. clock \in Nat /\ RateWindow \in Nat /\ forgotten[c] \in Int /\ forgotten[c] < clock
  BY RateAssumption DEF RateTypes, Never
<1>n. new[1] = c /\ new[2] = q /\ new[3] = clock
  OBVIOUS
<1>l. \A a : a \in last <=> (young(clock) /\ a = new)
  OBVIOUS
<1> HIDE DEF last, new, young
<1>1. Let(c)' = {a \in Let(c) : young(a[3])} \cup last
  <2>1. \A a \in accepted : a[3] \in Int
    BY DEF RateTypes
  <2>2. accepted' = {a \in accepted : young(a[3])} \cup {new}
    BY DEF young, new
  <2> QED
    BY <1>0, <1>n, <1>l, <2>1, <2>2 DEF Let, young
<1>2. Window(c)' = {t \in Window(c) : young(t)} \cup {a[3] : a \in last}
  <2>1. \A t \in windows[c] : t \in Int
    BY DEF RateTypes
  <2>2. {a[3] : a \in last} = IF young(clock) THEN {clock} ELSE {}
    BY <1>l, <1>n
  <2> QED
    BY <1>0, <2>1, <2>2 DEF Window, young
<1>3. RecentHashes(c)' = {h \in RecentHashes(c) : young(h[1])} \cup {<<a[3], a[2]>> : a \in last}
  <2>1. \A h \in hashes[c] : h[1] \in Int
    BY DEF RateTypes
  <2>2. {<<a[3], a[2]>> : a \in last} = IF young(clock) THEN {<<clock, q>>} ELSE {}
    BY <1>l, <1>n
  <2>3. <<clock, q>>[1] = clock
    OBVIOUS
  <2> QED
    BY <1>0, <2>1, <2>2, <2>3 DEF RecentHashes, young
<1>4. ASSUME NEW a \in Let(c) PROVE a[2] # q
  <2>1. <<a[3], a[2]>> \in RecentHashes(c)
    BY DEF ClientKept
  <2>2. <<a[3], a[2]>>[2] = a[2]
    OBVIOUS
  <2> QED
    BY <2>1, <2>2 DEF Repeated
<1>5. last \subseteq {new}
  BY <1>l
<1>6. Cardinality(Let(c)') <= RateLimit
  <2>1. IsFiniteSet(Let(c)) /\ Let(c)' \in SUBSET (Let(c) \cup {new})
    BY <1>1, <1>5, FS_Subset DEF Let, RateTypes
  <2>2. /\ IsFiniteSet(Let(c) \cup {new})
        /\ Cardinality(Let(c) \cup {new}) <= Cardinality(Let(c)) + 1
    <3>1. Cardinality(Let(c)) \in Nat
      BY <2>1, FS_CardinalityType
    <3>2. Cardinality(Let(c) \cup {new}) \in {Cardinality(Let(c)), Cardinality(Let(c)) + 1}
      BY <2>1, FS_AddElement
    <3> QED
      BY <2>1, <3>1, <3>2, FS_AddElement
  <2>3. IsFiniteSet(Let(c)') /\ Cardinality(Let(c)') <= Cardinality(Let(c) \cup {new})
    BY <2>1, <2>2, FS_Subset
  <2>4. Cardinality(Let(c)) <= Cardinality(Window(c))
    BY WindowCounts
  <2>5. IsFiniteSet(Window(c))
    <3>1. IsFiniteSet(0..(clock - 1))
      BY FS_Interval DEF RateTypes
    <3> QED
      BY <3>1, FS_Subset DEF Window, RateTypes
  <2>6. /\ Cardinality(Let(c)) \in Nat /\ Cardinality(Let(c)') \in Nat
        /\ Cardinality(Let(c) \cup {new}) \in Nat /\ Cardinality(Window(c)) \in Nat
    BY <2>1, <2>2, <2>3, <2>5, FS_CardinalityType
  <2> QED
    BY <2>2, <2>3, <2>4, <2>6, RateAssumption
<1>7. Window(c)' = {a[3] : a \in Let(c)'}
  BY <1>1, <1>2 DEF ClientKept
<1>8. RecentHashes(c)' = {<<a[3], a[2]>> : a \in Let(c)'}
  BY <1>1, <1>3 DEF ClientKept
<1>9. \A a, b \in Let(c)' : a[2] = b[2] => a = b
  BY <1>n, <1>1, <1>4, <1>5 DEF ClientKept
<1> QED
  BY <1>6, <1>7, <1>8, <1>9 DEF ClientKept

\* The three steps that touch a session, and time.
LEMMA CountedKeeps ==
  ASSUME RateIInv, NEW c \in Clients, NEW q \in Questions, Duplicate(c, q) \/ Accept(c, q),
         NEW x \in Clients
  PROVE  ClientKept(x)'
<1> USE DEF RateIInv
<1>1. /\ clock \in Nat /\ clock' = clock + 1 /\ Counts(c)
      /\ Cardinality(Window(c)) < RateLimit
      /\ forgotten' = [y \in Clients |->
           IF y \in (known \cup {c}) \ known' THEN clock ELSE forgotten[y]]
  BY DEF Duplicate, Accept, Counts, Tick, RateTypes
<1>2. c \in known' /\ known' \subseteq known \cup {c}
  BY <1>1, CallerStays
<1>3. \A a \in accepted : a[3] \in 0..(clock - 1)
  BY DEF RateTypes
<1>4. CASE x \notin known'
  <2>1. windows'[x] = {} /\ hashes'[x] = {} /\ x # c
    BY <1>2, <1>4 DEF Duplicate, Accept, Only
  <2>2. \A a \in accepted' : a[1] = x => a \in accepted
    BY <2>1 DEF Duplicate, Accept
  <2>3. CASE x \in known
    <3>1. forgotten'[x] = clock
      BY <1>1, <1>4, <2>3
    <3>2. \A a \in accepted' : a[1] = x => a[3] \in 0..(clock - 1)
      BY <1>3, <2>2
    <3> QED
      BY <2>1, <3>1, <3>2, ClientDropped
  <2>4. CASE x \notin known
    <3>1. forgotten'[x] = forgotten[x]
      BY <1>1, <2>1, <2>4
    <3>2. windows[x] = {} /\ hashes[x] = {}
      BY <2>4 DEF RateTypes
    <3>3. Window(x) = {} /\ RecentHashes(x) = {}
      BY <3>2 DEF Window, RecentHashes
    <3>4. \A a \in accepted : a[3] >= clock' - RateWindow => a \in accepted'
      BY DEF Duplicate, Accept
    <3> QED
      BY <1>1, <2>1, <2>2, <3>1, <3>2, <3>3, <3>4, ClientAges
  <2> QED
    BY <2>3, <2>4
<1>5. CASE x \in known' /\ (x # c \/ Duplicate(c, q))
  <2>1. forgotten'[x] = forgotten[x]
    BY <1>1, <1>5
  <2>2. \A a \in accepted : a[3] >= clock' - RateWindow => a \in accepted'
    BY DEF Duplicate, Accept
  <2>3. \A a \in accepted' : a[1] = x => a \in accepted
    BY <1>5 DEF Duplicate, Accept
  <2>4. windows'[x] \in {windows[x], Window(x)} /\ hashes'[x] \in {hashes[x], RecentHashes(x)}
    <3>1. x # c => windows'[x] = windows[x] /\ hashes'[x] = hashes[x]
      BY <1>5 DEF Duplicate, Accept, Only, Entered, RateTypes
    <3>2. x = c => windows'[x] = Window(x) /\ hashes'[x] = RecentHashes(x)
      BY <1>5 DEF Duplicate, Only, RateTypes
    <3> QED
      BY <3>1, <3>2
  <2>5. Window(x) \subseteq windows[x] /\ RecentHashes(x) \subseteq hashes[x]
    BY DEF Window, RecentHashes
  <2> QED
    BY <1>1, <2>1, <2>2, <2>3, <2>4, <2>5, ClientAges
<1>6. CASE x = c /\ Accept(c, q)
  <2>1. forgotten'[c] = forgotten[c]
    BY <1>1, <1>2
  <2>2. windows'[c] = Window(c) \cup {clock} /\ hashes'[c] = RecentHashes(c) \cup {<<clock, q>>}
    BY <1>2, <1>6 DEF Accept, Only, Entered, RateTypes
  <2>3. /\ accepted' = {a \in accepted : a[3] >= clock' - RateWindow} \cup {<<c, q, clock>>}
        /\ ~Repeated(c, q)
    BY <1>6 DEF Accept
  <2> QED
    BY <1>1, <1>6, <2>1, <2>2, <2>3, ClientAccepted
<1> QED
  BY <1>4, <1>5, <1>6

LEMMA RateTypesStep == RateTypes /\ [RateNext]_rateVars => RateTypes'
<1> SUFFICES ASSUME RateTypes, [RateNext]_rateVars PROVE RateTypes'
  OBVIOUS
<1>1. CASE UNCHANGED rateVars
  BY <1>1 DEF rateVars, RateTypes
<1> DEFINE Wider ==
      /\ clock' = clock + 1 /\ clock' \in Nat
      /\ 0..(clock - 1) \subseteq 0..(clock' - 1) /\ clock \in 0..(clock' - 1)
      /\ Never..(clock - 1) \subseteq Never..(clock' - 1) /\ clock \in Never..(clock' - 1)
<1>2. Tick => Wider
  BY DEF Tick, RateTypes, Never
<1>3. CASE Passes
  <2>1. Wider /\ UNCHANGED <<known, windows, hashes, accepted, forgotten>>
    BY <1>2, <1>3 DEF Passes
  <2>2. /\ windows' \in [Clients -> SUBSET (0..(clock' - 1))]
        /\ hashes' \in [Clients -> SUBSET ((0..(clock' - 1)) \X Questions)]
    BY <2>1 DEF RateTypes
  <2>3. accepted' \subseteq Clients \X Questions \X (0..(clock' - 1))
    BY <2>1 DEF RateTypes
  <2>4. forgotten' \in [Clients -> Never..(clock' - 1)]
    BY <2>1 DEF RateTypes
  <2> HIDE DEF Wider
  <2>5. clock' \in Nat
    BY <2>1 DEF Wider
  <2> QED
    BY <2>1, <2>2, <2>3, <2>4, <2>5 DEF RateTypes
<1>4. ASSUME NEW c \in Clients, Limited(c) PROVE RateTypes'
  <2>1. /\ Wider /\ UNCHANGED <<hashes, accepted, forgotten>>
        /\ known' = known \cup {c} /\ windows' = [windows EXCEPT ![c] = Window(c)]
    BY <1>2, <1>4 DEF Limited
  <2>2. /\ windows' \in [Clients -> SUBSET (0..(clock' - 1))]
        /\ hashes' \in [Clients -> SUBSET ((0..(clock' - 1)) \X Questions)]
    <3>1. Window(c) \subseteq windows[c]
      BY DEF Window
    <3> QED
      BY <2>1, <3>1 DEF RateTypes
  <2>3. accepted' \subseteq Clients \X Questions \X (0..(clock' - 1))
    BY <2>1 DEF RateTypes
  <2>4. forgotten' \in [Clients -> Never..(clock' - 1)]
    BY <2>1 DEF RateTypes
  <2>5. \A x \in Clients \ known' : windows'[x] = {} /\ hashes'[x] = {}
    BY <2>1 DEF RateTypes
  <2> HIDE DEF Wider
  <2>6. clock' \in Nat
    BY <2>1 DEF Wider
  <2> QED
    BY <2>1, <2>2, <2>3, <2>4, <2>5, <2>6 DEF RateTypes
<1>5. ASSUME NEW c \in Clients, NEW q \in Questions, Duplicate(c, q) \/ Accept(c, q)
      PROVE  RateTypes'
  <2>1. /\ Wider
        /\ forgotten' = [y \in Clients |->
             IF y \in (known \cup {c}) \ known' THEN clock ELSE forgotten[y]]
    BY <1>2, <1>5 DEF Duplicate, Accept, Counts
  <2>2. known' \subseteq Clients
    BY <1>5, CallerStays DEF Duplicate, Accept, RateTypes
  <2>3. PICK w, h :
          /\ windows' = Only(known', [windows EXCEPT ![c] = w])
          /\ hashes' = Only(known', [hashes EXCEPT ![c] = h])
          /\ w \subseteq windows[c] \cup {clock}
          /\ h \subseteq hashes[c] \cup {<<clock, q>>}
    <3>1. Window(c) \subseteq windows[c] /\ RecentHashes(c) \subseteq hashes[c]
      BY DEF Window, RecentHashes
    <3>2. CASE Duplicate(c, q)
      BY <3>1, <3>2 DEF Duplicate
    <3>3. CASE Accept(c, q)
      <4>1. windows' = Only(known', [windows EXCEPT ![c] = Window(c) \cup {clock}])
        BY <3>3 DEF Accept, Entered
      <4>2. hashes' = Only(known', [hashes EXCEPT ![c] = RecentHashes(c) \cup {<<clock, q>>}])
        BY <3>3 DEF Accept
      <4>3. /\ Window(c) \cup {clock} \subseteq windows[c] \cup {clock}
            /\ RecentHashes(c) \cup {<<clock, q>>} \subseteq hashes[c] \cup {<<clock, q>>}
        BY <3>1
      <4> QED
        BY <4>1, <4>2, <4>3
    <3> QED
      BY <1>5, <3>2, <3>3
  <2>4. windows' \in [Clients -> SUBSET (0..(clock' - 1))]
    BY <2>1, <2>3 DEF RateTypes, Only
  <2>5. hashes' \in [Clients -> SUBSET ((0..(clock' - 1)) \X Questions)]
    BY <2>1, <2>3 DEF RateTypes, Only
  <2>6. accepted' \subseteq accepted \cup {<<c, q, clock>>}
    BY <1>5 DEF Duplicate, Accept
  <2>7. accepted' \subseteq Clients \X Questions \X (0..(clock' - 1))
    BY <2>1, <2>6 DEF RateTypes
  <2>8. IsFiniteSet(accepted')
    BY <2>6, FS_AddElement, FS_Subset DEF RateTypes
  <2>9. forgotten' \in [Clients -> Never..(clock' - 1)]
    BY <2>1 DEF RateTypes
  <2>10. \A x \in Clients \ known' : windows'[x] = {} /\ hashes'[x] = {}
    BY <2>3 DEF Only
  <2>11. clock' \in Nat
    BY <2>1
  <2> HIDE DEF Wider
  <2> QED
    BY <2>2, <2>4, <2>5, <2>7, <2>8, <2>9, <2>10, <2>11 DEF RateTypes
<1> HIDE DEF Wider
<1> QED
  BY <1>1, <1>3, <1>4, <1>5 DEF RateNext

LEMMA TimesApartStep == RateTypes /\ TimesApart /\ [RateNext]_rateVars => TimesApart'
<1> SUFFICES ASSUME RateTypes, TimesApart, [RateNext]_rateVars PROVE TimesApart'
  OBVIOUS
<1>1. CASE accepted' \subseteq accepted
  BY <1>1 DEF TimesApart
<1>2. ASSUME NEW c \in Clients, NEW q \in Questions, Accept(c, q) PROVE TimesApart'
  <2>1. \A a \in accepted' : a \in accepted \/ a = <<c, q, clock>>
    BY <1>2 DEF Accept
  <2>2. \A a \in accepted : a[3] # clock
    BY DEF RateTypes
  <2>3. <<c, q, clock>>[3] = clock
    OBVIOUS
  <2> QED
    BY <2>1, <2>2, <2>3 DEF TimesApart
<1> QED
  BY <1>1, <1>2 DEF RateNext, Limited, Duplicate, Passes, rateVars

LEMMA ClientsStep ==
  ASSUME RateIInv, [RateNext]_rateVars, NEW x \in Clients PROVE ClientKept(x)'
<1> USE DEF RateIInv
<1>1. CASE UNCHANGED rateVars
  BY <1>1 DEF rateVars, ClientKept, Window, RecentHashes, Let
<1>2. Window(x) \subseteq windows[x] /\ RecentHashes(x) \subseteq hashes[x]
  BY DEF Window, RecentHashes
<1>3. CASE Passes
  BY <1>2, <1>3, ClientAges DEF Passes, Tick
<1>4. ASSUME NEW c \in Clients, Limited(c) PROVE ClientKept(x)'
  <2>1. windows'[x] \in {windows[x], Window(x)}
    BY <1>4 DEF Limited, RateTypes
  <2> QED
    BY <1>2, <1>4, <2>1, ClientAges DEF Limited, Tick
<1> QED
  BY <1>1, <1>3, <1>4, CountedKeeps DEF RateNext

\* The limiter's memory is what was let through, for any limit, window, cap and sessions.
THEOREM RateInvariance == RateSpec => []RateIInv
<1>1. RateIInv /\ [RateNext]_rateVars => RateIInv'
  BY RateTypesStep, TimesApartStep, ClientsStep DEF RateIInv
<1> QED
  BY <1>1, RateInitial, PTL DEF RateSpec

\* RateLimitMiddleware.dispatch: a window's requests are at most CHAT_RATE_LIMIT and all
\* different, and what was turned down takes no place, whatever the sweeps do in between.
THEOREM RateIsKept == RateSpec => []RateKept
<1>1. RateIInv => RateKept
  BY DEF RateIInv, ClientKept, RateKept
<1> QED
  BY <1>1, RateInvariance, PTL

-----------------------------------------------------------------------------
(* The weekly report.                                                        *)

WeekTypes ==
  /\ now \in [week : 0..(Weeks - 1), slot : 0..(Slots - 1)]
  /\ running \in BOOLEAN
  /\ next \in Int
  /\ reports \in [0..(Weeks - 1) -> SUBSET Int]
  /\ chance \subseteq 0..(Weeks - 1)

\* Where the timer of a scheduler that runs stands: it waits for this week's hour, or it
\* has passed it, and then the week has its report or making it failed.
TimerStands ==
  running =>
    /\ next \in {Week, Week + 1}
    /\ now.slot = 0 => next = Week
    /\ now.slot > 0 /\ next # Week /\ Week \notin harmed => reports[Week] # NoFile

WeekIInv == WeekTypes /\ TimerStands /\ WeekNotBlank

LEMMA WeekInitial == WeekInit => WeekIInv
<1> SUFFICES ASSUME WeekInit PROVE WeekIInv
  OBVIOUS
<1>1. now \in [week : 0..(Weeks - 1), slot : 0..(Slots - 1)]
  <2>1. 0 \in 0..(Weeks - 1)
    BY WeeklyAssumption
  <2> QED
    BY <2>1 DEF WeekInit
<1>2. reports \in [0..(Weeks - 1) -> SUBSET Int]
  BY DEF WeekInit, NoFile
<1>3. running = FALSE /\ next \in Int /\ chance = {}
  BY DEF WeekInit
<1> QED
  BY <1>1, <1>2, <1>3 DEF WeekIInv, WeekTypes, TimerStands, WeekNotBlank

LEMMA EventsAreAFile == ASSUME WeekTypes PROVE Events \subseteq Int /\ Events # NoFile
<1>1. -1 \notin Events /\ -1 \in NoFile
  BY WeeklyAssumption DEF Events, NoFile, WeekTypes
<1>2. Events \subseteq Int
  BY WeeklyAssumption DEF Events, WeekTypes
<1> QED
  BY <1>1, <1>2

\* A file once made stays a file; this week has one after generate_weekly_report.
LEMMA GeneratedFile ==
  ASSUME WeekTypes, NEW force \in BOOLEAN
  PROVE  /\ Generated(force) \in [0..(Weeks - 1) -> SUBSET Int]
         /\ Generated(force)[Week] # NoFile
         /\ \A w \in 0..(Weeks - 1) : reports[w] # NoFile => Generated(force)[w] # NoFile
<1>1. Week \in 0..(Weeks - 1)
  BY DEF WeekTypes, Week
<1>2. [reports EXCEPT ![Week] = Events] \in [0..(Weeks - 1) -> SUBSET Int]
  BY <1>1, EventsAreAFile DEF WeekTypes
<1> QED
  BY <1>1, <1>2, EventsAreAFile DEF WeekTypes, Generated

LEMMA FailedFile ==
  ASSUME WeekTypes, NEW died \in BOOLEAN, GenerationFails(died)
  PROVE  /\ reports' \in [0..(Weeks - 1) -> SUBSET Int]
         /\ \A w \in 0..(Weeks - 1) : reports[w] # NoFile => reports'[w] # NoFile
         /\ harmed' = harmed \cup {Week} /\ running' = ~died
<1>1. Week \in 0..(Weeks - 1)
  BY DEF WeekTypes, Week
<1>2. [reports EXCEPT ![Week] = {}] \in [0..(Weeks - 1) -> SUBSET Int]
  BY <1>1 DEF WeekTypes
<1> QED
  BY <1>1, <1>2 DEF GenerationFails, WeekTypes, NoFile

\* The steps that only make a report, or try to.
LEMMA ReportStep ==
  ASSUME WeekIInv, Start \/ Timer \/ Stop \/ (\E force \in BOOLEAN : Trigger(force))
  PROVE  WeekIInv'
<1> USE DEF WeekIInv
<1>1. Week \in Int /\ now.slot \in Nat /\ UNCHANGED <<now, chance, Week>>
  <2>1. now.week \in 0..(Weeks - 1) /\ now.slot \in 0..(Slots - 1)
    BY DEF WeekTypes
  <2>2. Week \in Int /\ now.slot \in Nat
    BY <2>1, WeeklyAssumption DEF Week
  <2>3. UNCHANGED <<now, chance>>
    BY DEF Start, Timer, Stop, Trigger
  <2> QED
    BY <2>2, <2>3 DEF Week
<1>2. NextReport \in Int /\ NextReport \in {Week, Week + 1} /\ (now.slot = 0 => NextReport = Week)
      /\ (now.slot > 0 => NextReport = Week + 1)
  BY <1>1 DEF NextReport
<1>3. /\ reports' \in [0..(Weeks - 1) -> SUBSET Int]
      /\ \A w \in 0..(Weeks - 1) : reports[w] # NoFile => reports'[w] # NoFile
      /\ harmed \subseteq harmed'
  BY GeneratedFile, FailedFile DEF Start, Timer, Stop, Trigger, WeekTypes
<1>4. WeekTypes'
  <2>1. running' \in BOOLEAN /\ next' \in Int
    BY <1>2, FailedFile DEF Start, Timer, Stop, Trigger, WeekTypes
  <2> QED
    BY <1>1, <1>3, <2>1 DEF WeekTypes
<1>5. WeekNotBlank'
  BY <1>1, <1>3 DEF WeekNotBlank, WeekTypes
<1>6. TimerStands'
  <2>1. CASE Stop
    BY <2>1 DEF Stop, TimerStands
  <2>2. CASE \E force \in BOOLEAN : Trigger(force)
    BY <1>1, <2>2, GeneratedFile DEF Trigger, TimerStands
  <2>3. CASE Start \/ Timer
    <3>1. next' = NextReport
      BY <2>3 DEF Start, Timer
    <3>2. ASSUME now.slot > 0 PROVE Week \in harmed' \/ reports'[Week] # NoFile
      BY <2>3, <3>2, GeneratedFile, FailedFile DEF Start, Timer, Passed
    <3> QED
      BY <1>1, <1>2, <3>1, <3>2 DEF TimerStands
  <2> QED
    BY <2>1, <2>2, <2>3
<1> QED
  BY <1>4, <1>5, <1>6

\* When a slot ends the timer has been served.
LEMMA SlotStep == ASSUME WeekIInv, SlotEnds PROVE WeekIInv'
<1> USE DEF WeekIInv
<1>1. /\ now' = IF now.slot < Slots - 1 THEN [now EXCEPT !.slot = @ + 1]
                ELSE [week |-> now.week + 1, slot |-> 0]
      /\ now'.week < Weeks /\ ~TimerDue
      /\ chance' = IF running /\ now.slot > 0 THEN chance \cup {Week} ELSE chance
      /\ UNCHANGED <<running, next, reports, harmed>>
  BY DEF SlotEnds
<1>2. now.week \in 0..(Weeks - 1) /\ now.slot \in 0..(Slots - 1) /\ Slots \in Nat \ {0, 1} /\ Weeks \in Nat
  BY WeeklyAssumption DEF WeekTypes
<1>3. running /\ now.slot > 0 => next = now.week + 1
  BY <1>1, <1>2 DEF TimerDue, TimerStands, Week
<1>4. now' = [week |-> now'.week, slot |-> now'.slot] /\ now'.slot \in 0..(Slots - 1)
      /\ now'.week \in {now.week, now.week + 1}
      /\ (now'.week = now.week => now'.slot = now.slot + 1)
      /\ (now'.week # now.week => now'.slot = 0 /\ now.slot = Slots - 1)
  <2>1. CASE now.slot < Slots - 1
    <3>1. now' = [week |-> now.week, slot |-> now.slot + 1]
      BY <1>1, <2>1 DEF WeekTypes
    <3> QED
      BY <1>2, <2>1, <3>1
  <2>2. CASE ~ (now.slot < Slots - 1)
    <3>1. now' = [week |-> now.week + 1, slot |-> 0]
      BY <1>1, <2>2
    <3> QED
      BY <1>2, <2>2, <3>1
  <2> QED
    BY <2>1, <2>2
<1>5. WeekTypes'
  <2>1. now'.week \in 0..(Weeks - 1)
    BY <1>1, <1>2, <1>4
  <2>2. chance' \subseteq 0..(Weeks - 1)
    BY <1>1, <1>2 DEF WeekTypes, Week
  <2> QED
    BY <1>1, <1>4, <2>1, <2>2 DEF WeekTypes
<1>6. WeekNotBlank'
  <2>1. running /\ now.slot > 0 /\ Week \notin harmed => reports[Week] # NoFile
    BY <1>2, <1>3 DEF TimerStands, Week
  <2> QED
    BY <1>1, <2>1 DEF WeekNotBlank
<1>7. TimerStands'
  <2> SUFFICES ASSUME running
               PROVE  /\ next \in {now'.week, now'.week + 1}
                      /\ now'.slot = 0 => next = now'.week
                      /\ now'.slot > 0 /\ next # now'.week /\ now'.week \notin harmed
                           => reports[now'.week] # NoFile
    BY <1>1 DEF TimerStands, Week
  <2>1. CASE now'.week # now.week
    BY <1>2, <1>3, <1>4, <2>1
  <2>2. CASE now'.week = now.week
    BY <1>2, <1>4, <2>2 DEF TimerStands, Week
  <2> QED
    BY <2>1, <2>2
<1> QED
  BY <1>5, <1>6, <1>7

\* Timer, calendar and files agree, for any calendar and any stops and failures.
THEOREM WeekInvariance == WeekSpec => []WeekIInv
<1>1. WeekIInv /\ UNCHANGED weekVars => WeekIInv'
  BY DEF weekVars, WeekIInv, WeekTypes, TimerStands, WeekNotBlank, Week
<1>2. WeekIInv /\ [WeekNext]_weekVars => WeekIInv'
  BY <1>1, ReportStep, SlotStep DEF WeekNext
<1> QED
  BY <1>2, WeekInitial, PTL DEF WeekSpec

\* "A Monday that was missed does not leave the week blank" (watcher/weekly_report.py).
THEOREM NoWeekBlank == WeekSpec => []WeekNotBlank
<1>1. WeekIInv => WeekNotBlank
  BY DEF WeekIInv
<1> QED
  BY <1>1, WeekInvariance, PTL
=============================================================================
