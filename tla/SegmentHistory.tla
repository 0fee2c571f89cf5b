--------------------------- MODULE SegmentHistory ---------------------------
(***************************************************************************)
(* Snapshots of the segments and what is read out of them: save_snapshot   *)
(* with its retention, load_snapshots (pipeline/user_segmentation.py), the *)
(* growth and trend skills (skills/user_segment.py) and the growth of a    *)
(* segment (pipeline/profile.py).  The poll loop and a question's thread   *)
(* compute and save side by side, outside every lock; a process may die    *)
(* while a file is written.  A file's name holds its second.               *)
(***************************************************************************)
EXTENDS Integers, Sequences, FiniteSets

CONSTANTS
  Sizes,       \* the sizes of the segments a computation may find: sequences of Nat
  Keep,        \* SNAPSHOT_KEEP, not 0
  Month,       \* seconds of a month
  TrendLast,   \* snapshots the trend lists
  LastMoment   \* bound on the clock

ASSUME HistoryAssumption ==
  /\ Sizes \subseteq Seq(Nat) /\ Keep \in Nat \ {0} /\ Month \in Nat \ {0}
  /\ TrendLast \in Nat \ {0} /\ LastMoment \in Nat

VARIABLES
  moment,   \* the second
  snapFiles,    \* the snapshot directory: [0..LastMoment -> Sizes, Broken or Absent]
  taken,    \* history: seconds whose snapshot was written whole
  computed, \* the pipeline cache holds a result
  worker,   \* per thread: [pc, sizes, at]
  reader    \* the question: [pc, periods, forced, listed, known, answer]

histVars == <<moment, snapFiles, taken, computed, worker, reader>>

Savers == {"poll", "ask"}
NoFileYet == <<-1>>
Broken == <<-2>>    \* opened for writing, its pickle not dumped
NoPeriod == -1
NoAnswer == [kind |-> "none"]

Resting == [pc |-> "idle", sizes |-> <<>>, at |-> 0]
NotAsked == [pc |-> "idle", periods |-> <<>>, forced |-> FALSE, listed |-> {}, known |-> {}, answer |-> NoAnswer]

HistInit ==
  /\ moment = 0
  /\ snapFiles = [s \in 0..LastMoment |-> NoFileYet]
  /\ taken = {}
  /\ computed = FALSE
  /\ worker = [t \in Savers |-> Resting]
  /\ reader = NotAsked

-----------------------------------------------------------------------------
(* Computing: _load_and_process past its cache *)

\* The poll loop computes when it likes, the question when its skill asks for it.
Compute(t) ==
  /\ worker[t].pc = "idle"
  /\ t = "ask" => reader.pc = "compute"
  /\ \E sizes \in Sizes : worker' = [worker EXCEPT ![t] = [pc |-> "save", sizes |-> sizes, at |-> 0]]
  /\ UNCHANGED <<moment, snapFiles, taken, computed, reader>>

\* save_snapshot takes the time and opens its file, which empties one of the same second ...
OpenFile(t) ==
  /\ worker[t].pc = "save"
  /\ snapFiles' = [snapFiles EXCEPT ![moment] = Broken]
  /\ taken' = taken \ {moment}
  /\ worker' = [worker EXCEPT ![t].pc = "dump", ![t].at = moment]
  /\ UNCHANGED <<moment, computed, reader>>

\* ... dumps the snapshot, into nothing if the other's retention has removed the file ...
DumpFile(t) ==
  /\ worker[t].pc = "dump"
  /\ IF snapFiles[worker[t].at] = NoFileYet THEN UNCHANGED <<snapFiles, taken>>
     ELSE /\ snapFiles' = [snapFiles EXCEPT ![worker[t].at] = worker[t].sizes]
          /\ taken' = taken \cup {worker[t].at}
  /\ worker' = [worker EXCEPT ![t].pc = "clean"]
  /\ UNCHANGED <<moment, computed, reader>>

Listed == {s \in 0..LastMoment : snapFiles[s] # NoFileYet}

\* Mutant: newest first.
InReverse(seconds) ==
  [i \in 1..Cardinality(seconds) |-> CHOOSE s \in seconds : Cardinality({u \in seconds : u > s}) = i - 1]

\* sorted(os.listdir): by name, which is by time.
InOrder(seconds) ==
  [i \in 1..Cardinality(seconds) |-> CHOOSE s \in seconds : Cardinality({u \in seconds : u < s}) = i - 1]

\* ... and removes the oldest snapFiles beyond Keep; the result is published.
RemoveOldest(t) ==
  /\ worker[t].pc = "clean"
  /\ LET excess == {s \in Listed : Cardinality({u \in Listed : u > s}) >= Keep}
     IN  snapFiles' = [s \in 0..LastMoment |-> IF s \in excess THEN NoFileYet ELSE snapFiles[s]]
  /\ worker' = [worker EXCEPT ![t] = Resting]
  /\ reader' = IF t = "ask" THEN [reader EXCEPT !.pc = "list"] ELSE reader
  /\ computed' = TRUE
  /\ UNCHANGED <<moment, taken>>

-----------------------------------------------------------------------------
(* Asking: SegmentGrowthSkill and SegmentTrendSkill *)

Periods == {NoPeriod} \cup 0..(LastMoment \div Month)

\* The skill first has the pipeline computed.
AskGrowth ==
  /\ reader.pc = "idle"
  /\ \E p, q \in Periods :
       reader' = [NotAsked EXCEPT !.periods = <<p, q>>, !.pc = IF computed THEN "list" ELSE "compute"]
  /\ UNCHANGED <<moment, snapFiles, taken, computed, worker>>

AskTrend ==
  /\ reader.pc = "idle"
  /\ reader' = [NotAsked EXCEPT !.pc = IF computed THEN "list" ELSE "compute"]
  /\ UNCHANGED <<moment, snapFiles, taken, computed, worker>>

\* load_snapshots lists the directory ...
List ==
  /\ reader.pc = "list"
  /\ reader' = [reader EXCEPT !.pc = "read", !.listed = Listed, !.known = taken]
  /\ UNCHANGED <<moment, snapFiles, taken, computed, worker>>

\* ... and reads the snapFiles by name: one that is gone or not whole is left out.
Loaded == InOrder({s \in reader.listed : snapFiles[s] \notin {NoFileYet, Broken}})

\* _pick_snapshot_periods
Pick(snaps, p, q) ==
  LET OfMonth(m) == SelectSeq(snaps, LAMBDA s : s \div Month = m)
      last(s) == s[Len(s)]
  IN  CASE p = NoPeriod /\ q = NoPeriod -> <<snaps[Len(snaps) - 1], snaps[Len(snaps)]>>
        [] (p = NoPeriod) # (q = NoPeriod) -> <<>>
        [] OTHER -> IF OfMonth(p) = <<>> \/ OfMonth(q) = <<>> THEN <<>>
                    ELSE <<last(OfMonth(p)), last(OfMonth(q))>>

\* compare_snapshots and compute_segment_growth: by segment number, one that a snapshot
\* does not have counts as empty, and growth from nothing as none.
SizeIn(snapshot, seg) == IF seg \in DOMAIN snapshot THEN snapshot[seg] ELSE 0
Growth(prev, curr) ==
  [seg \in DOMAIN prev \cup DOMAIN curr |->
     [delta |-> SizeIn(curr, seg) - SizeIn(prev, seg),
      lift |-> IF SizeIn(prev, seg) > 0
               THEN ((SizeIn(curr, seg) - SizeIn(prev, seg)) * 100) \div SizeIn(prev, seg) ELSE 0]]

\* The growth skill: too few snapshots make it compute once more.
ReadGrowth ==
  /\ reader.pc = "read" /\ reader.periods # <<>>
  /\ LET snaps == Loaded
         pair == Pick(snaps, reader.periods[1], reader.periods[2])
     IN  IF Len(snaps) < 2 /\ ~reader.forced
         THEN /\ reader' = [reader EXCEPT !.pc = "compute", !.forced = TRUE]
              /\ computed' = FALSE
         ELSE /\ reader' = [reader EXCEPT !.pc = "idle", !.known = @ \cap taken, !.answer =
                    IF Len(snaps) < 2 THEN [kind |-> "partial"]
                    ELSE IF pair = <<>> THEN [kind |-> "period"]
                    ELSE [kind |-> "growth", pair |-> pair, growth |-> Growth(snapFiles[pair[1]], snapFiles[pair[2]])]]
              /\ UNCHANGED computed
  /\ UNCHANGED <<moment, snapFiles, taken, worker>>

\* The trend skill: the last snapshots, and the change from the first of all to the last.
ReadTrend ==
  /\ reader.pc = "read" /\ reader.periods = <<>>
  /\ LET snaps == Loaded
     IN  reader' = [reader EXCEPT !.pc = "idle", !.known = @ \cap taken, !.answer =
           IF Len(snaps) < 2 THEN [kind |-> "partial"]
           ELSE [kind |-> "trend", rows |-> SubSeq(snaps, IF Len(snaps) > TrendLast THEN Len(snaps) - TrendLast + 1 ELSE 1, Len(snaps)),
                 change |-> [seg \in DOMAIN snapFiles[snaps[Len(snaps)]] |->
                                Growth(snapFiles[snaps[1]], snapFiles[snaps[Len(snaps)]])[seg].delta]]]
  /\ UNCHANGED <<moment, snapFiles, taken, computed, worker>>

-----------------------------------------------------------------------------

SecondPasses ==
  /\ moment < LastMoment
  /\ moment' = moment + 1
  /\ UNCHANGED <<snapFiles, taken, computed, worker, reader>>

\* The process dies wherever its threads are and starts again.
HistRestart ==
  /\ computed' = FALSE
  /\ worker' = [t \in Savers |-> Resting]
  /\ reader' = NotAsked
  /\ UNCHANGED <<moment, snapFiles, taken>>

HistNext ==
  \/ \E t \in Savers : Compute(t) \/ OpenFile(t) \/ DumpFile(t) \/ RemoveOldest(t)
  \/ AskGrowth \/ AskTrend \/ List \/ ReadGrowth \/ ReadTrend
  \/ SecondPasses \/ HistRestart

HistSpec == HistInit /\ [][HistNext]_histVars

-----------------------------------------------------------------------------

\* Without periods, growth compares neighbours: an older with a newer snapshot, and no
\* snapshot that was whole while the directory was read lies between or after them
\* (SegmentGrowthSkill: the last two, whatever is saved, removed or cut off meanwhile).
GrowthOfNeighbours ==
  reader.answer.kind = "growth" /\ reader.periods = <<NoPeriod, NoPeriod>> =>
    LET pair == reader.answer.pair
    IN  pair[1] < pair[2] /\ \A s \in reader.known : s <= pair[1] \/ s = pair[2]

=============================================================================
