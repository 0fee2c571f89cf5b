----------------------------- MODULE RankingProofs -----------------------------
(***************************************************************************)
(* Theorems about Retrieval, SegmentHistory, SegmentNaming and             *)
(* SkillLibrary.  What they prove rests on sorted lists, or on the         *)
(* greatest of several numbers, and both exist because a place in an order *)
(* is a number of elements.                                                *)
(***************************************************************************)
EXTENDS Retrieval, SegmentHistory, SegmentNaming, SkillLibrary, FactCheck,
        Functions, FiniteSetTheorems, TLAPS

\* In a finite set ordered by below, an element's place is the number of those below it:
\* who comes later has the higher place, and every place is taken.
LEMMA Places ==
  ASSUME NEW S, IsFiniteSet(S), NEW below \in [S -> SUBSET S],
         \A x \in S : x \notin below[x],
         \A x, y \in S : y \in below[x] => below[y] \subseteq below[x],
         \A x, y \in S : x # y => x \in below[y] \/ y \in below[x]
  PROVE  /\ Cardinality(S) \in Nat
         /\ \A x, y \in S : y \in below[x] => Cardinality(below[y]) < Cardinality(below[x])
         /\ \A i \in 1..Cardinality(S) : \E x \in S : Cardinality(below[x]) = i - 1
<1> DEFINE n == Cardinality(S)
           place == [x \in S |-> Cardinality(below[x])]
<1>1. n \in Nat
  BY FS_CardinalityType
<1>2. ASSUME NEW x \in S
      PROVE  IsFiniteSet(below[x]) /\ place[x] \in 0..(n - 1)
  <2>1. /\ IsFiniteSet(below[x]) /\ Cardinality(below[x]) <= n
        /\ Cardinality(below[x]) = n => below[x] = S
    BY FS_Subset
  <2>2. Cardinality(below[x]) \in Nat
    BY <2>1, FS_CardinalityType
  <2>3. Cardinality(below[x]) # n
    BY <2>1
  <2> QED
    BY <1>1, <2>1, <2>2, <2>3
<1>3. ASSUME NEW x \in S, NEW y \in S, y \in below[x]
      PROVE  place[y] < place[x]
  <2>1. /\ Cardinality(below[y]) <= Cardinality(below[x])
        /\ Cardinality(below[x]) = Cardinality(below[y]) => below[x] = below[y]
    BY <1>2, <1>3, FS_Subset
  <2>2. Cardinality(below[x]) # Cardinality(below[y])
    BY <1>3, <2>1
  <2> QED
    BY <1>2, <2>1, <2>2, <1>1
<1>4. place \in [S -> 0..(n - 1)]
  BY <1>2
<1>5. ASSUME NEW x \in S, NEW y \in S, x # y
      PROVE  place[x] # place[y]
  BY <1>5, <1>1, <1>2, <1>3
<1>6. IsFiniteSet(0..(n - 1)) /\ Cardinality(0..(n - 1)) = n
  BY <1>1, FS_Interval
<1>7. ASSUME NEW p \in 0..(n - 1), \A x \in S : place[x] # p
      PROVE  FALSE
  <2> DEFINE others == (0..(n - 1)) \ {p}
  <2> HIDE DEF place
  <2>1. IsFiniteSet(others) /\ Cardinality(others) = n - 1
    <3> DEFINE all == 0..(n - 1)
    <3>1. IsFiniteSet(all) /\ Cardinality(all) = n /\ p \in all
      BY <1>6
    <3> HIDE DEF all, n
    <3>2. IsFiniteSet(all \ {p}) /\ Cardinality(all \ {p}) = Cardinality(all) - 1
      BY <3>1, FS_RemoveElement
    <3> QED
      BY <3>1, <3>2 DEF all
  <2>2. place \in [S -> others]
    BY <1>4, <1>7
  <2> HIDE DEF others
  <2>3. \E x, y \in S : x # y /\ place[x] = place[y]
    BY <1>1, <2>1, <2>2, FS_PigeonHole
  <2> QED
    BY <2>3, <1>5
<1>8. \A i \in 1..n : \E x \in S : Cardinality(below[x]) = i - 1
  <2>1. \A i \in 1..n : i - 1 \in 0..(n - 1)
    BY <1>1
  <2> QED
    BY <2>1, <1>7
<1> QED
  BY <1>1, <1>3, <1>8

-----------------------------------------------------------------------------
(* Snapshots.                                                                *)

\* A sorted list has what was to be sorted, the smaller before the greater.
LEMMA SortedList ==
  ASSUME NEW S, S \subseteq Nat, IsFiniteSet(S)
  PROVE  LET s == InOrder(S) IN
         /\ Cardinality(S) \in Nat /\ s \in [1..Cardinality(S) -> S] /\ Len(s) = Cardinality(S)
         /\ \A i, j \in 1..Cardinality(S) : i < j => s[i] < s[j]
         /\ \A x \in S : \E i \in 1..Cardinality(S) : s[i] = x
<1> DEFINE n == Cardinality(S)
           s == InOrder(S)
           below == [x \in S |-> {u \in S : u < x}]
<1>1. /\ n \in Nat
      /\ \A x, y \in S : y \in below[x] => Cardinality(below[y]) < Cardinality(below[x])
      /\ \A i \in 1..n : \E x \in S : Cardinality(below[x]) = i - 1
  <2>1. below \in [S -> SUBSET S]
    OBVIOUS
  <2>2. \A x \in S : x \notin below[x]
    OBVIOUS
  <2>3. ASSUME NEW x \in S, NEW y \in S, y \in below[x], NEW u \in S, u < y
        PROVE  u < x
    BY <2>3
  <2>4. \A x, y \in S : x # y => x \in below[y] \/ y \in below[x]
    OBVIOUS
  <2>5. \A x, y \in S : y \in below[x] => below[y] \subseteq below[x]
    BY <2>3
  <2> HIDE DEF below
  <2> QED
    BY <2>1, <2>2, <2>4, <2>5, Places
<1>2. \A i \in 1..n : s[i] \in S /\ Cardinality(below[s[i]]) = i - 1
  <2> SUFFICES ASSUME NEW i \in 1..n PROVE s[i] \in S /\ Cardinality(below[s[i]]) = i - 1
    OBVIOUS
  <2>1. s[i] = CHOOSE x \in S : Cardinality({u \in S : u < x}) = i - 1
    BY DEF InOrder
  <2>2. \E x \in S : Cardinality({u \in S : u < x}) = i - 1
    BY <1>1
  <2>3. s[i] \in S /\ Cardinality({u \in S : u < s[i]}) = i - 1
    BY <2>1, <2>2
  <2> QED
    BY <2>3
<1>3. s \in [1..n -> S]
  BY <1>2 DEF InOrder
<1>4. Len(s) = n
  BY <1>1, <1>3
<1>5. \A x, y \in S : y < x => Cardinality(below[y]) < Cardinality(below[x])
  BY <1>1
<1>6. \A x \in S : Cardinality(below[x]) \in 0..(n - 1)
  <2> SUFFICES ASSUME NEW x \in S PROVE Cardinality(below[x]) \in 0..(n - 1)
    OBVIOUS
  <2>1. below[x] \in SUBSET S /\ below[x] # S
    OBVIOUS
  <2>2. /\ IsFiniteSet(below[x]) /\ Cardinality(below[x]) <= n
        /\ Cardinality(below[x]) = n => below[x] = S
    BY <2>1, FS_Subset
  <2> QED
    BY <1>1, <2>1, <2>2, FS_CardinalityType
<1> HIDE DEF s, below
<1>7. \A i, j \in 1..n : i < j => s[i] < s[j]
  <2> SUFFICES ASSUME NEW i \in 1..n, NEW j \in 1..n, i < j PROVE s[i] < s[j]
    OBVIOUS
  <2>1. /\ s[i] \in Nat /\ s[j] \in Nat /\ s[i] \in S /\ s[j] \in S
        /\ Cardinality(below[s[i]]) = i - 1 /\ Cardinality(below[s[j]]) = j - 1
    BY <1>2
  <2>2. ~(s[j] < s[i]) /\ s[i] # s[j]
    BY <1>1, <1>5, <2>1
  <2> QED
    BY <2>1, <2>2
<1>8. ASSUME NEW x \in S PROVE \E i \in 1..n : s[i] = x
  <2>1. Cardinality(below[x]) + 1 \in 1..n /\ Cardinality(below[x]) \in Nat
    BY <1>1, <1>6
  <2>2. PICK i \in 1..n : i - 1 = Cardinality(below[x])
    BY <2>1
  <2>3. s[i] \in S /\ Cardinality(below[s[i]]) = Cardinality(below[x])
    BY <1>2, <2>2
  <2>4. ~(s[i] < x) /\ ~(x < s[i])
    <3>1. ASSUME NEW y \in S, NEW z \in S, y < z, Cardinality(below[y]) = Cardinality(below[z])
          PROVE  FALSE
      BY <3>1, <1>5, <1>6
    <3> QED
      BY <3>1, <2>3
  <2>5. s[i] \in Nat /\ x \in Nat
    BY <2>3
  <2> QED
    BY <2>4, <2>5
<1> QED
  BY <1>1, <1>3, <1>4, <1>7, <1>8 DEF s

\* A snapshot that was removed was older than everything there is.
Gone(s) == s < moment /\ \A u \in 0..LastMoment : snapFiles[u] # NoFileYet => s < u

HistTypes ==
  /\ moment \in 0..LastMoment
  /\ snapFiles \in [0..LastMoment -> Sizes \cup {NoFileYet, Broken}]
  /\ taken \subseteq 0..LastMoment
  /\ worker \in [Savers -> [pc : {"idle", "save", "dump", "clean"},
                            sizes : Sizes \cup {<<>>}, at : 0..LastMoment]]
  /\ \A t \in Savers : worker[t].pc \in {"save", "dump"} => worker[t].sizes \in Sizes
  /\ reader \in [pc : {"idle", "compute", "list", "read"}, periods : {<<>>} \cup (Periods \X Periods),
                 forced : BOOLEAN, listed : SUBSET (0..LastMoment), known : SUBSET (0..LastMoment),
                 answer : {reader.answer}]

Past == \A s \in 0..LastMoment : snapFiles[s] # NoFileYet => s <= moment

WholeOrGone == \A s \in taken : snapFiles[s] # Broken /\ (snapFiles[s] = NoFileYet => Gone(s))

\* What the reader knew of when it listed the directory is in its list, or was older.
ListedOrOlder ==
  reader.pc = "read" =>
     \A s \in reader.known : s \in reader.listed \/ \A u \in reader.listed : s < u

\* A question waits for what its thread computes, and has no answer meanwhile.
AnswersLast ==
  /\ reader.pc # "idle" => reader.answer = NoAnswer
  /\ worker["ask"].pc # "idle" => reader.pc = "compute"

HistIInv == HistTypes /\ Past /\ WholeOrGone /\ ListedOrOlder /\ AnswersLast /\ GrowthOfNeighbours

\* No computation's sizes look like the marks of the directory.
LEMMA MarksAreNoSizes == NoFileYet # Broken /\ NoFileYet \notin Sizes /\ Broken \notin Sizes
<1>1. ASSUME NEW s \in Seq(Nat), Len(s) = 1 PROVE s[1] \in Nat
  <2>1. s \in [1..Len(s) -> Nat] /\ 1 \in 1..Len(s)
    BY <1>1
  <2> QED
    BY <2>1
<1>2. NoFileYet \notin Seq(Nat) /\ Broken \notin Seq(Nat) /\ NoFileYet[1] # Broken[1]
  BY <1>1 DEF NoFileYet, Broken
<1> QED
  BY <1>2, HistoryAssumption

LEMMA HistInitial == HistInit => HistIInv
<1> SUFFICES ASSUME HistInit PROVE HistIInv
  OBVIOUS
<1>1. HistTypes
  BY HistoryAssumption DEF HistInit, HistTypes, Resting, NotAsked, NoAnswer
<1>2. Past /\ WholeOrGone /\ ListedOrOlder /\ AnswersLast
  BY DEF HistInit, Past, WholeOrGone, ListedOrOlder, AnswersLast, NotAsked, Resting, Savers
<1>3. GrowthOfNeighbours
  BY DEF HistInit, GrowthOfNeighbours, NotAsked, NoAnswer
<1> QED
  BY <1>1, <1>2, <1>3 DEF HistIInv

\* Steps that leave the directory alone and the reader where it is.
LEMMA QuietHist ==
  ASSUME HistIInv, HistTypes', moment <= moment',
         UNCHANGED <<snapFiles, taken, reader>>,
         worker'["ask"].pc # "idle" => reader.pc = "compute"
  PROVE  HistIInv'
<1>1. moment' \in Nat /\ moment \in Nat
  BY DEF HistIInv, HistTypes
<1>2. Past' /\ WholeOrGone'
  BY <1>1 DEF HistIInv, HistTypes, Past, WholeOrGone, Gone
<1>3. ListedOrOlder' /\ AnswersLast' /\ GrowthOfNeighbours'
  BY DEF HistIInv, ListedOrOlder, AnswersLast, GrowthOfNeighbours
<1> QED
  BY <1>2, <1>3 DEF HistIInv

LEMMA ComputeInv == ASSUME HistIInv, NEW t \in Savers, Compute(t) PROVE HistIInv'
<1>1. HistTypes'
  BY HistoryAssumption DEF HistIInv, HistTypes, Compute
<1>2. worker'["ask"].pc # "idle" => reader.pc = "compute"
  BY DEF Compute, HistIInv, HistTypes, AnswersLast, Savers
<1> QED
  BY <1>1, <1>2, QuietHist DEF Compute, HistIInv, HistTypes

LEMMA OpenFileInv == ASSUME HistIInv, NEW t \in Savers, OpenFile(t) PROVE HistIInv'
<1>1. HistTypes'
  BY DEF HistIInv, HistTypes, OpenFile
<1>2. Past'
  BY DEF HistIInv, HistTypes, Past, OpenFile
<1>3. WholeOrGone'
  BY DEF HistIInv, HistTypes, WholeOrGone, Gone, OpenFile
<1>4. ListedOrOlder' /\ AnswersLast' /\ GrowthOfNeighbours'
  BY DEF HistIInv, HistTypes, Savers, OpenFile, ListedOrOlder, AnswersLast, GrowthOfNeighbours
<1> QED
  BY <1>1, <1>2, <1>3, <1>4 DEF HistIInv

LEMMA DumpFileInv == ASSUME HistIInv, NEW t \in Savers, DumpFile(t) PROVE HistIInv'
<1>1. HistTypes'
  BY DEF HistIInv, HistTypes, DumpFile
<1>2. Past'
  BY DEF HistIInv, HistTypes, Past, DumpFile
<1>3. WholeOrGone'
  <2> DEFINE at == worker[t].at
  <2>1. at \in 0..LastMoment /\ worker[t].sizes \in Sizes /\ moment' = moment
    BY DEF HistIInv, HistTypes, DumpFile
  <2>2. CASE snapFiles[at] = NoFileYet
    BY <2>1, <2>2 DEF DumpFile, HistIInv, WholeOrGone, Gone
  <2>3. CASE snapFiles[at] # NoFileYet
    <3>1. snapFiles' = [snapFiles EXCEPT ![at] = worker[t].sizes] /\ taken' = taken \cup {at}
      BY <2>3 DEF DumpFile
    <3> HIDE DEF at
    <3>2. /\ snapFiles'[at] # Broken /\ snapFiles'[at] # NoFileYet
          /\ \A s \in 0..LastMoment : s # at => snapFiles'[s] = snapFiles[s]
      BY <2>1, <3>1, MarksAreNoSizes DEF HistIInv, HistTypes
    <3>3. \A s \in 0..LastMoment : Gone(s) => Gone(s)'
      BY <2>1, <2>3, <3>2 DEF Gone
    <3> QED
      BY <2>1, <3>1, <3>2, <3>3 DEF HistIInv, HistTypes, WholeOrGone
  <2> QED
    BY <2>2, <2>3
<1>4. ListedOrOlder' /\ AnswersLast' /\ GrowthOfNeighbours'
  BY DEF HistIInv, HistTypes, Savers, DumpFile, ListedOrOlder, AnswersLast, GrowthOfNeighbours
<1> QED
  BY <1>1, <1>2, <1>3, <1>4 DEF HistIInv

\* Retention takes the oldest, and leaves at least what has nothing newer.
LEMMA RemoveOldestInv == ASSUME HistIInv, NEW t \in Savers, RemoveOldest(t) PROVE HistIInv'
<1> DEFINE newer(s) == {u \in Listed : u > s}
           excess == {s \in Listed : Cardinality(newer(s)) >= Keep}
<1>1. /\ snapFiles' = [s \in 0..LastMoment |-> IF s \in excess THEN NoFileYet ELSE snapFiles[s]]
      /\ taken' = taken /\ moment' = moment
      /\ worker' = [worker EXCEPT ![t] = Resting]
      /\ reader' = IF t = "ask" THEN [reader EXCEPT !.pc = "list"] ELSE reader
  BY DEF RemoveOldest
<1>2. Listed \subseteq 0..LastMoment /\ IsFiniteSet(Listed) /\ Keep \in Nat \ {0} /\ LastMoment \in Nat
  <2> DEFINE all == 0..LastMoment
  <2>1. LastMoment \in Nat /\ Keep \in Nat \ {0}
    BY HistoryAssumption
  <2>2. IsFiniteSet(all) /\ Listed \in SUBSET all
    BY <2>1, FS_Interval DEF Listed
  <2> HIDE DEF all
  <2>3. IsFiniteSet(Listed)
    BY <2>2, FS_Subset
  <2> QED
    BY <2>1, <2>2, <2>3 DEF all
<1>3. ASSUME NEW s \in excess, NEW u \in Listed, u \notin excess
      PROVE  s < u
  <2>1. ASSUME u <= s PROVE FALSE
    <3>1. newer(s) \in SUBSET newer(u) /\ newer(u) \in SUBSET Listed
      <4>1. s \in Nat /\ u \in Nat /\ Listed \subseteq Nat
        BY <1>2
      <4>2. \A v \in Listed : v > s => v > u
        BY <2>1, <4>1
      <4> QED
        BY <4>2
    <3>2. IsFiniteSet(newer(u)) /\ IsFiniteSet(newer(s))
      BY <3>1, <1>2, FS_Subset
    <3>3. Cardinality(newer(s)) <= Cardinality(newer(u))
      BY <3>1, <3>2, FS_Subset
    <3>4. Cardinality(newer(s)) \in Nat /\ Cardinality(newer(u)) \in Nat
      BY <3>2, FS_CardinalityType
    <3>5. Cardinality(newer(s)) >= Keep /\ ~(Cardinality(newer(u)) >= Keep)
      BY <1>3
    <3> HIDE DEF newer
    <3> QED
      BY <3>3, <3>4, <3>5, <1>2
  <2> QED
    BY <2>1, <1>2
<1>4. ASSUME NEW s \in excess PROVE s < moment
  <2>1. newer(s) # {}
    BY <1>2, FS_EmptySet
  <2>2. PICK u \in Listed : u > s
    BY <2>1
  <2> QED
    BY <2>2, <1>2 DEF HistIInv, HistTypes, Past, Listed
<1>5. HistTypes'
  <2>1. snapFiles' \in [0..LastMoment -> Sizes \cup {NoFileYet, Broken}]
    BY <1>1 DEF HistIInv, HistTypes
  <2> HIDE DEF excess
  <2>2. Resting \in [pc : {"idle", "save", "dump", "clean"}, sizes : Sizes \cup {<<>>}, at : 0..LastMoment]
        /\ Resting.pc = "idle"
    BY HistoryAssumption DEF Resting
  <2>3. /\ worker' \in [Savers -> [pc : {"idle", "save", "dump", "clean"},
                                  sizes : Sizes \cup {<<>>}, at : 0..LastMoment]]
        /\ \A x \in Savers : worker'[x].pc \in {"save", "dump"} => worker'[x].sizes \in Sizes
    BY <1>1, <2>2 DEF HistIInv, HistTypes
  <2>4. reader' = [reader EXCEPT !.pc = "list"] \/ reader' = reader
    BY <1>1
  <2>5. reader' \in [pc : {"idle", "compute", "list", "read"}, periods : {<<>>} \cup (Periods \X Periods),
                    forced : BOOLEAN, listed : SUBSET (0..LastMoment), known : SUBSET (0..LastMoment),
                    answer : {reader'.answer}]
    BY <2>4 DEF HistIInv, HistTypes
  <2> QED
    BY <1>1, <2>1, <2>3, <2>5 DEF HistIInv, HistTypes
<1>6. \A s \in 0..LastMoment :
        /\ s \notin excess => snapFiles'[s] = snapFiles[s]
        /\ s \in excess => snapFiles'[s] = NoFileYet
  BY <1>1
<1>7. \A u \in 0..LastMoment : snapFiles'[u] # NoFileYet => u \in Listed /\ u \notin excess
  BY <1>6 DEF Listed
<1> HIDE DEF excess
<1>8. Past'
  BY <1>1, <1>7 DEF HistIInv, Past, Listed
<1>9. WholeOrGone'
  <2> SUFFICES ASSUME NEW s \in taken
               PROVE  snapFiles'[s] # Broken /\ (snapFiles'[s] = NoFileYet => Gone(s)')
    BY <1>1 DEF WholeOrGone
  <2>1. s \in 0..LastMoment /\ snapFiles[s] # Broken /\ (snapFiles[s] = NoFileYet => Gone(s))
    BY DEF HistIInv, HistTypes, WholeOrGone
  <2>2. CASE s \in excess
    BY <2>1, <2>2, <1>1, <1>3, <1>4, <1>6, <1>7, MarksAreNoSizes DEF Gone
  <2>3. CASE s \notin excess
    BY <2>1, <2>3, <1>1, <1>6, <1>7 DEF Gone, Listed
  <2> QED
    BY <2>2, <2>3
<1>10. ListedOrOlder' /\ AnswersLast' /\ GrowthOfNeighbours'
  <2>0. worker[t].pc = "clean" /\ worker'["ask"].pc \in {"idle", worker["ask"].pc} /\ worker'[t].pc = "idle"
    BY <1>1 DEF RemoveOldest, HistIInv, HistTypes, Savers, Resting
  <2>1. CASE t = "ask"
    <3>1. reader.answer = NoAnswer
      BY <2>0, <2>1 DEF HistIInv, AnswersLast
    <3>2. reader' = [reader EXCEPT !.pc = "list"]
      BY <1>1, <2>1
    <3>3. reader'.pc = "list" /\ reader'.answer = reader.answer
      BY <3>2 DEF HistIInv, HistTypes
    <3> QED
      BY <2>0, <2>1, <3>1, <3>3 DEF ListedOrOlder, AnswersLast, GrowthOfNeighbours, NoAnswer
  <2>2. CASE t # "ask"
    BY <2>0, <1>1, <2>2 DEF HistIInv, ListedOrOlder, AnswersLast, GrowthOfNeighbours
  <2> QED
    BY <2>1, <2>2
<1> QED
  BY <1>5, <1>8, <1>9, <1>10 DEF HistIInv

\* What only concerns the reader leaves the directory as it is.
LEMMA ReaderOnly ==
  ASSUME HistIInv, UNCHANGED <<moment, snapFiles, taken, worker>>,
         reader' \in [pc : {"idle", "compute", "list", "read"}, periods : {<<>>} \cup (Periods \X Periods),
                     forced : BOOLEAN, listed : SUBSET (0..LastMoment), known : SUBSET (0..LastMoment),
                     answer : {reader'.answer}]
  PROVE  HistTypes' /\ Past' /\ WholeOrGone'
  BY DEF HistIInv, HistTypes, Past, WholeOrGone, Gone

LEMMA AskInvHist == ASSUME HistIInv, AskGrowth \/ AskTrend PROVE HistIInv'
<1>1. reader.pc = "idle" /\ UNCHANGED <<moment, snapFiles, taken, worker>>
  BY DEF AskGrowth, AskTrend
<1>3. /\ reader'.pc \in {"list", "compute"} /\ reader'.answer = NoAnswer
      /\ reader' \in [pc : {"idle", "compute", "list", "read"}, periods : {<<>>} \cup (Periods \X Periods),
                     forced : BOOLEAN, listed : SUBSET (0..LastMoment), known : SUBSET (0..LastMoment),
                     answer : {reader'.answer}]
  <2>1. CASE AskGrowth
    <3>1. PICK p \in Periods, q \in Periods :
            reader' = [NotAsked EXCEPT !.periods = <<p, q>>, !.pc = IF computed THEN "list" ELSE "compute"]
      BY <2>1 DEF AskGrowth
    <3>2. <<p, q>> \in Periods \X Periods
      OBVIOUS
    <3> QED
      BY <3>1, <3>2 DEF NotAsked
  <2>2. CASE AskTrend
    BY <2>2 DEF AskTrend, NotAsked
  <2> QED
    BY <2>1, <2>2
<1>4. HistTypes' /\ Past' /\ WholeOrGone'
  BY <1>1, <1>3, ReaderOnly
<1>5. ListedOrOlder' /\ AnswersLast' /\ GrowthOfNeighbours'
  BY <1>1, <1>3 DEF HistIInv, ListedOrOlder, AnswersLast, GrowthOfNeighbours, NoAnswer
<1> QED
  BY <1>4, <1>5 DEF HistIInv

LEMMA ListInv == ASSUME HistIInv, List PROVE HistIInv'
<1>1. /\ reader.pc = "list" /\ UNCHANGED <<moment, snapFiles, taken, worker>>
      /\ reader' = [reader EXCEPT !.pc = "read", !.listed = Listed, !.known = taken]
  BY DEF List
<1>2. /\ reader'.pc = "read" /\ reader'.answer = reader.answer /\ reader'.known = taken
      /\ reader'.listed = Listed
      /\ reader' \in [pc : {"idle", "compute", "list", "read"}, periods : {<<>>} \cup (Periods \X Periods),
                     forced : BOOLEAN, listed : SUBSET (0..LastMoment), known : SUBSET (0..LastMoment),
                     answer : {reader'.answer}]
  BY <1>1 DEF HistIInv, HistTypes, Listed
<1>3. HistTypes' /\ Past' /\ WholeOrGone'
  BY <1>1, <1>2, ReaderOnly
<1>4. ListedOrOlder'
  BY <1>2 DEF HistIInv, HistTypes, WholeOrGone, Gone, Listed, ListedOrOlder
<1>5. AnswersLast' /\ GrowthOfNeighbours'
  BY <1>1, <1>2 DEF HistIInv, AnswersLast, GrowthOfNeighbours, NoAnswer
<1> QED
  BY <1>3, <1>4, <1>5 DEF HistIInv

\* Of a sorted list of at least two, the last two have everything else before them.
LEMMA LastTwo ==
  ASSUME NEW S, S \subseteq Nat, IsFiniteSet(S), Len(InOrder(S)) >= 2
  PROVE  LET s == InOrder(S)  n == Len(s) IN
         /\ s[n - 1] \in S /\ s[n] \in S /\ s[n - 1] < s[n]
         /\ \A x \in S : x <= s[n - 1] \/ x = s[n]
<1> DEFINE s == InOrder(S)
           n == Len(s)
<1>1. /\ n \in Nat /\ s \in [1..n -> S]
      /\ \A i, j \in 1..n : i < j => s[i] < s[j]
      /\ \A x \in S : \E i \in 1..n : s[i] = x
  BY SortedList
<1>2. n >= 2
  OBVIOUS
<1> HIDE DEF s, n
<1>3. n - 1 \in 1..n /\ n \in 1..n /\ n - 1 < n
  BY <1>1, <1>2
<1>4. s[n - 1] \in S /\ s[n] \in S /\ s[n - 1] < s[n]
  BY <1>1, <1>3
<1>5. ASSUME NEW x \in S PROVE x <= s[n - 1] \/ x = s[n]
  <2>1. PICK i \in 1..n : s[i] = x
    BY <1>1
  <2>2. i = n \/ i = n - 1 \/ i < n - 1
    BY <1>1
  <2>3. i < n - 1 => s[i] < s[n - 1]
    BY <1>1, <1>3
  <2>4. s[n - 1] \in Nat /\ x \in Nat
    BY <1>4
  <2> QED
    BY <2>1, <2>2, <2>3, <2>4
<1> QED
  BY <1>4, <1>5 DEF s, n

\* The two newest of the list are neighbours: a file that could not be read any more had
\* been removed, or was opened again after the list was made.
LEMMA ReadGrowthInv == ASSUME HistIInv, ReadGrowth PROVE HistIInv'
<1> DEFINE loaded == {s \in reader.listed : snapFiles[s] \notin {NoFileYet, Broken}}
           pair == Pick(Loaded, reader.periods[1], reader.periods[2])
           growth == Growth(snapFiles[pair[1]], snapFiles[pair[2]])
           given == IF Len(Loaded) < 2 THEN [kind |-> "partial"]
                     ELSE IF pair = <<>> THEN [kind |-> "period"]
                     ELSE [kind |-> "growth", pair |-> pair, growth |-> growth]
           answered == [reader EXCEPT !.pc = "idle", !.known = reader.known \cap taken, !.answer = given]
<1>1. /\ reader.pc = "read" /\ UNCHANGED <<moment, snapFiles, taken, worker>>
      /\ \/ reader' = [reader EXCEPT !.pc = "compute", !.forced = TRUE]
         \/ reader' = answered
  BY DEF ReadGrowth
<1>2. CASE reader' = [reader EXCEPT !.pc = "compute", !.forced = TRUE]
  <2>1. /\ reader'.pc = "compute" /\ reader'.answer = NoAnswer
        /\ reader' \in [pc : {"idle", "compute", "list", "read"}, periods : {<<>>} \cup (Periods \X Periods),
                       forced : BOOLEAN, listed : SUBSET (0..LastMoment), known : SUBSET (0..LastMoment),
                       answer : {reader'.answer}]
    BY <1>1, <1>2 DEF HistIInv, HistTypes, AnswersLast
  <2>2. HistTypes' /\ Past' /\ WholeOrGone'
    BY <1>1, <2>1, ReaderOnly
  <2> QED
    BY <1>1, <2>1, <2>2 DEF HistIInv, ListedOrOlder, AnswersLast, GrowthOfNeighbours, NoAnswer
<1>3. CASE reader' = answered
  <2> HIDE DEF given, pair
  <2>1. /\ reader'.pc = "idle" /\ reader'.answer = given /\ reader'.periods = reader.periods
        /\ reader'.known = reader.known \cap taken
        /\ reader' \in [pc : {"idle", "compute", "list", "read"}, periods : {<<>>} \cup (Periods \X Periods),
                       forced : BOOLEAN, listed : SUBSET (0..LastMoment), known : SUBSET (0..LastMoment),
                       answer : {reader'.answer}]
    BY <1>3 DEF HistIInv, HistTypes
  <2>2. HistTypes' /\ Past' /\ WholeOrGone'
    BY <1>1, <2>1, ReaderOnly
  <2>3. ListedOrOlder' /\ AnswersLast'
    BY <1>1, <2>1 DEF HistIInv, ListedOrOlder, AnswersLast
  <2>4. GrowthOfNeighbours'
    <3> SUFFICES ASSUME given.kind = "growth", reader.periods = <<NoPeriod, NoPeriod>>
                 PROVE  /\ given.pair[1] < given.pair[2]
                        /\ \A s \in reader.known \cap taken : s <= given.pair[1] \/ s = given.pair[2]
      BY <2>1 DEF GrowthOfNeighbours
    <3>1. ~(Len(Loaded) < 2) /\ pair # <<>> /\ given.pair = pair
      BY DEF given
    <3>2. reader.periods[1] = NoPeriod /\ reader.periods[2] = NoPeriod
      OBVIOUS
    <3>3. pair = <<Loaded[Len(Loaded) - 1], Loaded[Len(Loaded)]>>
      BY <3>2 DEF pair, Pick
    <3>4. loaded \subseteq Nat /\ IsFiniteSet(loaded) /\ Loaded = InOrder(loaded)
      <4> DEFINE all == 0..LastMoment
      <4>1. LastMoment \in Nat /\ loaded \in SUBSET all
        BY HistoryAssumption DEF HistIInv, HistTypes
      <4>2. IsFiniteSet(all)
        BY <4>1, FS_Interval
      <4> HIDE DEF all
      <4>3. IsFiniteSet(loaded)
        BY <4>1, <4>2, FS_Subset
      <4> QED
        BY <4>1, <4>3 DEF Loaded, all
    <3> HIDE DEF loaded
    <3>5. Len(InOrder(loaded)) \in Nat /\ Len(InOrder(loaded)) >= 2
      BY <3>1, <3>4, SortedList
    <3>6. /\ pair[1] \in loaded /\ pair[2] \in loaded /\ pair[1] < pair[2]
          /\ \A x \in loaded : x <= pair[1] \/ x = pair[2]
      BY <3>3, <3>4, <3>5, LastTwo
    <3>7. ASSUME NEW s \in reader.known \cap taken PROVE s \in loaded \/ s < pair[1]
      <4>1. /\ s \in reader.listed \/ \A u \in reader.listed : s < u
            /\ snapFiles[s] # Broken /\ (snapFiles[s] = NoFileYet => Gone(s))
        BY <1>1, <3>7 DEF HistIInv, ListedOrOlder, WholeOrGone
      <4>2. pair[1] \in reader.listed /\ pair[1] \in 0..LastMoment /\ snapFiles[pair[1]] # NoFileYet
        BY <3>6 DEF loaded, HistIInv, HistTypes
      <4> QED
        BY <4>1, <4>2 DEF loaded, Gone
    <3>8. pair[1] \in Nat
      BY <3>4, <3>6
    <3> QED
      BY <3>1, <3>4, <3>6, <3>7, <3>8 DEF HistIInv, HistTypes
  <2> QED
    BY <2>2, <2>3, <2>4 DEF HistIInv
<1> QED
  BY <1>1, <1>2, <1>3

LEMMA ReadTrendInv == ASSUME HistIInv, ReadTrend PROVE HistIInv'
<1> DEFINE rows == SubSeq(Loaded, IF Len(Loaded) > TrendLast THEN Len(Loaded) - TrendLast + 1 ELSE 1, Len(Loaded))
<1>1. /\ reader.pc = "read" /\ UNCHANGED <<moment, snapFiles, taken, worker>>
      /\ \E trend :
           LET given == IF Len(Loaded) < 2 THEN [kind |-> "partial"]
                         ELSE [kind |-> "trend", rows |-> rows, change |-> trend]
           IN  reader' = [reader EXCEPT !.pc = "idle", !.known = reader.known \cap taken, !.answer = given]
  BY DEF ReadTrend
<1>2. PICK given :
        /\ given.kind # "growth"
        /\ reader' = [reader EXCEPT !.pc = "idle", !.known = reader.known \cap taken, !.answer = given]
  <2>1. \A trend : [kind |-> "trend", rows |-> rows, change |-> trend].kind # "growth"
    OBVIOUS
  <2>2. [kind |-> "partial"].kind # "growth"
    OBVIOUS
  <2> QED
    BY <1>1, <2>1, <2>2
<1>3. /\ reader'.pc = "idle" /\ reader'.answer = given
      /\ reader' \in [pc : {"idle", "compute", "list", "read"}, periods : {<<>>} \cup (Periods \X Periods),
                     forced : BOOLEAN, listed : SUBSET (0..LastMoment), known : SUBSET (0..LastMoment),
                     answer : {reader'.answer}]
  BY <1>2 DEF HistIInv, HistTypes
<1>4. HistTypes' /\ Past' /\ WholeOrGone'
  BY <1>1, <1>3, ReaderOnly
<1>5. ListedOrOlder' /\ AnswersLast' /\ GrowthOfNeighbours'
  BY <1>1, <1>2, <1>3 DEF HistIInv, ListedOrOlder, AnswersLast, GrowthOfNeighbours
<1> QED
  BY <1>4, <1>5 DEF HistIInv

LEMMA SecondPassesInv == ASSUME HistIInv, SecondPasses PROVE HistIInv'
<1>1. HistTypes' /\ moment <= moment'
  BY HistoryAssumption DEF HistIInv, HistTypes, SecondPasses
<1> QED
  BY <1>1, QuietHist DEF SecondPasses, HistIInv, AnswersLast

LEMMA HistRestartInv == ASSUME HistIInv, HistRestart PROVE HistIInv'
<1>1. HistTypes'
  <2>1. Resting \in [pc : {"idle", "save", "dump", "clean"}, sizes : Sizes \cup {<<>>}, at : 0..LastMoment]
        /\ Resting.pc = "idle"
    BY HistoryAssumption DEF Resting
  <2>2. NotAsked \in [pc : {"idle", "compute", "list", "read"}, periods : {<<>>} \cup (Periods \X Periods),
                     forced : BOOLEAN, listed : SUBSET (0..LastMoment), known : SUBSET (0..LastMoment),
                     answer : {NotAsked.answer}]
    BY DEF NotAsked
  <2> QED
    BY <2>1, <2>2 DEF HistIInv, HistTypes, HistRestart
<1>2. Past' /\ WholeOrGone'
  BY DEF HistIInv, Past, WholeOrGone, Gone, HistRestart
<1>3. ListedOrOlder' /\ AnswersLast' /\ GrowthOfNeighbours'
  BY DEF HistRestart, ListedOrOlder, AnswersLast, GrowthOfNeighbours, NotAsked, NoAnswer, Resting, Savers
<1> QED
  BY <1>1, <1>2, <1>3 DEF HistIInv

\* The invariant of the snapshot directory and its readers, for any computations, clock and retention.
THEOREM HistInvariance == HistSpec => []HistIInv
<1>1. HistIInv /\ [HistNext]_histVars => HistIInv'
  <2> SUFFICES ASSUME HistIInv, [HistNext]_histVars PROVE HistIInv'
    OBVIOUS
  <2>1. ASSUME NEW t \in Savers, Compute(t) \/ OpenFile(t) \/ DumpFile(t) \/ RemoveOldest(t)
        PROVE  HistIInv'
    BY <2>1, ComputeInv, OpenFileInv, DumpFileInv, RemoveOldestInv
  <2>2. CASE UNCHANGED histVars
    <3>1. HistTypes'
      BY <2>2 DEF HistIInv, HistTypes, histVars
    <3> QED
      BY <2>2, <3>1, QuietHist DEF histVars, HistIInv, HistTypes, AnswersLast
  <2> QED
    BY <2>1, <2>2, AskInvHist, ListInv, ReadGrowthInv, ReadTrendInv, SecondPassesInv, HistRestartInv
    DEF HistNext
<1> QED
  BY <1>1, HistInitial, PTL DEF HistSpec

\* The growth skill compares neighbouring snapshots (skills/user_segment.py), whatever is
\* saved, removed or cut off while it reads the directory.
THEOREM GrowthNeighbours == HistSpec => []GrowthOfNeighbours
<1>1. HistIInv => GrowthOfNeighbours
  BY DEF HistIInv
<1> QED
  BY <1>1, HistInvariance, PTL

-----------------------------------------------------------------------------
(* Names.                                                                    *)

FlowTags == {"active", "potential", "stable", "dormant", "churned"}

LEMMA TagIsOne == \A p, people : FlowTag(p, people) \in FlowTags
  BY DEF FlowTag, FlowTags

\* Finitely many numbers have a smallest and a greatest: the first and the last, when they
\* are sorted.
LEMMA Extremes ==
  ASSUME NEW S, IsFiniteSet(S), S \subseteq Nat, S # {}
  PROVE  /\ \E x \in S : \A y \in S : x >= y
         /\ \E x \in S : \A y \in S : x <= y
<1> DEFINE s == InOrder(S)
           n == Cardinality(S)
<1>1. /\ n \in Nat /\ s \in [1..n -> S]
      /\ \A i, j \in 1..n : i < j => s[i] < s[j]
      /\ \A x \in S : \E i \in 1..n : s[i] = x
  BY SortedList
<1>2. n # 0
  BY FS_EmptySet
<1> HIDE DEF s, n
<1>3. n \in 1..n /\ 1 \in 1..n /\ s[n] \in S /\ s[1] \in S
  BY <1>1, <1>2
<1>4. ASSUME NEW y \in S PROVE s[n] >= y /\ s[1] <= y
  <2>1. PICK i \in 1..n : s[i] = y
    BY <1>1
  <2>2. (i = n \/ i < n) /\ (i = 1 \/ 1 < i)
    BY <1>1
  <2>3. s[n] \in Nat /\ s[1] \in Nat /\ y \in Nat
    BY <1>3
  <2> QED
    BY <1>1, <1>3, <2>1, <2>2, <2>3
<1> QED
  BY <1>3, <1>4

\* Numbers below a bound have a greatest one.
LEMMA GreatestNat ==
  ASSUME NEW b \in Nat, NEW S, S \subseteq 0..b, S # {}
  PROVE  \E x \in S : \A y \in S : x >= y
<1> DEFINE all == 0..b
<1>1. IsFiniteSet(all)
  BY FS_Interval
<1>2. S \in SUBSET all /\ S \subseteq Nat
  OBVIOUS
<1> HIDE DEF all
<1>3. IsFiniteSet(S)
  BY <1>1, <1>2, FS_Subset
<1> QED
  BY <1>2, <1>3, Extremes

\* A cluster that is not empty has a dominant flow tag.
LEMMA DominantIsOne ==
  ASSUME NEW cluster, NEW people, IsFiniteSet(cluster), cluster # {}
  PROVE  Dominant(cluster, people) \in FlowTags
<1> DEFINE Having(tag) == Cardinality({p \in cluster : FlowTag(p, people) = tag})
           tags == {FlowTag(p, people) : p \in cluster}
           counts == {Having(tag) : tag \in tags}
           b == Cardinality(cluster)
<1>1. b \in Nat
  BY FS_CardinalityType
<1>2. ASSUME NEW tag PROVE Having(tag) \in 0..b
  <2>1. {p \in cluster : FlowTag(p, people) = tag} \in SUBSET cluster
    OBVIOUS
  <2>2. Having(tag) <= b /\ Having(tag) \in Nat
    BY <2>1, FS_Subset, FS_CardinalityType
  <2> QED
    BY <1>1, <2>2
<1>3. counts \subseteq 0..b /\ counts # {}
  <2> HIDE DEF Having, b
  <2>1. tags # {}
    OBVIOUS
  <2> HIDE DEF tags
  <2> QED
    BY <1>2, <2>1
<1>4. \E x \in counts : \A y \in counts : x >= y
  <2> HIDE DEF counts, b
  <2> QED
    BY <1>1, <1>3, GreatestNat
<1>5. \E tag \in tags : \A q \in cluster : Having(FlowTag(q, people)) <= Having(tag)
  <2> HIDE DEF Having
  <2> QED
    BY <1>4
<1>6. Dominant(cluster, people) \in tags
  BY <1>5 DEF Dominant
<1> QED
  BY <1>6, TagIsOne

\* The k that is chosen is in the range that was searched.
LEMMA OptimalKInRange ==
  /\ LowestK \in Nat /\ HighestK \in Nat /\ LowestK <= HighestK
  /\ \A valid, enough : valid \subseteq LowestK..HighestK =>
        OptimalK(valid, enough) \in LowestK..HighestK
<1>1. ASSUME NEW S, S \subseteq Nat, S # {} PROVE Min(S) \in S
  <2>1. PICK b \in S : TRUE
    BY <1>1
  <2> DEFINE low == {x \in S : x <= b}
             flipped == {b - x : x \in low}
  <2>2. flipped \subseteq 0..b /\ flipped # {}
    BY <1>1, <2>1
  <2> HIDE DEF flipped
  <2>3. PICK z \in flipped : \A y \in flipped : z >= y
    BY <1>1, <2>1, <2>2, GreatestNat
  <2> USE DEF flipped
  <2>4. PICK x \in low : z = b - x
    BY <2>3
  <2>5. ASSUME NEW y \in S PROVE x <= y
    BY <1>1, <2>1, <2>3, <2>4
  <2>6. \E v \in S : \A y \in S : v =< y
    BY <2>4, <2>5
  <2> QED
    BY <2>6 DEF Min
<1>2. \A a, b \in Nat : Min({a, b}) \in Nat /\ Min({a, b}) <= b /\ Max({a, b}) \in Nat
  BY DEF Min, Max
<1>3. HighestK \in Nat
  <2>1. NumUsers - 1 \in Nat /\ 2 \in Nat /\ KMax \in Nat
    BY NamingAssumption
  <2> QED
    BY <1>2, <2>1 DEF HighestK
<1>4. LowestK \in Nat /\ LowestK <= HighestK
  BY <1>2, <1>3, NamingAssumption DEF LowestK
<1>5. ASSUME NEW valid, NEW enough, valid \subseteq LowestK..HighestK
      PROVE  OptimalK(valid, enough) \in LowestK..HighestK
  <2> DEFINE oneSE == (valid \cap enough) \ {HighestK}
  <2>0. LowestK..HighestK \subseteq Nat /\ HighestK \in LowestK..HighestK
    BY <1>3, <1>4
  <2>1. oneSE \subseteq Nat /\ oneSE \subseteq valid /\ valid \subseteq Nat
    BY <2>0, <1>5
  <2>2. OptimalK(valid, enough) = IF oneSE # {} THEN Min(oneSE) ELSE IF valid # {} THEN Min(valid) ELSE HighestK
    BY DEF OptimalK
  <2> HIDE DEF oneSE
  <2> QED
    BY <1>1, <1>5, <2>0, <2>1, <2>2
<1> QED
  BY <1>3, <1>4, <1>5

Tagged(rows) == \A i \in DOMAIN rows : rows[i].flow \in FlowTags

\* Every segment the pipeline may find has a flow tag.
LEMMA SegmentsTagged == \A seg \in Segmentations : Tagged(seg.rows)
<1> SUFFICES ASSUME NEW seg \in Segmentations PROVE Tagged(seg.rows)
  OBVIOUS
<1> DEFINE Ks == LowestK..HighestK
<1>0. PICK people \in {s \in SUBSET Customers : IsFiniteSet(s) /\ Cardinality(s) = NumUsers} :
        \E found \in Searches(people), enough \in SUBSET Ks : seg = Segmented(people, found, enough)
  BY DEF Segmentations
<1>1. PICK found \in Searches(people), enough \in SUBSET Ks : seg = Segmented(people, found, enough)
  BY <1>0
<1> DEFINE best == OptimalK({k \in Ks : Valid(found[k])}, enough)
<1>2. best \in Ks
  BY OptimalKInRange
<1>3. seg.rows = [i \in 0..best-1 |-> SegmentRow(found[best][i], people)]
  BY <1>1 DEF Segmented
<1> HIDE DEF best
<1>4. PICK k \in Ks : found[best] \in Clusterings(people, k)
  BY <1>2 DEF Searches
<1>5. DOMAIN found[best] = 0..best-1
  BY <1>2 DEF Searches
<1>6. ASSUME NEW i \in 0..best-1
      PROVE  seg.rows[i].flow \in FlowTags
  <2>1. i \in 0..k-1 /\ found[best][i] # {} /\ found[best][i] \in SUBSET people
    <3>1. PICK label \in [people -> 0..k-1] : found[best] = [j \in 0..k-1 |-> {p \in people : label[p] = j}]
      BY <1>4 DEF Clusterings
    <3>2. i \in 0..k-1
      BY <3>1, <1>5
    <3>3. found[best][i] # {}
      BY <3>2, <1>4 DEF Clusterings
    <3> QED
      BY <3>1, <3>2, <3>3
  <2>2. IsFiniteSet(found[best][i])
    BY <1>0, <2>1, FS_Subset
  <2>3. Dominant(found[best][i], people) \in FlowTags
    BY <2>1, <2>2, DominantIsOne
  <2> QED
    BY <1>3, <2>3 DEF SegmentRow
<1> QED
  BY <1>3, <1>6 DEF Tagged

\* The names of a cached entry fit its key: made by the model from these statistics, or by
\* rank and some flow tag.
EntryFits(e) ==
  /\ DOMAIN e.names = DOMAIN e.key
  /\ \A i \in DOMAIN e.key :
       \/ e.names[i] = <<"llm", e.key[i][2]>>
       \/ e.names[i] \in {Tier(i)} \X FlowTags

NameIInv ==
  /\ namer \in [pc : {"idle", "llm", "done"}, rows : {namer.rows}, names : {namer.names}]
  /\ Tagged(segments.rows) /\ Tagged(namer.rows)
  /\ \A e \in names : EntryFits(e)
  /\ NamesDescribe

LEMMA NameInitial == NameInit => NameIInv
  BY DEF NameInit, NameIInv, Unasked, Unsegmented, Tagged, NamesDescribe

\* An entry with the key of these rows has their names.
LEMMA HitFits ==
  ASSUME NEW rows, NEW e, EntryFits(e), e.key = CacheKey(rows)
  PROVE  /\ DOMAIN e.names = DOMAIN rows
         /\ \A i \in DOMAIN rows :
              e.names[i] = <<"llm", rows[i].means>> \/ e.names[i] \in {Tier(i)} \X FlowTags
<1>1. DOMAIN CacheKey(rows) = DOMAIN rows /\ \A i \in DOMAIN rows : CacheKey(rows)[i][2] = rows[i].means
  BY DEF CacheKey
<1> QED
  BY <1>1 DEF EntryFits

LEMMA AskNamesInv == ASSUME NameIInv, AskNames PROVE NameIInv'
<1> DEFINE hits == {e \in names : e.key = CacheKey(segments.rows) /\ tick - e.at < NameTtl}
<1>1. /\ UNCHANGED <<segments, names>>
      /\ namer' = IF hits # {}
                  THEN [pc |-> "done", rows |-> segments.rows, names |-> (CHOOSE e \in hits : TRUE).names]
                  ELSE [pc |-> "llm", rows |-> segments.rows, names |-> <<>>]
  BY DEF AskNames
<1>2. CASE hits = {}
  BY <1>1, <1>2 DEF NameIInv, NamesDescribe
<1>3. CASE hits # {}
  <2>1. PICK e \in hits : namer' = [pc |-> "done", rows |-> segments.rows, names |-> e.names]
    BY <1>1, <1>3
  <2>2. e \in names /\ e.key = CacheKey(segments.rows) /\ EntryFits(e)
    BY DEF NameIInv
  <2>3. NamesDescribe'
    BY <2>1, <2>2, HitFits DEF NamesDescribe, FlowTags
  <2> QED
    BY <1>1, <2>1, <2>3 DEF NameIInv
<1> QED
  BY <1>2, <1>3

LEMMA LlmAnswersInv == ASSUME NameIInv, LlmAnswers PROVE NameIInv'
<1> DEFINE given(named) == LlmNames(namer.rows, named)
           chosen(named) == IF given(named) # <<>> THEN given(named) ELSE HeuristicNames(namer.rows)
           kept == IF Cardinality(names) >= MaxNames THEN {} ELSE {e \in names : e.key # CacheKey(namer.rows)}
           entry(named) == [key |-> CacheKey(namer.rows), names |-> chosen(named), at |-> tick]
<1>1. PICK named \in SUBSET DOMAIN namer.rows :
        /\ names' = kept \cup {entry(named)}
        /\ namer' = [namer EXCEPT !.pc = "done", !.names = chosen(named)]
  BY DEF LlmAnswers
<1>2. segments' = segments
  BY DEF LlmAnswers
<1>3. /\ DOMAIN chosen(named) = DOMAIN namer.rows
      /\ \A i \in DOMAIN namer.rows :
           \/ chosen(named)[i] = <<"llm", namer.rows[i].means>>
           \/ chosen(named)[i] \in {Tier(i)} \X FlowTags
  <2>1. CASE given(named) # <<>>
    <3>1. chosen(named) = [i \in DOMAIN namer.rows |-> <<"llm", namer.rows[i].means>>]
      BY <2>1 DEF LlmNames
    <3> QED
      BY <3>1
  <2>2. CASE given(named) = <<>>
    <3>1. chosen(named) = [i \in DOMAIN namer.rows |-> <<Tier(i), namer.rows[i].flow>>]
      BY <2>2 DEF HeuristicNames
    <3> QED
      BY <3>1 DEF NameIInv, Tagged
  <2> QED
    BY <2>1, <2>2
<1> HIDE DEF chosen, kept
<1>4. EntryFits(entry(named))
  <2>1. /\ DOMAIN CacheKey(namer.rows) = DOMAIN namer.rows
        /\ \A i \in DOMAIN namer.rows : CacheKey(namer.rows)[i][2] = namer.rows[i].means
    BY DEF CacheKey
  <2>2. entry(named).key = CacheKey(namer.rows) /\ entry(named).names = chosen(named)
    OBVIOUS
  <2> HIDE DEF entry
  <2> QED
    BY <1>3, <2>1, <2>2 DEF EntryFits
<1>5. kept \subseteq names
  BY DEF kept
<1> HIDE DEF entry
<1>6. \A e \in names' : EntryFits(e)
  BY <1>1, <1>4, <1>5 DEF NameIInv
<1>7. /\ namer' \in [pc : {"idle", "llm", "done"}, rows : {namer'.rows}, names : {namer'.names}]
      /\ namer'.rows = namer.rows /\ namer'.names = chosen(named)
  BY <1>1 DEF NameIInv
<1>8. NamesDescribe'
  BY <1>3, <1>7 DEF NamesDescribe, FlowTags
<1> QED
  BY <1>2, <1>6, <1>7, <1>8 DEF NameIInv

\* The invariant of the names, their cache and the pipeline's result.
THEOREM NameInvariance == NameSpec => []NameIInv
<1>1. NameIInv /\ [NameNext]_nameVars => NameIInv'
  <2> SUFFICES ASSUME NameIInv, [NameNext]_nameVars PROVE NameIInv'
    OBVIOUS
  <2>1. CASE Resegment
    BY <2>1, SegmentsTagged DEF Resegment, NameIInv, NamesDescribe, EntryFits
  <2>2. CASE NameTick \/ UNCHANGED nameVars
    BY <2>2 DEF NameTick, nameVars, NameIInv, NamesDescribe, EntryFits
  <2>3. CASE NameRestart
    BY <2>3 DEF NameRestart, NameIInv, Unasked, Unsegmented, Tagged, NamesDescribe
  <2> QED
    BY <2>1, <2>2, <2>3, AskNamesInv, LlmAnswersInv DEF NameNext
<1> QED
  BY <1>1, NameInitial, PTL DEF NameSpec

\* The names an answer is given are those of its segments (pipeline/segment_naming.py), for
\* any users, any clustering and any answers of the model.
THEOREM NamesFit == NameSpec => []NamesDescribe
<1>1. NameIInv => NamesDescribe
  BY DEF NameIInv
<1> QED
  BY <1>1, NameInvariance, PTL

-----------------------------------------------------------------------------
(* The fusion of two rankings.                                               *)

LEMMA Scaled ==
  ASSUME NEW a \in Nat, NEW b \in Nat, NEW c \in Nat \ {0}
  PROVE  /\ a > b <=> a * c > b * c
         /\ a >= b <=> a * c >= b * c
  OBVIOUS

\* Fractions compare as they should: one that is above, or not below, a second is so of a third.
LEMMA FractionsInOrder ==
  ASSUME NEW x1 \in Nat, NEW x2 \in Nat \ {0}, NEW y1 \in Nat, NEW y2 \in Nat \ {0},
         NEW z1 \in Nat, NEW z2 \in Nat \ {0},
         x1 * y2 >= y1 * x2, y1 * z2 >= z1 * y2
  PROVE  /\ x1 * z2 >= z1 * x2
         /\ x1 * y2 > y1 * x2 \/ y1 * z2 > z1 * y2 => x1 * z2 > z1 * x2
<1>1. /\ x1 * y2 \in Nat /\ y1 * x2 \in Nat /\ y1 * z2 \in Nat /\ z1 * y2 \in Nat
      /\ x1 * z2 \in Nat /\ z1 * x2 \in Nat
  OBVIOUS
<1>2. /\ (x1 * y2) * z2 >= (y1 * x2) * z2
      /\ x1 * y2 > y1 * x2 => (x1 * y2) * z2 > (y1 * x2) * z2
  BY <1>1, Scaled
<1>3. /\ (y1 * z2) * x2 >= (z1 * y2) * x2
      /\ y1 * z2 > z1 * y2 => (y1 * z2) * x2 > (z1 * y2) * x2
  BY <1>1, Scaled
<1>4. /\ (x1 * y2) * z2 = (x1 * z2) * y2 /\ (y1 * x2) * z2 = (y1 * z2) * x2
      /\ (z1 * y2) * x2 = (z1 * x2) * y2
  OBVIOUS
<1>5. /\ (x1 * z2) * y2 >= (z1 * x2) * y2
      /\ x1 * y2 > y1 * x2 \/ y1 * z2 > z1 * y2 => (x1 * z2) * y2 > (z1 * x2) * y2
  BY <1>1, <1>2, <1>3, <1>4
<1> QED
  BY <1>1, <1>5, Scaled

Ranking(s) == Len(s) \in Nat /\ s \in [1..Len(s) -> Samples] /\ Distinct(s)

LEMMA RankingsRank ==
  ASSUME NEW S \in SUBSET Samples, NEW n, NEW s \in Rankings(S, n)
  PROVE  Ranking(s) /\ (n \in Nat => Len(s) <= n)
<1>1. PICK m \in 0..n : s \in [1..m -> S] /\ Distinct(s)
  BY DEF Rankings
<1>2. m \in Nat
  OBVIOUS
<1>3. Len(s) = m
  BY <1>1, <1>2
<1> QED
  BY <1>1, <1>2, <1>3 DEF Ranking

\* A sample's rank is its place in the ranking, and only its own.
LEMMA RankIsPlace ==
  ASSUME NEW s, Ranking(s)
  PROVE  /\ IsFiniteSet(Ids(s))
         /\ \A id \in Ids(s) : Rank(s, id) \in 1..Len(s) /\ s[Rank(s, id)] = id
<1>1. ASSUME NEW id \in Ids(s) PROVE Rank(s, id) \in 1..Len(s) /\ s[Rank(s, id)] = id
  <2>1. \E i \in 1..Len(s) : s[i] = id
    BY DEF Ids
  <2> QED
    BY <2>1 DEF Rank
<1>2. IsFiniteSet(Ids(s))
  <2>1. s \in Surjection(1..Len(s), Ids(s))
    BY DEF Ranking, Surjection, Ids
  <2>2. ExistsSurjection(1..Len(s), Ids(s))
    BY <2>1 DEF ExistsSurjection
  <2>3. \E n \in Nat : ExistsSurjection(1..n, Ids(s))
    BY <2>2 DEF Ranking
  <2> QED
    BY <2>3, FS_NatSurjection
<1> QED
  BY <1>1, <1>2

\* The scores of samples are fractions.
LEMMA ScoreTypes ==
  ASSUME NEW s, NEW d, Ranking(s), Ranking(d), NEW id \in Ids(s) \cup Ids(d)
  PROVE  RRF(s, d, id).num \in Nat /\ RRF(s, d, id).den \in Nat \ {0}
<1>1. \A r \in Nat : Single(r).num \in Nat /\ Single(r).den \in Nat \ {0}
  BY RetrievalAssumption DEF Single
<1>2. \A r, q \in Nat : Both(r, q).num \in Nat /\ Both(r, q).den \in Nat \ {0}
  <2> SUFFICES ASSUME NEW r \in Nat, NEW q \in Nat
               PROVE  Both(r, q).num \in Nat /\ Both(r, q).den \in Nat \ {0}
    OBVIOUS
  <2>1. K + r \in Nat \ {0} /\ K + q \in Nat \ {0}
    BY RetrievalAssumption
  <2>2. (K + r) * (K + q) \in Nat \ {0}
    BY <2>1
  <2> QED
    BY <2>1, <2>2 DEF Both
<1>3. /\ id \in Ids(s) => Rank(s, id) \in Nat
      /\ id \in Ids(d) => Rank(d, id) \in Nat
  BY RankIsPlace DEF Ranking
<1> QED
  BY <1>1, <1>2, <1>3 DEF RRF

\* No two samples are entered at the same place.
LEMMA EntriesDiffer ==
  ASSUME NEW s, NEW d, Ranking(s), Ranking(d)
  PROVE  /\ \A id \in Ids(s) \cup Ids(d) : Entry(s, d, id) \in Nat
         /\ \A a, b \in Ids(s) \cup Ids(d) : a # b => Entry(s, d, a) # Entry(s, d, b)
<1>1. /\ \A id \in Ids(s) : Rank(s, id) \in 1..Len(s) /\ s[Rank(s, id)] = id
      /\ \A id \in Ids(d) : Rank(d, id) \in 1..Len(d) /\ d[Rank(d, id)] = id
      /\ Len(s) \in Nat /\ Len(d) \in Nat
  BY RankIsPlace DEF Ranking
<1> QED
  BY <1>1 DEF Entry

\* Precedes orders the samples of two rankings.
LEMMA PrecedesOrders ==
  ASSUME NEW s, NEW d, Ranking(s), Ranking(d)
  PROVE  LET all == Ids(s) \cup Ids(d) IN
         /\ \A a \in all : ~Precedes(s, d, a, a)
         /\ \A a, b \in all : a # b => Precedes(s, d, a, b) \/ Precedes(s, d, b, a)
         /\ \A a, b, c \in all :
              Precedes(s, d, a, b) /\ Precedes(s, d, b, c) => Precedes(s, d, a, c)
<1> DEFINE all == Ids(s) \cup Ids(d)
           num == [id \in all |-> RRF(s, d, id).num]
           den == [id \in all |-> RRF(s, d, id).den]
           ent == [id \in all |-> Entry(s, d, id)]
<1>1. \A id \in all : num[id] \in Nat /\ den[id] \in Nat \ {0} /\ ent[id] \in Nat
  BY ScoreTypes, EntriesDiffer
<1>2. \A a, b \in all : a # b => ent[a] # ent[b]
  BY EntriesDiffer
<1>3. \A a, b \in all :
        Precedes(s, d, a, b) <=> \/ num[a] * den[b] > num[b] * den[a]
                                 \/ ~(num[b] * den[a] > num[a] * den[b]) /\ ent[a] < ent[b]
  BY DEF Precedes, Above
<1> HIDE DEF num, den, ent
<1>4. \A a, b \in all : num[a] * den[b] \in Nat
  BY <1>1
<1>5. \A a \in all : ~Precedes(s, d, a, a)
  BY <1>1, <1>3, <1>4
<1>6. \A a, b \in all : a # b => Precedes(s, d, a, b) \/ Precedes(s, d, b, a)
  <2> SUFFICES ASSUME NEW a \in all, NEW b \in all, a # b
               PROVE  Precedes(s, d, a, b) \/ Precedes(s, d, b, a)
    OBVIOUS
  <2>1. ent[a] < ent[b] \/ ent[b] < ent[a]
    BY <1>1, <1>2
  <2> HIDE DEF all
  <2> QED
    BY <1>3, <2>1
<1>7. ASSUME NEW a \in all, NEW b \in all, NEW c \in all,
             Precedes(s, d, a, b), Precedes(s, d, b, c)
      PROVE  Precedes(s, d, a, c)
  <2>1. num[a] * den[b] >= num[b] * den[a] /\ num[b] * den[c] >= num[c] * den[b]
    BY <1>3, <1>4, <1>7
  <2>2. /\ num[a] * den[c] >= num[c] * den[a]
        /\ num[a] * den[b] > num[b] * den[a] \/ num[b] * den[c] > num[c] * den[b]
             => num[a] * den[c] > num[c] * den[a]
    BY <1>1, <2>1, FractionsInOrder
  <2>3. CASE num[a] * den[b] > num[b] * den[a] \/ num[b] * den[c] > num[c] * den[b]
    BY <1>3, <2>2, <2>3
  <2>4. CASE ~(num[a] * den[b] > num[b] * den[a] \/ num[b] * den[c] > num[c] * den[b])
    <3>1. ent[a] < ent[b] /\ ent[b] < ent[c]
      BY <1>3, <1>7, <2>4
    <3>2. ent[a] < ent[c]
      BY <1>1, <3>1
    <3> QED
      BY <1>3, <1>4, <2>2, <3>2
  <2> QED
    BY <2>3, <2>4
<1> QED
  BY <1>5, <1>6, <1>7

\* The fusion lists samples of the rankings, and one that precedes another earlier.
LEMMA FusionSorts ==
  ASSUME NEW s, NEW d, Ranking(s), Ranking(d)
  PROVE  /\ \A i \in 1..Len(Fusion(s, d)) : Fusion(s, d)[i] \in Ids(s) \cup Ids(d)
         /\ \A i, j \in 1..Len(Fusion(s, d)) :
              Precedes(s, d, Fusion(s, d)[i], Fusion(s, d)[j]) => i < j
<1> DEFINE all == Ids(s) \cup Ids(d)
           below == [x \in all |-> {y \in all : Precedes(s, d, y, x)}]
           n == Cardinality(all)
           f == Fusion(s, d)
<1>1. IsFiniteSet(all)
  BY RankIsPlace, FS_Union
<1>2. /\ below \in [all -> SUBSET all]
      /\ \A x \in all : x \notin below[x]
      /\ \A x, y \in all : y \in below[x] => below[y] \subseteq below[x]
      /\ \A x, y \in all : x # y => x \in below[y] \/ y \in below[x]
  BY PrecedesOrders
<1>3. f = [i \in 1..n |-> CHOOSE x \in all : Cardinality({y \in all : Precedes(s, d, y, x)}) = i - 1]
  BY DEF Fusion
<1>4. \A x \in all : below[x] = {y \in all : Precedes(s, d, y, x)}
  OBVIOUS
<1>5. \A x, y \in all : Precedes(s, d, y, x) => y \in below[x]
  OBVIOUS
<1> HIDE DEF all, below, f
<1>6. /\ n \in Nat
      /\ \A x, y \in all : y \in below[x] => Cardinality(below[y]) < Cardinality(below[x])
      /\ \A i \in 1..n : \E x \in all : Cardinality(below[x]) = i - 1
  BY <1>1, <1>2, Places
<1> HIDE DEF n
<1>7. ASSUME NEW i \in 1..n
      PROVE  f[i] \in all /\ Cardinality(below[f[i]]) = i - 1
  <2>1. \E x \in all : Cardinality({y \in all : Precedes(s, d, y, x)}) = i - 1
    BY <1>4, <1>6
  <2>2. f[i] = CHOOSE x \in all : Cardinality({y \in all : Precedes(s, d, y, x)}) = i - 1
    BY <1>3
  <2>3. f[i] \in all /\ Cardinality({y \in all : Precedes(s, d, y, f[i])}) = i - 1
    BY <2>1, <2>2
  <2> QED
    BY <1>4, <2>3
<1>8. Len(f) = n
  BY <1>3, <1>6
<1>9. ASSUME NEW i \in 1..n, NEW j \in 1..n, Precedes(s, d, f[i], f[j])
      PROVE  i < j
  <2>1. i - 1 < j - 1
    BY <1>5, <1>6, <1>7, <1>9
  <2> QED
    BY <1>6, <2>1
<1> QED
  BY <1>7, <1>8, <1>9 DEF f, all

\* Two fractions of half a third or more are more than the third together.
LEMMA TwoBeatOne ==
  ASSUME NEW r \in Nat, NEW q \in Nat, NEW p \in Nat, r > 0, q > 0, r < 2 * p, q < 2 * p
  PROVE  (r + q) * p > 1 * (r * q)
<1>1. r * (2 * p) > r * q /\ q * (2 * p) > q * r
  BY Scaled
<1>2. r * (2 * p) = 2 * (r * p) /\ q * (2 * p) = 2 * (q * p) /\ q * r = r * q
      /\ (r + q) * p = r * p + q * p
  OBVIOUS
<1>3. r * p \in Nat /\ q * p \in Nat /\ r * q \in Nat
  OBVIOUS
<1> DEFINE rp == r * p   qp == q * p   rq == r * q
<1>4. 2 * rp > rq /\ 2 * qp > rq
  BY <1>1, <1>2
<1>5. rp + qp > rq
  <2> HIDE DEF rp, qp, rq
  <2> QED
    BY <1>3, <1>4 DEF rp, qp, rq
<1> QED
  BY <1>2, <1>3, <1>5

\* Greater fractions add up to more.
LEMMA GreaterPair ==
  ASSUME NEW r \in Nat, NEW q \in Nat, NEW t \in Nat, NEW u \in Nat, r > 0, q > 0, r < t, q < u
  PROVE  (r + q) * (t * u) > (t + u) * (r * q)
<1> DEFINE rt == r * t   qu == q * u
<1>1. rt \in Nat \ {0} /\ qu \in Nat \ {0}
  OBVIOUS
<1>2. u * rt > q * rt /\ t * qu > r * qu
  BY <1>1, Scaled
<1>3. (r + q) * (t * u) = u * rt + t * qu /\ (t + u) * (r * q) = q * rt + r * qu
  OBVIOUS
<1>4. u * rt \in Nat /\ q * rt \in Nat /\ t * qu \in Nat /\ r * qu \in Nat
  BY <1>1
<1> DEFINE a == u * rt   b == q * rt   c == t * qu   e == r * qu
<1>5. a + c > b + e
  <2>1. a \in Nat /\ b \in Nat /\ c \in Nat /\ e \in Nat /\ a > b /\ c > e
    BY <1>2, <1>4
  <2> HIDE DEF a, b, c, e
  <2> QED
    BY <2>1
<1> QED
  BY <1>3, <1>5

\* What the two lists and their fusion are, once the library was asked.
Fused ==
  dense # <<>> =>
    /\ Ranking(sparse) /\ Len(sparse) <= 3 * TopK
    /\ Ranking(dense) /\ Len(dense) <= 3 * TopK
    /\ fused = Fusion(sparse, dense)

LEMMA FusedInvariance == RetSpec => []Fused
<1>1. RetInit => Fused
  BY DEF RetInit, Fused
<1>2. ASSUME Fused, AskLibrary PROVE Fused'
  <2>1. PICK P \in SUBSET Samples :
          sparse' \in {s \in Rankings(P, Cardinality(P)) : Len(s) = Smaller(Cardinality(P), 3 * TopK)}
    BY <1>2 DEF AskLibrary
  <2>2. Ranking(sparse')
    BY <2>1, RankingsRank
  <2>3. Len(sparse') <= 3 * TopK
    <3> DEFINE c == Cardinality(P)
               l == Len(sparse')
    <3>1. l = (IF c < 3 * TopK THEN c ELSE 3 * TopK) /\ l \in Nat /\ TopK \in Nat
      BY <2>1, <2>2, RetrievalAssumption DEF Smaller, Ranking
    <3> HIDE DEF c, l
    <3> QED
      BY <3>1 DEF l
  <2>4. dense' \in Rankings(Samples, 2 * TopK)
    BY <1>2 DEF AskLibrary
  <2>5. Ranking(dense') /\ Len(dense') <= 2 * TopK
    BY <2>4, RankingsRank, RetrievalAssumption
  <2>6. Len(dense') <= 3 * TopK
    BY <2>5, RetrievalAssumption DEF Ranking
  <2>7. dense' # <<>> => fused' = Fusion(sparse', dense')
    BY <1>2 DEF AskLibrary
  <2> QED
    BY <2>2, <2>3, <2>5, <2>6, <2>7 DEF Fused
<1>3. ASSUME Fused, AskEmptyLibrary \/ Grade \/ TakeFirst \/ UNCHANGED retVars PROVE Fused'
  <2>1. sparse' = sparse /\ dense' = dense /\ fused' = fused
    BY <1>3 DEF AskEmptyLibrary, Grade, TakeFirst, retVars
  <2> QED
    BY <1>3, <2>1 DEF Fused
<1>4. Fused /\ [RetNext]_retVars => Fused'
  BY <1>2, <1>3 DEF RetNext
<1> QED
  BY <1>1, <1>4, PTL DEF RetSpec

\* The order of a question's examples respects both rankings (_rrf_fusion): what words and
\* vectors both found comes before what one of them found, and what is ahead in both stays
\* ahead.  The first needs the constant of the fusion to be at least as long as a list:
\* it is 60, and the words' list at most three times FLYWHEEL_RETRIEVAL_TOP_K.
THEOREM FusionRespectsBoth ==
  ASSUME 3 * TopK <= K + 1 PROVE RetSpec => []FusionAgrees
<1>1. ASSUME Fused PROVE FusionAgrees
  <2> SUFFICES ASSUME NEW i \in 1..Len(fused), NEW j \in 1..Len(fused), dense # <<>>,
                      fused[i] \in Ids(sparse) \cap Ids(dense),
                      \/ fused[j] \notin Ids(sparse) \cap Ids(dense)
                      \/ /\ fused[j] \in Ids(sparse) \cap Ids(dense)
                         /\ Rank(sparse, fused[i]) < Rank(sparse, fused[j])
                         /\ Rank(dense, fused[i]) < Rank(dense, fused[j])
               PROVE  i < j
    BY DEF FusionAgrees
  <2> DEFINE a == fused[i]
             b == fused[j]
             r == Rank(sparse, a)
             q == Rank(dense, a)
  <2>1. /\ Ranking(sparse) /\ Ranking(dense) /\ fused = Fusion(sparse, dense)
        /\ Len(sparse) <= 3 * TopK /\ Len(dense) <= 3 * TopK
    BY <1>1 DEF Fused
  <2>2. b \in Ids(sparse) \cup Ids(dense)
    BY <2>1, FusionSorts
  <2>3. /\ Len(sparse) \in Nat /\ Len(dense) \in Nat
        /\ \A id \in Ids(sparse) : Rank(sparse, id) \in 1..Len(sparse)
        /\ \A id \in Ids(dense) : Rank(dense, id) \in 1..Len(dense)
    BY <2>1, RankIsPlace DEF Ranking
  <2>4. K \in Nat /\ TopK \in Nat /\ r \in Nat /\ q \in Nat /\ r > 0 /\ q > 0
        /\ r <= K + 1 /\ q <= K + 1
    <3>1. K \in Nat /\ TopK \in Nat
      BY RetrievalAssumption
    <3>2. r \in 1..Len(sparse) /\ q \in 1..Len(dense)
      BY <2>3
    <3> HIDE DEF r, q
    <3> QED
      BY <3>1, <3>2, <2>1, <2>3
  <2>5. RRF(sparse, dense, a) = Both(r, q)
    BY DEF RRF
  <2> HIDE DEF a, b, r, q
  <2>6. Above(RRF(sparse, dense, a), RRF(sparse, dense, b))
    <3>1. CASE b \notin Ids(sparse) \cap Ids(dense)
      <4>1. PICK p \in Nat : p > 0 /\ RRF(sparse, dense, b) = Single(p)
        <5>1. CASE b \notin Ids(dense)
          BY <5>1, <2>2, <2>3 DEF RRF
        <5>2. CASE b \in Ids(dense)
          BY <5>2, <3>1, <2>3 DEF RRF
        <5> QED
          BY <5>1, <5>2
      <4>2. /\ K + r \in Nat /\ K + q \in Nat /\ K + p \in Nat /\ K + r > 0 /\ K + q > 0
            /\ K + r < 2 * (K + p) /\ K + q < 2 * (K + p)
        BY <2>4, <4>1
      <4>3. ((K + r) + (K + q)) * (K + p) > 1 * ((K + r) * (K + q))
        BY <4>2, TwoBeatOne
      <4> QED
        BY <2>5, <4>1, <4>3 DEF Above, Both, Single
    <3>2. CASE b \in Ids(sparse) \cap Ids(dense)
      <4> DEFINE t == Rank(sparse, b)
                 u == Rank(dense, b)
      <4>1. RRF(sparse, dense, b) = Both(t, u)
        BY <3>2 DEF RRF
      <4>2. t \in Nat /\ u \in Nat /\ r < t /\ q < u
        BY <2>3, <3>2 DEF a, b, r, q
      <4> HIDE DEF t, u
      <4>3. /\ K + r \in Nat /\ K + q \in Nat /\ K + t \in Nat /\ K + u \in Nat
            /\ K + r > 0 /\ K + q > 0 /\ K + r < K + t /\ K + q < K + u
        BY <2>4, <4>2
      <4>4. ((K + r) + (K + q)) * ((K + t) * (K + u)) > ((K + t) + (K + u)) * ((K + r) * (K + q))
        BY <4>3, GreaterPair
      <4> QED
        BY <2>5, <4>1, <4>4 DEF Above, Both
    <3> QED
      BY <3>1, <3>2
  <2>7. Precedes(sparse, dense, a, b)
    BY <2>6 DEF Precedes
  <2> QED
    BY <2>1, <2>7, FusionSorts DEF a, b
<1> QED
  BY <1>1, FusedInvariance, PTL

-----------------------------------------------------------------------------
(* The skills.                                                               *)

\* No time is later than this one.
LastSeen == LastTime + 1

SkillTypes ==
  /\ \A p \in Paths : files[p].mtime \in 0..LastSeen
  /\ DOMAIN files = Paths
  /\ time \in 1..LastSeen

\* Times that were compared are numbers.
Dated == Paths # {} => scannedAt \in Nat /\ newestFile \in Nat

\* LibraryCatchesUp, also while the times are being read.
ShownByTimes == library # Unloaded /\ ~hidden => library = Scan \/ Newest > scannedAt

\* A tool is registered under the group its definition had.
Registered ==
  /\ DOMAIN registry \subseteq Tools(imported)
  /\ \A n \in DOMAIN registry : registry[n] = imported[n].group

\* A question chooses only after the tools were registered, and a load begins without a choice.
NothingChosen == loading = "stat" \/ imported = Unloaded => selection = NoChoice

SkillIInv == SkillTypes /\ Dated /\ ShownByTimes /\ Registered /\ NothingChosen /\ DisclosedBound

\* The greatest time is that of a file, and no file is newer.
LEMMA NewestFits ==
  ASSUME NEW f, \A p \in Paths : f[p].mtime \in 0..LastSeen, Paths # {}
  PROVE  /\ Max({f[p].mtime : p \in Paths}) \in 0..LastSeen
         /\ \A q \in Paths : Max({f[p].mtime : p \in Paths}) >= f[q].mtime
<1> DEFINE times == {f[p].mtime : p \in Paths}
           last == LastSeen
<1>1. last \in Nat
  BY SkillAssumption DEF LastSeen
<1>2. times \subseteq 0..last /\ times # {} /\ \A p \in Paths : f[p].mtime \in times
  BY Zenon
<1> HIDE DEF times, last
<1>3. \E x \in times : \A y \in times : x >= y
  BY <1>1, <1>2, GreatestNat
<1>4. Max(times) \in times /\ \A y \in times : Max(times) >= y
  BY <1>3 DEF Max
<1> QED
  BY <1>2, <1>4 DEF times, last

LEMMA SkillInitial == SkillInit => SkillIInv
<1> SUFFICES ASSUME SkillInit PROVE SkillIInv
  OBVIOUS
<1>1. SkillTypes
  <2>1. \A f \in {Absent} \cup {Skill(c, 1) : c \in Contents} : f.mtime \in 0..LastSeen
    BY SkillAssumption DEF Absent, Skill, LastSeen
  <2>2. \A p \in Paths : files[p] \in {Absent} \cup {Skill(c, 1) : c \in Contents}
    BY DEF SkillInit
  <2>3. DOMAIN files = Paths /\ time \in 1..LastSeen
    BY SkillAssumption DEF SkillInit, LastSeen
  <2> QED
    BY <2>1, <2>2, <2>3 DEF SkillTypes
<1>2. Registered
  BY DEF SkillInit, Registered
<1>3. Dated /\ ShownByTimes /\ NothingChosen
  BY DEF SkillInit, Dated, ShownByTimes, NothingChosen
<1>4. DisclosedBound
  BY DEF SkillInit, DisclosedBound, NoChoice
<1> QED
  BY <1>1, <1>2, <1>3, <1>4 DEF SkillIInv

\* What is on the disk decides what a scan finds.
LEMMA SameFiles ==
  ASSUME UNCHANGED files
  PROVE  Scan' = Scan /\ Newest' = Newest
BY DEF Scan, Newest

LEMMA StatInv == ASSUME SkillIInv, NEW force \in BOOLEAN, Stat(force) PROVE SkillIInv'
<1> USE DEF SkillIInv
<1>0. UNCHANGED <<files, time, registry, imported>> /\ selection' = NoChoice /\ newestFile' = Newest
  BY DEF Stat
<1>1. SkillTypes' /\ Dated'
  <2>1. Paths # {} => Newest \in Nat
    BY NewestFits, SkillAssumption DEF SkillTypes, Newest, LastSeen
  <2> QED
    BY <1>0, <2>1 DEF Stat, SkillTypes, Dated
<1>2. ShownByTimes'
  BY <1>0, SameFiles DEF Stat, ShownByTimes, SkillTypes
<1>3. Registered' /\ NothingChosen'
  BY <1>0 DEF Registered, NothingChosen, Tools
<1>4. DisclosedBound'
  BY <1>0 DEF DisclosedBound, NoChoice
<1> QED
  BY <1>1, <1>2, <1>3, <1>4

LEMMA RescanInv == ASSUME SkillIInv, Rescan PROVE SkillIInv'
<1> USE DEF SkillIInv
<1>0. UNCHANGED <<files, time, registry, imported, selection>> /\ newestFile' = 0 /\ loading = "stat"
  BY DEF Rescan
<1>1. SkillTypes' /\ Dated'
  BY <1>0 DEF Rescan, SkillTypes, Dated
<1>2. ShownByTimes'
  BY <1>0, SameFiles DEF Rescan, ShownByTimes
<1>3. Registered' /\ NothingChosen'
  BY <1>0 DEF Registered, NothingChosen, Tools
<1>4. DisclosedBound'
  BY <1>0 DEF DisclosedBound, NothingChosen, NoChoice
<1> QED
  BY <1>1, <1>2, <1>3, <1>4

LEMMA RegisterInv == ASSUME SkillIInv, Register PROVE SkillIInv'
<1> USE DEF SkillIInv
<1>0. /\ UNCHANGED <<files, time, library, scannedAt, newestFile, selection, hidden>>
      /\ imported = Unloaded /\ imported' = library
  BY DEF Register
<1>1. PICK failed \in SUBSET Tools(library) :
        registry' = [n \in Tools(library) \ failed |-> library[n].group]
  BY DEF Register
<1>2. SkillTypes' /\ Dated' /\ ShownByTimes'
  BY <1>0, SameFiles DEF SkillTypes, Dated, ShownByTimes
<1>3. Registered'
  BY <1>0, <1>1 DEF Registered, Tools
<1>4. selection' = NoChoice
  BY <1>0 DEF NothingChosen
<1>5. NothingChosen' /\ DisclosedBound'
  BY <1>4 DEF NothingChosen, DisclosedBound, NoChoice
<1> QED
  BY <1>2, <1>3, <1>5

\* What is disclosed of the tools of a group is bound to the model.
LEMMA GroupIsBound ==
  ASSUME Registered, library = imported, NEW group,
         NEW hits \in SUBSET Candidates(group), NEW scores \in [hits -> 1..2],
         NEW n \in Disclosed(group, scores), n \notin Guides, n \notin Off,
         n \notin Tools(imported) \ DOMAIN registry
  PROVE  n \in Bound(group)
<1>1. n \in DOMAIN library /\ n \in DOMAIN registry
  BY DEF Disclosed, Tools
<1>2. registry[n] = library[n].group
  BY <1>1 DEF Registered
<1>3. n \in InGroup(group)
  <2>1. CASE DOMAIN scores # {}
    <3>1. n \in Candidates(group)
      BY <2>1 DEF Disclosed, BestHits
    <3> QED
      BY <1>1, <1>2, <3>1 DEF Candidates, InGroup
  <2>2. CASE DOMAIN scores = {} /\ group = "analysis"
    BY <2>2 DEF Disclosed, FirstOfFloor
  <2>3. CASE DOMAIN scores = {} /\ group # "analysis"
    BY <2>3 DEF Disclosed, FirstByName
  <2> QED
    BY <2>1, <2>2, <2>3
<1> QED
  BY <1>3 DEF Bound

LEMMA SelectInv == ASSUME SkillIInv, NEW group \in Groups, Select(group) PROVE SkillIInv'
<1> USE DEF SkillIInv
<1>0. /\ UNCHANGED <<files, time, library, scannedAt, newestFile, registry, imported, hidden>>
      /\ imported # Unloaded /\ loading' = "no"
  BY DEF Select
<1>1. PICK hits \in SUBSET Candidates(group) : \E scores \in [hits -> 1..2] :
        selection' = [group |-> group, bound |-> Bound(group), disclosed |-> Disclosed(group, scores)]
  BY DEF Select
<1>s. PICK scores \in [hits -> 1..2] :
        selection' = [group |-> group, bound |-> Bound(group), disclosed |-> Disclosed(group, scores)]
  BY <1>1
<1>2. SkillTypes' /\ Dated' /\ ShownByTimes'
  BY <1>0, SameFiles DEF SkillTypes, Dated, ShownByTimes
<1>3. Registered' /\ NothingChosen'
  BY <1>0 DEF Registered, Tools, NothingChosen
<1>4. DisclosedBound'
  <2> SUFFICES ASSUME library = imported, NEW n \in Disclosed(group, scores), n \notin Guides, n \notin Off,
                      n \notin Tools(imported) \ DOMAIN registry
               PROVE  n \in Bound(group)
    BY <1>0, <1>s DEF DisclosedBound, Tools
  <2> QED
    BY GroupIsBound
<1> QED
  BY <1>2, <1>3, <1>4

\* A change on the disk is either newer than the last scan or hidden.
LEMMA ChangedInv ==
  ASSUME SkillIInv, NEW p \in Paths, NEW file, file.mtime \in 0..LastSeen, Changed(p, file)
  PROVE  SkillIInv'
<1> USE DEF SkillIInv
<1>0. /\ UNCHANGED <<time, library, scannedAt, loading, newestFile, registry, imported, selection>>
      /\ files' = [files EXCEPT ![p] = file] /\ hidden' = (hidden \/ file.mtime <= scannedAt)
  BY DEF Changed
<1>1. SkillTypes' /\ Dated'
  BY <1>0 DEF SkillTypes, Dated
<1>2. ShownByTimes'
  <2> SUFFICES ASSUME ~(file.mtime <= scannedAt) PROVE Newest' > scannedAt
    BY <1>0 DEF ShownByTimes
  <2>1. Newest' \in Nat /\ Newest' >= files'[p].mtime
    <3>1. Paths # {}
      OBVIOUS
    <3>2. \A q \in Paths : files'[q].mtime \in 0..LastSeen
      BY <1>1 DEF SkillTypes
    <3>3. /\ Max({files'[q].mtime : q \in Paths}) \in 0..LastSeen
          /\ Max({files'[q].mtime : q \in Paths}) >= files'[p].mtime
      BY <3>1, <3>2, NewestFits
    <3> QED
      BY <3>2, <3>3, SkillAssumption DEF Newest, LastSeen
  <2>2. files'[p].mtime = file.mtime
    BY <1>0 DEF SkillTypes
  <2>3. scannedAt \in Nat /\ file.mtime \in Nat
    BY SkillAssumption DEF Dated, LastSeen
  <2> QED
    BY <2>1, <2>2, <2>3
<1>3. Registered' /\ NothingChosen'
  BY <1>0 DEF Registered, Tools, NothingChosen
<1>4. DisclosedBound'
  BY <1>0 DEF DisclosedBound, Tools
<1> QED
  BY <1>1, <1>2, <1>3, <1>4

LEMMA DiskInv ==
  ASSUME SkillIInv, NEW p \in Paths, Edit(p) \/ Break(p) \/ Delete(p)
  PROVE  SkillIInv'
<1>1. time \in Nat /\ time <= LastSeen /\ LastSeen \in Nat
  BY SkillAssumption DEF SkillIInv, SkillTypes, LastSeen
<1>2. CASE Edit(p)
  <2>1. PICK c \in Contents, t \in 1..time : Changed(p, Skill(c, t))
    BY <1>2 DEF Edit
  <2>2. Skill(c, t).mtime = t /\ t \in 0..LastSeen
    BY <1>1 DEF Skill
  <2> QED
    BY <2>1, <2>2, ChangedInv
<1>3. CASE Break(p)
  BY <1>1, <1>3, ChangedInv DEF Break
<1>4. CASE Delete(p)
  BY <1>1, <1>4, ChangedInv DEF Delete, Absent
<1> QED
  BY <1>2, <1>3, <1>4

LEMMA QuietSkills == ASSUME SkillIInv, TimePasses \/ UNCHANGED skillVars PROVE SkillIInv'
<1> USE DEF SkillIInv
<1>0. UNCHANGED <<files, library, scannedAt, loading, newestFile, registry, imported, selection, hidden>>
  BY DEF TimePasses, skillVars
<1>1. time' \in 1..LastSeen
  BY SkillAssumption DEF TimePasses, skillVars, SkillTypes, LastSeen
<1>2. SkillTypes' /\ Dated' /\ ShownByTimes'
  BY <1>0, <1>1, SameFiles DEF SkillTypes, Dated, ShownByTimes
<1>3. Registered' /\ NothingChosen' /\ DisclosedBound'
  BY <1>0 DEF Registered, Tools, NothingChosen, DisclosedBound
<1> QED
  BY <1>2, <1>3

LEMMA SkillInvariance == SkillSpec => []SkillIInv
<1>1. SkillIInv /\ [SkillNext]_skillVars => SkillIInv'
  BY StatInv, RescanInv, RegisterInv, SelectInv, DiskInv, QuietSkills DEF SkillNext
<1> QED
  BY SkillInitial, <1>1, PTL DEF SkillSpec

\* The definitions a load leaves are the disk's, or the files' times show the next load
\* that they are not, for any number of SKILL.md files (load_all_definitions).
THEOREM SkillsCatchUp == SkillSpec => []LibraryCatchesUp
<1>1. SkillIInv => LibraryCatchesUp
  BY DEF SkillIInv, ShownByTimes, LibraryCatchesUp
<1> QED
  BY <1>1, SkillInvariance, PTL

\* As long as the definitions are those the tools were registered from, a tool whose
\* instructions are disclosed is one the model was given, was turned off, or failed to
\* load (register_from_definitions, select_skills, disclosure_block).
THEOREM DisclosedAreBound == SkillSpec => []DisclosedBound
<1>1. SkillIInv => DisclosedBound
  BY DEF SkillIInv
<1> QED
  BY <1>1, SkillInvariance, PTL

-----------------------------------------------------------------------------
(* The fact check.                                                           *)

LEMMA Divided ==
  ASSUME NEW num \in Nat, NEW den \in Nat \ {0}
  PROVE  /\ num \div den \in Nat /\ num % den \in 0..(den - 1)
         /\ num = (num \div den) * den + (num % den)
<1>1. num \div den \in Int /\ num % den \in 0..(den - 1)
  BY Z3
<1>2. num % den = num - (num \div den) * den
  BY SMT
<1>3. num \div den \in Nat
  BY Z3
<1> QED
  BY <1>1, <1>2, <1>3

\* Rounding takes the nearer of the two neighbours.
LEMMA RoundedIsNear ==
  ASSUME NEW num \in Nat, NEW den \in Nat \ {0}
  PROVE  LET q == num \div den  r == num % den IN
         /\ Rounded(num, den) \in {q, q + 1}
         /\ 2 * r < den => Rounded(num, den) = q
         /\ 2 * r > den => Rounded(num, den) = q + 1
<1> DEFINE q == num \div den
           r == num % den
           Fits(v) == \/ 2 * r < den /\ v = q
                      \/ 2 * r > den /\ v = q + 1
                      \/ 2 * r = den /\ v % 2 = 0
<1>1. Rounded(num, den) = CHOOSE v \in {q, q + 1} : Fits(v)
  BY DEF Rounded
<1>2. q \in Nat /\ r \in Nat /\ den \in Nat
  BY Divided
<1> HIDE DEF q, r
<1>3. \E v \in {q, q + 1} : Fits(v)
  <2>1. q % 2 = 0 \/ (q + 1) % 2 = 0
    BY <1>2
  <2> QED
    BY <1>2, <2>1
<1>4. Rounded(num, den) \in {q, q + 1} /\ Fits(Rounded(num, den))
  BY <1>1, <1>3
<1>5. /\ 2 * r < den => Rounded(num, den) = q
      /\ 2 * r > den => Rounded(num, den) = q + 1
  BY <1>2, <1>4
<1> QED
  BY <1>4, <1>5 DEF q, r

\* A number within less than half a unit is what rounding gives, and what rounding gives
\* is within half a unit.
LEMMA RoundedFits ==
  ASSUME NEW n \in Nat, NEW num \in Nat, NEW den \in Nat \ {0}
  PROVE  /\ InsideHalf(n, num, den) => Rounded(num, den) = n
         /\ Rounded(num, den) = n => WithinHalf(n, num, den)
<1> DEFINE q == num \div den
           r == num % den
           w == Rounded(num, den)
<1>1. /\ q \in Nat /\ r \in 0..(den - 1) /\ num = q * den + r
      /\ w \in {q, q + 1} /\ (2 * r < den => w = q) /\ (2 * r > den => w = q + 1)
  BY Divided, RoundedIsNear
<1> HIDE DEF q, r, w
<1>2. ASSUME w = n PROVE WithinHalf(n, num, den)
  <2>1. CASE w = q
    <3>1. n * den = q * den /\ q * den \in Nat /\ 2 * r <= den
      BY <1>1, <1>2, <2>1
    <3> QED
      BY <1>1, <3>1 DEF WithinHalf, Distance
  <2>2. CASE w = q + 1
    <3>1. n * den = q * den + den /\ q * den \in Nat /\ 2 * r >= den
      BY <1>1, <1>2, <2>2
    <3> QED
      BY <1>1, <3>1 DEF WithinHalf, Distance
  <2> QED
    BY <1>1, <2>1, <2>2
<1>3. ASSUME InsideHalf(n, num, den) PROVE w = n
  <2>1. q * den \in Nat /\ n * den \in Nat
    BY <1>1
  <2>2. ~(n < q)
    <3> SUFFICES ASSUME n + 1 <= q PROVE FALSE
      BY <1>1
    <3>1. (n + 1) * den <= q * den
      BY <1>1, Scaled
    <3>2. (n + 1) * den = n * den + den
      BY <1>1
    <3> QED
      BY <1>1, <1>3, <2>1, <3>1, <3>2 DEF InsideHalf, Distance
  <2>3. ~(n > q + 1)
    <3> SUFFICES ASSUME n >= q + 2 PROVE FALSE
      BY <1>1
    <3>1. n * den >= (q + 2) * den
      BY <1>1, Scaled
    <3>2. (q + 2) * den = q * den + 2 * den
      BY <1>1
    <3> QED
      BY <1>1, <1>3, <2>1, <3>1, <3>2 DEF InsideHalf, Distance
  <2>4. CASE n = q
    <3>1. n * den = q * den
      BY <2>4
    <3>2. 2 * r < den
      BY <1>1, <1>3, <2>1, <3>1 DEF InsideHalf, Distance
    <3> QED
      BY <1>1, <2>4, <3>2
  <2>5. CASE n = q + 1
    <3>1. n * den = q * den + den
      BY <1>1, <2>5
    <3>2. 2 * r > den
      BY <1>1, <1>3, <2>1, <3>1 DEF InsideHalf, Distance
    <3> QED
      BY <1>1, <2>5, <3>2
  <2> QED
    BY <1>1, <2>2, <2>3, <2>4, <2>5
<1> QED
  BY <1>2, <1>3 DEF w

Statistics == [Segments -> StatsRow]

\* The users of all segments are a positive number.
LEMMA UsersAreMany ==
  ASSUME NEW rows \in Statistics
  PROVE  /\ \A s \in Segments : rows[s].users \in Nat \ {0} /\ rows[s].avg \in Nat \ {0}
         /\ DOMAIN rows = Segments /\ rows # NoRows
         /\ SumOfUsers(rows) \in Nat \ {0} /\ Total(rows) = SumOfUsers(rows)
<1>1. /\ \A s \in Segments : rows[s].users \in Nat \ {0} /\ rows[s].avg \in Nat \ {0}
      /\ DOMAIN rows = Segments /\ IsFiniteSet(Segments) /\ Segments # {}
  BY FactAssumption DEF Statistics, StatsRow
<1>2. rows # NoRows
  BY <1>1 DEF NoRows
<1> DEFINE people == [s \in Segments |-> {s} \X (1..rows[s].users)]
           groups == {people[s] : s \in Segments}
           everyone == UNION groups
<1>3. SumOfUsers(rows) = Cardinality(everyone)
  <2>1. everyone = UNION {{s} \X (1..rows[s].users) : s \in DOMAIN rows}
    BY <1>1
  <2> QED
    BY <2>1 DEF SumOfUsers
<1>4. IsFiniteSet(groups)
  <2>1. people \in Surjection(Segments, groups)
    BY DEF Surjection
  <2> HIDE DEF people, groups
  <2> QED
    BY <1>1, <2>1, FS_Surjection
<1>5. ASSUME NEW s \in Segments PROVE IsFiniteSet(people[s])
  <2> DEFINE numbers == 1..rows[s].users
             one == {s}
  <2>1. IsFiniteSet(numbers)
    <3> DEFINE n == rows[s].users
    <3>1. n \in Int
      BY <1>1
    <3> HIDE DEF n
    <3>2. IsFiniteSet(1..n)
      BY <3>1, FS_Interval
    <3> QED
      BY <3>2 DEF n
  <2>2. IsFiniteSet(one)
    BY FS_Singleton
  <2> HIDE DEF numbers, one
  <2>3. IsFiniteSet(one \X numbers)
    BY <2>1, <2>2, FS_Product
  <2> QED
    BY <2>3 DEF one, numbers
<1>6. everyone # {}
  <2>1. PICK s \in Segments : TRUE
    BY <1>1
  <2>2. <<s, 1>> \in people[s]
    BY <1>1
  <2> QED
    BY <2>2
<1>7. \A g \in groups : IsFiniteSet(g)
  BY <1>5
<1> HIDE DEF people, groups
<1>8. IsFiniteSet(everyone)
  BY <1>4, <1>7, FS_UNION
<1> HIDE DEF everyone
<1>9. Cardinality(everyone) \in Nat /\ Cardinality(everyone) # 0
  BY <1>6, <1>8, FS_CardinalityType, FS_EmptySet
<1> QED
  BY <1>1, <1>2, <1>3, <1>9 DEF Total

Kinds == {"count", "row", "total", "avg", "share", "times", "diff", "limit", "best", "compare"}

LEMMA Claimed ==
  ASSUME NEW c \in Claims
  PROVE  /\ c.kind \in Kinds
         /\ c.kind \notin {"best", "compare"} => c.n \in Nat
         /\ c.kind \in {"avg", "times"} => c.tenths \in BOOLEAN
         /\ c.kind = "diff" => c.sign \in {1, -1}
BY FactAssumption DEF Claims, Kinds

\* Two readings of a comparison: of users and of averages.
LEMMA ReadingsAreFractions ==
  ASSUME NEW rows \in Statistics, NEW c, c.seg \in Segments, c.of \in Segments,
         NEW x \in Readings(rows, c)
  PROVE  x[1] \in Nat /\ x[2] \in Nat \ {0}
<1>1. /\ rows[c.seg].users \in Nat /\ rows[c.of].users \in Nat \ {0}
      /\ rows[c.seg].avg \in Nat /\ rows[c.of].avg \in Nat \ {0}
  BY UsersAreMany
<1>2. x = <<rows[c.seg].users, rows[c.of].users>> \/ x = <<rows[c.seg].avg, rows[c.of].avg>>
  BY DEF Readings
<1> QED
  BY <1>1, <1>2

\* A claim that only says what the statistics say is found wrong by none of the checks.
LEMMA TruthPasses ==
  ASSUME NEW f, NEW c \in Claims, f.rows \in Statistics, Holds(f, c), c.kind # "limit"
  PROVE  Numerical(f.rows, {c}) = {} /\ Logic(f.rows, {c}) = {}
<1> DEFINE r == f.rows
<1>0. /\ \A s \in Segments : r[s].users \in Nat \ {0} /\ r[s].avg \in Nat \ {0}
      /\ DOMAIN r = Segments /\ r # NoRows
      /\ Total(r) = SumOfUsers(r) /\ Total(r) \in Nat \ {0} /\ r \in Statistics
  BY UsersAreMany
<1>1. c.kind \in {"count", "row", "total", "avg", "share", "times", "diff"}
  BY Claimed DEF Holds, Kinds
<1>2. c.n \in Nat
  BY <1>1, Claimed
<1>3. Logic(r, {c}) = {}
  BY <1>1 DEF Logic, Of
<1>4. ASSUME c.kind \in {"count", "row"} PROVE ~CountWrong(r, c)
  BY <1>4 DEF Holds, CountWrong
<1>5. ASSUME c.kind = "total" PROVE c.n = Total(r)
  BY <1>0, <1>5 DEF Holds
<1>6. ASSUME c.kind = "avg" PROVE ~AvgWrong(r, c)
  <2>1. c.seg \in Segments /\ ~c.tenths /\ InsideHalf(c.n, r[c.seg].avg, 100)
    BY <1>0, <1>6 DEF Holds
  <2>2. Rounded(r[c.seg].avg, 100) = c.n
    BY <1>0, <1>2, <2>1, RoundedFits
  <2> QED
    BY <2>1, <2>2 DEF AvgWrong
<1>7. ASSUME c.kind = "share" PROVE ~ShareWrong(r, c)
  <2> DEFINE pct == 100 * r[c.seg].users
             all == Total(r)
  <2>1. c.seg \in Segments /\ InsideHalf(c.n, pct, all)
    BY <1>0, <1>7 DEF Holds
  <2>2. pct \in Nat /\ all \in Nat \ {0}
    BY <1>0, <2>1
  <2> HIDE DEF pct, all
  <2>3. Rounded(pct, all) = c.n
    BY <1>2, <2>1, <2>2, RoundedFits
  <2>4. ~(Distance(c.n * all, pct) > all)
    <3>1. c.n * all \in Nat
      BY <1>2, <2>2
    <3> QED
      BY <2>1, <2>2, <3>1 DEF InsideHalf, Distance
  <2> QED
    BY <2>3, <2>4 DEF ShareWrong, pct, all
<1>8. ASSUME c.kind = "times" PROVE ~TimesWrong(r, c)
  <2>1. c.seg \in Segments /\ c.of \in Segments
    BY <1>0, <1>8 DEF Holds
  <2>2. PICK x \in Readings(r, c) : InsideHalf(c.n, Scale(c) * x[1], x[2])
    BY <1>8 DEF Holds
  <2>3. x[1] \in Nat /\ x[2] \in Nat \ {0}
    BY <1>0, <2>1, ReadingsAreFractions
  <2>4. RoundedMatch(c, x[1], x[2])
    <3>1. CASE c.tenths
      BY <1>2, <2>2, <2>3, <3>1, RoundedFits DEF Scale, RoundedMatch
    <3>2. CASE ~c.tenths
      <4>1. 1 * x[1] = x[1]
        BY <2>3
      <4> QED
        BY <1>2, <2>2, <2>3, <3>2, <4>1, RoundedFits DEF Scale, RoundedMatch
    <3> QED
      BY <3>1, <3>2
  <2> QED
    BY <2>2, <2>4 DEF TimesWrong
<1>9. ASSUME c.kind = "diff" PROVE ~DiffWrong(r, c)
  <2>1. /\ c.seg \in Segments /\ c.of \in Segments /\ c.n > 0
        /\ r[c.seg].users = r[c.of].users + c.sign * c.n
    BY <1>0, <1>9 DEF Holds
  <2>2. c.sign = 1 \/ c.sign = -1
    BY <1>9, Claimed
  <2>3. r[c.seg].users \in Nat /\ r[c.of].users \in Nat
    BY <1>0, <2>1
  <2> QED
    BY <1>2, <2>1, <2>2, <2>3 DEF DiffWrong
<1> HIDE DEF r
<1>10. Numerical(r, {c}) = {}
  BY <1>4, <1>5, <1>6, <1>7, <1>8, <1>9 DEF Numerical, CountClaims, Of
<1> QED
  BY <1>3, <1>10 DEF r

\* A claim that the statistics contradict is found wrong.
LEMMA UntruthIsFound ==
  ASSUME NEW f, NEW c \in Claims, f.rows \in Statistics, Contradicted(f, c), c.kind # "limit"
  PROVE  c \in Numerical(f.rows, {c})
<1> DEFINE r == f.rows
<1>0. /\ \A s \in Segments : r[s].users \in Nat \ {0} /\ r[s].avg \in Nat \ {0}
      /\ DOMAIN r = Segments /\ r # NoRows
      /\ Total(r) = SumOfUsers(r) /\ Total(r) \in Nat \ {0} /\ r \in Statistics
  BY UsersAreMany
<1>1. c.kind \in {"count", "row", "total", "avg", "share", "times", "diff"}
  BY Claimed DEF Contradicted, Kinds
<1>2. c.n \in Nat
  BY <1>1, Claimed
<1>4. ASSUME c.kind \in {"count", "row"} PROVE CountWrong(r, c)
  BY <1>4 DEF Contradicted, CountWrong
<1>5. ASSUME c.kind = "total" PROVE c.n # Total(r)
  BY <1>0, <1>5 DEF Contradicted
<1>6. ASSUME c.kind = "avg" PROVE AvgWrong(r, c)
  <2> DEFINE a == r[c.seg].avg
  <2>1. c.seg \in Segments /\ ~WithinHalf(c.n, Scale(c) * a, 100)
    BY <1>0, <1>6 DEF Contradicted
  <2>2. a \in Nat
    BY <1>0, <2>1
  <2> HIDE DEF a
  <2>3. CASE c.tenths
    <3>1. Distance(10 * c.n, a) > 1
      BY <1>2, <2>1, <2>2, <2>3 DEF WithinHalf, Scale, Distance
    <3> QED
      BY <1>0, <2>1, <2>3, <3>1 DEF AvgWrong, a
  <2>4. CASE ~c.tenths
    <3>1. 1 * a = a
      BY <2>2
    <3>2. Rounded(a, 100) # c.n
      BY <1>2, <2>1, <2>2, <2>4, <3>1, RoundedFits DEF Scale
    <3> QED
      BY <1>0, <2>1, <2>4, <3>2 DEF AvgWrong, a
  <2> QED
    BY <2>3, <2>4
<1>7. ASSUME c.kind = "share" PROVE ShareWrong(r, c)
  <2> DEFINE pct == 100 * r[c.seg].users
             all == Total(r)
  <2>1. c.seg \in Segments /\ ~c.about /\ ~WithinHalf(c.n, pct, all)
    BY <1>0, <1>7 DEF Contradicted
  <2>2. pct \in Nat /\ all \in Nat \ {0}
    BY <1>0, <2>1
  <2> HIDE DEF pct, all
  <2>3. Rounded(pct, all) # c.n
    BY <1>2, <2>1, <2>2, RoundedFits
  <2> QED
    BY <1>0, <2>1, <2>3 DEF ShareWrong, pct, all
<1>8. ASSUME c.kind = "times" PROVE TimesWrong(r, c)
  <2>1. /\ c.seg \in Segments /\ c.of \in Segments
        /\ \A x \in Readings(r, c) : ~WithinHalf(c.n, Scale(c) * x[1], x[2])
    BY <1>0, <1>8 DEF Contradicted
  <2>2. ASSUME NEW x \in Readings(r, c) PROVE ~RoundedMatch(c, x[1], x[2])
    <3>1. x[1] \in Nat /\ x[2] \in Nat \ {0}
      BY <1>0, <2>1, ReadingsAreFractions
    <3>2. ~WithinHalf(c.n, Scale(c) * x[1], x[2])
      BY <2>1
    <3>3. CASE c.tenths
      BY <1>2, <3>1, <3>2, <3>3, RoundedFits DEF Scale, RoundedMatch
    <3>4. CASE ~c.tenths
      <4>1. 1 * x[1] = x[1]
        BY <3>1
      <4> QED
        BY <1>2, <3>1, <3>2, <3>4, <4>1, RoundedFits DEF Scale, RoundedMatch
    <3> QED
      BY <3>3, <3>4
  <2> QED
    BY <1>0, <2>1, <2>2 DEF TimesWrong
<1>9. ASSUME c.kind = "diff" PROVE DiffWrong(r, c)
  <2>1. /\ c.seg \in Segments /\ c.of \in Segments
        /\ r[c.seg].users # r[c.of].users + c.sign * c.n
    BY <1>0, <1>9 DEF Contradicted
  <2>2. c.sign = 1 \/ c.sign = -1
    BY <1>9, Claimed
  <2>3. r[c.seg].users \in Nat /\ r[c.of].users \in Nat
    BY <1>0, <2>1
  <2> QED
    BY <1>0, <1>2, <2>1, <2>2, <2>3 DEF DiffWrong
<1> HIDE DEF r
<1>10. c \in Numerical(r, {c})
  BY <1>1, <1>4, <1>5, <1>6, <1>7, <1>8, <1>9 DEF Numerical, CountClaims, Of
<1> QED
  BY <1>10 DEF r

-----------------------------------------------------------------------------
(* The thresholds of a tree.                                                 *)

Lines ==
  {Leaf(d, c) : d \in 0..2, c \in Segments}
    \cup {Condition(d, f, o, v) : d \in 0..1, f \in TreeFeatures, o \in {"<=", ">"}, v \in Thresholds}

LEMMA LineFields ==
  ASSUME NEW x \in Lines
  PROVE  /\ x.leaf \in BOOLEAN
         /\ x.leaf => x.class \in Segments
         /\ ~x.leaf => x.value \in Nat /\ x.feature \in TreeFeatures /\ x.depth \in Nat
<1>1. ASSUME NEW d \in 0..2, NEW c \in Segments, x = Leaf(d, c)
      PROVE  x.leaf = TRUE /\ x.class \in Segments
  BY <1>1 DEF Leaf
<1>2. ASSUME NEW d \in 0..1, NEW f \in TreeFeatures, NEW o \in {"<=", ">"}, NEW v \in Thresholds,
             x = Condition(d, f, o, v)
      PROVE  x.leaf = FALSE /\ x.value \in Nat /\ x.feature \in TreeFeatures /\ x.depth \in Nat
  BY <1>2, FactAssumption DEF Condition
<1>3. \/ \E d \in 0..2, c \in Segments : x = Leaf(d, c)
      \/ \E d \in 0..1, f \in TreeFeatures, o \in {"<=", ">"}, v \in Thresholds : x = Condition(d, f, o, v)
  BY DEF Lines
<1>4. \/ x.leaf = TRUE /\ x.class \in Segments
      \/ x.leaf = FALSE /\ x.value \in Nat /\ x.feature \in TreeFeatures /\ x.depth \in Nat
  BY <1>1, <1>2, <1>3, Zenon
<1> QED
  BY <1>4

LEMMA Joined ==
  ASSUME NEW S, NEW s \in Seq(S), NEW u \in Seq(S)
  PROVE  /\ s \o u \in Seq(S) /\ Len(s \o u) = Len(s) + Len(u)
         /\ Len(s) \in Nat /\ Len(u) \in Nat
         /\ \A i \in 1..Len(s) : (s \o u)[i] = s[i]
         /\ \A i \in 1..Len(u) : (s \o u)[Len(s) + i] = u[i]
OBVIOUS

\* The lines x of two subtrees, each under its condition.
Joins(x, d, f, v, l, r) ==
  /\ x \in Seq(Lines) /\ Len(x) = Len(l) + Len(r) + 2
  /\ x[1] = Condition(d, f, "<=", v)
  /\ \A i \in 1..Len(l) : x[i + 1] = l[i]
  /\ x[Len(l) + 2] = Condition(d, f, ">", v)
  /\ \A i \in 1..Len(r) : x[Len(l) + 2 + i] = r[i]

LEMMA SplitLines ==
  ASSUME NEW d \in 0..1, NEW f \in TreeFeatures, NEW v \in Thresholds,
         NEW l \in Seq(Lines), NEW r \in Seq(Lines)
  PROVE  Joins(Split(d, f, v, l, r), d, f, v, l, r)
<1> DEFINE a == <<Condition(d, f, "<=", v)>>
           b == <<Condition(d, f, ">", v)>>
           al == a \o l
           alb == al \o b
           x == alb \o r
<1>1. /\ a \in Seq(Lines) /\ Len(a) = 1 /\ a[1] = Condition(d, f, "<=", v)
      /\ b \in Seq(Lines) /\ Len(b) = 1 /\ b[1] = Condition(d, f, ">", v)
  <2>1. Condition(d, f, "<=", v) \in Lines /\ Condition(d, f, ">", v) \in Lines
    BY DEF Lines
  <2> HIDE DEF Lines
  <2> QED
    BY <2>1
<1>2. x = Split(d, f, v, l, r)
  BY DEF Split
<1>3. Len(l) \in Nat /\ Len(r) \in Nat
  OBVIOUS
<1> HIDE DEF a, b
<1>4. /\ al \in Seq(Lines) /\ Len(al) = 1 + Len(l) /\ al[1] = a[1]
      /\ \A i \in 1..Len(l) : al[1 + i] = l[i]
  BY <1>1, Joined
<1> HIDE DEF al
<1>5. /\ alb \in Seq(Lines) /\ Len(alb) = Len(al) + 1 /\ alb[Len(al) + 1] = b[1]
      /\ \A i \in 1..Len(al) : alb[i] = al[i]
  <2>1. /\ alb \in Seq(Lines) /\ Len(alb) = Len(al) + Len(b) /\ Len(al) \in Nat
        /\ \A i \in 1..Len(al) : alb[i] = al[i]
        /\ \A i \in 1..Len(b) : alb[Len(al) + i] = b[i]
    <3>1. al \in Seq(Lines) /\ b \in Seq(Lines)
      BY <1>1, <1>4
    <3> QED
      BY <3>1, Joined
  <2> HIDE DEF alb
  <2>2. 1 \in 1..Len(b)
    BY <1>1
  <2> QED
    BY <1>1, <2>1, <2>2
<1> HIDE DEF alb
<1>6. /\ x \in Seq(Lines) /\ Len(x) = Len(alb) + Len(r)
      /\ \A i \in 1..Len(alb) : x[i] = alb[i]
      /\ \A i \in 1..Len(r) : x[Len(alb) + i] = r[i]
  <2>1. alb \in Seq(Lines) /\ r \in Seq(Lines)
    BY <1>5
  <2> QED
    BY <2>1, Joined
<1> HIDE DEF x
<1>7. Len(alb) = Len(l) + 2 /\ 1 \in 1..Len(al) /\ 1 \in 1..Len(alb) /\ Len(al) + 1 \in 1..Len(alb)
  BY <1>3, <1>4, <1>5
<1>8. x[1] = a[1] /\ x[Len(l) + 2] = b[1]
  <2>1. Len(al) + 1 = Len(l) + 2
    BY <1>3, <1>4
  <2> QED
    BY <1>4, <1>5, <1>6, <1>7, <2>1
<1>9. \A i \in 1..Len(l) : x[i + 1] = l[i]
  <2> SUFFICES ASSUME NEW i \in 1..Len(l) PROVE x[i + 1] = l[i]
    OBVIOUS
  <2>1. 1 + i = i + 1 /\ i + 1 \in 1..Len(al) /\ i + 1 \in 1..Len(alb)
    BY <1>3, <1>4, <1>5
  <2> QED
    BY <1>4, <1>5, <1>6, <2>1
<1>10. \A i \in 1..Len(r) : x[Len(l) + 2 + i] = r[i]
  BY <1>6, <1>7
<1>11. Len(x) = Len(l) + Len(r) + 2
  BY <1>3, <1>6, <1>7
<1> QED
  BY <1>1, <1>2, <1>6, <1>8, <1>9, <1>10, <1>11 DEF Joins

LEMMA ReadThresholds ==
  ASSUME NEW x, NEW v
  PROVE  v \in TreeThresholds(x) <=>
           \E c \in Segments, f \in TreeFeatures :
             /\ Leaves(x, c) # {}
             /\ v \in Bounds(Conditions(x, Max(Leaves(x, c))), f)
<1> DEFINE bounds == ParseDecisionTree(x)
           known == {d \in Segments : Leaves(x, d) # {}}
           Read(c) == UNION {Bounds(Conditions(x, Max(Leaves(x, c))), f) : f \in TreeFeatures}
<1>1. bounds = [c \in known |-> Read(c)]
  BY DEF ParseDecisionTree
<1>2. TreeThresholds(x) = UNION {bounds[c] : c \in DOMAIN bounds}
  BY DEF TreeThresholds
<1> HIDE DEF bounds, known, Read
<1>3. DOMAIN bounds = known /\ \A c \in known : bounds[c] = Read(c)
  BY <1>1
<1>4. v \in TreeThresholds(x) <=> \E c \in known : v \in Read(c)
  BY <1>2, <1>3
<1> QED
  BY <1>4 DEF known, Read

\* What is read as a threshold stands in the tree.
LEMMA ThresholdsStand ==
  ASSUME NEW x \in Seq(Lines)
  PROVE  TreeThresholds(x) \subseteq ValuesIn(x)
<1>1. Len(x) \in Nat /\ DOMAIN x = 1..Len(x) /\ \A i \in 1..Len(x) : x[i] \in Lines
  OBVIOUS
<1> SUFFICES ASSUME NEW v \in TreeThresholds(x) PROVE v \in ValuesIn(x)
  OBVIOUS
<1>2. PICK c \in Segments, f \in TreeFeatures :
        /\ Leaves(x, c) # {}
        /\ v \in Bounds(Conditions(x, Max(Leaves(x, c))), f)
  BY ReadThresholds
<1> DEFINE leaves == Leaves(x, c)
           i == Max(leaves)
           conds == Conditions(x, i)
           On(op) == {d.value : d \in {e \in conds : e.feature = f /\ e.op = op}}
<1>3. i \in 1..Len(x)
  <2> DEFINE n == Len(x)
  <2>1. leaves \subseteq 0..n /\ leaves \subseteq 1..n /\ leaves # {} /\ n \in Nat
    BY <1>1, <1>2 DEF Leaves
  <2> HIDE DEF leaves, n
  <2>2. \E m \in leaves : \A y \in leaves : m >= y
    BY <2>1, GreatestNat
  <2>3. Max(leaves) \in leaves
    BY <2>2 DEF Max
  <2> QED
    BY <2>1, <2>3 DEF n
<1> HIDE DEF leaves, i
<1>4. ASSUME NEW d \in conds
      PROVE  \E j \in 1..Len(x) : d = x[j] /\ ~x[j].leaf
  BY <1>1, <1>3 DEF Conditions
<1>5. IsFiniteSet(conds)
  <2> DEFINE places == {k \in 1..(i - 1) :
                          /\ ~x[k].leaf
                          /\ \A m \in (k + 1)..(i - 1) : x[m].leaf \/ x[m].depth > x[k].depth}
             all == 1..(i - 1)
             line == [j \in places |-> x[j]]
  <2>1. IsFiniteSet(all)
    <3> DEFINE last == i - 1
    <3>1. last \in Int
      BY <1>1, <1>3
    <3> HIDE DEF last
    <3>2. IsFiniteSet(1..last)
      BY <3>1, FS_Interval
    <3> QED
      BY <3>2 DEF last
  <2>2. places \in SUBSET all
    OBVIOUS
  <2>3. line \in Surjection(places, conds)
    BY DEF Conditions, Surjection
  <2> HIDE DEF places, all, line, conds
  <2>4. IsFiniteSet(places)
    BY <2>1, <2>2, FS_Subset
  <2> QED
    BY <2>3, <2>4, FS_Surjection
<1>6. ASSUME NEW op PROVE IsFiniteSet(On(op)) /\ On(op) \subseteq Nat
  <2> DEFINE those == {e \in conds : e.feature = f /\ e.op = op}
             value == [d \in those |-> d.value]
             values == On(op)
  <2>1. value \in Surjection(those, values)
    BY DEF Surjection
  <2>2. those \in SUBSET conds
    OBVIOUS
  <2>3. values \subseteq Nat
    BY <1>1, <1>4, LineFields
  <2> HIDE DEF conds, those, value, values
  <2>4. IsFiniteSet(those)
    BY <1>5, <2>2, FS_Subset
  <2>5. IsFiniteSet(values)
    BY <2>1, <2>4, FS_Surjection
  <2> QED
    BY <2>3, <2>5 DEF values
<1>7. v \in On(">") \cup On("<=")
  <2>1. \/ On(">") # {} /\ v = Max(On(">"))
        \/ On("<=") # {} /\ v = Min(On("<="))
    BY <1>2 DEF Bounds, i, leaves
  <2> HIDE DEF On
  <2>2. CASE On(">") # {} /\ v = Max(On(">"))
    <3> DEFINE S == On(">")
    <3>1. IsFiniteSet(S) /\ S \subseteq Nat /\ S # {}
      BY <1>6, <2>2
    <3> HIDE DEF S
    <3>2. Max(S) \in S
      BY <3>1, Extremes DEF Max
    <3> QED
      BY <2>2, <3>2 DEF S
  <2>3. CASE On("<=") # {} /\ v = Min(On("<="))
    <3> DEFINE S == On("<=")
    <3>1. IsFiniteSet(S) /\ S \subseteq Nat /\ S # {}
      BY <1>6, <2>3
    <3> HIDE DEF S
    <3>2. Min(S) \in S
      BY <3>1, Extremes DEF Min
    <3> QED
      BY <2>3, <3>2 DEF S
  <2> QED
    BY <2>1, <2>2, <2>3
<1>8. PICK d \in conds : d.feature = f /\ v = d.value
  BY <1>7
<1> QED
  BY <1>1, <1>4, <1>8 DEF ValuesIn, ValuesOf

OneLeafEach(x) ==
  \A i, j \in DOMAIN x : x[i].leaf /\ x[j].leaf /\ x[i].class = x[j].class => i = j

\* The only condition of its kind above the only leaf of a class is read as a threshold.
LEMMA SingleBound ==
  ASSUME NEW x \in Seq(Lines), OneLeafEach(x), NEW i \in 1..Len(x), x[i].leaf,
         NEW d \in Conditions(x, i), d.op \in {"<=", ">"}, d.feature \in TreeFeatures, d.value \in Nat,
         \A e \in Conditions(x, i) : e.feature = d.feature /\ e.op = d.op => e.value = d.value
  PROVE  d.value \in TreeThresholds(x)
<1> DEFINE c == x[i].class
           conds == Conditions(x, i)
<1>1. c \in Segments /\ DOMAIN x = 1..Len(x)
  BY LineFields
<1>2. Leaves(x, c) = {i}
  BY <1>1 DEF Leaves, OneLeafEach
<1>3. Max({i}) = i
  BY DEF Max
<1>4. {e.value : e \in {g \in conds : g.feature = d.feature /\ g.op = d.op}} = {d.value}
  OBVIOUS
<1>5. Max({d.value}) = d.value /\ Min({d.value}) = d.value
  BY DEF Max, Min
<1> HIDE DEF c, conds
<1>6. d.value \in Bounds(conds, d.feature)
  <2>1. CASE d.op = ">"
    BY <1>4, <1>5, <2>1 DEF Bounds
  <2>2. CASE d.op = "<="
    BY <1>4, <1>5, <2>2 DEF Bounds
  <2> QED
    BY <2>1, <2>2
<1>7. Leaves(x, c) # {} /\ d.value \in Bounds(Conditions(x, Max(Leaves(x, c))), d.feature)
  BY <1>2, <1>3, <1>6 DEF conds
<1> QED
  BY <1>1, <1>7, ReadThresholds

Subtrees == {OneLine(1, c) : c \in Segments} \cup Stumps

\* A leaf, or a condition that is met and one that is not, each with its leaf.
Shape(s) ==
  /\ s \in Seq(Lines) /\ Len(s) \in {1, 4} /\ s[Len(s)].leaf
  /\ Len(s) = 4 =>
       \E f \in TreeFeatures, u \in Thresholds :
         /\ ~s[1].leaf /\ s[1].depth = 1 /\ s[1].feature = f /\ s[1].op = "<=" /\ s[1].value = u
         /\ s[2].leaf
         /\ ~s[3].leaf /\ s[3].depth = 1 /\ s[3].feature = f /\ s[3].op = ">" /\ s[3].value = u

LEMMA LeafLines ==
  ASSUME NEW d \in 0..2, NEW c \in Segments
  PROVE  OneLine(d, c) \in Seq(Lines) /\ Len(OneLine(d, c)) = 1 /\ OneLine(d, c)[1] = Leaf(d, c)
<1>1. Leaf(d, c) \in Lines
  BY DEF Lines
<1> HIDE DEF Lines
<1> QED
  BY <1>1 DEF OneLine

LEMMA SubtreeShapes == ASSUME NEW s \in Subtrees PROVE Shape(s)
<1>1. CASE \E c \in Segments : s = OneLine(1, c)
  <2>1. s \in Seq(Lines) /\ Len(s) = 1 /\ \E c \in Segments : s[1] = Leaf(1, c)
    BY <1>1, LeafLines
  <2>2. \A c : Leaf(1, c).leaf = TRUE
    BY DEF Leaf
  <2> QED
    BY <2>1, <2>2 DEF Shape
<1>2. CASE s \in Stumps
  <2>1. PICK y \in Segments :
          s \in {Split(1, f, t, OneLine(2, y), OneLine(2, z)) :
                   f \in TreeFeatures, t \in Thresholds, z \in Segments \ {y}}
    BY <1>2 DEF Stumps
  <2>2. PICK f \in TreeFeatures, u \in Thresholds, z \in Segments \ {y} :
          s = Split(1, f, u, OneLine(2, y), OneLine(2, z))
    BY <2>1
  <2> DEFINE a == OneLine(2, y)
             b == OneLine(2, z)
  <2>3. /\ a \in Seq(Lines) /\ Len(a) = 1 /\ a[1] = Leaf(2, y)
        /\ b \in Seq(Lines) /\ Len(b) = 1 /\ b[1] = Leaf(2, z)
    BY LeafLines
  <2>4. s = Split(1, f, u, a, b)
    BY <2>2
  <2> HIDE DEF a, b
  <2>5. /\ s \in Seq(Lines) /\ Len(s) = 4
        /\ s[1] = Condition(1, f, "<=", u) /\ s[2] = a[1]
        /\ s[3] = Condition(1, f, ">", u) /\ s[4] = b[1]
    <3>1. /\ s \in Seq(Lines) /\ Len(s) = Len(a) + Len(b) + 2
          /\ s[1] = Condition(1, f, "<=", u)
          /\ \A i \in 1..Len(a) : s[i + 1] = a[i]
          /\ s[Len(a) + 2] = Condition(1, f, ">", u)
          /\ \A i \in 1..Len(b) : s[Len(a) + 2 + i] = b[i]
      <4>1. 1 \in 0..1 /\ a \in Seq(Lines) /\ b \in Seq(Lines)
        BY <2>3
      <4>2. Joins(Split(1, f, u, a, b), 1, f, u, a, b)
        BY <4>1, SplitLines
      <4> QED
        BY <2>4, <4>2 DEF Joins
    <3>2. s[1 + 1] = a[1] /\ s[Len(a) + 2 + 1] = b[1]
      BY <2>3, <3>1
    <3> QED
      BY <2>3, <3>1, <3>2
  <2>6. /\ \A c : Leaf(2, c).leaf = TRUE
        /\ \A op : LET d == Condition(1, f, op, u) IN
             d.leaf = FALSE /\ d.depth = 1 /\ d.feature = f /\ d.op = op /\ d.value = u
    BY DEF Leaf, Condition
  <2> QED
    BY <2>3, <2>5, <2>6 DEF Shape
<1> QED
  BY <1>1, <1>2 DEF Subtrees

LEMMA TreesAreSplits ==
  ASSUME NEW x \in Trees
  PROVE  \E v \in Thresholds, l \in Subtrees, r \in Subtrees : x = Split(0, "recency", v, l, r)
<1> DEFINE leaves == {OneLine(1, c) : c \in Segments}
           below(t) == {s \in Stumps : \A v \in ValuesOf(s, "recency") : v < t}
           above(t) == {s \in Stumps : \A v \in ValuesOf(s, "recency") : v > t}
           splits(t) == {Split(0, "recency", t, l, r) :
                           l \in leaves \cup below(t), r \in leaves \cup above(t)}
<1>1. x \in UNION {splits(t) : t \in Thresholds}
  BY DEF Trees
<1>2. \A t : leaves \cup below(t) \subseteq Subtrees /\ leaves \cup above(t) \subseteq Subtrees
  BY DEF Subtrees
<1> HIDE DEF leaves, below, above
<1>3. \A t : x \in splits(t) =>
        \E l \in leaves \cup below(t), r \in leaves \cup above(t) : x = Split(0, "recency", t, l, r)
  OBVIOUS
<1> HIDE DEF splits
<1>4. PICK t \in Thresholds : x \in splits(t)
  BY <1>1
<1> QED
  BY <1>2, <1>3, <1>4

\* When no two leaves share a class, every threshold of a tree is read: a split's two
\* conditions each are the only one of their kind above one of the leaves next to it.
LEMMA ThresholdsRead ==
  ASSUME NEW x \in Trees, OneLeafEach(x)
  PROVE  ValuesIn(x) \subseteq TreeThresholds(x)
<1>1. PICK v \in Thresholds, l \in Subtrees, r \in Subtrees : x = Split(0, "recency", v, l, r)
  BY TreesAreSplits
<1>2. Shape(l) /\ Shape(r)
  BY SubtreeShapes
<1> DEFINE n == Len(l)
           m == Len(r)
<1>3. /\ x \in Seq(Lines) /\ Len(x) = n + m + 2
      /\ x[1] = Condition(0, "recency", "<=", v)
      /\ \A i \in 1..n : x[i + 1] = l[i]
      /\ x[n + 2] = Condition(0, "recency", ">", v)
      /\ \A i \in 1..m : x[n + 2 + i] = r[i]
  <2>1. 0 \in 0..1 /\ "recency" \in TreeFeatures /\ l \in Seq(Lines) /\ r \in Seq(Lines)
    BY <1>2 DEF Shape, TreeFeatures
  <2> QED
    <3>1. Joins(Split(0, "recency", v, l, r), 0, "recency", v, l, r)
      BY <2>1, SplitLines
    <3> QED
      BY <1>1, <3>1 DEF Joins
<1>4. n \in {1, 4} /\ m \in {1, 4} /\ v \in Nat
  BY <1>2, FactAssumption DEF Shape
<1> HIDE DEF n, m
<1>5. v \in TreeThresholds(x)
  <2> DEFINE d == x[1]
             i == n + 1
  <2>1. i \in 1..Len(x) /\ x[i].leaf
    <3>1. x[i] = l[n]
      BY <1>3, <1>4
    <3>2. l[n].leaf
      BY <1>2 DEF Shape, n
    <3> QED
      BY <1>3, <1>4, <3>1, <3>2
  <2>2. \A k \in 2..n : l[k - 1].leaf \/ (l[k - 1].depth = 1 /\ l[k - 1].op \in {"<=", ">"})
    <3>1. CASE n = 1
      BY <3>1
    <3>2. CASE n = 4
      <4>1. \A k \in 2..n : k - 1 = 1 \/ k - 1 = 2 \/ k - 1 = 3
        BY <3>2
      <4> QED
        BY <1>2, <3>2, <4>1 DEF Shape, n
    <3> QED
      BY <1>4, <3>1, <3>2
  <2>3. d \in Conditions(x, i)
    <3>1. ~x[1].leaf /\ x[1].depth = 0
      BY <1>3 DEF Condition
    <3>2. \A k \in (1 + 1)..(i - 1) : x[k] = l[k - 1] /\ k \in 2..n
      BY <1>3, <1>4
    <3>3. \A k \in (1 + 1)..(i - 1) : x[k].leaf \/ x[k].depth > x[1].depth
      BY <2>2, <3>1, <3>2
    <3>4. 1 \in 1..(i - 1)
      BY <1>4
    <3> QED
      BY <3>1, <3>3, <3>4 DEF Conditions
  <2>4. ASSUME NEW e \in Conditions(x, i), e.op = d.op PROVE e.value = d.value
    <3>1. PICK k \in 1..(i - 1) :
            /\ e = x[k] /\ ~x[k].leaf
            /\ \A o \in (k + 1)..(i - 1) : x[o].leaf \/ x[o].depth > x[k].depth
      BY DEF Conditions
    <3>2. CASE k = 1
      BY <3>1, <3>2
    <3>3. CASE k # 1
      <4>1. n = 4 /\ k \in 2..4
        <5>1. k \in 2..n
          BY <1>4, <3>3
        <5>2. n = 1 => 2..n = {}
          OBVIOUS
        <5> QED
          BY <1>4, <5>1, <5>2
      <4>2. x[2] = l[1] /\ x[3] = l[2] /\ x[4] = l[3]
        <5>1. x[1 + 1] = l[1] /\ x[2 + 1] = l[2] /\ x[3 + 1] = l[3]
          BY <1>3, <4>1
        <5> QED
          BY <5>1
      <4>3. /\ l[1].depth = 1 /\ l[2].leaf /\ ~l[3].leaf /\ l[3].depth = 1 /\ l[3].op = ">"
        BY <1>2, <4>1 DEF Shape, n
      <4>4. k = 4
        <5>1. k # 3
          BY <3>1, <4>2, <4>3
        <5>2. ASSUME k = 2 PROVE FALSE
          <6>1. 4 \in (k + 1)..(i - 1)
            BY <4>1, <5>2
          <6>2. x[4].leaf \/ x[4].depth > x[2].depth
            BY <3>1, <5>2, <6>1
          <6> QED
            BY <4>2, <4>3, <6>2
        <5> QED
          BY <4>1, <5>1, <5>2
      <4>5. d.op = "<="
        BY <1>3 DEF Condition
      <4> QED
        BY <2>4, <3>1, <4>2, <4>3, <4>4, <4>5
    <3> QED
      BY <3>2, <3>3
  <2>5. d.op \in {"<=", ">"} /\ d.feature \in TreeFeatures /\ d.value = v
    BY <1>3 DEF Condition, TreeFeatures
  <2> HIDE DEF d, i
  <2>6. d.value \in TreeThresholds(x)
    BY <1>3, <1>4, <2>1, <2>3, <2>4, <2>5, SingleBound
  <2> QED
    BY <2>5, <2>6
<1>6. ASSUME NEW k \in 1..n, ~l[k].leaf
      PROVE  l[k].value \in TreeThresholds(x)
  <2>1. n = 4
    <3>1. n = 1 => k = n
      OBVIOUS
    <3> QED
      BY <1>2, <1>4, <1>6, <3>1 DEF Shape, n
  <2>2. PICK f \in TreeFeatures, u \in Thresholds :
          /\ ~l[1].leaf /\ l[1].op = "<=" /\ l[1].feature = f /\ l[1].value = u
          /\ l[2].leaf /\ l[4].leaf
          /\ ~l[3].leaf /\ l[3].op = ">" /\ l[3].feature = f /\ l[3].value = u
    BY <1>2, <2>1 DEF Shape, n
  <2>3. x[2] = l[1] /\ x[3] = l[2] /\ x[4] = l[3] /\ x[5] = l[4]
    <3>1. x[1 + 1] = l[1] /\ x[2 + 1] = l[2] /\ x[3 + 1] = l[3] /\ x[4 + 1] = l[4]
      BY <1>3, <2>1
    <3> QED
      BY <3>1
  <2>4. /\ ~x[4].leaf /\ x[4].op = ">" /\ x[4].value = u /\ x[4].feature = f
        /\ x[5].leaf /\ x[3].leaf /\ x[2].op = "<=" /\ x[1].op = "<="
    BY <1>3, <2>2, <2>3 DEF Condition
  <2>5. x[4] \in Conditions(x, 5)
    BY <2>4 DEF Conditions
  <2>6. ASSUME NEW e2 \in Conditions(x, 5), e2.op = x[4].op PROVE e2.value = x[4].value
    <3>1. PICK k2 \in 1..4 : e2 = x[k2] /\ ~x[k2].leaf
      BY DEF Conditions
    <3> QED
      BY <2>4, <2>6, <3>1
  <2>7. 5 \in 1..Len(x)
    BY <1>3, <1>4, <2>1
  <2>8. u \in Nat
    BY FactAssumption
  <2> DEFINE d == x[4]
  <2>9. d \in Conditions(x, 5) /\ d.op \in {"<=", ">"} /\ d.feature \in TreeFeatures /\ d.value \in Nat
    BY <2>4, <2>5, <2>8
  <2>10. \A e2 \in Conditions(x, 5) : e2.feature = d.feature /\ e2.op = d.op => e2.value = d.value
    BY <2>6
  <2> HIDE DEF d
  <2>11. d.value \in TreeThresholds(x)
    BY <1>3, <2>4, <2>7, <2>9, <2>10, SingleBound
  <2>12. l[k].value = u
    <3>1. k = 1 \/ k = 2 \/ k = 3 \/ k = 4
      BY <2>1
    <3> QED
      BY <1>6, <2>2, <3>1
  <2> QED
    BY <2>4, <2>11, <2>12 DEF d
<1>7. ASSUME NEW k \in 1..m, ~r[k].leaf
      PROVE  r[k].value \in TreeThresholds(x)
  <2>1. m = 4
    <3>1. m = 1 => k = m
      OBVIOUS
    <3> QED
      BY <1>2, <1>4, <1>7, <3>1 DEF Shape, m
  <2>2. PICK f \in TreeFeatures, u \in Thresholds :
          /\ ~r[1].leaf /\ r[1].op = "<=" /\ r[1].feature = f /\ r[1].value = u
          /\ r[2].leaf /\ r[4].leaf
          /\ ~r[3].leaf /\ r[3].op = ">" /\ r[3].feature = f /\ r[3].value = u
    BY <1>2, <2>1 DEF Shape, m
  <2> DEFINE i == n + 4
             d == x[n + 3]
  <2>3. d = r[1] /\ x[i] = r[2]
    <3>1. x[n + 2 + 1] = r[1] /\ x[n + 2 + 2] = r[2]
      <4>1. 1 \in 1..m /\ 2 \in 1..m
        BY <2>1
      <4> QED
        BY <1>3, <4>1
    <3>2. n + 2 + 1 = n + 3 /\ n + 2 + 2 = n + 4
      BY <1>4
    <3> QED
      BY <3>1, <3>2
  <2>4. /\ ~d.leaf /\ d.op = "<=" /\ d.value = u /\ d.feature = f /\ x[i].leaf
        /\ ~x[n + 2].leaf /\ x[n + 2].depth = 0 /\ x[n + 2].op = ">"
    BY <1>3, <2>2, <2>3 DEF Condition
  <2>5. i \in 1..Len(x) /\ n + 3 \in 1..(i - 1) /\ ((n + 3) + 1)..(i - 1) = {} /\ i - 1 = n + 3
    BY <1>3, <1>4, <2>1
  <2>6. d \in Conditions(x, i)
    BY <2>4, <2>5 DEF Conditions
  <2>7. ASSUME NEW e2 \in Conditions(x, i), e2.op = d.op PROVE e2.value = d.value
    <3>1. PICK k2 \in 1..(i - 1) :
            /\ e2 = x[k2] /\ ~x[k2].leaf
            /\ \A o \in (k2 + 1)..(i - 1) : x[o].leaf \/ x[o].depth > x[k2].depth
      BY DEF Conditions
    <3>2. k2 # n + 2
      BY <2>4, <2>7, <3>1
    <3>3. ASSUME k2 < n + 2 PROVE FALSE
      <4>1. n + 2 \in (k2 + 1)..(i - 1)
        BY <1>4, <2>5, <3>3
      <4>2. 0 > x[k2].depth
        BY <2>4, <3>1, <4>1
      <4>3. x[k2] \in Lines
        BY <1>3, <2>5
      <4> QED
        BY <3>1, <4>2, <4>3, LineFields
    <3>4. k2 = n + 3
      BY <1>4, <2>5, <3>2, <3>3
    <3> QED
      BY <3>1, <3>4
  <2>8. d.op \in {"<=", ">"} /\ d.feature \in TreeFeatures /\ d.value \in Nat
    BY <2>4, FactAssumption
  <2> HIDE DEF d, i
  <2>9. d.value \in TreeThresholds(x)
    BY <1>3, <2>4, <2>5, <2>6, <2>7, <2>8, SingleBound
  <2>10. r[k].value = u
    <3>1. k = 1 \/ k = 2 \/ k = 3 \/ k = 4
      BY <2>1
    <3> QED
      BY <1>7, <2>2, <3>1
  <2> QED
    BY <2>4, <2>9, <2>10
<1>8. ASSUME NEW j \in 1..Len(x), ~x[j].leaf
      PROVE  x[j].value \in TreeThresholds(x)
  <2>1. CASE j = 1 \/ j = n + 2
    BY <1>3, <1>5, <2>1 DEF Condition
  <2>2. CASE j \in 2..(n + 1)
    <3>1. j - 1 \in 1..n /\ (j - 1) + 1 = j
      BY <1>4, <2>2
    <3>2. x[j] = l[j - 1]
      BY <1>3, <3>1
    <3> QED
      BY <1>6, <1>8, <3>1, <3>2
  <2>3. CASE j \in (n + 3)..(n + 2 + m)
    <3>1. j - (n + 2) \in 1..m /\ n + 2 + (j - (n + 2)) = j
      BY <1>4, <2>3
    <3>2. x[j] = r[j - (n + 2)]
      BY <1>3, <3>1
    <3> QED
      BY <1>7, <1>8, <3>1, <3>2
  <2> QED
    BY <1>3, <1>4, <2>1, <2>2, <2>3
<1> QED
  BY <1>3, <1>8 DEF ValuesIn, ValuesOf

(***************************************************************************)
(* The verdict.                                                            *)
(***************************************************************************)
OneReply == {{c} : c \in Claims}

(* A round has statistics or a tree, not both, and a reply is checked against what its
   round returned. *)
FactIInv ==
  /\ \/ facts = NoFacts
     \/ \E rows \in Statistics : facts = [rows |-> rows, tree |-> <<>>]
     \/ \E tree \in Trees : facts = [rows |-> NoRows, tree |-> tree]
  /\ reply \in {{}, EmptyReply} \cup OneReply
  /\ reply \in OneReply => verdict = RunFactCheck(facts, reply)

LEMMA TreesAreLines ==
  ASSUME NEW x \in Trees
  PROVE  x \in Seq(Lines) /\ x # <<>>
<1>1. PICK v \in Thresholds, l \in Subtrees, r \in Subtrees : x = Split(0, "recency", v, l, r)
  BY TreesAreSplits
<1>2. l \in Seq(Lines) /\ r \in Seq(Lines)
  BY SubtreeShapes DEF Shape
<1>3. Joins(Split(0, "recency", v, l, r), 0, "recency", v, l, r)
  BY <1>2, SplitLines DEF TreeFeatures
<1>4. x \in Seq(Lines) /\ Len(x) = Len(l) + Len(r) + 2
  BY <1>1, <1>3 DEF Joins
<1>5. Len(l) \in Nat /\ Len(r) \in Nat
  BY <1>2
<1> QED
  BY <1>4, <1>5

LEMMA ClaimIsNoEmptyReply == ASSUME NEW c \in Claims PROVE {c} # EmptyReply
<1>1. c.kind # "empty"
  BY Claimed DEF Kinds
<1> QED
  BY <1>1 DEF EmptyReply

LEMMA FactInitial == FactInit => FactIInv
<1> SUFFICES ASSUME FactInit PROVE FactIInv
  OBVIOUS
<1>1. {} \notin OneReply
  BY DEF OneReply
<1> QED
  BY <1>1 DEF FactInit, FactIInv

LEMMA FactStep == ASSUME FactIInv, [FactNext]_factVars PROVE FactIInv'
<1>1. {} \notin OneReply
  BY DEF OneReply
<1>2. CASE StatsReturned
  <2>1. PICK rows \in [Segments -> StatsRow] : facts' = [facts EXCEPT !.rows = rows]
    BY <1>2 DEF StatsReturned
  <2>2. facts' = [rows |-> rows, tree |-> <<>>] /\ rows \in Statistics
    BY <1>2, <2>1 DEF StatsReturned, NoFacts, Statistics
  <2>3. reply' = {}
    BY <1>2 DEF StatsReturned
  <2> QED
    BY <1>1, <2>2, <2>3 DEF FactIInv
<1>3. CASE RulesReturned
  <2>1. PICK tree \in Trees : facts' = [facts EXCEPT !.tree = tree]
    BY <1>3 DEF RulesReturned
  <2>2. facts' = [rows |-> NoRows, tree |-> tree]
    BY <1>3, <2>1 DEF RulesReturned, NoFacts
  <2>3. reply' = {}
    BY <1>3 DEF RulesReturned
  <2> QED
    BY <1>1, <2>2, <2>3 DEF FactIInv
<1>4. CASE Check
  <2>1. PICK claims \in {EmptyReply} \cup {{c} : c \in {d \in Claims : Covered(d)}} :
          reply' = claims /\ verdict' = RunFactCheck(facts, claims)
    BY <1>4 DEF Check
  <2>2. reply' \in {EmptyReply} \cup OneReply /\ verdict' = RunFactCheck(facts, reply')
    BY <2>1 DEF OneReply
  <2>3. facts' = facts
    BY <1>4 DEF Check
  <2> QED
    BY <2>2, <2>3 DEF FactIInv
<1>5. CASE NextRound
  BY <1>1, <1>5 DEF NextRound, FactIInv
<1>6. CASE UNCHANGED factVars
  BY <1>6 DEF factVars, FactIInv
<1> QED
  BY <1>2, <1>3, <1>4, <1>5, <1>6 DEF FactNext

LEMMA FactInvariance == FactSpec => []FactIInv
  BY FactInitial, FactStep, PTL DEF FactSpec

LEMMA NothingRead == ASSUME NEW C PROVE RuleClaims(<<>>, C) = {}
  BY DEF RuleClaims

LEMMA RightOfStatistics ==
  ASSUME NEW f, NEW c \in Claims, f.rows \in Statistics, f.tree = <<>>
  PROVE  /\ Holds(f, c) => RunFactCheck(f, {c}) = {}
         /\ Contradicted(f, c) => RunFactCheck(f, {c}) # {}
<1>1. {c} # EmptyReply /\ f.rows # NoRows
  BY ClaimIsNoEmptyReply, UsersAreMany
<1>2. RunFactCheck(f, {c}) = Numerical(f.rows, {c}) \cup Logic(f.rows, {c})
  BY <1>1, NothingRead DEF RunFactCheck
<1>3. ASSUME Holds(f, c) PROVE c.kind # "limit"
  <2>1. ValuesIn(<<>>) = {}
    BY DEF ValuesIn, ValuesOf
  <2> QED
    BY <1>3, <2>1 DEF Holds
<1>4. ASSUME Contradicted(f, c) PROVE c.kind # "limit"
  BY <1>4 DEF Contradicted
<1>5. ASSUME Holds(f, c) PROVE RunFactCheck(f, {c}) = {}
  BY <1>2, <1>3, <1>5, TruthPasses
<1>6. ASSUME Contradicted(f, c) PROVE RunFactCheck(f, {c}) # {}
  BY <1>2, <1>4, <1>6, UntruthIsFound
<1> QED
  BY <1>5, <1>6

LEMMA RightOfTree ==
  ASSUME NEW f, NEW c \in Claims, f.rows = NoRows, f.tree = <<>> \/ f.tree \in Trees
  PROVE  /\ Holds(f, c) /\ OneLeafEach(f.tree) => RunFactCheck(f, {c}) = {}
         /\ Contradicted(f, c) => RunFactCheck(f, {c}) # {}
<1>1. RunFactCheck(f, {c}) = RuleClaims(f.tree, {c})
  BY ClaimIsNoEmptyReply DEF RunFactCheck
<1>2. ASSUME Holds(f, c) \/ Contradicted(f, c) PROVE c.kind = "limit" /\ f.tree \in Trees
  <2>1. c.kind = "limit"
    BY <1>2 DEF Holds, Contradicted
  <2>2. ValuesIn(<<>>) = {}
    BY DEF ValuesIn, ValuesOf
  <2>3. f.tree # <<>>
    BY <1>2, <2>1, <2>2 DEF Holds, Contradicted
  <2> QED
    BY <2>1, <2>3
<1>3. ASSUME Holds(f, c), OneLeafEach(f.tree) PROVE RuleClaims(f.tree, {c}) = {}
  <2>1. c.n \in ValuesIn(f.tree) /\ f.tree \in Trees /\ c.kind = "limit"
    BY <1>2, <1>3 DEF Holds
  <2>2. c.n \in TreeThresholds(f.tree)
    BY <1>3, <2>1, ThresholdsRead
  <2>3. c.n \in Nat
    BY <2>1, Claimed
  <2>4. Distance(c.n, c.n) = 0
    BY <2>3 DEF Distance
  <2> QED
    BY <2>2, <2>4 DEF RuleClaims, Of
<1>4. ASSUME Contradicted(f, c) PROVE RuleClaims(f.tree, {c}) # {}
  <2>1. f.tree \in Trees /\ c.kind = "limit"
    BY <1>2, <1>4
  <2>2. \A t \in ValuesIn(f.tree) : Distance(c.n, t) > 1
    BY <1>4, <2>1 DEF Contradicted
  <2>3. f.tree # <<>> /\ TreeThresholds(f.tree) \subseteq ValuesIn(f.tree)
    BY <2>1, TreesAreLines, ThresholdsStand
  <2>4. c \in RuleClaims(f.tree, {c})
    BY <2>1, <2>2, <2>3 DEF RuleClaims, Of
  <2> QED
    BY <2>4
<1> QED
  BY <1>1, <1>3, <1>4

(* For every statistic, tree and claim: what the round's data says passes, and what
   contradicts it does not (agent/fact_checker.py:run_fact_check). *)
THEOREM VerdictsAreRight == FactSpec => []VerdictRight
<1>1. ASSUME FactIInv PROVE VerdictRight
  <2> SUFFICES ASSUME reply \notin {{}, EmptyReply}
               PROVE  /\ (\A c \in reply : Holds(facts, c) /\ (c.kind = "limit" => OneLeafPerClass))
                           => verdict = {}
                      /\ (\E c \in reply : Contradicted(facts, c)) => verdict # {}
    BY DEF VerdictRight
  <2>1. reply \in OneReply /\ verdict = RunFactCheck(facts, reply)
    BY <1>1 DEF FactIInv
  <2>2. PICK c \in Claims : reply = {c}
    BY <2>1 DEF OneReply
  <2>3. CASE \E rows \in Statistics : facts = [rows |-> rows, tree |-> <<>>]
    <3>1. facts.rows \in Statistics /\ facts.tree = <<>>
      BY <2>3
    <3> QED
      BY <2>1, <2>2, <3>1, RightOfStatistics
  <2>4. CASE facts = NoFacts \/ \E tree \in Trees : facts = [rows |-> NoRows, tree |-> tree]
    <3>1. facts.rows = NoRows /\ (facts.tree = <<>> \/ facts.tree \in Trees)
      BY <2>4 DEF NoFacts
    <3>2. Holds(facts, c) => c.kind = "limit"
      BY <3>1 DEF Holds
    <3>3. OneLeafPerClass <=> OneLeafEach(facts.tree)
      BY DEF OneLeafPerClass, OneLeafEach
    <3> QED
      BY <2>1, <2>2, <3>1, <3>2, <3>3, RightOfTree
  <2> QED
    BY <1>1, <2>3, <2>4 DEF FactIInv
<1> QED
  BY <1>1, FactInvariance, PTL
=============================================================================
