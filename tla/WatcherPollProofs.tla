-------------------------- MODULE WatcherPollProofs --------------------------
(***************************************************************************)
(* With the loop as the only caller of poll_once: the state keeps its      *)
(* types, no user is named by two dormant alerts and no cooldown lets two  *)
(* tasks through, for any data, any thresholds and any number of restarts. *)
(* With a second poller neither holds: both find the users unmarked and    *)
(* the cooldown open before either has made its task.                      *)
(***************************************************************************)
EXTENDS WatcherPoll, FiniteSetTheorems, SequenceTheorems, TLAPS

\* The types of which a cooldown lets only one task through.
Single == NormalTypes \cup {Dormant}

\* The strengthening of both properties.  What a poll still has to dispatch was
\* found while its cooldown was open and its users unmarked, and stays so until
\* then; a user whom an alert named is marked; a task awaited counts.
LoopInv ==
  /\ \A p \in Pollers :
       /\ Dormant \in todo[p] => newDormant[p] \cap reported = {}
       /\ \A t \in Single : t \in todo[p] => recent[t] = 0
       /\ cur[p] \in Limited => recent[cur[p]] >= 1
  /\ \A u \in Users : alerts[u] # 0 => u \in reported
  /\ DormantUserOnce
  /\ OncePerCooldown

PollInv == PollTypeOK /\ LoopInv

\* The newest two of the snapshots are snapshots.
LEMMA TwoLatestType ==
  ASSUME NEW s \in Seq(DataVersions), Len(s) <= 3
  PROVE  TwoLatest(s) \in Seq(DataVersions) /\ Len(TwoLatest(s)) <= 2
BY DEF TwoLatest

\* The constants' types as the steps need them.
LEMMA PollConstants ==
  /\ MaxChanges \in Nat /\ MaxRecent \in Nat \ {0} /\ MaxCrashes \in Nat /\ MinUsers \in Nat \ {0}
  /\ Idle \notin Types /\ Dormant \notin HighTypes \cup NormalTypes /\ Merged \notin Single
  /\ Dormant \in Limited /\ Single \subseteq Limited /\ Limited \subseteq Types
  /\ 0 \in DataVersions /\ Expired \notin DataVersions
  /\ Detects \in [DataVersions -> [DataVersions -> SUBSET (HighTypes \cup NormalTypes)]]
  /\ DormantIn \in [DataVersions -> SUBSET Users]
BY PollAssumption DEF Types, Limited, Single, DataVersions, Expired

\* Dispatching the first of some events, each found while its cooldown was open and
\* the dormant users unmarked, keeps the types and the invariant.
LEMMA DispatchKeeps ==
  ASSUME NEW loop, Pollers = {loop}, PollInv,
         newDormant' \in [Pollers -> SUBSET Users],
         NEW events \in SUBSET Types, NEW count \in [Limited -> 0..MaxRecent],
         \A t \in Single : count[t] <= 1 /\ (t \in events => count[t] = 0),
         Dormant \in events => newDormant'[loop] \cap reported = {},
         DispatchFirst(loop, events, count)
  PROVE  /\ LoopInv'
         /\ todo' \in [Pollers -> SUBSET Types]
         /\ cur' \in [Pollers -> Types \cup {Idle}]
         /\ recent' \in [Limited -> 0..MaxRecent]
         /\ reported' \subseteq Users
         /\ alerts' \in [Users -> 0..2]
<1> USE DEF PollInv
<1>t. /\ todo \in [Pollers -> SUBSET Types] /\ cur \in [Pollers -> Types \cup {Idle}]
      /\ reported \subseteq Users /\ alerts \in [Users -> 0..2]
  BY DEF PollTypeOK
<1>1. CASE events = {}
  <2>1. /\ cur' = [cur EXCEPT ![loop] = Idle]
        /\ todo' = [todo EXCEPT ![loop] = {}]
        /\ recent' = count /\ reported' = reported /\ alerts' = alerts
    BY <1>1 DEF DispatchFirst
  <2>2. cur'[loop] = Idle /\ todo'[loop] = {}
    BY <2>1, <1>t
  <2>3. \A t \in Single : recent'[t] <= 1
    BY <2>1
  <2>4. LoopInv'
    BY <2>1, <2>2, <2>3, PollConstants DEF LoopInv, OncePerCooldown, DormantUserOnce, Single, Types, Limited
  <2> QED
    BY <2>1, <2>4, <1>t
<1>2. CASE events # {}
  <2>1. PICK e \in First(events) :
          /\ todo' = [todo EXCEPT ![loop] = events \ {e}]
          /\ Dispatch(loop, e, count)
    BY <1>2 DEF DispatchFirst
  <2>2. e \in events /\ e \in Types
    BY <2>1 DEF First
  <2>3. /\ cur' = [cur EXCEPT ![loop] = e]
        /\ cur'[loop] = e
        /\ cur' \in [Pollers -> Types \cup {Idle}]
        /\ todo'[loop] = events \ {e}
        /\ todo' \in [Pollers -> SUBSET Types]
    BY <2>1, <2>2, <1>t DEF Dispatch
  <2>4. /\ recent' \in [Limited -> 0..MaxRecent]
        /\ e \in Limited => recent'[e] = count[e] + 1
        /\ \A t \in Limited : t # e => recent'[t] = count[t]
    <3>1. CASE e \in Limited
      <4>1. count[e] < MaxRecent /\ recent' = [count EXCEPT ![e] = @ + 1]
        BY <2>1, <3>1 DEF Dispatch
      <4>2. count[e] + 1 \in 0..MaxRecent
        BY <4>1, <3>1, PollConstants
      <4> QED
        BY <4>1, <4>2
    <3>2. CASE e \notin Limited
      BY <3>2, <2>1 DEF Dispatch
    <3> QED
      BY <3>1, <3>2
  <2>5. /\ reported' \subseteq Users /\ alerts' \in [Users -> 0..2]
        /\ Dormant \notin todo'[loop] \/ reported' = reported
        /\ \A u \in Users : alerts'[u] # 0 => u \in reported'
        /\ \A u \in Users : alerts'[u] <= 1
    <3>1. CASE e = Dormant
      <4>1. /\ reported' = reported \cup newDormant'[loop]
            /\ alerts' = [u \in Users |-> IF u \in newDormant'[loop] /\ alerts[u] < 2
                                          THEN alerts[u] + 1 ELSE alerts[u]]
        BY <3>1, <2>1 DEF Dispatch
      <4>2. \A u \in newDormant'[loop] : u \in Users => alerts[u] = 0
        BY <3>1, <2>2, <1>t DEF LoopInv
      <4>3. alerts' \in [Users -> 0..2]
        BY <4>1, <1>t
      <4>4. \A u \in Users : alerts'[u] # 0 => u \in reported'
        BY <4>1, <1>t DEF LoopInv
      <4>5. \A u \in Users : alerts'[u] <= 1
        BY <4>1, <4>2, <1>t DEF LoopInv, DormantUserOnce
      <4>6. newDormant'[loop] \subseteq Users
        OBVIOUS
      <4> QED
        BY <4>1, <4>3, <4>4, <4>5, <4>6, <2>3, <3>1, <1>t
    <3>2. CASE e # Dormant
      BY <3>2, <2>1, <1>t DEF Dispatch, LoopInv, DormantUserOnce
    <3> QED
      BY <3>1, <3>2
  <2>6. \A t \in Single : recent'[t] <= 1 /\ (t \in todo'[loop] => recent'[t] = 0)
    BY <2>2, <2>3, <2>4, PollConstants
  <2>7. cur'[loop] \in Limited => recent'[cur'[loop]] >= 1
    BY <2>3, <2>4, PollConstants
  <2>8. Dormant \in todo'[loop] => newDormant'[loop] \cap reported' = {}
    BY <2>3, <2>5
  <2>9. LoopInv'
    BY <2>5, <2>6, <2>7, <2>8 DEF LoopInv, OncePerCooldown, DormantUserOnce, Single
  <2> QED
    BY <2>3, <2>4, <2>5, <2>9
<1> QED
  BY <1>1, <1>2

LEMMA PollInitInv == PollInit => PollInv
<1> SUFFICES ASSUME PollInit PROVE PollInv
  OBVIOUS
<1>1. PollTypeOK
  <2>1. snaps \in Seq(DataVersions) /\ Len(snaps) <= 2
    BY DEF PollInit
  <2>2. recent \in [Limited -> 0..MaxRecent] /\ alerts \in [Users -> 0..2] /\ crashes \in 0..MaxCrashes
    BY PollConstants DEF PollInit
  <2>3. /\ todo \in [Pollers -> SUBSET Types] /\ newDormant \in [Pollers -> SUBSET Users]
        /\ cur \in [Pollers -> Types \cup {Idle}] /\ reported \subseteq Users
    BY DEF PollInit
  <2>4. /\ dataNow \in DataVersions /\ cachedAt \in DataVersions \cup {Expired}
        /\ lastSeenFp \in DataVersions \cup {Expired} /\ seen \in DataVersions \cup {Expired}
        /\ alone \in BOOLEAN
    BY PollConstants DEF PollInit
  <2> QED
    BY <2>1, <2>2, <2>3, <2>4 DEF PollTypeOK
<1>2. LoopInv
  BY PollConstants DEF PollInit, LoopInv, DormantUserOnce, OncePerCooldown, Single, Types, Limited
<1> QED
  BY <1>1, <1>2 DEF PollInv

\* A poll that starts: its own recomputation, the comparison and the first task.
LEMMA PollStartKeeps ==
  ASSUME NEW loop, Pollers = {loop}, PollInv, PollStart(loop)
  PROVE  PollInv'
<1> DEFINE rfm   == IF Recomputes THEN dataNow ELSE cachedAt
           now   == IF Recomputes THEN TwoLatest(Append(snaps, dataNow)) ELSE snaps
           new   == NewDormant(rfm)
           found == Noticed(now)
           fresh == (found \cap HighTypes) \cup DormantEvent(new) \cup Normals(found)
<1>t. PollTypeOK /\ LoopInv
  BY DEF PollInv
<1>1. /\ cachedAt' = rfm /\ snaps' = now /\ lastSeenFp' = dataNow /\ seen' = dataNow /\ alone' = TRUE
      /\ dataNow' = dataNow /\ crashes' = crashes
      /\ IF Len(now) < 2
         THEN UNCHANGED <<todo, newDormant, cur, recent, reported, alerts>>
         ELSE /\ newDormant' = [newDormant EXCEPT ![loop] = new]
              /\ DispatchFirst(loop, fresh, recent)
  BY DEF PollStart
<1>2. rfm \in DataVersions
  BY <1>t DEF PollTypeOK, Recomputes
<1>3. now \in Seq(DataVersions) /\ Len(now) <= 2
  <2>1. Append(snaps, dataNow) \in Seq(DataVersions) /\ Len(Append(snaps, dataNow)) <= 3
    BY <1>t DEF PollTypeOK
  <2> QED
    BY <2>1, <1>t, TwoLatestType DEF PollTypeOK
<1>4. /\ cachedAt' \in DataVersions \cup {Expired} /\ snaps' \in Seq(DataVersions) /\ Len(snaps') <= 2
      /\ lastSeenFp' \in DataVersions \cup {Expired} /\ seen' \in DataVersions \cup {Expired}
      /\ alone' \in BOOLEAN /\ dataNow' \in DataVersions /\ crashes' \in 0..MaxCrashes
  BY <1>1, <1>2, <1>3, <1>t DEF PollTypeOK
<1>5. CASE Len(now) < 2
  <2>1. UNCHANGED <<todo, newDormant, cur, recent, reported, alerts>>
    BY <1>1, <1>5
  <2> QED
    BY <2>1, <1>4, <1>t DEF PollInv, PollTypeOK, LoopInv, DormantUserOnce, OncePerCooldown
<1>6. CASE ~(Len(now) < 2)
  <2>1. newDormant' = [newDormant EXCEPT ![loop] = new] /\ DispatchFirst(loop, fresh, recent)
    BY <1>1, <1>6
  <2>2. new \subseteq Users /\ new \cap reported = {}
    BY <1>2, PollConstants DEF NewDormant
  <2>3. newDormant' \in [Pollers -> SUBSET Users] /\ newDormant'[loop] = new
    BY <2>1, <2>2, <1>t DEF PollTypeOK
  <2>4. Normals(found) \subseteq NormalTypes \cup {Merged}
    BY DEF Normals
  <2>5. fresh \in SUBSET Types
    BY <2>4 DEF DormantEvent, Types
  <2>6. \A t \in Single : t \in fresh => recent[t] = 0
    <3> SUFFICES ASSUME NEW t \in Single, t \in fresh PROVE recent[t] = 0
      OBVIOUS
    <3>1. CASE t = Dormant
      <4>1. Dormant \in DormantEvent(new)
        BY <3>1, <2>4, PollAssumption
      <4> QED
        BY <4>1, <3>1 DEF DormantEvent
    <3>2. CASE t # Dormant
      <4>1. t \in NormalTypes /\ t # Merged /\ t \notin HighTypes
        BY <3>2, PollAssumption DEF Single
      <4>2. t \in Normals(found)
        BY <4>1, <3>2 DEF DormantEvent
      <4> QED
        BY <4>1, <4>2 DEF Normals
    <3> QED
      BY <3>1, <3>2
  <2>7. recent \in [Limited -> 0..MaxRecent]
    BY <1>t DEF PollTypeOK
  <2>8. \A t \in Single : recent[t] <= 1
    BY <1>t DEF LoopInv, OncePerCooldown, Single
  <2>9. /\ LoopInv' /\ todo' \in [Pollers -> SUBSET Types] /\ cur' \in [Pollers -> Types \cup {Idle}]
        /\ recent' \in [Limited -> 0..MaxRecent] /\ reported' \subseteq Users /\ alerts' \in [Users -> 0..2]
    <3>1. newDormant'[loop] \cap reported = {}
      BY <2>2, <2>3
    <3>2. \A t \in Single : recent[t] <= 1 /\ (t \in fresh => recent[t] = 0)
      BY <2>6, <2>8
    <3>3. DispatchFirst(loop, fresh, recent)
      BY <2>1
    <3>4. newDormant' \in [Pollers -> SUBSET Users]
      BY <2>3
    <3> HIDE DEF fresh
    <3> QED
      BY <2>5, <2>7, <3>1, <3>2, <3>3, <3>4, DispatchKeeps
  <2> QED
    BY <2>3, <2>9, <1>4 DEF PollInv, PollTypeOK
<1> QED
  BY <1>5, <1>6

\* The task a poll awaits ends, and the poll goes on with what it has left.
LEMMA TaskEndsKeeps ==
  ASSUME NEW loop, Pollers = {loop}, PollInv, TaskEnds(loop)
  PROVE  PollInv'
<1>t. PollTypeOK /\ LoopInv
  BY DEF PollInv
<1>1. PICK completed \in BOOLEAN :
        DispatchFirst(loop, todo[loop],
          IF completed \/ cur[loop] \notin Limited THEN recent
          ELSE [recent EXCEPT ![cur[loop]] = @ - 1])
  BY DEF TaskEnds
<1> DEFINE count == IF completed \/ cur[loop] \notin Limited THEN recent
                    ELSE [recent EXCEPT ![cur[loop]] = @ - 1]
<1>2. UNCHANGED <<dataNow, snaps, cachedAt, lastSeenFp, newDormant, seen, alone, crashes>>
  BY DEF TaskEnds
<1>3. recent \in [Limited -> 0..MaxRecent]
  BY <1>t DEF PollTypeOK
<1>4. /\ count \in [Limited -> 0..MaxRecent]
      /\ \A t \in Limited : count[t] <= recent[t]
  <2>1. CASE completed \/ cur[loop] \notin Limited
    BY <2>1, <1>3
  <2>2. CASE ~(completed \/ cur[loop] \notin Limited)
    <3>1. cur[loop] \in Limited /\ recent[cur[loop]] >= 1
      BY <2>2, <1>t DEF LoopInv
    <3>2. recent[cur[loop]] - 1 \in 0..MaxRecent
      BY <3>1, <1>3, PollConstants
    <3>3. count = [recent EXCEPT ![cur[loop]] = @ - 1]
      BY <2>2
    <3> QED
      BY <3>1, <3>2, <3>3, <1>3
  <2> QED
    BY <2>1, <2>2
<1>5. \A t \in Single : count[t] <= 1 /\ (t \in todo[loop] => count[t] = 0)
  <2>1. \A t \in Single : recent[t] <= 1 /\ (t \in todo[loop] => recent[t] = 0)
    BY <1>t DEF LoopInv, OncePerCooldown, Single
  <2> HIDE DEF count
  <2> QED
    BY <2>1, <1>3, <1>4, PollConstants
<1>6. Dormant \in todo[loop] => newDormant'[loop] \cap reported = {}
  BY <1>t, <1>2 DEF LoopInv
<1>7. todo[loop] \in SUBSET Types /\ newDormant' \in [Pollers -> SUBSET Users]
  BY <1>t, <1>2 DEF PollTypeOK
<1>8. /\ LoopInv' /\ todo' \in [Pollers -> SUBSET Types] /\ cur' \in [Pollers -> Types \cup {Idle}]
      /\ recent' \in [Limited -> 0..MaxRecent] /\ reported' \subseteq Users /\ alerts' \in [Users -> 0..2]
  <2>1. DispatchFirst(loop, todo[loop], count)
    BY <1>1
  <2> HIDE DEF count
  <2> QED
    BY <2>1, <1>4, <1>5, <1>6, <1>7, DispatchKeeps
<1> QED
  BY <1>2, <1>7, <1>8, <1>t DEF PollInv, PollTypeOK

\* A row leaves its cooldown window: not the row of the task that is awaited.
LEMMA CooldownEndsKeeps ==
  ASSUME NEW loop, Pollers = {loop}, PollInv, NEW t \in Limited, CooldownEnds(t)
  PROVE  PollInv'
<1>t. PollTypeOK /\ LoopInv
  BY DEF PollInv
<1> DEFINE awaited == {p \in Pollers : cur[p] = t}
<1>1. /\ recent[t] > Cardinality(awaited)
      /\ recent' = [recent EXCEPT ![t] = @ - 1]
      /\ UNCHANGED <<dataNow, snaps, cachedAt, lastSeenFp, todo, newDormant, cur, reported, alerts,
                     seen, alone, crashes>>
  BY DEF CooldownEnds
<1>2. recent \in [Limited -> 0..MaxRecent]
  BY <1>t DEF PollTypeOK
<1>3. Cardinality(awaited) \in Nat /\ (cur[loop] = t => Cardinality(awaited) = 1)
  <2>1. CASE cur[loop] = t
    <3>1. awaited = {loop}
      BY <2>1
    <3> QED
      BY <3>1, FS_Singleton
  <2>2. CASE cur[loop] # t
    <3>1. awaited = {}
      BY <2>2
    <3> QED
      BY <3>1, <2>2, FS_EmptySet
  <2> QED
    BY <2>1, <2>2
<1>4. /\ recent[t] - 1 \in 0..MaxRecent
      /\ cur[loop] = t => recent[t] - 1 >= 1
  <2> HIDE DEF awaited
  <2> QED
    BY <1>1, <1>2, <1>3, PollConstants
<1>5. /\ recent' \in [Limited -> 0..MaxRecent]
      /\ recent'[t] = recent[t] - 1
      /\ \A s \in Limited : s # t => recent'[s] = recent[s]
  BY <1>1, <1>2, <1>4
<1>6. \A s \in Single : recent'[s] <= 1 /\ (s \in todo[loop] => recent'[s] = 0)
  <2>1. \A s \in Single : recent[s] <= 1 /\ (s \in todo[loop] => recent[s] = 0)
    BY <1>t DEF LoopInv, OncePerCooldown, Single
  <2> QED
    BY <2>1, <1>2, <1>4, <1>5, PollConstants
<1>7. cur[loop] \in Limited => recent'[cur[loop]] >= 1
  BY <1>t, <1>4, <1>5 DEF LoopInv
<1>8. LoopInv'
  BY <1>1, <1>6, <1>7, <1>t DEF LoopInv, OncePerCooldown, DormantUserOnce, Single
<1> QED
  BY <1>1, <1>5, <1>8, <1>t DEF PollInv, PollTypeOK

\* What happens around the loop, and steps that change nothing.
LEMMA SurroundingsKeep ==
  ASSUME NEW loop, Pollers = {loop}, PollInv,
         OrdersMove \/ CacheExpires \/ OtherRecompute \/ Restart \/ UNCHANGED pollVars
  PROVE  PollInv'
<1>t. PollTypeOK /\ LoopInv
  BY DEF PollInv
<1> USE DEF PollInv, LoopInv, DormantUserOnce, OncePerCooldown
<1>1. CASE OrdersMove
  BY <1>1, <1>t, PollConstants DEF OrdersMove, PollTypeOK, DataVersions
<1>2. CASE CacheExpires
  BY <1>2, <1>t DEF CacheExpires, PollTypeOK
<1>3. CASE OtherRecompute
  <2>1. Append(snaps, dataNow) \in Seq(DataVersions) /\ Len(Append(snaps, dataNow)) <= 3
    BY <1>t DEF PollTypeOK
  <2>2. snaps' \in Seq(DataVersions) /\ Len(snaps') <= 2
    BY <1>3, <2>1, TwoLatestType DEF OtherRecompute
  <2> QED
    BY <1>3, <1>t, <2>2 DEF OtherRecompute, PollTypeOK
<1>4. CASE Restart
  <2>1. PollTypeOK'
    BY <1>4, <1>t, PollConstants DEF Restart, PollTypeOK
  <2>2. todo'[loop] = {} /\ cur'[loop] = Idle
    BY <1>4 DEF Restart
  <2>3. recent' = recent /\ reported' = reported /\ alerts' = alerts
    BY <1>4 DEF Restart
  <2> QED
    BY <2>1, <2>2, <2>3, <1>t, PollConstants DEF Types, Limited
<1>5. CASE UNCHANGED pollVars
  BY <1>5, <1>t DEF pollVars, PollTypeOK
<1> QED
  BY <1>1, <1>2, <1>3, <1>4, <1>5

\* Every step of a watcher with one poller keeps the invariant.
LEMMA PollStepInv ==
  ASSUME NEW loop, Pollers = {loop}
  PROVE  PollInv /\ [PollNext]_pollVars => PollInv'
<1> SUFFICES ASSUME PollInv, [PollNext]_pollVars PROVE PollInv'
  OBVIOUS
<1>1. CASE \E p \in Pollers : PollStart(p)
  BY <1>1, PollStartKeeps
<1>2. CASE \E p \in Pollers : TaskEnds(p)
  BY <1>2, TaskEndsKeeps
<1>3. CASE \E t \in Limited : CooldownEnds(t)
  BY <1>3, CooldownEndsKeeps
<1>4. CASE OrdersMove \/ CacheExpires \/ OtherRecompute \/ Restart \/ UNCHANGED pollVars
  BY <1>4, SurroundingsKeep
<1> QED
  BY <1>1, <1>2, <1>3, <1>4 DEF PollNext

\* The invariant is one of the specification.
LEMMA PollInvariant ==
  ASSUME NEW loop, Pollers = {loop}
  PROVE  PollSpec => []PollInv
<1>1. PollInit => PollInv
  BY PollInitInv
<1>2. PollInv /\ [PollNext]_pollVars => PollInv'
  BY PollStepInv
<1> QED
  BY <1>1, <1>2, PTL DEF PollSpec

\* Every variable of the watcher's poll keeps its type (engine.py, dormant_state.py).
THEOREM PollTypeCorrect ==
  ASSUME NEW loop, Pollers = {loop}
  PROVE  PollSpec => []PollTypeOK
<1>1. PollInv => PollTypeOK
  BY DEF PollInv
<1> QED
  BY <1>1, PollInvariant, PTL

\* No user is named by two dormant alerts, whatever polls find, whichever tasks fail
\* and whenever the process restarts (detect_high_value_dormant and mark_reported).
THEOREM DormantUserReportedOnce ==
  ASSUME NEW loop, Pollers = {loop}
  PROVE  PollSpec => []DormantUserOnce
<1>1. PollInv => DormantUserOnce
  BY DEF PollInv, LoopInv
<1> QED
  BY <1>1, PollInvariant, PTL

\* A NORMAL event dispatched by itself and the dormant alert get one task per
\* cooldown, although the cooldown is asked long before the task is made
\* (should_suppress, merge_low_priority and _dispatch).
THEOREM CooldownLetsOneThrough ==
  ASSUME NEW loop, Pollers = {loop}
  PROVE  PollSpec => []OncePerCooldown
<1>1. PollInv => OncePerCooldown
  BY DEF PollInv, LoopInv
<1> QED
  BY <1>1, PollInvariant, PTL
-----------------------------------------------------------------------------
(* Whom a poll compares with, for any number of pollers.                     *)

Newest == snaps[Len(snaps)]

\* The newest snapshot is at least as new as the data the last poll saw, and is of that
\* data as long as nobody else has recomputed; the engine's fingerprint is that poll's,
\* or lost in a restart.
CompareInv ==
  /\ dataNow \in DataVersions
  /\ snaps \in Seq(DataVersions) /\ Len(snaps) <= 2
  /\ seen \in DataVersions \cup {Expired}
  /\ lastSeenFp \in {seen, Expired}
  /\ Len(snaps) > 0 => Newest <= dataNow
  /\ seen # Expired => Len(snaps) > 0 /\ seen <= Newest /\ (alone => Newest = seen)

LEMMA PairIs ==
  ASSUME NEW D, NEW t \in Seq(D), Len(t) = 2
  PROVE  t = <<t[1], t[2]>>
OBVIOUS

\* A snapshot of the data as it is now becomes the newest, after the one before it.
LEMMA SnapshotAppended ==
  ASSUME NEW s \in Seq(DataVersions), Len(s) <= 2, NEW v \in DataVersions
  PROVE  LET t == TwoLatest(Append(s, v))
         IN /\ t \in Seq(DataVersions) /\ Len(t) \in 1..2 /\ t[Len(t)] = v
            /\ Len(s) > 0 => t = <<s[Len(s)], v>>
<1> DEFINE a == Append(s, v)
           t == TwoLatest(a)
<1>1. /\ a \in Seq(DataVersions) /\ Len(a) = Len(s) + 1 /\ a[Len(s) + 1] = v
      /\ \A i \in 1..Len(s) : a[i] = s[i]
  BY AppendProperties
<1>2. Len(s) \in Nat /\ (Len(s) = 0 \/ Len(s) = 1 \/ Len(s) = 2)
  <2>1. Len(s) \in Nat
    BY LenProperties
  <2>2. \A n \in Nat : n <= 2 => n = 0 \/ n = 1 \/ n = 2
    OBVIOUS
  <2> QED
    BY <2>1, <2>2
<1>3. Tail(a) \in Seq(DataVersions) /\ Len(Tail(a)) = Len(a) - 1
      /\ \A i \in 1..(Len(a) - 1) : Tail(a)[i] = a[i + 1]
  BY <1>1, <1>2
<1>4. t = IF Len(a) > 2 THEN Tail(a) ELSE a
  BY DEF TwoLatest
<1> HIDE DEF t, a
<1>5. /\ t \in Seq(DataVersions) /\ Len(t) \in 1..2 /\ t[Len(t)] = v
      /\ Len(s) > 0 => t = <<s[Len(s)], v>>
  <2>1. CASE Len(s) = 0
    <3>1. Len(t) = 1 /\ t[1] = v /\ t \in Seq(DataVersions)
      BY <1>1, <1>4, <2>1
    <3>2. t[Len(t)] = v /\ Len(t) \in 1..2
      BY <3>1
    <3> QED
      BY <2>1, <3>1, <3>2
  <2>2. CASE Len(s) = 1
    <3>1. Len(t) = 2 /\ t[1] = s[1] /\ t[2] = v /\ t \in Seq(DataVersions)
      BY <1>1, <1>4, <2>2
    <3>2. t = <<t[1], t[2]>>
      BY <3>1, PairIs
    <3>3. t[Len(t)] = v /\ Len(t) \in 1..2
      BY <3>1
    <3>4. t = <<s[Len(s)], v>>
      BY <2>2, <3>1, <3>2
    <3> QED
      BY <3>1, <3>3, <3>4
  <2>3. CASE Len(s) = 2
    <3>1. Len(a) = 3 /\ a[2] = s[2] /\ a[3] = v /\ t = Tail(a)
      BY <1>1, <1>4, <2>3
    <3>2. Len(t) = 2 /\ t[1] = s[2] /\ t[2] = v
      <4>1. Len(Tail(a)) = 2
        BY <1>3, <3>1
      <4>2. 1 \in 1..(Len(a) - 1) /\ 2 \in 1..(Len(a) - 1) /\ 1 + 1 = 2 /\ 2 + 1 = 3
        BY <3>1
      <4>3. Tail(a)[1] = a[2] /\ Tail(a)[2] = a[3]
        BY <1>3, <4>2
      <4> QED
        BY <3>1, <4>1, <4>3
    <3>3. t = <<t[1], t[2]>>
      BY <1>3, <3>1, <3>2, PairIs
    <3> QED
      BY <1>3, <2>3, <3>1, <3>2, <3>3
  <2> QED
    BY <1>2, <2>1, <2>2, <2>3
<1> QED
  BY <1>5 DEF t, a

\* What a poll leaves, and what it compares.
LEMMA PollCompares ==
  ASSUME CompareInv, NEW p \in Pollers, PollStart(p)
  PROVE  /\ CompareInv'
         /\ seen' # seen /\ seen # Expired /\ alone => snaps' = <<seen, seen'>>
<1> USE DEF CompareInv, Newest
<1>0. /\ seen' = dataNow /\ lastSeenFp' = dataNow /\ alone' = TRUE /\ dataNow' = dataNow
      /\ snaps' = IF Recomputes THEN TwoLatest(Append(snaps, dataNow)) ELSE snaps
  BY DEF PollStart
<1>1. DataVersions \subseteq Nat /\ Expired \notin DataVersions
  BY PollAssumption DEF DataVersions, Expired
<1>2. CASE Recomputes
  BY <1>0, <1>1, <1>2, SnapshotAppended
<1>3. CASE ~Recomputes
  <2>1. dataNow = lastSeenFp
    BY <1>3 DEF Recomputes
  <2>2. seen = dataNow
    BY <1>1, <2>1
  <2>3. Len(snaps) > 0 /\ Newest \in DataVersions
    BY <1>1, <2>2
  <2>4. Newest = dataNow
    <3>1. dataNow <= Newest /\ Newest <= dataNow
      BY <1>1, <2>2, <2>3
    <3>2. dataNow \in Nat /\ Newest \in Nat
      BY <1>1, <2>3
    <3> HIDE DEF Newest, CompareInv
    <3> QED
      BY <3>1, <3>2
  <2> QED
    BY <1>0, <1>1, <1>3, <2>2, <2>3, <2>4
<1> QED
  BY <1>2, <1>3

LEMMA CompareStep ==
  ASSUME CompareInv, [PollNext]_pollVars
  PROVE  /\ CompareInv'
         /\ seen' # seen /\ seen # Expired /\ alone => snaps' = <<seen, seen'>>
<1>0. DataVersions = 0..MaxChanges /\ MaxChanges \in Nat /\ Expired \notin DataVersions
  BY PollAssumption DEF DataVersions, Expired
<1>1. CASE UNCHANGED <<dataNow, snaps, seen, lastSeenFp, alone>>
  BY <1>1 DEF CompareInv, Newest
<1>2. CASE OrdersMove
  BY <1>0, <1>2 DEF OrdersMove, CompareInv, Newest
<1>3. CASE OtherRecompute
  BY <1>0, <1>3, SnapshotAppended DEF OtherRecompute, CompareInv, Newest
<1>4. CASE Restart
  BY <1>4 DEF Restart, CompareInv, Newest
<1>5. ASSUME NEW p \in Pollers, PollStart(p)
      PROVE  /\ CompareInv'
             /\ seen' # seen /\ seen # Expired /\ alone => snaps' = <<seen, seen'>>
  BY <1>5, PollCompares
<1>6. ASSUME NEW p \in Pollers, TaskEnds(p)
      PROVE  UNCHANGED <<dataNow, snaps, seen, lastSeenFp, alone>>
  BY <1>6 DEF TaskEnds
<1> QED
  BY <1>1, <1>2, <1>3, <1>4, <1>5, <1>6 DEF PollNext, CooldownEnds, CacheExpires, pollVars

\* detect_events is given the data of the poll before and that of this poll, across
\* restarts and expiries, for any pollers, data and callers that keep out of it.
THEOREM EvolutionIsCompared == PollSpec => EvolutionCompared
<1>1. PollInit => CompareInv
  BY PollAssumption DEF PollInit, CompareInv, DataVersions, Expired
<1>2. CompareInv /\ [PollNext]_pollVars => CompareInv'
  BY CompareStep
<1>3. CompareInv /\ [PollNext]_pollVars
        => [seen' # seen /\ seen # Expired /\ alone => snaps' = <<seen, seen'>>]_pollVars
  BY CompareStep
<1> QED
  BY <1>1, <1>2, <1>3, PTL DEF PollSpec, EvolutionCompared
=============================================================================
