---------------------------- MODULE MCWatcherPoll ----------------------------
(* WatcherPoll on small instances: every change of the data is noticed by   *)
(* some rule, one by all of them.                                           *)
EXTENDS WatcherPoll

MCDetects ==
  [v \in 0..2 |-> [w \in 0..2 |->
     CASE v = w -> {}
       [] v = 0 /\ w = 1 -> HighTypes \cup {CHOOSE t \in NormalTypes : TRUE}
       [] v = 0 /\ w = 2 -> NormalTypes
       [] OTHER -> {CHOOSE t \in NormalTypes : TRUE}]]

MCDormantIn == [v \in 0..2 |-> IF v = 0 THEN {} ELSE IF v = 1 THEN {"u1", "u2"} ELSE Users]
=============================================================================
