----------------------------- MODULE MCServices -----------------------------
(***************************************************************************)
(* The components around the agent that share no state with one another,   *)
(* checked in one run: a behaviour picks one of them, which then moves by  *)
(* its own specification while the others stay in their initial state.     *)
(***************************************************************************)
EXTENDS RateLimiter, Retrieval, OrderSource, WeeklyReport, FactCheck, SkillLibrary,
        SegmentNaming, SegmentHistory, Orchestrator

VARIABLE part   \* the component that moves

MCFloor == <<1>>
MCStandard == [g \in Groups |-> IF g = "analysis" THEN {1} ELSE {}]
MCCustomers ==
    {[recency |-> 20, frequency |-> 4, monetary |-> 9],
     [recency |-> 60, frequency |-> 2, monetary |-> 8],
     [recency |-> 120, frequency |-> 1, monetary |-> 3],
     [recency |-> 200, frequency |-> 1, monetary |-> 2]}
MCSizes == {<<2, 2>>, <<1, 1, 2>>}

Parts == {"rate", "retrieval", "source", "week", "facts", "skills",
          "names", "history", "orchestrator"}

\* One initial state for each component that does not move.
Unless(p, rest) == part # p => rest

MCInit ==
    /\ part \in Parts
    /\ RateInit
    /\ RetInit   /\ Unless("retrieval", penalty = [s \in Samples |-> 0])
    /\ SrcInit   /\ Unless("source", span = 0)
    /\ WeekInit  /\ Unless("week", now.slot = 0)
    /\ FactInit
    /\ SkillInit /\ Unless("skills", files = [p \in Paths |-> Absent])
    /\ NameInit
    /\ HistInit
    /\ OrchInit

Rest(p, state) == IF part = p THEN TRUE ELSE UNCHANGED state

OthersRest ==
    /\ Rest("rate", rateVars)    /\ Rest("retrieval", retVars)  /\ Rest("source", srcVars)
    /\ Rest("week", weekVars)    /\ Rest("facts", factVars)     /\ Rest("skills", skillVars)
    /\ Rest("names", nameVars)   /\ Rest("history", histVars)   /\ Rest("orchestrator", orchVars)

Moves ==
    \/ part = "rate" /\ RateNext
    \/ part = "retrieval" /\ RetNext
    \/ part = "source" /\ SrcNext
    \/ part = "week" /\ WeekNext
    \/ part = "facts" /\ FactNext
    \/ part = "skills" /\ SkillNext
    \/ part = "names" /\ NameNext
    \/ part = "history" /\ HistNext
    \/ part = "orchestrator" /\ OrchNext

MCNext == Moves /\ OthersRest /\ UNCHANGED part

MCSpec == MCInit /\ [][MCNext]_<<part, rateVars, retVars, srcVars, weekVars, factVars,
    skillVars, nameVars, histVars, orchVars>>
=============================================================================
