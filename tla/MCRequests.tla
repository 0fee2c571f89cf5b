----------------------------- MODULE MCRequests -----------------------------
(***************************************************************************)
(* The way of a question (session locks, agent graph, models, pipeline     *)
(* cache) and the watcher's polling, checked in one run with their         *)
(* fairness: a behaviour picks one of the components, which then moves by  *)
(* its own specification while the others stay in their initial state.     *)
(***************************************************************************)
EXTENDS LLMFallback, PipelineCache, AskSessions, AgentGraph, WatcherPoll

VARIABLE part   \* the component that moves

MCDetects ==
  [v \in 0..2 |-> [w \in 0..2 |->
     CASE v = w -> {}
       [] v = 0 /\ w = 1 -> HighTypes \cup {CHOOSE t \in NormalTypes : TRUE}
       [] v = 0 /\ w = 2 -> NormalTypes
       [] OTHER -> {CHOOSE t \in NormalTypes : TRUE}]]

MCDormantIn == [v \in 0..2 |-> IF v = 0 THEN {} ELSE IF v = 1 THEN {"u1", "u2"} ELSE Users]

Parts == {"models", "cache", "asks", "graph", "poll"}

MCInit ==
    /\ part \in Parts
    /\ Init /\ (part # "models" => healthy = {} /\ mode = "stream")
    /\ CacheInit
    /\ AskInit
    /\ AgentInit
    /\ PollInit

Rest(p, state) == IF part = p THEN TRUE ELSE UNCHANGED state

OthersRest ==
    /\ Rest("models", vars)     /\ Rest("cache", cacheVars) /\ Rest("asks", askVars)
    /\ Rest("graph", agentVars) /\ Rest("poll", pollVars)

Moves ==
    \/ part = "models" /\ Next
    \/ part = "cache" /\ CacheNext
    \/ part = "asks" /\ AskNext
    \/ part = "graph" /\ AgentNext
    \/ part = "poll" /\ PollNext

MCNext == Moves /\ OthersRest /\ UNCHANGED part

\* The fairness of the component that moves.
MCFairness ==
    /\ \A w \in Workers : WF_cacheVars(part = "cache" /\ place[w] # "idle" /\ WorkerStep(w))
    /\ WF_cacheVars(part = "cache" /\ Expire)
    /\ \A r \in Requests : WF_askVars(part = "asks" /\ AskStep(r))
    /\ WF_agentVars(part = "graph" /\ Run)
    /\ \A p \in Pollers : /\ WF_pollVars(part = "poll" /\ PollStart(p))
                          /\ WF_pollVars(part = "poll" /\ TaskEnds(p))
    /\ \A t \in Limited : WF_pollVars(part = "poll" /\ CooldownEnds(t))
    /\ WF_pollVars(part = "poll" /\ CacheExpires)

MCSpec == MCInit /\ MCFairness
    /\ [][MCNext]_<<part, vars, cacheVars, askVars, agentVars, pollVars>>
=============================================================================
