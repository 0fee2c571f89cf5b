---------------------------- MODULE Orchestrator ----------------------------
(***************************************************************************)
(* Three agent turns in a row for one watcher task (monitor, analysis,     *)
(* strategy), as threads of the watcher's pool run them: two tasks at a    *)
(* time, or a run whose task has timed out (its thread goes on) beside the *)
(* retry.  They share one orchestrator object, the traces under way, one   *)
(* per session, and the short-term memory of the sessions.                 *)
(*                                                                         *)
(* Sources: src/agent/orchestrator.py, src/agent/tracer.py,                *)
(* src/agent/memory.py and the entry point of src/agent/agent.py.  What    *)
(* happens inside a turn's graph is AgentGraph's subject: here a turn      *)
(* starts, looks up its memory, and answers or fails.                      *)
(***************************************************************************)
EXTENDS Integers, Sequences, FiniteSets, Functions, SequencesExt

CONSTANTS Runs,      \* calls of run_pipeline, each in a thread of its own
          TraceCap,  \* TRACE_HISTORY_CAP
          MemoryTtl, \* BUSINESS_MEMORY_TTL
          LastHour   \* bound of the clock

ASSUME OrchAssumption == TraceCap \in Nat /\ MemoryTtl \in Nat /\ LastHour \in Nat

LastPhase == 3     \* monitor, analysis, strategy

VARIABLES hour,
          traceId,   \* the orchestrator's attribute trace_id: whose id it is
          place,     \* where each run stands
          phase,     \* the phase it is in
          session,   \* the session id it gave its present turn
          expired,   \* what its sweep of the memory has listed to delete
          active,    \* _trace_store: the trace under way of a session
          history,   \* _trace_history
          memories   \* _store: when the memory of a session was made

orchVars == <<hour, traceId, place, phase, session, expired, active, history, memories>>
NoRun == "no run"

OrchInit == /\ hour = 0 /\ traceId = NoRun
            /\ place = [r \in Runs |-> "waits"]
            /\ phase = [r \in Runs |-> 1]
            /\ session = [r \in Runs |-> <<NoRun, 1>>]
            /\ expired = [r \in Runs |-> {}]
            /\ active = <<>> /\ history = <<>> /\ memories = <<>>

InTurn(r) == place[r] \notin {"waits", "between", "done", "failed"}
Go(r, there) == place' = [place EXCEPT ![r] = there]
Put(f, key, value) == [k \in DOMAIN f \cup {key} |-> IF k = key THEN value ELSE f[k]]
Drop(f, key) == Restrict(f, DOMAIN f \ {key})

\* A new id, kept in the object all the runs share.
RunPipeline(r) ==
    /\ place[r] = "waits"
    /\ traceId' = r
    /\ Go(r, "between")
    /\ UNCHANGED <<hour, phase, session, expired, active, history, memories>>

\* The session id is made from the object's attribute as it is now.
StartTrace(r) ==
    /\ place[r] = "between"
    /\ LET s == <<traceId, phase[r]>>
       IN  /\ session' = [session EXCEPT ![r] = s]
           /\ active' = Put(active, s, [of |-> r, spans |-> {}])
    /\ Go(r, "decide")
    /\ UNCHANGED <<hour, traceId, phase, expired, history, memories>>

(***************************************************************************)
(* get_or_create, without a lock: the sessions past their time are listed, *)
(* then deleted one by one (a KeyError when another thread was faster).    *)
(***************************************************************************)
ListExpired(r) ==
    /\ place[r] \in {"decide", "answered"}
    /\ expired' = [expired EXCEPT ![r] = {s \in DOMAIN memories : hour - memories[s] > MemoryTtl}]
    /\ Go(r, IF place[r] = "decide" THEN "sweeps" ELSE "sweeps at the end")
    /\ UNCHANGED <<hour, traceId, phase, session, active, history, memories>>

Forget(r) ==
    /\ place[r] \in {"sweeps", "sweeps at the end"}
    /\ \E s \in expired[r] \cap DOMAIN memories :
         /\ memories' = Drop(memories, s)
         /\ expired' = [expired EXCEPT ![r] = @ \ {s}]
    /\ UNCHANGED <<hour, traceId, place, phase, session, active, history>>

Remember(r) ==
    /\ expired[r] = {}
    /\ memories' = IF session[r] \in DOMAIN memories THEN memories
                                                 ELSE Put(memories, session[r], hour)

\* finish_trace: the session's trace is archived, whosever it is; the
\* oldest of the history make room.
FinishTrace(s, reply) ==
    IF s \notin DOMAIN active THEN UNCHANGED <<active, history>>
    ELSE LET all == Append(history, [session |-> s, of |-> active[s].of,
                                     spans |-> active[s].spans, reply |-> reply])
         IN  /\ active' = Drop(active, s)
             /\ history' = SubSeq(all, Max({1, Len(all) - TraceCap + 1}), Len(all))

\* The graph has answered: what it measured is recorded with the session's trace.
Answer(r) ==
    /\ place[r] = "sweeps" /\ Remember(r)
    /\ active' = IF session[r] \in DOMAIN active
                 THEN [active EXCEPT ![session[r]].spans = @ \cup {r}] ELSE active
    /\ Go(r, "answered")
    /\ UNCHANGED <<hour, traceId, phase, session, expired, history>>

EndTurn(r) ==
    /\ place[r] = "sweeps at the end" /\ Remember(r)
    /\ FinishTrace(session[r], r)
    /\ phase' = [phase EXCEPT ![r] = IF @ = LastPhase THEN @ ELSE @ + 1]
    /\ Go(r, IF phase[r] = LastPhase THEN "done" ELSE "between")
    /\ UNCHANGED <<hour, traceId, session, expired>>

\* The graph failed, or a sweep found a session already gone: the turn ends
\* in an APIError, and with it the pipeline.
FailUntraced(r) ==
    /\ place[r] \in {"decide", "sweeps"}
    /\ expired' = [expired EXCEPT ![r] = {}]
    /\ Go(r, "failed")
    /\ UNCHANGED <<hour, traceId, phase, session, memories, active, history>>

Fail(r) ==
    /\ \/ place[r] \in {"decide", "sweeps"}
       \/ /\ place[r] = "sweeps at the end"
          /\ expired[r] \ DOMAIN memories # {}
    /\ FinishTrace(session[r], "error")
    /\ expired' = [expired EXCEPT ![r] = {}]
    /\ Go(r, "failed")
    /\ UNCHANGED <<hour, traceId, phase, session, memories>>

ClearTraces ==
    /\ active' = <<>> /\ history' = <<>>
    /\ UNCHANGED <<hour, traceId, place, phase, session, expired, memories>>

HourPasses == /\ hour < LastHour /\ hour' = hour + 1
              /\ UNCHANGED <<traceId, place, phase, session, expired, active, history, memories>>

OrchStep(r) == \/ RunPipeline(r) \/ StartTrace(r) \/ ListExpired(r) \/ Forget(r)
               \/ Answer(r) \/ EndTurn(r) \/ Fail(r)
OrchNext == HourPasses \/ ClearTraces \/ \E r \in Runs : OrchStep(r)

OrchSpec == OrchInit /\ [][OrchNext]_orchVars
-----------------------------------------------------------------------------
(***************************************************************************)
(* A trace is under way only in the session of a turn that is: however the *)
(* turns end, and even when two share a session, none stays listed as      *)
(* running for ever (src/agent/tracer.py:184-207).                         *)
(***************************************************************************)
TracesEnd == DOMAIN active \subseteq {session[r] : r \in {q \in Runs : InTurn(q)}}

(***************************************************************************)
(* What src/api/routes.py:22-23 says of all runs of the graph: two of one  *)
(* session at a time would clash over its checkpoint, so they take turns.  *)
(* Two pipelines at a time break it: the later phases of the first use the *)
(* id of the second, and no lock is taken on this way in.                  *)
(***************************************************************************)
OneGraphPerSession ==
    \A r, q \in Runs : InTurn(r) /\ InTurn(q) /\ session[r] = session[q] => r = q
=============================================================================
