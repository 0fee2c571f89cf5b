----------------------------- MODULE AgentGraph -----------------------------
(***************************************************************************)
(* The LangGraph agent of agent/agent.py over the turns of one session:    *)
(*                                                                         *)
(*   preprocess -> llm_decide -> tools -> reflect -> llm_decide            *)
(*                 llm_decide -> respond -> fact_check -> end | llm_decide *)
(*                                                                         *)
(* What a node leaves in the state is checkpointed per session and still   *)
(* there in the next turn, also after a crash; turns of a session follow   *)
(* each other (the session lock of api/routes.py).  What the language      *)
(* model and the tools return is external.                                 *)
(***************************************************************************)
EXTENDS Integers

CONSTANTS
  Turns,         \* questions asked in the session
  MaxToolRounds, \* max_tool_rounds of each request
  MaxRegenerations, \* FACT_CHECK_MAX_RETRIES
  Limit          \* supersteps LangGraph grants one request (recursion_limit)

ASSUME GraphAssumption ==
  /\ Turns \in Nat \ {0} /\ Limit \in Nat \ {0}
  /\ MaxToolRounds \in Nat /\ MaxRegenerations \in Nat

Modes == {"relaxed", "strict"}
Nodes == {"preprocess", "llm_decide", "tools", "reflect", "respond", "fact_check"}

VARIABLES
  turn,        \* turns begun
  path,        \* invoke (_ask_agent_internal) or stream (_ask_agent_stream)
  checkMode,   \* check_mode
  node,        \* the node to run next, "idle" between turns
  superstep,   \* supersteps used by this request
  text,        \* the last message of the model with content
  calling,     \* the model's last message has tool calls
  resultTurns, \* turns whose tool results are in skill_results
  iteration,   \* reflections in this turn
  check,       \* fact_check_result of this turn
  retries,     \* fact_check_retries
  redone,      \* answers the fact check has sent back in this session
  final,       \* final_reply of the stream
  reply        \* what the last request returned

request == <<turn, path, checkMode>>
history == <<text, calling>>
agentVars == <<request, node, superstep, history, resultTurns, iteration, check, retries, redone,
               final, reply>>

\* A text of the model: the turn it was written in (0: none), whether respond may
\* still reformat it, whether the fact check has appended its warning.
Text(t, raw, marked) == [turn |-> t, raw |-> raw, marked |-> marked]
NoText == Text(0, FALSE, FALSE)
Texts  == [turn : 0..Turns, raw : BOOLEAN, marked : BOOLEAN]

\* A returned text, an apology in place of one, an error, or nothing at all.
Reply(kind, t) == [kind |-> kind, turn |-> t.turn, marked |-> t.marked]
NoReply == Reply("none", NoText)

MoveTo(n) == node' = n /\ superstep' = superstep + 1

\* LangGraph gives a request so many supersteps.
Granted == superstep < Limit

-----------------------------------------------------------------------------
AgentInit ==
  /\ turn = 0 /\ path = "invoke" /\ checkMode = "relaxed"
  /\ node = "idle" /\ superstep = 0
  /\ text = NoText /\ calling = FALSE
  /\ resultTurns = {} /\ iteration = 0
  /\ check = "none" /\ retries = 0 /\ redone = 0
  /\ final = NoText
  /\ reply = NoReply

\* Mutant: the results of the last turn are not thrown away.
PreprocessKeepsResults ==
  /\ node = "preprocess" /\ Granted
  /\ iteration' = 0
  /\ MoveTo("llm_decide")
  /\ UNCHANGED <<request, history, resultTurns, check, retries, redone, final, reply>>

\* A request brings question and check mode; all else is as the last turn left it.
AskGraph(p, m) ==
  /\ node = "idle"
  /\ turn < Turns
  /\ turn' = turn + 1
  /\ path' = p
  /\ checkMode' = m
  /\ node' = "preprocess"
  /\ superstep' = 0
  /\ final' = NoText
  /\ reply' = NoReply
  /\ UNCHANGED <<history, resultTurns, iteration, check, retries, redone>>

Preprocess ==
  /\ node = "preprocess" /\ Granted
  /\ resultTurns' = {}
  /\ iteration' = 0
  /\ MoveTo("llm_decide")
  /\ UNCHANGED <<request, history, check, retries, redone, final, reply>>

\* The model's message: with or without content, with or without tool calls.
Decide(says, calls) ==
  /\ node = "llm_decide" /\ Granted
  /\ text' = IF says THEN Text(turn, TRUE, FALSE) ELSE text
  /\ final' = IF says THEN text' ELSE final
  /\ calling' = calls
  /\ MoveTo(IF calls THEN "tools" ELSE "respond")
  /\ UNCHANGED <<request, resultTurns, iteration, check, retries, redone, reply>>

\* Each call gets a tool message, be it an error; only a skill that succeeds leaves
\* data the answer can be checked against.
Tools(success) ==
  /\ node = "tools" /\ Granted
  /\ resultTurns' = IF success THEN resultTurns \cup {turn} ELSE resultTurns
  /\ MoveTo("reflect")
  /\ UNCHANGED <<request, history, iteration, check, retries, redone, final, reply>>

\* _reflect_condition: after tool calls the model is always asked again.
AfterReflect(more) == IF more \/ calling THEN "llm_decide" ELSE "respond"

\* _reflect_node: is the data complete, is more suggested.
Reflect(complete, suggests) ==
  LET more == ~complete /\ suggests /\ iteration + 1 < MaxToolRounds
  IN  /\ node = "reflect" /\ Granted
      /\ iteration' = iteration + 1
      /\ MoveTo(AfterReflect(more))
      /\ UNCHANGED <<request, history, resultTurns, check, retries, redone, final, reply>>

\* Reformats the last text, which may be of an earlier turn; the stream then takes it
\* for an update of this one.
Respond(changes) ==
  /\ node = "respond" /\ Granted
  /\ changes => text.raw
  /\ text' = [text EXCEPT !.raw = FALSE]
  /\ final' = IF changes THEN text' ELSE final
  /\ MoveTo("fact_check")
  /\ UNCHANGED <<request, calling, resultTurns, iteration, check, retries, redone, reply>>

-----------------------------------------------------------------------------
(* _fact_check_node, and what the caller returns.                           *)

\* extract_ai_response of invoke, or what the stream has collected.
Returns(t, streamed) ==
  IF path = "stream"
  THEN IF streamed = NoText THEN Reply("apology", NoText) ELSE Reply("answer", streamed)
  ELSE IF t = NoText THEN Reply("error", NoText) ELSE Reply("answer", t)

Finish(t, streamed) ==
  /\ node' = "idle" /\ superstep' = superstep + 1
  /\ reply' = Returns(t, streamed)

\* Without data of a tool there is nothing a text could contradict.
MayFail == text # NoText /\ resultTurns # {}

CheckPasses ==
  /\ node = "fact_check" /\ Granted
  /\ check' = IF text = NoText THEN "none" ELSE "passed"
  /\ Finish(text, final)
  /\ UNCHANGED <<request, history, resultTurns, iteration, retries, redone, final>>

\* Mutant: only the checkpointed message is amended, not what the stream returns.
CheckAnnotatesState ==
  /\ node = "fact_check" /\ Granted
  /\ checkMode = "relaxed" /\ MayFail
  /\ check' = "failed"
  /\ text' = [text EXCEPT !.marked = TRUE]
  /\ Finish(text', final)
  /\ UNCHANGED <<request, calling, resultTurns, iteration, retries, redone, final>>

\* Relaxed: the warning is appended and the text goes out.
CheckAnnotates ==
  /\ node = "fact_check" /\ Granted
  /\ checkMode = "relaxed" /\ MayFail
  /\ check' = "failed"
  /\ text' = [text EXCEPT !.marked = TRUE]
  /\ final' = text'
  /\ Finish(text', final')
  /\ UNCHANGED <<request, calling, resultTurns, iteration, retries, redone>>

\* _fact_check_condition, for a text that failed.
SendsBack(count) == checkMode = "strict" /\ count < MaxRegenerations

\* Mutant: a rejected text goes out at once.
CheckRejectsAtOnce ==
  /\ node = "fact_check" /\ Granted
  /\ checkMode = "strict" /\ MayFail
  /\ check' = "failed"
  /\ retries' = retries + 1
  /\ Finish(text, final)
  /\ UNCHANGED <<request, history, resultTurns, iteration, redone, final>>

\* Strict: the text is sent back while there are retries left, and goes out after.
CheckRejects ==
  /\ node = "fact_check" /\ Granted
  /\ checkMode = "strict" /\ MayFail
  /\ check' = "failed"
  /\ retries' = retries + 1
  /\ IF SendsBack(retries')
     THEN /\ MoveTo("llm_decide")
          /\ redone' = redone + 1
          /\ UNCHANGED reply
     ELSE /\ Finish(text, final)
          /\ UNCHANGED redone
  /\ UNCHANGED <<request, history, resultTurns, iteration, final>>

\* Mutant: a request that is out of steps starts over.
OutOfStepsAgain ==
  /\ node # "idle" /\ ~Granted
  /\ node' = "preprocess" /\ superstep' = 0
  /\ UNCHANGED <<request, history, resultTurns, iteration, check, retries, redone, final, reply>>

\* GraphRecursionError: the caller gets an error, the checkpoint stays.
OutOfSteps ==
  /\ node # "idle" /\ ~Granted
  /\ node' = "idle"
  /\ reply' = Reply("error", NoText)
  /\ UNCHANGED <<request, superstep, history, resultTurns, iteration, check, retries, redone, final>>

\* The process ends amid a request; what the last node left has been checkpointed.
GraphCrash ==
  /\ node # "idle"
  /\ node' = "idle"
  /\ reply' = NoReply
  /\ UNCHANGED <<request, superstep, history, resultTurns, iteration, check, retries, redone, final>>

Run ==
  \/ Preprocess
  \/ \E says, calls \in BOOLEAN : Decide(says, calls)
  \/ \E success \in BOOLEAN : Tools(success)
  \/ \E complete, suggests \in BOOLEAN : Reflect(complete, suggests)
  \/ \E changes \in BOOLEAN : Respond(changes)
  \/ CheckPasses
  \/ CheckAnnotates
  \/ CheckRejects
  \/ OutOfSteps

AgentNext ==
  \/ \E p \in {"invoke", "stream"}, m \in Modes : AskGraph(p, m)
  \/ Run
  \/ GraphCrash

AgentSpec == AgentInit /\ [][AgentNext]_agentVars

\* LangGraph runs node after node; nobody is obliged to ask, and crashes just happen.
AgentFairSpec == AgentSpec /\ WF_agentVars(Run)

-----------------------------------------------------------------------------
\* Every variable stays in its domain, counters included.
AgentTypeOK ==
  /\ turn \in 0..Turns /\ path \in {"invoke", "stream"} /\ checkMode \in Modes
  /\ node \in Nodes \cup {"idle"} /\ superstep \in 0..Limit
  /\ text \in Texts /\ final \in Texts
  /\ calling \in BOOLEAN
  /\ resultTurns \subseteq 1..Turns /\ iteration \in Nat
  /\ check \in {"none", "passed", "failed"}
  /\ retries \in Nat /\ redone \in Nat
  /\ reply \in [kind : {"none", "answer", "apology", "error"}, turn : 0..Turns, marked : BOOLEAN]

Delivered == node = "idle" /\ reply.kind = "answer"

\* The answer of a turn is compared with results of that turn's own tool calls, never
\* with what an earlier turn, finished or torn off, left in the checkpoint.
CheckedAgainstOwnData ==
  node \notin {"idle", "preprocess"} => resultTurns \subseteq {turn}

\* In relaxed mode a text that failed the fact check is not handed out without its
\* warning, neither by invoke nor by the stream, whichever turn the text is of.
RelaxedFailuresMarked ==
  Delivered /\ checkMode = "relaxed" /\ check = "failed" => reply.marked

\* A strict request hands out a text that failed the check only when the session has
\* used up its retries.
StrictFailuresSpent ==
  Delivered /\ checkMode = "strict" /\ check = "failed" => retries >= MaxRegenerations

\* FACT_CHECK_MAX_RETRIES bounds how often answers are sent back, whether or not the
\* model uses tools again; since the count is checkpointed and never reset, it bounds
\* all turns of the session together.
RegenerationsBounded == redone <= MaxRegenerations

\* Every request ends, although the model may call tools at every decision.
TurnEnds == node # "idle" ~> node = "idle"

\* "Raises APIError if the agent invocation fails or produces no AI response"
\* (agent.py): what is returned as the answer was written for this question.
AnswersThisTurn == Delivered => reply.turn = turn

=============================================================================
