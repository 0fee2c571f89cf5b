----------------------------- MODULE LLMFallback -----------------------------
(***************************************************************************)
(* One request to the language model: FallbackChain of llm/adapter.py with *)
(* its levels of providers and their retries, and FallbackChatModel of     *)
(* llm/bridge.py, which streams or generates through it.  What a provider  *)
(* does is external: it answers, fails with some kind of error before or   *)
(* amid its stream, or is healthy and never fails.                         *)
(***************************************************************************)
EXTENDS Integers, Sequences

CONSTANTS
  Providers,   \* number of adapters in the chain, those without a key left out
  MaxRetries   \* LLM_MAX_RETRIES

ASSUME ChainAssumption == Providers \in Nat /\ MaxRetries \in Nat

Levels == 1..Providers
Nobody == 0

\* What a request may cost: a stream per provider and, per provider, one call, its
\* retries and one more for a context that was too long.  The count stops above it.
MaxCalls == Providers + Providers * (MaxRetries + 2)

\* Kinds of error by what invoke does about them: _RETRYABLE (timeout, 429, 5xx,
\* network), context overflow, and the hopeless rest (quota, auth, unknown).
Kinds == {"retryable", "overflow", "fatal"}

VARIABLES
  healthy,    \* providers that do not fail during this request
  mode,       \* stream_events or invoke
  pc,         \* call: about to call an adapter; streaming; done
  level,      \* the adapter's place in the chain, Providers + 1 past its end
  attempt,    \* retries used at this level
  truncated,  \* overflow_retried: the level works on the shortened history
  started,    \* the adapter's stream has given a chunk
  calls,      \* calls of adapters
  out         \* what was handed to the agent, in order

vars == <<healthy, mode, pc, level, attempt, truncated, started, calls, out>>

\* What is handed out: the text or tool calls of a provider, a whole answer, the
\* marker of a switch amid a stream, and the text all failing providers leave.
Piece(p, kind)  == [by |-> p, kind |-> kind]
PieceKinds      == {"text", "finish", "answer", "switch", "unavailable"}
Content         == {"text", "finish", "answer"}
Emit(p, kind)   == out' = Append(out, Piece(p, kind))
HasEmitted(p, kind) == \E i \in 1..Len(out) : out[i] = Piece(p, kind)

Count == calls' = IF calls > MaxCalls THEN calls ELSE calls + 1

Init ==
  /\ healthy \in SUBSET Levels
  /\ mode \in {"stream", "invoke"}
  /\ pc = "call"
  /\ level = 1
  /\ attempt = 0
  /\ truncated = FALSE
  /\ started = FALSE
  /\ calls = 0
  /\ out = <<>>

\* The loop over the adapters goes on with fresh counters and the full history.
NextLevel ==
  /\ level' = level + 1
  /\ attempt' = 0
  /\ truncated' = FALSE
  /\ started' = FALSE
  /\ pc' = "call"

\* The adapters are used up.
GiveUp ==
  /\ pc = "call"
  /\ level > Providers
  /\ Emit(Nobody, "unavailable")
  /\ pc' = "done"
  /\ UNCHANGED <<healthy, mode, level, attempt, truncated, started, calls>>

-----------------------------------------------------------------------------
(* FallbackChain.invoke.                                                    *)

CallsInvoke ==
  /\ mode = "invoke" /\ pc = "call" /\ level \in Levels
  /\ Count

InvokeAnswers ==
  /\ CallsInvoke
  /\ Emit(level, "answer")
  /\ pc' = "done"
  /\ UNCHANGED <<healthy, mode, level, attempt, truncated, started>>

\* Mutant: one retry too many.
MayAgainOnceMore(kind) ==
  \/ kind = "overflow" /\ ~truncated
  \/ kind = "retryable" /\ attempt <= MaxRetries

\* An overflow is retried once, a transient error up to MaxRetries times after a
\* pause; the two do not count against each other.
MayAgain(kind) ==
  \/ kind = "overflow" /\ ~truncated
  \/ kind = "retryable" /\ attempt < MaxRetries

\* The same level once more, after an overflow with system and last user message only.
InvokeRetries(kind) ==
  /\ CallsInvoke
  /\ level \notin healthy
  /\ MayAgain(kind)
  /\ IF kind = "overflow"
     THEN truncated' = TRUE /\ UNCHANGED attempt
     ELSE attempt' = attempt + 1 /\ UNCHANGED truncated
  /\ UNCHANGED <<healthy, mode, pc, level, started, out>>

\* Mutant: a hopeless error ends the request.
InvokeGivesLevelUpForAll(kind) ==
  /\ CallsInvoke
  /\ level \notin healthy
  /\ ~MayAgain(kind)
  /\ IF kind = "fatal"
     THEN /\ pc' = "done" /\ Emit(Nobody, "unavailable")
          /\ UNCHANGED <<level, attempt, truncated, started>>
     ELSE NextLevel /\ UNCHANGED out
  /\ UNCHANGED <<healthy, mode>>

InvokeGivesLevelUp(kind) ==
  /\ CallsInvoke
  /\ level \notin healthy
  /\ ~MayAgain(kind)
  /\ NextLevel
  /\ UNCHANGED <<healthy, mode, out>>

-----------------------------------------------------------------------------
(* FallbackChain.stream_events, consumed by FallbackChatModel._stream.      *)

StreamBegins ==
  /\ mode = "stream" /\ pc = "call" /\ level \in Levels
  /\ Count
  /\ pc' = "streaming"
  /\ UNCHANGED <<healthy, mode, level, attempt, truncated, started, out>>

\* The chunks of one kind count as one; finish carries the tool calls and usage.
StreamChunk(kind) ==
  /\ pc = "streaming"
  /\ ~HasEmitted(level, "finish") /\ ~HasEmitted(level, kind)
  /\ started' = TRUE
  /\ Emit(level, kind)
  /\ UNCHANGED <<healthy, mode, pc, level, attempt, truncated, calls>>

\* The stream ends.  If nothing at all came out of the chain, the bridge
\* generates without streaming, from the first provider on.
StreamEnds ==
  /\ pc = "streaming"
  /\ IF out = <<>>
     THEN /\ mode' = "invoke" /\ pc' = "call"
          /\ level' = 1 /\ attempt' = 0 /\ truncated' = FALSE /\ started' = FALSE
     ELSE /\ pc' = "done"
          /\ UNCHANGED <<mode, level, attempt, truncated, started>>
  /\ UNCHANGED <<healthy, calls, out>>

\* Mutant: the switch is not announced.
StreamFailsSilently ==
  /\ pc = "streaming"
  /\ level \notin healthy
  /\ NextLevel
  /\ UNCHANGED <<healthy, mode, calls, out>>

\* Any error, whatever its kind, moves on to the next provider; the marker is
\* put in when this one has been heard and there is a next one.
StreamFails ==
  /\ pc = "streaming"
  /\ level \notin healthy
  /\ IF started /\ level < Providers THEN Emit(level, "switch") ELSE UNCHANGED out
  /\ NextLevel
  /\ UNCHANGED <<healthy, mode, calls>>

-----------------------------------------------------------------------------
Next ==
  \/ InvokeAnswers \/ \E kind \in Kinds : InvokeRetries(kind) \/ InvokeGivesLevelUp(kind)
  \/ StreamBegins \/ \E kind \in {"text", "finish"} : StreamChunk(kind)
  \/ StreamEnds \/ StreamFails
  \/ GiveUp

Spec == Init /\ [][Next]_vars

-----------------------------------------------------------------------------
(* Properties.                                                              *)

TypeOK ==
  /\ healthy \subseteq Levels
  /\ mode \in {"stream", "invoke"}
  /\ pc \in {"call", "streaming", "done"}
  /\ level \in 1..(Providers + 1)
  /\ attempt \in 0..MaxRetries
  /\ truncated \in BOOLEAN /\ started \in BOOLEAN
  /\ calls \in 0..(MaxCalls + 1)
  /\ out \in Seq([by : Levels \cup {Nobody}, kind : PieceKinds])

\* The retries of all levels, their truncations and the second pass of the bridge
\* together stay within the bound.
CallsBounded == calls <= MaxCalls

\* As long as some provider works, the user gets an answer, from it or from one
\* before it; failures of any kind before it and amid its stream notwithstanding.
AnsweredIfAnyHealthy ==
  pc = "done" /\ healthy # {} =>
    /\ ~HasEmitted(Nobody, "unavailable")
    /\ \A h \in healthy : out[Len(out)].by <= h

\* Contents of two providers never follow each other without the marker.
SwitchIsMarked ==
  \A i, j \in 1..Len(out) :
    i < j /\ out[i].kind \in Content /\ out[j].kind \in Content /\ out[i].by # out[j].by
      => \E k \in i..j : out[k].kind = "switch"
=============================================================================
