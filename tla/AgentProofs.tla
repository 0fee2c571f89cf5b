----------------------------- MODULE AgentProofs -----------------------------
(***************************************************************************)
(* Theorems about the two halves of a question's way to its answer: the    *)
(* graph with its fact check (AgentGraph), for sessions of any length and  *)
(* any limits of rounds, retries and supersteps, and the providers the     *)
(* graph asks (LLMFallback), for a chain of any length and any number of   *)
(* retries.                                                                *)
(***************************************************************************)
EXTENDS AgentGraph, LLMFallback, SequenceTheorems, TLAPS

-----------------------------------------------------------------------------
(* The graph and its fact check.                                             *)

\* Every answer sent back was counted, and the last count that sends one back is
\* below the limit.
Counted == redone <= retries /\ RegenerationsBounded

\* A node runs for a question.
Asked == node # "idle" => turn > 0

AgentIInv ==
  /\ AgentTypeOK
  /\ Asked
  /\ CheckedAgainstOwnData
  /\ RelaxedFailuresMarked
  /\ StrictFailuresSpent
  /\ Counted

-----------------------------------------------------------------------------
\* What the callers return is a reply, marked when the text they return is.
LEMMA ReturnsReply ==
  ASSUME NEW t \in Texts, NEW s \in Texts
  PROVE  /\ Returns(t, s) \in [kind : {"none", "answer", "apology", "error"},
                               turn : 0..Turns, marked : BOOLEAN]
         /\ t.marked /\ s.marked => Returns(t, s).marked
<1> USE GraphAssumption DEF Texts
<1>1. NoText = [turn |-> 0, raw |-> FALSE, marked |-> FALSE] /\ 0 \in 0..Turns
  BY DEF NoText, Text
<1>2. /\ t.turn \in 0..Turns /\ t.marked \in BOOLEAN
      /\ s.turn \in 0..Turns /\ s.marked \in BOOLEAN
  OBVIOUS
<1>3. Returns(t, s) \in [kind : {"none", "answer", "apology", "error"},
                         turn : 0..Turns, marked : BOOLEAN]
  BY <1>1, <1>2 DEF Returns, Reply
<1>4. ASSUME t.marked, s.marked PROVE Returns(t, s).marked
  <2>1. t # NoText /\ s # NoText
    BY <1>1, <1>4
  <2> QED
    BY <1>4, <2>1 DEF Returns, Reply
<1> QED
  BY <1>3, <1>4

LEMMA AgentInitial == AgentInit => AgentIInv
<1> SUFFICES ASSUME AgentInit PROVE AgentIInv
  OBVIOUS
<1> USE GraphAssumption DEF AgentInit
<1>t. NoText \in Texts
  BY DEF NoText, Text, Texts
<1>r. reply \in [kind : {"none", "answer", "apology", "error"}, turn : 0..Turns, marked : BOOLEAN]
  BY DEF NoReply, Reply, NoText, Text
<1>s. turn \in 0..Turns /\ superstep \in 0..Limit /\ iteration \in Nat /\ retries \in Nat /\ redone \in Nat
  OBVIOUS
<1>m. /\ path \in {"invoke", "stream"} /\ checkMode \in Modes /\ node \in Nodes \cup {"idle"}
      /\ check \in {"none", "passed", "failed"} /\ calling \in BOOLEAN /\ resultTurns \subseteq 1..Turns
  BY Zenon DEF Modes
<1>1. AgentTypeOK /\ Asked
  BY <1>t, <1>r, <1>s, <1>m DEF AgentTypeOK, Asked
<1>2. CheckedAgainstOwnData /\ Counted
  BY DEF CheckedAgainstOwnData, Counted, RegenerationsBounded
<1>3. RelaxedFailuresMarked /\ StrictFailuresSpent
  BY DEF RelaxedFailuresMarked, StrictFailuresSpent, Delivered, NoReply, Reply
<1> QED
  BY <1>1, <1>2, <1>3 DEF AgentIInv

\* An action that does not hand out an answer keeps both properties of answers.
LEMMA NothingDelivered ==
  ASSUME node' # "idle" \/ reply'.kind # "answer"
  PROVE  RelaxedFailuresMarked' /\ StrictFailuresSpent'
BY DEF RelaxedFailuresMarked, StrictFailuresSpent, Delivered

-----------------------------------------------------------------------------
LEMMA AskInv ==
  ASSUME AgentIInv, NEW p \in {"invoke", "stream"}, NEW m \in Modes, AskGraph(p, m)
  PROVE  AgentIInv'
<1> USE GraphAssumption DEF AgentIInv, AskGraph, history
<1>t. NoText \in Texts
  BY DEF NoText, Text, Texts
<1>r. NoReply \in [kind : {"none", "answer", "apology", "error"}, turn : 0..Turns, marked : BOOLEAN]
  BY DEF NoReply, Reply, NoText, Text
<1>n. node' # "idle" \/ reply'.kind # "answer"
  OBVIOUS
<1>1. AgentTypeOK' /\ Asked'
  BY <1>t, <1>r DEF AgentTypeOK, Asked, Nodes
<1>2. CheckedAgainstOwnData' /\ Counted'
  BY DEF CheckedAgainstOwnData, Counted, RegenerationsBounded
<1>3. RelaxedFailuresMarked' /\ StrictFailuresSpent'
  BY NothingDelivered
<1> QED
  BY <1>1, <1>2, <1>3

LEMMA PreprocessInv == ASSUME AgentIInv, Preprocess PROVE AgentIInv'
<1> USE GraphAssumption DEF AgentIInv, Preprocess, MoveTo, Granted, request, history
<1>1. AgentTypeOK' /\ Asked'
  BY DEF AgentTypeOK, Nodes, Asked
<1>2. CheckedAgainstOwnData' /\ Counted'
  BY DEF CheckedAgainstOwnData, Counted, RegenerationsBounded
<1>3. RelaxedFailuresMarked' /\ StrictFailuresSpent'
  BY NothingDelivered
<1> QED
  BY <1>1, <1>2, <1>3

LEMMA DecideInv ==
  ASSUME AgentIInv, NEW says \in BOOLEAN, NEW wants \in BOOLEAN, Decide(says, wants)
  PROVE  AgentIInv'
<1> USE GraphAssumption DEF AgentIInv
<1>d. /\ node = "llm_decide" /\ superstep < Limit /\ superstep' = superstep + 1
      /\ node' \in {"tools", "respond"} /\ calling' \in BOOLEAN
      /\ UNCHANGED <<turn, path, checkMode, resultTurns, iteration, check, retries, redone, reply>>
  BY Zenon DEF Decide, MoveTo, Granted, request
<1>1. text' \in Texts /\ final' \in Texts
  BY DEF Decide, AgentTypeOK, Texts, Text
<1>2. AgentTypeOK' /\ Asked'
  BY <1>d, <1>1 DEF AgentTypeOK, Nodes, Asked
<1>3. CheckedAgainstOwnData' /\ Counted'
  BY <1>d DEF CheckedAgainstOwnData, Counted, RegenerationsBounded
<1>4. RelaxedFailuresMarked' /\ StrictFailuresSpent'
  BY <1>d, NothingDelivered
<1> QED
  BY <1>2, <1>3, <1>4

LEMMA ToolsInv ==
  ASSUME AgentIInv, NEW success \in BOOLEAN, Tools(success) PROVE AgentIInv'
<1> USE GraphAssumption DEF AgentIInv, Tools, MoveTo, Granted, request, history
<1>1. turn \in 1..Turns
  BY DEF AgentTypeOK, Asked
<1>2. CheckedAgainstOwnData' /\ Counted'
  BY DEF CheckedAgainstOwnData, Counted, RegenerationsBounded
<1>3. RelaxedFailuresMarked' /\ StrictFailuresSpent'
  BY NothingDelivered
<1>4. AgentTypeOK' /\ Asked'
  BY <1>1 DEF AgentTypeOK, Asked, Nodes
<1> QED
  BY <1>2, <1>3, <1>4

LEMMA ReflectInv ==
  ASSUME AgentIInv, NEW complete \in BOOLEAN, NEW suggests \in BOOLEAN,
         Reflect(complete, suggests)
  PROVE  AgentIInv'
<1> USE GraphAssumption DEF AgentIInv, Reflect, AfterReflect, MoveTo, Granted, request, history
<1>n. node' \in {"llm_decide", "respond"}
  BY Zenon
<1>1. AgentTypeOK' /\ Asked'
  BY <1>n DEF AgentTypeOK, Nodes, Asked
<1>2. CheckedAgainstOwnData' /\ Counted'
  BY DEF CheckedAgainstOwnData, Counted, RegenerationsBounded
<1>3. RelaxedFailuresMarked' /\ StrictFailuresSpent'
  BY <1>n, NothingDelivered
<1> QED
  BY <1>1, <1>2, <1>3

LEMMA RespondInv ==
  ASSUME AgentIInv, NEW changes \in BOOLEAN, Respond(changes) PROVE AgentIInv'
<1> USE GraphAssumption DEF AgentIInv, Respond, MoveTo, Granted, request
<1>1. text' \in Texts /\ final' \in Texts
  BY DEF AgentTypeOK, Texts
<1>2. AgentTypeOK' /\ Asked'
  BY <1>1 DEF AgentTypeOK, Nodes, Asked
<1>3. CheckedAgainstOwnData' /\ Counted'
  BY DEF CheckedAgainstOwnData, Counted, RegenerationsBounded
<1>4. RelaxedFailuresMarked' /\ StrictFailuresSpent'
  BY NothingDelivered
<1> QED
  BY <1>2, <1>3, <1>4

-----------------------------------------------------------------------------
LEMMA CheckPassesInv == ASSUME AgentIInv, CheckPasses PROVE AgentIInv'
<1> USE GraphAssumption DEF AgentIInv, CheckPasses, Finish, Granted, request, history
<1>1. check' \in {"none", "passed"}
  BY Zenon
<1>2. reply' \in [kind : {"none", "answer", "apology", "error"}, turn : 0..Turns, marked : BOOLEAN]
  BY ReturnsReply DEF AgentTypeOK
<1>3. AgentTypeOK' /\ Asked'
  BY <1>1, <1>2 DEF AgentTypeOK, Asked
<1>4. CheckedAgainstOwnData' /\ Counted'
  BY DEF CheckedAgainstOwnData, Counted, RegenerationsBounded
<1>5. RelaxedFailuresMarked' /\ StrictFailuresSpent'
  BY <1>1 DEF RelaxedFailuresMarked, StrictFailuresSpent
<1> QED
  BY <1>3, <1>4, <1>5

\* The warning is on the text and on what the stream has collected when either is
\* returned.
LEMMA CheckAnnotatesInv == ASSUME AgentIInv, CheckAnnotates PROVE AgentIInv'
<1> USE GraphAssumption DEF AgentIInv, CheckAnnotates, Finish, Granted, request
<1>1. text' \in Texts /\ text'.marked /\ final' = text'
  BY DEF AgentTypeOK, Texts
<1>2. /\ reply' \in [kind : {"none", "answer", "apology", "error"}, turn : 0..Turns, marked : BOOLEAN]
      /\ reply'.marked
  <2>1. reply' = Returns(text', text')
    <3>1. /\ path' = path /\ checkMode' = checkMode
          /\ reply' = Returns(text', final')
      OBVIOUS
    <3> QED
      BY <1>1, <3>1
  <2>2. /\ Returns(text', text') \in [kind : {"none", "answer", "apology", "error"},
                                      turn : 0..Turns, marked : BOOLEAN]
        /\ Returns(text', text').marked
    BY ONLY <1>1, ReturnsReply
  <2> QED
    BY ONLY <2>1, <2>2
<1>3. AgentTypeOK' /\ Asked'
  BY <1>1, <1>2 DEF AgentTypeOK, Asked
<1>4. CheckedAgainstOwnData' /\ Counted'
  BY DEF CheckedAgainstOwnData, Counted, RegenerationsBounded
<1>5. RelaxedFailuresMarked' /\ StrictFailuresSpent'
  BY <1>2 DEF RelaxedFailuresMarked, StrictFailuresSpent
<1> QED
  BY <1>3, <1>4, <1>5

LEMMA CheckRejectsInv == ASSUME AgentIInv, CheckRejects PROVE AgentIInv'
<1> USE GraphAssumption DEF AgentIInv, CheckRejects, SendsBack, Granted, request, history
<1>1. CASE retries' < MaxRegenerations
  <2> USE <1>1 DEF MoveTo
  <2>1. AgentTypeOK' /\ Asked'
    BY DEF AgentTypeOK, Nodes, Asked
  <2>2. CheckedAgainstOwnData' /\ Counted'
    BY DEF AgentTypeOK, CheckedAgainstOwnData, Counted, RegenerationsBounded
  <2>3. RelaxedFailuresMarked' /\ StrictFailuresSpent'
    BY NothingDelivered
  <2> QED
    BY <2>1, <2>2, <2>3
<1>2. CASE ~(retries' < MaxRegenerations)
  <2> USE <1>2 DEF Finish
  <2>1. reply' \in [kind : {"none", "answer", "apology", "error"}, turn : 0..Turns, marked : BOOLEAN]
    BY ReturnsReply DEF AgentTypeOK
  <2>2. AgentTypeOK' /\ Asked'
    BY <2>1 DEF AgentTypeOK, Asked
  <2>3. CheckedAgainstOwnData' /\ Counted'
    BY DEF AgentTypeOK, CheckedAgainstOwnData, Counted, RegenerationsBounded
  <2>4. RelaxedFailuresMarked' /\ StrictFailuresSpent'
    BY DEF AgentTypeOK, RelaxedFailuresMarked, StrictFailuresSpent
  <2> QED
    BY <2>2, <2>3, <2>4
<1> QED
  BY <1>1, <1>2

\* A request that breaks off hands out nothing.
LEMMA BreakOffInv == ASSUME AgentIInv, OutOfSteps \/ GraphCrash PROVE AgentIInv'
<1> USE GraphAssumption DEF AgentIInv, OutOfSteps, GraphCrash, request, history
<1>t. NoText \in Texts
  BY DEF NoText, Text, Texts
<1>r. /\ reply' \in [kind : {"none", "answer", "apology", "error"}, turn : 0..Turns, marked : BOOLEAN]
      /\ reply'.kind # "answer"
  BY <1>t DEF NoReply, Reply, Texts
<1>1. AgentTypeOK' /\ Asked'
  BY <1>r DEF AgentTypeOK, Asked
<1>2. CheckedAgainstOwnData' /\ Counted'
  BY DEF CheckedAgainstOwnData, Counted, RegenerationsBounded
<1>3. RelaxedFailuresMarked' /\ StrictFailuresSpent'
  BY <1>r, NothingDelivered
<1> QED
  BY <1>1, <1>2, <1>3

LEMMA StutterInv == ASSUME AgentIInv, UNCHANGED agentVars PROVE AgentIInv'
BY DEF AgentIInv, agentVars, request, history, AgentTypeOK, Asked, CheckedAgainstOwnData, Counted,
       RegenerationsBounded, RelaxedFailuresMarked, StrictFailuresSpent, Delivered

LEMMA AgentInvariance == AgentSpec => []AgentIInv
<1>1. AgentIInv /\ [AgentNext]_agentVars => AgentIInv'
  BY AskInv, PreprocessInv, DecideInv, ToolsInv, ReflectInv, RespondInv, CheckPassesInv,
     CheckAnnotatesInv, CheckRejectsInv, BreakOffInv, StutterInv DEF AgentNext, Run
<1> QED
  BY AgentInitial, <1>1, PTL DEF AgentSpec

-----------------------------------------------------------------------------
\* The state of the graph and what it returns stay in their domains.
THEOREM AgentTypeCorrect == AgentSpec => []AgentTypeOK
<1>1. AgentIInv => AgentTypeOK
  BY DEF AgentIInv
<1> QED
  BY AgentInvariance, <1>1, PTL

\* No answer is checked against the tool results of another turn, also after a turn
\* that broke off in the middle.
THEOREM ChecksUseOwnData == AgentSpec => []CheckedAgainstOwnData
<1>1. AgentIInv => CheckedAgainstOwnData
  BY DEF AgentIInv
<1> QED
  BY AgentInvariance, <1>1, PTL

\* invoke and stream alike mark what failed the relaxed check.
THEOREM RelaxedMarks == AgentSpec => []RelaxedFailuresMarked
<1>1. AgentIInv => RelaxedFailuresMarked
  BY DEF AgentIInv
<1> QED
  BY AgentInvariance, <1>1, PTL

\* A failed text leaves a strict request only with the retries used up.
THEOREM StrictSpends == AgentSpec => []StrictFailuresSpent
<1>1. AgentIInv => StrictFailuresSpent
  BY DEF AgentIInv
<1> QED
  BY AgentInvariance, <1>1, PTL

\* The fact check cannot loop: all turns of a session together send back at most
\* FACT_CHECK_MAX_RETRIES answers.
THEOREM FactCheckCannotLoop == AgentSpec => []RegenerationsBounded
<1>1. AgentIInv => RegenerationsBounded
  BY DEF AgentIInv, Counted
<1> QED
  BY AgentInvariance, <1>1, PTL

-----------------------------------------------------------------------------
(* The chain of providers.                                                   *)

PieceSet == [by : Levels \cup {Nobody}, kind : PieceKinds]

\* What TypeOK says, without the count of calls.
Types ==
  /\ healthy \subseteq Levels
  /\ mode \in {"stream", "invoke"}
  /\ pc \in {"call", "streaming", "done"}
  /\ level \in 1..(Providers + 1)
  /\ attempt \in 0..MaxRetries
  /\ truncated \in BOOLEAN /\ started \in BOOLEAN
  /\ out \in Seq(PieceSet)

\* The chain never goes past a healthy provider, and what was handed out so far
\* came from the levels up to the present one.
Progress ==
  /\ pc = "streaming" => level \in Levels
  /\ pc # "done" => \A h \in healthy : level <= h
  /\ \A i \in 1..Len(out) : out[i].by <= level
  /\ pc # "done" \/ healthy # {} => ~HasEmitted(Nobody, "unavailable")
  /\ pc = "done" => out # <<>> /\ \A h \in healthy : out[Len(out)].by <= h

ChainIInv == Types /\ calls \in 0..(MaxCalls + 1) /\ Progress

-----------------------------------------------------------------------------
LEMMA MaxCallsNat == MaxCalls \in Nat
<1>1. \A m, n \in Nat : m * n \in Nat
  BY SMT
<1>2. MaxRetries + 2 \in Nat /\ Providers \in Nat
  BY ChainAssumption
<1>3. Providers * (MaxRetries + 2) \in Nat
  BY <1>1, <1>2
<1> QED
  BY <1>2, <1>3 DEF MaxCalls

\* Counting keeps the count in its range.
LEMMA CountType ==
  ASSUME calls \in 0..(MaxCalls + 1), Count
  PROVE  calls' \in 0..(MaxCalls + 1)
BY MaxCallsNat DEF Count

\* Handing out a piece adds it at the end and changes nothing before it.
LEMMA EmitEffect ==
  ASSUME NEW p \in Levels \cup {Nobody}, NEW kind \in PieceKinds,
         out \in Seq(PieceSet), Emit(p, kind)
  PROVE  /\ out' \in Seq(PieceSet)
         /\ Len(out') = Len(out) + 1 /\ out' # <<>>
         /\ Len(out) \in Nat
         /\ out'[Len(out')] = Piece(p, kind)
         /\ \A i \in 1..Len(out) : out'[i] = out[i]
<1>1. Piece(p, kind) \in PieceSet
  BY DEF Piece, PieceSet
<1>2. out' = Append(out, Piece(p, kind))
  BY DEF Emit
<1> QED
  BY <1>1, <1>2, AppendProperties

LEMMA ChainInitial == Init => ChainIInv
<1> SUFFICES ASSUME Init PROVE ChainIInv
  OBVIOUS
<1>1. Types
  <2>1. out \in Seq(PieceSet)
    BY DEF Init
  <2>2. healthy \subseteq Levels /\ mode \in {"stream", "invoke"}
    BY DEF Init
  <2>3. level \in 1..(Providers + 1) /\ attempt \in 0..MaxRetries
    BY ChainAssumption DEF Init
  <2>4. truncated \in BOOLEAN /\ started \in BOOLEAN
    BY DEF Init
  <2>5. pc \in {"call", "streaming", "done"}
    BY DEF Init
  <2> QED
    BY <2>1, <2>2, <2>3, <2>4, <2>5 DEF Types
<1>2. calls \in 0..(MaxCalls + 1)
  BY MaxCallsNat DEF Init
<1>3. Progress
  BY ChainAssumption DEF Init, Progress, HasEmitted, Levels
<1> QED
  BY <1>1, <1>2, <1>3 DEF ChainIInv

-----------------------------------------------------------------------------
\* A step that hands out a piece of the present level, or the text of failure
\* when no provider was healthy, keeps what Progress says of the pieces.
LEMMA EmitKeepsPieces ==
  ASSUME ChainIInv, NEW p \in Levels \cup {Nobody}, NEW kind \in PieceKinds,
         Emit(p, kind), p <= level,
         kind # "unavailable"
  PROVE  /\ \A i \in 1..Len(out') : out'[i].by <= level
         /\ pc # "done" \/ healthy # {} => ~HasEmitted(Nobody, "unavailable")'
<1>1. /\ Len(out') = Len(out) + 1 /\ Len(out) \in Nat
      /\ out'[Len(out')] = Piece(p, kind)
      /\ \A i \in 1..Len(out) : out'[i] = out[i]
  BY EmitEffect DEF ChainIInv, Types
<1>2. Piece(p, kind).by = p /\ Piece(p, kind) # Piece(Nobody, "unavailable")
  BY DEF Piece
<1>3. \A i \in 1..Len(out') : i = Len(out') \/ i \in 1..Len(out)
  BY <1>1
<1>4. \A i \in 1..Len(out') : out'[i].by <= level
  BY <1>1, <1>2, <1>3 DEF ChainIInv, Progress
<1>5. ASSUME pc # "done" \/ healthy # {} PROVE ~HasEmitted(Nobody, "unavailable")'
  <2>1. \A i \in 1..Len(out) : out[i] # Piece(Nobody, "unavailable")
    BY <1>5 DEF ChainIInv, Progress, HasEmitted
  <2>2. \A i \in 1..Len(out') : out'[i] # Piece(Nobody, "unavailable")
    BY <2>1, <1>1, <1>2, <1>3
  <2> QED
    BY <2>2 DEF HasEmitted, Piece
<1> QED
  BY <1>4, <1>5

\* Moving on from a provider that is not healthy never passes one that is.
LEMMA NextLevelKeeps ==
  ASSUME ChainIInv, level \in Levels, level \notin healthy, NextLevel, UNCHANGED healthy
  PROVE  /\ level' \in 1..(Providers + 1) /\ level' = level + 1
         /\ attempt' \in 0..MaxRetries /\ truncated' \in BOOLEAN /\ started' \in BOOLEAN
         /\ pc # "done" => \A h \in healthy' : level' <= h
<1>1. level \in Nat /\ \A h \in healthy : h \in Nat
  BY DEF ChainIInv, Types, Levels
<1>2. pc # "done" => \A h \in healthy : level <= h /\ level # h
  BY DEF ChainIInv, Progress
<1>3. truncated' \in BOOLEAN /\ started' \in BOOLEAN
  BY DEF NextLevel
<1>4. /\ level' \in 1..(Providers + 1) /\ level' = level + 1
      /\ attempt' \in 0..MaxRetries
  BY ChainAssumption DEF NextLevel, Levels
<1>5. pc # "done" => \A h \in healthy' : level' <= h
  BY <1>1, <1>2, <1>4
<1> QED
  BY <1>3, <1>4, <1>5

\* Steps that hand out nothing and leave "done" alone.
LEMMA QuietPieces ==
  ASSUME ChainIInv, pc # "done", UNCHANGED out, level' \in Nat, level' >= level
  PROVE  /\ \A i \in 1..Len(out') : out'[i].by <= level'
         /\ ~HasEmitted(Nobody, "unavailable")'
<1>1. \A i \in 1..Len(out) : out[i] \in PieceSet
  BY DEF ChainIInv, Types
<1>2. \A i \in 1..Len(out) : out[i].by \in Nat /\ out[i].by <= level
  BY <1>1 DEF ChainIInv, Progress, PieceSet, Levels, Nobody
<1>3. level \in Nat
  BY ChainAssumption DEF ChainIInv, Types
<1>4. \A i \in 1..Len(out) : out[i].by <= level'
  BY <1>2, <1>3
<1>5. ~HasEmitted(Nobody, "unavailable")
  BY DEF ChainIInv, Progress
<1> QED
  BY <1>4, <1>5 DEF HasEmitted

LEMMA ChainStep == ChainIInv /\ [Next]_vars => ChainIInv'
<1> SUFFICES ASSUME ChainIInv, [Next]_vars PROVE ChainIInv'
  OBVIOUS
<1>t. level \in Nat /\ level >= 1
  BY ChainAssumption DEF ChainIInv, Types
<1>1. CASE InvokeAnswers
  <2>0. level \in Levels /\ pc = "call" /\ Emit(level, "answer") /\ pc' = "done" /\ Count
        /\ UNCHANGED <<healthy, mode, level, attempt, truncated, started>>
    BY <1>1 DEF InvokeAnswers, CallsInvoke
  <2>1. /\ out' \in Seq(PieceSet) /\ out' # <<>>
        /\ out'[Len(out')] = Piece(level, "answer")
    BY <2>0, EmitEffect DEF ChainIInv, Types, PieceKinds
  <2>2. Types'
    BY <2>0, <2>1 DEF ChainIInv, Types
  <2>3. (calls \in 0..(MaxCalls + 1))'
    BY <2>0, CountType DEF ChainIInv
  <2>4. /\ \A i \in 1..Len(out') : out'[i].by <= level
        /\ ~HasEmitted(Nobody, "unavailable")'
    BY <2>0, <1>t, EmitKeepsPieces DEF PieceKinds
  <2>5. Progress'
    BY <2>0, <2>1, <2>4 DEF ChainIInv, Progress, Piece
  <2> QED
    BY <2>2, <2>3, <2>5 DEF ChainIInv
<1>2. ASSUME NEW kind \in Kinds, InvokeRetries(kind) PROVE ChainIInv'
  <2>0. /\ pc = "call" /\ Count
        /\ UNCHANGED <<healthy, mode, pc, level, started, out>>
    BY <1>2 DEF InvokeRetries, CallsInvoke
  <2>a. attempt' \in 0..MaxRetries
    BY <1>2, ChainAssumption DEF InvokeRetries, MayAgain, ChainIInv, Types
  <2>b. truncated' \in BOOLEAN
    BY <1>2 DEF InvokeRetries, ChainIInv, Types
  <2>1. Types'
    BY <2>0, <2>a, <2>b DEF ChainIInv, Types
  <2>2. (calls \in 0..(MaxCalls + 1))'
    BY <2>0, CountType DEF ChainIInv
  <2>3. Progress'
    BY <2>0, <1>t, QuietPieces DEF ChainIInv, Progress
  <2> QED
    BY <2>1, <2>2, <2>3 DEF ChainIInv
<1>3. ASSUME NEW kind \in Kinds, InvokeGivesLevelUp(kind) PROVE ChainIInv'
  <2>0. /\ pc = "call" /\ level \in Levels /\ level \notin healthy /\ Count /\ NextLevel
        /\ pc' = "call"
        /\ UNCHANGED <<healthy, mode, out>>
    BY <1>3 DEF InvokeGivesLevelUp, CallsInvoke, NextLevel
  <2>1. /\ level' \in 1..(Providers + 1) /\ level' = level + 1
        /\ attempt' \in 0..MaxRetries /\ truncated' \in BOOLEAN /\ started' \in BOOLEAN
        /\ \A h \in healthy' : level' <= h
    BY <2>0, NextLevelKeeps
  <2>2. Types'
    BY <2>0, <2>1 DEF ChainIInv, Types
  <2>3. (calls \in 0..(MaxCalls + 1))'
    BY <2>0, CountType DEF ChainIInv
  <2>4. level' \in Nat /\ level' >= level
    BY <2>1, <1>t
  <2>5. Progress'
    BY <2>0, <2>1, <2>4, QuietPieces DEF Progress
  <2> QED
    BY <2>2, <2>3, <2>5 DEF ChainIInv
<1>4. CASE StreamBegins
  <2>0. /\ pc = "call" /\ level \in Levels /\ Count /\ pc' = "streaming"
        /\ UNCHANGED <<healthy, mode, level, attempt, truncated, started, out>>
    BY <1>4 DEF StreamBegins
  <2>1. Types'
    BY <2>0 DEF ChainIInv, Types
  <2>2. (calls \in 0..(MaxCalls + 1))'
    BY <2>0, CountType DEF ChainIInv
  <2>3. Progress'
    BY <2>0, <1>t, QuietPieces DEF ChainIInv, Progress
  <2> QED
    BY <2>1, <2>2, <2>3 DEF ChainIInv
<1>5. ASSUME NEW kind \in {"text", "finish"}, StreamChunk(kind) PROVE ChainIInv'
  <2>0. /\ pc = "streaming" /\ Emit(level, kind) /\ started' = TRUE
        /\ UNCHANGED <<healthy, mode, pc, level, attempt, truncated, calls>>
    BY <1>5 DEF StreamChunk
  <2>1. level \in Levels
    BY <2>0 DEF ChainIInv, Progress
  <2>2. out' \in Seq(PieceSet)
    BY <2>0, <2>1, EmitEffect DEF ChainIInv, Types, PieceKinds
  <2>3. Types'
    BY <2>0, <2>2 DEF ChainIInv, Types
  <2>4. /\ \A i \in 1..Len(out') : out'[i].by <= level
        /\ ~HasEmitted(Nobody, "unavailable")'
    BY <2>0, <2>1, <1>t, EmitKeepsPieces DEF PieceKinds
  <2>5. Progress'
    BY <2>0, <2>1, <2>4 DEF ChainIInv, Progress
  <2> QED
    BY <2>0, <2>3, <2>5 DEF ChainIInv
<1>6. CASE StreamEnds
  <2>0. pc = "streaming" /\ UNCHANGED <<healthy, calls, out>> /\ level \in Levels
    BY <1>6 DEF StreamEnds, ChainIInv, Progress
  <2>1. CASE out = <<>>
    <3>0. /\ mode' = "invoke" /\ pc' = "call" /\ level' = 1 /\ attempt' = 0
          /\ truncated' = FALSE /\ started' = FALSE
      BY <1>6, <2>1 DEF StreamEnds
    <3>1. Types'
      <4>1. truncated' \in BOOLEAN /\ started' \in BOOLEAN
        BY <3>0
      <4> QED
        BY <4>1, <3>0, <2>0, ChainAssumption DEF ChainIInv, Types
    <3>2. Progress'
      BY <3>0, <2>0, <2>1 DEF ChainIInv, Types, Progress, HasEmitted, Levels
    <3> QED
      BY <3>1, <3>2, <2>0 DEF ChainIInv
  <2>2. CASE out # <<>>
    <3>0. pc' = "done" /\ UNCHANGED <<mode, level, attempt, truncated, started>>
      BY <1>6, <2>2 DEF StreamEnds
    <3>1. Types'
      BY <3>0, <2>0 DEF ChainIInv, Types
    <3>2. Len(out) \in 1..Len(out)
      BY <2>2, EmptySeq DEF ChainIInv, Types
    <3>a. out[Len(out)] \in PieceSet
      BY <3>2 DEF ChainIInv, Types
    <3>3. out[Len(out)].by <= level /\ out[Len(out)].by \in Nat
      BY <3>2, <3>a DEF ChainIInv, Progress, PieceSet, Levels, Nobody
    <3>4. \A h \in healthy : h \in Nat /\ level <= h
      BY <2>0 DEF ChainIInv, Types, Progress, Levels
    <3>5. \A h \in healthy : out[Len(out)].by <= h
      BY <3>3, <3>4, <1>t
    <3>6. Progress'
      BY <3>0, <3>5, <2>0, <2>2, <1>t, QuietPieces DEF ChainIInv, Progress
    <3> QED
      BY <3>1, <3>6, <2>0 DEF ChainIInv
  <2> QED
    BY <2>1, <2>2
<1>7. CASE StreamFails
  <2>0. /\ pc = "streaming" /\ level \in Levels /\ level \notin healthy /\ NextLevel
        /\ pc' = "call" /\ UNCHANGED <<healthy, mode, calls>>
    BY <1>7 DEF StreamFails, NextLevel, ChainIInv, Progress
  <2>1. /\ level' \in 1..(Providers + 1) /\ level' = level + 1
        /\ attempt' \in 0..MaxRetries /\ truncated' \in BOOLEAN /\ started' \in BOOLEAN
        /\ \A h \in healthy' : level' <= h
    BY <2>0, NextLevelKeeps
  <2>2. level' \in Nat /\ level' >= level
    BY <2>1, <1>t
  <2>3. CASE Emit(level, "switch")
    <3>1. out' \in Seq(PieceSet)
      BY <2>3, <2>0, EmitEffect DEF ChainIInv, Types, PieceKinds
    <3>2. /\ \A i \in 1..Len(out') : out'[i].by <= level
          /\ ~HasEmitted(Nobody, "unavailable")'
      BY <2>0, <2>3, <1>t, EmitKeepsPieces DEF PieceKinds
    <3>a. \A i \in 1..Len(out') : out'[i] \in PieceSet
      BY <3>1
    <3>3. \A i \in 1..Len(out') : out'[i].by \in Nat
      BY <3>a DEF PieceSet, Levels, Nobody
    <3>4. \A i \in 1..Len(out') : out'[i].by <= level'
      BY <3>2, <3>3, <2>2, <1>t
    <3>5. Types'
      BY <2>0, <2>1, <3>1 DEF ChainIInv, Types
    <3>6. Progress'
      BY <2>0, <2>1, <3>2, <3>4 DEF Progress
    <3> QED
      BY <2>0, <3>5, <3>6 DEF ChainIInv
  <2>4. CASE UNCHANGED out
    <3>1. Types'
      BY <2>0, <2>1, <2>4 DEF ChainIInv, Types
    <3>2. Progress'
      BY <2>0, <2>1, <2>2, <2>4, QuietPieces DEF Progress
    <3> QED
      BY <2>0, <3>1, <3>2 DEF ChainIInv
  <2> QED
    BY <1>7, <2>3, <2>4 DEF StreamFails
<1>8. CASE GiveUp
  <2>0. /\ pc = "call" /\ level > Providers /\ Emit(Nobody, "unavailable") /\ pc' = "done"
        /\ UNCHANGED <<healthy, mode, level, attempt, truncated, started, calls>>
    BY <1>8 DEF GiveUp
  <2>1. healthy = {}
    BY <2>0, ChainAssumption DEF ChainIInv, Types, Progress, Levels
  <2>2. /\ out' \in Seq(PieceSet) /\ out' # <<>>
        /\ Len(out') = Len(out) + 1 /\ Len(out) \in Nat
        /\ out'[Len(out')] = Piece(Nobody, "unavailable")
        /\ \A i \in 1..Len(out) : out'[i] = out[i]
    BY <2>0, EmitEffect DEF ChainIInv, Types, PieceKinds
  <2>3. Types'
    BY <2>0, <2>2 DEF ChainIInv, Types
  <2>4. Piece(Nobody, "unavailable").by <= level
    BY <1>t DEF Piece, Nobody
  <2>5. \A i \in 1..Len(out') : i = Len(out') \/ i \in 1..Len(out)
    BY <2>2
  <2>6. \A i \in 1..Len(out') : out'[i].by <= level
    BY <2>2, <2>4, <2>5 DEF ChainIInv, Progress
  <2>7. Progress'
    BY <2>0, <2>1, <2>2, <2>6 DEF Progress
  <2> QED
    BY <2>0, <2>3, <2>7 DEF ChainIInv
<1>9. CASE UNCHANGED vars
  BY <1>9 DEF vars, ChainIInv, Types, Progress, HasEmitted
<1> QED
  BY <1>1, <1>2, <1>3, <1>4, <1>5, <1>6, <1>7, <1>8, <1>9 DEF Next

\* A request's state is typed, its calls counted, and the chain has passed no working provider
\* (llm/adapter.py:FallbackChain).
THEOREM ChainInvariance == Spec => []ChainIInv
BY ChainInitial, ChainStep, PTL DEF Spec

\* All variables keep their types; the chain's level never leaves its range.
THEOREM ChainTypeCorrect == Spec => []TypeOK
<1>1. ChainIInv => TypeOK
  BY DEF ChainIInv, Types, TypeOK, PieceSet
<1> QED
  BY <1>1, ChainInvariance, PTL

\* However the other providers fail, a request ends at a healthy provider or at
\* one before it, and never with the text of failure (FallbackChain).
THEOREM AnsweredIfOneWorks == Spec => []AnsweredIfAnyHealthy
<1>1. ChainIInv => AnsweredIfAnyHealthy
  BY DEF ChainIInv, Progress, AnsweredIfAnyHealthy
<1> QED
  BY <1>1, ChainInvariance, PTL

-----------------------------------------------------------------------------
(* The cost of a request.                                                   *)

\* The calls one provider may get from invoke, and what the first levels may cost.
PerLevel == MaxRetries + 2
Spent(done) == Providers + done * PerLevel

\* A level has cost its retries and the one for an overflow so far; the level before
\* it, and the streams before the second pass, no more than they may.
Spending ==
  /\ mode = "stream" /\ pc = "call" => calls <= level - 1
  /\ pc = "streaming" => mode = "stream" /\ calls <= level
  /\ mode = "invoke" /\ pc = "call" =>
       calls <= Spent(level - 1) + attempt + (IF truncated THEN 1 ELSE 0)
  /\ CallsBounded

LEMMA SpentSteps ==
  /\ PerLevel \in Nat /\ PerLevel = MaxRetries + 2
  /\ Spent(0) = Providers /\ Spent(Providers) = MaxCalls
  /\ \A n \in Nat : Spent(n) \in Nat /\ Spent(n + 1) = Spent(n) + PerLevel
  /\ \A n \in 0..Providers : Spent(n) <= MaxCalls
<1>1. PerLevel \in Nat /\ Providers \in Nat /\ MaxRetries \in Nat
  BY ChainAssumption DEF PerLevel
<1>2. \A n, k \in Nat : n * k \in Nat /\ (n + 1) * k = n * k + k
  BY SMT
<1>3. \A n, m, k \in Nat : n <= m => n * k <= m * k
  BY SMT
<1>4. MaxCalls = Providers + Providers * PerLevel
  BY DEF MaxCalls, PerLevel
<1>5. \A n \in Nat : Spent(n) \in Nat /\ Spent(n + 1) = Spent(n) + PerLevel
  BY <1>1, <1>2 DEF Spent
<1>6. \A n \in 0..Providers : Spent(n) <= MaxCalls
  <2>1. \A n \in 0..Providers : n * PerLevel <= Providers * PerLevel /\ n * PerLevel \in Nat
    BY <1>1, <1>2, <1>3
  <2>2. Providers * PerLevel \in Nat
    BY <1>1, <1>2
  <2> QED
    BY <1>1, <1>4, <2>1, <2>2 DEF Spent
<1>7. Spent(0) = Providers
  BY <1>1 DEF Spent
<1> QED
  BY <1>1, <1>4, <1>5, <1>6, <1>7 DEF PerLevel, Spent

\* What the types give the cost's steps, once and for all.
LEMMA CostTypes ==
  ASSUME ChainIInv
  PROVE  /\ calls \in Nat /\ level \in Nat /\ level >= 1 /\ level - 1 \in Nat
         /\ attempt \in Nat /\ attempt <= MaxRetries /\ truncated \in BOOLEAN
         /\ Providers \in Nat /\ MaxRetries \in Nat /\ MaxCalls \in Nat
         /\ mode \in {"stream", "invoke"} /\ pc \in {"call", "streaming", "done"}
BY ChainAssumption, MaxCallsNat DEF ChainIInv, Types

\* A call of invoke at some level: with it the level has cost no more than it may.
LEMMA InvokeCost ==
  ASSUME ChainIInv, Spending, CallsInvoke
  PROVE  /\ calls' = calls + 1
         /\ calls' <= Spent(level - 1) + attempt + (IF truncated THEN 1 ELSE 0) + 1
         /\ calls' <= Spent(level)
         /\ calls' <= MaxCalls
         /\ Spent(level - 1) \in Nat /\ Spent(level) = Spent(level - 1) + PerLevel
<1>1. level \in Levels /\ mode = "invoke" /\ pc = "call" /\ Count
  BY DEF CallsInvoke
<1>2. calls' = calls + 1
  BY <1>1, CostTypes DEF Count, Spending, CallsBounded
<1>3. Spent(level - 1) \in Nat /\ Spent(level) = Spent(level - 1) + PerLevel
  BY CostTypes, SpentSteps
<1>4. calls <= Spent(level - 1) + attempt + (IF truncated THEN 1 ELSE 0)
  BY <1>1 DEF Spending
<1>5. calls' <= Spent(level - 1) + attempt + (IF truncated THEN 1 ELSE 0) + 1
  BY <1>2, <1>3, <1>4, CostTypes
<1>6. calls' <= Spent(level)
  BY <1>2, <1>3, <1>5, CostTypes, SpentSteps
<1>7. Spent(level) <= MaxCalls
  BY <1>1, SpentSteps DEF Levels
<1>8. Spent(level) \in Nat
  BY CostTypes, SpentSteps
<1>9. calls' <= MaxCalls
  BY <1>2, <1>6, <1>7, <1>8, CostTypes
<1> QED
  BY <1>2, <1>3, <1>5, <1>6, <1>9

LEMMA SpendingStep == ChainIInv /\ Spending /\ [Next]_vars => Spending'
<1> SUFFICES ASSUME ChainIInv, Spending, [Next]_vars PROVE Spending'
  OBVIOUS
<1>1. CASE GiveUp
  BY <1>1 DEF GiveUp, Spending, CallsBounded
<1>2. CASE InvokeAnswers
  BY <1>2, InvokeCost DEF InvokeAnswers, Spending, CallsBounded
<1>3. ASSUME NEW kind \in Kinds, InvokeRetries(kind) PROVE Spending'
  <2>1. /\ CallsInvoke /\ mode' = mode /\ pc' = pc /\ level' = level /\ pc = "call" /\ mode = "invoke"
        /\ \/ ~truncated /\ truncated' /\ attempt' = attempt
           \/ attempt' = attempt + 1 /\ truncated' = truncated
    BY <1>3 DEF InvokeRetries, CallsInvoke, MayAgain, Kinds
  <2>2. calls' <= Spent(level' - 1) + attempt' + (IF truncated' THEN 1 ELSE 0)
    BY <2>1, InvokeCost, CostTypes
  <2> QED
    BY <2>1, <2>2, InvokeCost DEF Spending, CallsBounded
<1>4. ASSUME NEW kind \in Kinds, InvokeGivesLevelUp(kind) PROVE Spending'
  <2>1. /\ CallsInvoke /\ mode' = "invoke" /\ pc' = "call"
        /\ level' = level + 1 /\ attempt' = 0 /\ truncated' = FALSE
    BY <1>4 DEF InvokeGivesLevelUp, CallsInvoke, NextLevel
  <2>2. level' - 1 = level
    BY <2>1, CostTypes
  <2>3. Spent(level) \in Nat
    BY CostTypes, SpentSteps
  <2> QED
    BY <2>1, <2>2, <2>3, InvokeCost, CostTypes DEF Spending, CallsBounded
<1>5. CASE StreamBegins
  <2>1. /\ mode = "stream" /\ mode' = mode /\ pc' = "streaming" /\ level' = level
        /\ level \in Levels /\ calls <= level - 1 /\ Count
    BY <1>5 DEF StreamBegins, Spending
  <2>2. Providers <= MaxCalls
    BY SpentSteps, ChainAssumption
  <2>3. calls' = calls + 1
    BY <2>1, CostTypes DEF Count, Spending, CallsBounded
  <2> QED
    BY <2>1, <2>2, <2>3, CostTypes DEF Spending, CallsBounded, Levels
<1>6. ASSUME NEW kind \in {"text", "finish"}, StreamChunk(kind) PROVE Spending'
  BY <1>6 DEF StreamChunk, Spending, CallsBounded
<1>7. CASE StreamEnds
  <2>1. calls' = calls /\ calls <= level /\ level \in Levels
    BY <1>7 DEF StreamEnds, Spending, ChainIInv, Progress
  <2>2. CASE out = <<>>
    <3>1. /\ mode' = "invoke" /\ pc' = "call" /\ level' = 1 /\ attempt' = 0 /\ truncated' = FALSE
      BY <1>7, <2>2 DEF StreamEnds
    <3>2. calls <= Spent(0) + 0 + 0
      BY <2>1, SpentSteps, CostTypes DEF Levels
    <3> QED
      BY <2>1, <3>1, <3>2 DEF Spending, CallsBounded
  <2>3. CASE out # <<>>
    BY <1>7, <2>1, <2>3 DEF StreamEnds, Spending, CallsBounded
  <2> QED
    BY <2>2, <2>3
<1>8. CASE StreamFails
  <2>1. /\ calls' = calls /\ mode = "stream" /\ mode' = mode /\ pc' = "call" /\ level' = level + 1
        /\ calls <= level
    BY <1>8 DEF StreamFails, NextLevel, Spending
  <2> QED
    BY <2>1, CostTypes DEF Spending, CallsBounded
<1>9. CASE UNCHANGED vars
  BY <1>9 DEF vars, Spending, CallsBounded
<1> QED
  BY <1>1, <1>2, <1>3, <1>4, <1>5, <1>6, <1>7, <1>8, <1>9 DEF Next

\* However the errors follow each other, and even when the bridge generates a second
\* time, a request makes no more calls than a stream per provider and MaxRetries + 2
\* calls per provider (FallbackChain.invoke and FallbackChatModel._stream).
THEOREM RequestCostBounded == Spec => []CallsBounded
<1>1. Init => Spending
  <2>1. Spent(0) \in Nat /\ MaxCalls \in Nat
    BY SpentSteps, MaxCallsNat
  <2> QED
    BY <2>1 DEF Init, Spending, CallsBounded
<1>2. ChainIInv /\ Spending /\ [Next]_vars => Spending'
  BY SpendingStep
<1>3. Spending => CallsBounded
  BY DEF Spending
<1> QED
  BY <1>1, <1>2, <1>3, ChainInvariance, PTL DEF Spec

-----------------------------------------------------------------------------
(* The marker between two providers.                                        *)

IsContent(i) == out[i].kind \in Content
MarkedFrom(i) == \E k \in i..Len(out) : out[k].kind = "switch"

\* What the present provider may add to: its own contents, or others' with the marker
\* behind them; and before its first chunk nothing is its own.
Marked ==
  /\ SwitchIsMarked
  /\ pc = "streaming" => mode = "stream"
  /\ mode = "invoke" /\ pc # "done" => out = <<>>
  /\ pc # "done" /\ ~started => \A i \in 1..Len(out) : IsContent(i) => out[i].by # level
  /\ pc # "done" /\ level \in Levels =>
       \A i \in 1..Len(out) : IsContent(i) /\ out[i].by # level => MarkedFrom(i)

\* A piece at the end that is no content, or whose provider may go on, leaves the
\* contents marked; contents with the marker behind them keep it.
LEMMA EmitKeepsMarks ==
  ASSUME ChainIInv, SwitchIsMarked, NEW p \in Levels \cup {Nobody}, NEW kind \in PieceKinds,
         Emit(p, kind),
         kind \in Content =>
           \A i \in 1..Len(out) : IsContent(i) /\ out[i].by # p => MarkedFrom(i)
  PROVE  /\ SwitchIsMarked'
         /\ \A i \in 1..Len(out) : MarkedFrom(i) => MarkedFrom(i)'
<1>1. /\ Len(out') = Len(out) + 1 /\ Len(out) \in Nat
      /\ out'[Len(out')] = Piece(p, kind)
      /\ \A i \in 1..Len(out) : out'[i] = out[i]
  BY EmitEffect DEF ChainIInv, Types
<1>2. \A i \in 1..Len(out) : MarkedFrom(i) => MarkedFrom(i)'
  BY <1>1 DEF MarkedFrom
<1>3. SwitchIsMarked'
  <2> SUFFICES ASSUME NEW i \in 1..Len(out'), NEW j \in 1..Len(out'), i < j,
                      out'[i].kind \in Content, out'[j].kind \in Content, out'[i].by # out'[j].by
               PROVE  \E k \in i..j : out'[k].kind = "switch"
    BY DEF SwitchIsMarked
  <2>1. i \in 1..Len(out)
    BY <1>1
  <2>2. CASE j \in 1..Len(out)
    <3>1. \E k \in i..j : out[k].kind = "switch"
      BY <1>1, <2>1, <2>2 DEF SwitchIsMarked
    <3> QED
      BY <3>1, <1>1, <2>1, <2>2
  <2>3. CASE j = Len(out')
    <3>1. kind \in Content /\ out[i].by # p /\ IsContent(i)
      BY <1>1, <2>1, <2>3 DEF Piece, IsContent
    <3>2. \E k \in i..Len(out) : out[k].kind = "switch"
      BY <3>1, <2>1 DEF MarkedFrom
    <3> QED
      BY <3>2, <1>1, <2>1, <2>3
  <2> QED
    BY <1>1, <2>2, <2>3
<1> QED
  BY <1>2, <1>3

LEMMA MarkedStep == ChainIInv /\ Marked /\ [Next]_vars => Marked'
<1> SUFFICES ASSUME ChainIInv, Marked, [Next]_vars PROVE Marked'
  OBVIOUS
<1>t. /\ out \in Seq(PieceSet) /\ Len(out) \in Nat /\ level \in Nat /\ pc \in {"call", "streaming", "done"}
      /\ \A i \in 1..Len(out) : out[i].by \in Nat /\ out[i].by <= level
  <2>1. out \in Seq(PieceSet) /\ pc \in {"call", "streaming", "done"} /\ level \in 1..(Providers + 1)
    BY DEF ChainIInv, Types
  <2>2. \A i \in 1..Len(out) : out[i] \in PieceSet /\ out[i].by <= level
    BY <2>1 DEF ChainIInv, Progress
  <2>3. \A piece \in PieceSet : piece.by \in Nat
    BY DEF PieceSet, Levels, Nobody
  <2> QED
    BY <2>1, <2>2, <2>3, ChainAssumption
<1>1. CASE GiveUp
  <2>1. Emit(Nobody, "unavailable") /\ pc' = "done" /\ mode' = mode /\ level' = level
    BY <1>1 DEF GiveUp
  <2>2. SwitchIsMarked'
    BY <2>1, EmitKeepsMarks DEF Marked, PieceKinds, Content
  <2> QED
    BY <2>1, <2>2 DEF Marked
<1>2. CASE InvokeAnswers
  <2>1. Emit(level, "answer") /\ pc' = "done" /\ out = <<>> /\ level \in Levels
    BY <1>2 DEF InvokeAnswers, CallsInvoke, Marked
  <2>2. SwitchIsMarked'
    BY <2>1, EmitKeepsMarks DEF Marked, PieceKinds
  <2> QED
    BY <2>1, <2>2 DEF Marked
<1>3. ASSUME NEW kind \in Kinds, InvokeRetries(kind) \/ InvokeGivesLevelUp(kind) PROVE Marked'
  <2>1. out = <<>> /\ out' = out /\ pc' = "call"
    BY <1>3 DEF InvokeRetries, InvokeGivesLevelUp, CallsInvoke, NextLevel, Marked
  <2> QED
    BY <2>1 DEF Marked, SwitchIsMarked
<1>4. CASE StreamBegins
  BY <1>4 DEF StreamBegins, Marked, SwitchIsMarked, IsContent, MarkedFrom
<1>5. ASSUME NEW kind \in {"text", "finish"}, StreamChunk(kind) PROVE Marked'
  <2>1. /\ Emit(level, kind) /\ pc = "streaming" /\ pc' = pc /\ started' = TRUE /\ level' = level
        /\ mode' = mode /\ mode = "stream" /\ level \in Levels
    BY <1>5 DEF StreamChunk, Marked, ChainIInv, Progress
  <2>2. \A i \in 1..Len(out) : IsContent(i) /\ out[i].by # level => MarkedFrom(i)
    BY <2>1 DEF Marked
  <2>3. kind \in PieceKinds
    BY DEF PieceKinds
  <2>4. /\ SwitchIsMarked'
        /\ \A i \in 1..Len(out) : MarkedFrom(i) => MarkedFrom(i)'
    BY <2>1, <2>2, <2>3, EmitKeepsMarks DEF Marked
  <2>5. /\ Len(out') = Len(out) + 1 /\ out'[Len(out')] = Piece(level, kind)
        /\ \A i \in 1..Len(out) : out'[i] = out[i]
    BY <2>1, <2>3, <1>t, EmitEffect
  <2>6. \A i \in 1..Len(out') : IsContent(i)' /\ out'[i].by # level' => MarkedFrom(i)'
    <3> SUFFICES ASSUME NEW i \in 1..Len(out'), out'[i].kind \in Content, out'[i].by # level
                 PROVE  MarkedFrom(i)'
      BY <2>1 DEF IsContent
    <3>1. i \in 1..Len(out)
      BY <2>5, <1>t DEF Piece
    <3> QED
      BY <3>1, <2>2, <2>4, <2>5 DEF IsContent
  <2> QED
    BY <2>1, <2>4, <2>6 DEF Marked
<1>6. CASE StreamEnds
  <2>1. out' = out
    BY <1>6 DEF StreamEnds
  <2>2. SwitchIsMarked'
    BY <2>1 DEF Marked, SwitchIsMarked
  <2>3. CASE out = <<>>
    BY <1>6, <2>1, <2>2, <2>3 DEF StreamEnds, Marked
  <2>4. CASE out # <<>>
    BY <1>6, <2>2, <2>4 DEF StreamEnds, Marked
  <2> QED
    BY <2>3, <2>4
<1>7. CASE StreamFails
  <2>1. /\ pc = "streaming" /\ mode = "stream" /\ mode' = mode /\ pc' = "call" /\ started' = FALSE
        /\ level' = level + 1 /\ level \in Levels
        /\ IF started /\ level < Providers THEN Emit(level, "switch") ELSE out' = out
    BY <1>7 DEF StreamFails, NextLevel, Marked, ChainIInv, Progress
  <2>2. CASE started /\ level < Providers
    <3>1. Emit(level, "switch") /\ "switch" \in PieceKinds /\ "switch" \notin Content
      BY <2>1, <2>2 DEF PieceKinds, Content
    <3>2. SwitchIsMarked'
      BY <3>1, <2>1, EmitKeepsMarks DEF Marked
    <3>3. /\ Len(out') = Len(out) + 1 /\ out'[Len(out')] = Piece(level, "switch")
          /\ \A i \in 1..Len(out) : out'[i] = out[i]
      BY <3>1, <2>1, <1>t, EmitEffect
    <3>4. \A i \in 1..Len(out') : MarkedFrom(i)'
      BY <3>3, <1>t DEF MarkedFrom, Piece
    <3>5. \A i \in 1..Len(out') : out'[i].by # level'
      BY <3>3, <2>1, <1>t DEF Piece
    <3> QED
      BY <2>1, <3>2, <3>4, <3>5 DEF Marked
  <2>3. CASE ~(started /\ level < Providers)
    <3>1. out' = out
      BY <2>1, <2>3
    <3>2. SwitchIsMarked'
      BY <3>1 DEF Marked, SwitchIsMarked
    <3>3. \A i \in 1..Len(out) : out[i].by # level'
      BY <2>1, <1>t
    <3>4. level' \in Levels => \A i \in 1..Len(out) : IsContent(i) => MarkedFrom(i)
      <4>1. level' \in Levels => ~started
        BY <2>1, <2>3, <1>t, ChainAssumption DEF Levels
      <4> QED
        BY <4>1, <2>1 DEF Marked
    <3> QED
      BY <2>1, <3>1, <3>2, <3>3, <3>4 DEF Marked, IsContent, MarkedFrom
  <2> QED
    BY <2>2, <2>3
<1>8. CASE UNCHANGED vars
  BY <1>8 DEF vars, Marked, SwitchIsMarked, IsContent, MarkedFrom
<1> QED
  BY <1>1, <1>2, <1>3, <1>4, <1>5, <1>6, <1>7, <1>8 DEF Next

\* What two providers said never runs together: the marker of the switch stands between
\* them, however many of them break off amid their stream (FallbackChain.stream_events).
THEOREM SwitchAlwaysMarked == Spec => []SwitchIsMarked
<1>1. Init => Marked
  BY DEF Init, Marked, SwitchIsMarked
<1>2. ChainIInv /\ Marked /\ [Next]_vars => Marked'
  BY MarkedStep
<1>3. Marked => SwitchIsMarked
  BY DEF Marked
<1> QED
  BY <1>1, <1>2, <1>3, ChainInvariance, PTL DEF Spec
=============================================================================
