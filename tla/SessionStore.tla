----------------------------- MODULE SessionStore -----------------------------
(***************************************************************************)
(* agent/session_store.py: the checkpoint of a session's last turn and the *)
(* writes pending since, in a JSON file per session or in Postgres.  Every *)
(* operation on a file holds the store's lock, except the sweep of expired *)
(* files that follows a put; the savers of Postgres are a library's.  A    *)
(* session has one run at a time (AskSessions).  The order of the calls is *)
(* LangGraph's, which is external: get_tuple, then put, and writes between *)
(* the puts of a turn.                                                     *)
(***************************************************************************)
EXTENDS Integers

CONSTANTS Threads,       \* sessions
          MaxTurns,      \* bound: turns in a checkpoint
          MaxReadFaults  \* bound: reads of a file that fail

ASSUME SessionAssumption == MaxTurns \in Nat /\ MaxReadFaults \in Nat /\ "none" \notin Threads

VARIABLES
  store,     \* SESSION_STORE
  opened,    \* the saver the process has made, NoStore before its first call
  saved,     \* per store, the file of each session: turns in its checkpoint, writes pending, aged
  step,      \* where the run of each session is: idle, loaded, written
  turns,     \* turns in the checkpoint the run began with
  doomed,    \* per run: the session whose file its sweep has found expired
  answered,  \* history: turns a client had an answer to
  lapsed,    \* history: sessions that expired, or whose file could not be read
  raced,     \* history: sessions whose file was written after a sweep judged it
  readFaults

sessVars == <<store, opened, saved, step, turns, doomed, answered, lapsed, raced, readFaults>>

Stores == {"json", "postgres"}
NoStore == "none"
NoSession  == [turn |-> 0, pending |-> FALSE, aged |-> FALSE, there |-> FALSE]
NoTurn  == -1
NoTarget == "none"

SessInit ==
  /\ store \in Stores /\ opened = NoStore
  /\ saved = [st \in Stores |-> [s \in Threads |-> NoSession]]
  /\ step = [s \in Threads |-> "idle"]
  /\ turns = [s \in Threads |-> 0]
  /\ doomed = [s \in Threads |-> NoTarget]
  /\ answered = [s \in Threads |-> 0]
  /\ lapsed = {}
  /\ raced = {}
  /\ readFaults = 0

\* LazyCheckpointSaver: the first call makes the saver that is configured.  Without a
\* connection to Postgres it raises, and the next call tries again.
Open ==
  /\ opened = NoStore
  /\ opened' = store
  /\ UNCHANGED <<store, saved, step, turns, doomed, answered, lapsed, raced, readFaults>>

Stored(s) == saved[opened][s]

\* get_tuple: the turns of the checkpoint, none without a file.  A file without a
\* checkpoint raises KeyError, and the run ends before it began.
GetTuple(s) ==
  /\ step[s] = "idle" /\ opened # NoStore
  /\ Stored(s).turn # NoTurn /\ Stored(s).turn < MaxTurns
  /\ turns' = [turns EXCEPT ![s] = Stored(s).turn]
  /\ step' = [step EXCEPT ![s] = "loaded"]
  /\ UNCHANGED <<store, opened, saved, doomed, answered, lapsed, raced, readFaults>>

\* A file that cannot be read counts as no session; Postgres would raise.
ReadFails(s) ==
  /\ step[s] = "idle" /\ opened = "json"
  /\ Stored(s).there /\ Stored(s).turn < MaxTurns
  /\ readFaults < MaxReadFaults
  /\ readFaults' = readFaults + 1
  /\ turns' = [turns EXCEPT ![s] = 0]
  /\ lapsed' = lapsed \cup {s}
  /\ step' = [step EXCEPT ![s] = "loaded"]
  /\ UNCHANGED <<store, opened, saved, doomed, answered, raced>>

Written(turn, pending) == [turn |-> turn, pending |-> pending, aged |-> FALSE, there |-> TRUE]
Judged(s) == \E r \in Threads : doomed[r] = s

\* put: the checkpoint with this turn, without the writes it now contains.
PutCheckpoint(s) ==
  /\ step[s] \in {"loaded", "written"}
  /\ doomed[s] = NoTarget
  /\ saved' = [saved EXCEPT ![opened][s] = Written(turns[s] + 1, FALSE)]
  /\ step' = [step EXCEPT ![s] = "written"]
  /\ raced' = IF Judged(s) THEN raced \cup {s} ELSE raced
  /\ UNCHANGED <<store, opened, turns, doomed, answered, lapsed, readFaults>>

\* Mutant: the writes are saved without the checkpoint they belong to.
PutWritesAlone(s) ==
  /\ step[s] = "written"
  /\ doomed[s] = NoTarget
  /\ saved' = [saved EXCEPT ![opened][s] = Written(NoTurn, TRUE)]
  /\ raced' = IF Judged(s) THEN raced \cup {s} ELSE raced
  /\ UNCHANGED <<store, opened, step, turns, doomed, answered, lapsed, readFaults>>

\* put_writes: added to what the file holds; a file that is gone is made anew,
\* without a checkpoint.
PutWrites(s) ==
  /\ step[s] = "written"
  /\ doomed[s] = NoTarget
  /\ saved' = [saved EXCEPT ![opened][s] =
       Written(IF Stored(s).there THEN Stored(s).turn ELSE NoTurn, TRUE)]
  /\ raced' = IF Judged(s) THEN raced \cup {s} ELSE raced
  /\ UNCHANGED <<store, opened, step, turns, doomed, answered, lapsed, readFaults>>

\* _sweep_expired after a put, when the last sweep is ten minutes ago: the age of a
\* file is read, and then the file is removed, both without the lock.
Judge(s, f) ==
  /\ opened = "json"
  /\ step[s] = "written" /\ ~Stored(s).pending
  /\ doomed[s] = NoTarget
  /\ Stored(f).there /\ Stored(f).aged
  /\ doomed' = [doomed EXCEPT ![s] = f]
  /\ UNCHANGED <<store, opened, saved, step, turns, answered, lapsed, raced, readFaults>>

RemoveAged(s) ==
  /\ doomed[s] # NoTarget
  /\ saved' = [saved EXCEPT ![opened][doomed[s]] = NoSession]
  /\ lapsed' = lapsed \cup {doomed[s]}
  /\ doomed' = [doomed EXCEPT ![s] = NoTarget]
  /\ UNCHANGED <<store, opened, step, turns, answered, raced, readFaults>>

\* The turn ends with its last put, or breaks off where it is.
TurnEnds(s) ==
  /\ step[s] = "written" /\ ~Stored(s).pending
  /\ doomed[s] = NoTarget
  /\ step' = [step EXCEPT ![s] = "idle"]
  /\ turns' = [turns EXCEPT ![s] = 0]
  /\ answered' = [answered EXCEPT ![s] = turns[s] + 1]
  /\ UNCHANGED <<store, opened, saved, doomed, lapsed, raced, readFaults>>

TurnFails(s) ==
  /\ step[s] # "idle"
  /\ doomed[s] = NoTarget
  /\ step' = [step EXCEPT ![s] = "idle"]
  /\ turns' = [turns EXCEPT ![s] = 0]
  /\ UNCHANGED <<store, opened, saved, doomed, answered, lapsed, raced, readFaults>>

\* The process ends; a file is replaced as a whole or not at all.
SessCrash ==
  /\ opened # NoStore
  /\ opened' = NoStore
  /\ step' = [s \in Threads |-> "idle"]
  /\ turns' = [s \in Threads |-> 0]
  /\ doomed' = [s \in Threads |-> NoTarget]
  /\ UNCHANGED <<store, saved, answered, lapsed, raced, readFaults>>

\* SESSION_TTL_DAYS pass without a turn; Postgres keeps its sessions.
Expires(s) ==
  /\ step[s] = "idle"
  /\ LET file == saved["json"][s] IN file.there /\ ~file.aged
  /\ saved' = [saved EXCEPT !["json"][s].aged = TRUE]
  /\ UNCHANGED <<store, opened, step, turns, doomed, answered, lapsed, raced, readFaults>>

SessNext ==
  \/ \E s \in Threads :
       \/ GetTuple(s) \/ ReadFails(s) \/ PutCheckpoint(s) \/ PutWrites(s)
       \/ RemoveAged(s) \/ TurnEnds(s) \/ TurnFails(s) \/ Expires(s)
       \/ \E f \in Threads : Judge(s, f)
  \/ Open \/ SessCrash

SessSpec == SessInit /\ [][SessNext]_sessVars

\* Between its turns, and whatever a broken-off turn, a crash or the sweep of another
\* session did meanwhile, a session has a state that the next turn can load and that
\* holds every turn a client was answered; in particular a restart never turns from
\* the configured store to another ("fail-fast").  Named exceptions: the session
\* expired or a read of its file failed; or, a race of the code, the file was written
\* between the sweep's look at its age and its removal (_sweep_expired runs after the
\* lock is released), after which put_writes can leave a file every later turn fails on.
SessionKept ==
  opened # NoStore => \A s \in Threads \ raced : step[s] = "idle" =>
    /\ Stored(s).turn # NoTurn
    /\ s \notin lapsed => Stored(s).turn >= answered[s]
=============================================================================
