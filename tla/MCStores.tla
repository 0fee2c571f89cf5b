------------------------------ MODULE MCStores ------------------------------
(***************************************************************************)
(* What the service keeps on disk, checked in one run: the shop's tables,  *)
(* the flywheel's library and the sessions.  They share no state: a        *)
(* behaviour picks one of them, which then moves by its own specification  *)
(* while the others stay in their initial state.                           *)
(***************************************************************************)
EXTENDS DataStore, Flywheel, SessionStore

VARIABLE part   \* the component that moves

MCInit ==
    /\ part \in {"shop", "flywheel", "sessions"}
    /\ Init
    /\ FlyInit  /\ (part # "flywheel" => backend = "memory")
    /\ SessInit /\ (part # "sessions" => store = "json")

Moves ==
    \/ part = "shop" /\ Next /\ UNCHANGED <<flyVars, sessVars>>
    \/ part = "flywheel" /\ FlyNext /\ UNCHANGED <<vars, sessVars>>
    \/ part = "sessions" /\ SessNext /\ UNCHANGED <<vars, flyVars>>

MCNext == Moves /\ UNCHANGED part

MCSpec == MCInit /\ [][MCNext]_<<part, vars, flyVars, sessVars>>
=============================================================================
