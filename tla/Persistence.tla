----------------------------- MODULE Persistence -----------------------------
(***************************************************************************)
(* What a message leaves behind (/message in server/http.ts, after the     *)
(* result): a turn in the memory file and rows in the database.  The two   *)
(* share no state and no invariant speaks of both, so it is enough to      *)
(* follow one of them: in a behaviour of this module the other stays as    *)
(* it was.                                                                 *)
(***************************************************************************)
EXTENDS SessionMemory, RunRecords

VARIABLE followed

persistenceVars == <<followed, vars, recordVars>>

PersistenceInit ==
    /\ followed \in {"memory", "database"}
    /\ Init /\ RecordsInit

Followed(what, A) == followed = what /\ A /\ UNCHANGED followed

PersistenceNext ==
    \/ Followed("memory", Next) /\ UNCHANGED recordVars
    \/ Followed("database", RecordsNext) /\ UNCHANGED vars

PersistenceSpec == PersistenceInit /\ [][PersistenceNext]_persistenceVars
=============================================================================
