---------------------------- MODULE MCPersistence ----------------------------
(* Small instances of both: for the file, three messages of one session    *)
(* and one more of an owner whose session has the same id, with room for   *)
(* two turns each; for the tables, two messages of one session, the first  *)
(* of which emits events, before or after it is completed.                 *)
EXTENDS Persistence

CONSTANTS m1, m2, m3, other, r1, r2, alice, bob, chat

MCMessage == {m1, m2, m3, other}
MCFrom == [m \in MCMessage |->
    [owner |-> IF m = other THEN bob ELSE alice, session |-> chat]]

MCRun == {r1, r2}
MCSession == {chat}
MCMaxEvents == [r \in MCRun |-> IF r = r1 THEN 2 ELSE 0]
MCSessionOf == [r \in MCRun |-> chat]
=============================================================================
