--------------------------- MODULE MCRunLifecycle ---------------------------
(* A small instance of RunLifecycle: two messages on one session, which    *)
(* may meet or follow each other.  Runs of different sessions share        *)
(* nothing but the lock set.                                               *)
EXTENDS RunLifecycle

CONSTANTS r1, r2, chat

MCRun == {r1, r2}
MCSession == {chat}
MCSessionOf == [r \in MCRun |-> chat]
=============================================================================
