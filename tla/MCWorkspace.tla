---------------------------- MODULE MCWorkspace ----------------------------
(* A small instance of Workspace: one session that an owner who switches   *)
(* between two environments and a second owner contend for, and one pool   *)
(* sandbox, opened for a project or without one, that they may all meet.   *)
EXTENDS Workspace

CONSTANTS alice, bob, here, there, proj

Ident(o, e, p) ==
    [owner |-> o, environment |-> e, profile |-> None, project |-> p, source |-> EmptySeed]
Asks(k, id) == {[kind |-> k, session |-> s, id |-> id] : s \in Session}

MCRequest ==
    UNION { Asks(k, Ident(alice, e, proj)) : k \in {"warm", "message"}, e \in {here, there} }
        \cup Asks("message", Ident(bob, here, proj))
MCIdentity == {ClaimId(r) : r \in MCRequest}
MCOpened == {Ident(alice, here, proj), Ident(alice, there, None)}
MCTarget == {1}
=============================================================================
