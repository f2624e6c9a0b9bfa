---------------------------- MODULE KernelService ----------------------------
(***************************************************************************)
(* POST /message as a client depends on it (src/src/server/http.ts with    *)
(* src/src/kernel): a message is sent to a session once; it is taken if    *)
(* the session is free and refused if not, and in either case answered in  *)
(* the end.  The session is free again before the answer is written: the   *)
(* route still files the turn (http.ts:516-532).                           *)
(*                                                                         *)
(* RunLifecycle is how the kernel does this; ChatClient is a client.       *)
(***************************************************************************)
CONSTANTS
    Message,
    Session,
    None         \* no session: not a Session

VARIABLES
    phase,       \* phase[m]: how far the kernel is with m
    sentTo,      \* sentTo[m]: the session m is sent to, or None
    lock         \* the sessions that have a run

serviceVars == <<phase, sentTo, lock>>

(* The frames on the stream of m are none while "idle" or "posted", then   *)
(* run_started, with "concluded" a terminal, with "finished" the settled   *)
(* frame.  "refused" and "denied" have the terminal before run_started.    *)
Phases ==
    {"idle", "posted", "working", "concluded", "released", "finished", "refused", "denied"}

(* A message may be on its way from the start.                             *)
Init ==
    /\ phase \in [Message -> {"idle", "posted"}]
    /\ sentTo \in [Message -> Session \cup {None}]
    /\ \A m \in Message : phase[m] = "posted" => sentTo[m] \in Session
    /\ lock = {}
-----------------------------------------------------------------------------
Moves(m, from, to) == phase[m] = from /\ phase' = [phase EXCEPT ![m] = to]
Frees(m) == lock' = lock \ {sentTo[m]}

Post(m, s) ==
    /\ Moves(m, "idle", "posted")
    /\ sentTo' = [sentTo EXCEPT ![m] = s]
    /\ UNCHANGED lock

(* Admission takes the session of a message or refuses the message.        *)
Admit(m) ==
    /\ sentTo[m] \notin lock
    /\ Moves(m, "posted", "working")
    /\ lock' = lock \cup {sentTo[m]}

Refuse(m) ==
    /\ sentTo[m] \in lock
    /\ Moves(m, "posted", "refused")
    /\ UNCHANGED lock

(* The verdict is out; the session is freed in a later step.               *)
Conclude(m) == Moves(m, "working", "concluded") /\ UNCHANGED lock
Release(m) == Moves(m, "concluded", "released") /\ Frees(m)

(* There was no workspace: verdict and release are one step.               *)
Fail(m) == Moves(m, "working", "released") /\ Frees(m)

Answer(m) ==
    /\ Moves(m, "released", "finished") \/ Moves(m, "refused", "denied")
    /\ UNCHANGED lock

Serve(m) == Admit(m) \/ Refuse(m) \/ Conclude(m) \/ Release(m) \/ Fail(m) \/ Answer(m)

Next ==
    \/ \E m \in Message, s \in Session : Post(m, s)
    \/ \E m \in Message : Serve(m) /\ UNCHANGED sentTo

Spec == Init /\ [][Next]_serviceVars
=============================================================================
