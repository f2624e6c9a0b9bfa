----------------------------- MODULE Delegation -----------------------------
(***************************************************************************)
(* Delegation: a router run (pi) hands sub-tasks to other harnesses, each  *)
(* a full sub-run on a child session, possibly delegating in its turn      *)
(* (Kernel.buildRunContext and endSession in src/src/kernel/index.ts, the  *)
(* delegate tool in src/src/harnesses/pi/delegateTool.ts).                 *)
(*                                                                         *)
(* A node is the top run, Root, or the sub-run of one delegate call.  A    *)
(* child session is named by the call that created it (the code draws a    *)
(* fresh uuid), and so is a sandbox.  A harness may have several delegate  *)
(* calls open; it returns when they all have.                              *)
(***************************************************************************)
EXTENDS Naturals, Sequences, FiniteSets, Functions

CONSTANTS
    Task,       \* delegate calls, each made once
    Root,       \* the top run
    Key,        \* the (harness, environment) pairs tasks are sent to
    RouterKey,  \* those whose harness delegates too
    Cause,      \* how a run ends: done, error, cancelled
    MaxUsage,   \* bound: usage_delta events of a harness's own
    None

Node == Task \cup {Root}
MAX_DELEGATION_DEPTH == 2

ASSUME TaskAssumption == IsFiniteSet(Task) /\ Root \notin Task /\ None \notin Node
ASSUME KeyAssumption == RouterKey \subseteq Key /\ MaxUsage \in Nat /\ None \notin Cause

VARIABLES
    stage,      \* stage[n]: "idle", "workspace", "running", "settled"
    key,        \* key[t]: what task t asked for
    lineage,    \* lineage[n]: the sinks n's events pass: n and those above it
    depth,      \* depth[n]: RunContext.depth of n's run
    session,    \* session[n]: the session n runs in
    children,   \* Kernel.childSessions: children[s][k], or None
    sandbox,    \* SessionManager.sessions: the sandbox registered for s, or None
    live,       \* the child sandboxes provisioned and not destroyed
    own,        \* own[n]: usage n's own harness reported
    billed,     \* billed[n]: the usage in the Settlement of n's run
    spoken,     \* spoken[n]: the terminal n's own harness emitted, or None
    cause,      \* cause[n]: the cause in the Settlement of n's run, or None
    told,       \* the terminals on the top stream
    frames,     \* child_started and child_settled frames on the top stream
    ended       \* endSession(Root) has run

vars == <<stage, key, lineage, depth, session, children, sandbox, live, own, billed,
          spoken, cause, told, frames, ended>>

Init ==
    /\ stage = [n \in Node |-> IF n = Root THEN "running" ELSE "idle"]
    /\ key = [t \in Task |-> None]
    /\ lineage = [n \in Node |-> {n}]
    /\ depth = [n \in Node |-> 0]
    /\ session = [n \in Node |-> IF n = Root THEN Root ELSE None]
    /\ children = [s \in Node |-> [k \in Key |-> None]]
    /\ sandbox = [s \in Node |-> None]
    /\ live = {}
    /\ own = [n \in Node |-> 0]
    /\ billed = [n \in Node |-> 0]
    /\ spoken = [n \in Node |-> None]
    /\ cause = [n \in Node |-> None]
    /\ told = <<>>
    /\ frames = <<>>
    /\ ended = FALSE
-----------------------------------------------------------------------------
(* pi offers its model the delegate tool below the cap only; the kernel    *)
(* hands RunContext.delegate to any harness and guards the cap itself. Its *)
(* terminal is the last thing pi emits, when no tool call is left to make. *)
Delegates(n) ==
    /\ stage[n] = "running" /\ spoken[n] = None
    /\ n \in Task => key[n] \in RouterKey
Above(t) == lineage[t] \ {t}

TooDeep(n) == depth[n] >= MAX_DELEGATION_DEPTH

(* At the cap the delegate call answers with an error and does nothing.    *)
RefuseDelegate(p, t, k) ==
    /\ Delegates(p) /\ stage[t] = "idle"
    /\ TooDeep(p)
    /\ key' = [key EXCEPT ![t] = k]
    /\ stage' = [stage EXCEPT ![t] = "settled"]
    /\ UNCHANGED <<lineage, depth, session, children, sandbox, live, own, billed, spoken, cause,
                   told, frames, ended>>

ChildOf_OfTop(s, t, k) == IF children[Root][k] = None THEN t ELSE children[Root][k]

ChildOf(s, t, k) == IF children[s][k] = None THEN t ELSE children[s][k]

(* The delegate call up to its first await: find or name the child session,*)
(* announce the sub-run, and reuse the session's sandbox if it has one.    *)
Delegate(p, t, k) ==
    LET s == session[p]
        child == ChildOf(s, t, k)
    IN
    /\ Delegates(p) /\ stage[t] = "idle"
    /\ ~TooDeep(p)
    /\ key' = [key EXCEPT ![t] = k]
    /\ lineage' = [lineage EXCEPT ![t] = lineage[p] \cup {t}]
    /\ depth' = [depth EXCEPT ![t] = depth[p] + 1]
    /\ children' = [children EXCEPT ![s][k] = child]
    /\ session' = [session EXCEPT ![t] = child]
    /\ frames' = Append(frames, <<"child_started", t>>)
    /\ stage' = [stage EXCEPT ![t] = IF sandbox[child] = None THEN "workspace" ELSE "running"]
    /\ UNCHANGED <<sandbox, live, own, billed, spoken, cause, told, ended>>

(* provision() resolved: registered over whatever the session has by now.  *)
ChildProvisioned(t) ==
    /\ stage[t] = "workspace"
    /\ sandbox' = [sandbox EXCEPT ![session[t]] = t]
    /\ live' = live \cup {t}
    /\ stage' = [stage EXCEPT ![t] = "running"]
    /\ UNCHANGED <<key, lineage, depth, session, children, own, billed, spoken, cause, told,
                   frames, ended>>

(* ensureWorkspace threw: the catch closes the bracket with an error.      *)
ChildNotProvisioned(t) ==
    /\ stage[t] = "workspace"
    /\ stage' = [stage EXCEPT ![t] = "settled"]
    /\ frames' = Append(frames, <<"child_settled", t>>)
    /\ UNCHANGED <<key, lineage, depth, session, children, sandbox, live, own, billed, spoken,
                   cause, told, ended>>

Forwards_All(type) == TRUE
Forwards_NoUsage(type) == type \notin {"terminal", "usage_delta"}

(* What the childSink of a delegate call lets through to the delegate      *)
(* tool, which emits it into the pump of the run that made the call.       *)
Forwards(type) == type # "terminal"

(* The pumps an event of n's run passes, each of which folds it into its   *)
(* settlement: n's own first, and from there every one above it that the   *)
(* sinks in between let it through to.                                     *)
Reaches(n, type) == {n} \cup {m \in Above(n) : Forwards(type)}

(* A usage_delta of n's harness.                                           *)
Usage(n) ==
    /\ stage[n] = "running" /\ own[n] < MaxUsage
    /\ own' = [own EXCEPT ![n] = @ + 1]
    /\ billed' = [m \in Node |->
                     IF m \in Reaches(n, "usage_delta") THEN billed[m] + 1 ELSE billed[m]]
    /\ UNCHANGED <<stage, key, lineage, depth, session, children, sandbox, live, spoken, cause,
                   told, frames, ended>>

(* A terminal of n's run: every settlement it reaches keeps its first      *)
(* cause, and what passes the last pump is on the top stream.              *)
Terminal(n, why) ==
    LET reached == Reaches(n, "terminal") IN
    /\ cause' = [m \in Node |-> IF m \in reached /\ cause[m] = None THEN why ELSE cause[m]]
    /\ told' = IF Root \in reached THEN Append(told, why) ELSE told

Waits(n) == \E t \in Task : stage[t] # "idle" /\ stage[t] # "settled" /\ n \in Above(t)

(* n's harness emits its terminal, through the pump like any event.        *)
Speak(n, why) ==
    /\ stage[n] = "running" /\ ~Waits(n) /\ spoken[n] = None
    /\ spoken' = [spoken EXCEPT ![n] = why]
    /\ Terminal(n, why)
    /\ UNCHANGED <<stage, key, lineage, depth, session, children, sandbox, live, own, billed,
                   frames, ended>>

(* n's harness returned or threw, or its run was refused before it began:  *)
(* a settlement still open gets the orchestrator's terminal, by the same   *)
(* way, and a sub-run's bracket closes.                                    *)
Return(n, why) ==
    /\ stage[n] = "running" /\ ~Waits(n)
    /\ \/ cause[n] = None /\ Terminal(n, why)
       \/ cause[n] = why /\ UNCHANGED <<cause, told>>
    /\ stage' = [stage EXCEPT ![n] = "settled"]
    /\ frames' = IF n = Root THEN frames ELSE Append(frames, <<"child_settled", n>>)
    /\ UNCHANGED <<key, lineage, depth, session, children, sandbox, live, own, billed, spoken,
                   ended>>

(* endSession(Root), once the run is over: end the child sessions it knows *)
(* of, and forget them.                                                    *)
EndSession ==
    LET gone == {children[Root][k] : k \in Key} \ {None} IN
    /\ stage[Root] = "settled" /\ ~ended
    /\ sandbox' = [s \in Node |-> IF s \in gone THEN None ELSE sandbox[s]]
    /\ live' = live \ {sandbox[s] : s \in gone}
    /\ children' = [children EXCEPT ![Root] = [k \in Key |-> None]]
    /\ ended' = TRUE
    /\ UNCHANGED <<stage, key, lineage, depth, session, own, billed, spoken, cause, told, frames>>

Next ==
    \/ \E p \in Node, t \in Task, k \in Key : RefuseDelegate(p, t, k) \/ Delegate(p, t, k)
    \/ \E t \in Task : ChildProvisioned(t) \/ ChildNotProvisioned(t)
    \/ \E n \in Node : Usage(n) \/ \E why \in Cause : Speak(n, why) \/ Return(n, why)
    \/ EndSession

Spec == Init /\ [][Next]_vars
-----------------------------------------------------------------------------
TypeOK ==
    /\ stage \in [Node -> {"idle", "workspace", "running", "settled"}]
    /\ key \in [Task -> Key \cup {None}]
    /\ lineage \in [Node -> SUBSET Node]
    /\ depth \in [Node -> 0..MAX_DELEGATION_DEPTH]
    /\ session \in [Node -> Node \cup {None}]
    /\ children \in [Node -> [Key -> Node \cup {None}]]
    /\ sandbox \in [Node -> Task \cup {None}]
    /\ live \subseteq Task
    /\ own \in [Node -> 0..MaxUsage]
    /\ billed \in [Node -> Nat]
    /\ spoken \in [Node -> Cause \cup {None}]
    /\ cause \in [Node -> Cause \cup {None}]
    /\ told \in Seq(Cause)
    /\ ended \in BOOLEAN

(* Every run is billed for what its own harness used and what every run    *)
(* below it used, each event once, at whatever depth and however the       *)
(* sub-runs overlap ("usage_delta rolls up into the parent's billing",     *)
(* kernel/index.ts:146).                                                   *)
BillRollsUp ==
    \A n \in Node :
        billed[n] = FoldFunctionOnSet(+, 0, own, {m \in Node : n \in lineage[m]})

(* Of all the terminals that sub-runs emit or the orchestrator emits for   *)
(* them, none settles a run above ("the sub-run's terminal is CONSUMED so  *)
(* it never settles the parent run", kernel/index.ts:147): a run is        *)
(* settled as its own harness said, or by the orchestrator when that never *)
(* spoke and is gone. The top stream has one terminal, that of the top     *)
(* run's settlement.                                                       *)
OnlyOwnTerminalSettles ==
    /\ \A n \in Node :
          \/ cause[n] = spoken[n]
          \/ spoken[n] = None /\ stage[n] = "settled"
    /\ told = IF cause[Root] = None THEN <<>> ELSE <<cause[Root]>>

(* On the top stream every sub-run that was announced is closed, once and  *)
(* after it was announced, by the time the run above it is settled.        *)
BracketsClose ==
    /\ \A i, j \in 1..Len(frames) : frames[i] = frames[j] => i = j
    /\ \A t \in Task : stage[t] = "settled" =>
        \A i \in 1..Len(frames) : frames[i] = <<"child_started", t>> =>
            \E j \in i..Len(frames) : frames[j] = <<"child_settled", t>>

(* A sub-run never works in the workspace of a run that waits for it, and  *)
(* shares one only with sub-runs sent to the same harness and environment  *)
(* ("reuse one child workspace per (harness, env) within this parent       *)
(* session", kernel/index.ts:164); no sandbox is registered twice.         *)
WorkspacesApart ==
    /\ \A t \in Task : \A n \in Above(t) : session[n] # session[t]
    /\ \A t, u \in Task : session[t] # None /\ session[t] = session[u] => key[t] = key[u]
    /\ \A s, u \in Node : sandbox[s] # None /\ sandbox[s] = sandbox[u] => s = u

(* The child sandboxes still registered once the session ended are those   *)
(* of sub-runs of sub-runs: whatever a sub-run of the session itself works *)
(* in is found under the key it was delegated for, and nothing registers   *)
(* another one afterwards (kernel/index.ts:314-326).                       *)
EndSessionTakesOwn ==
    ended => \A s \in Node : sandbox[s] # None => depth[s] = MAX_DELEGATION_DEPTH

(* endSession destroys the session's workspace "AND every child workspace  *)
(* a router run spun up under it" (kernel/index.ts:314-315).               *)
EndSessionTakesAll == ended => \A s \in Node : sandbox[s] = None
=============================================================================
