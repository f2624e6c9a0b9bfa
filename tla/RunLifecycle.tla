---------------------------- MODULE RunLifecycle ----------------------------
(***************************************************************************)
(* One message from admission to the last SSE frame: Kernel.runMessage     *)
(* (src/src/kernel/index.ts), the orchestrator's pump and its defensive    *)
(* settlement (kernel/orchestrator.ts, kernel/settlement.ts), the preview  *)
(* registry (kernel/preview.ts) and the /message route that streams it all *)
(* (server/http.ts).  Getting the workspace is module Workspace; here it   *)
(* is ready or it throws.                                                  *)
(*                                                                         *)
(* The harness is the environment.  It emits events in any order, speaks   *)
(* its terminal at most once (createSettler), may return or throw with or  *)
(* without having spoken, and may leave a tool running whose events arrive *)
(* after it returned.                                                      *)
(***************************************************************************)
EXTENDS Naturals, Sequences

CONSTANTS
    Run,        \* messages, each sent once
    Session,
    SessionOf,  \* SessionOf[r]: the session r is sent to
    Snapshot,   \* ids of durable preview snapshots
    MaxUsage,   \* bound: usage_delta events per run
    None

Cause == {"done", "error", "cancelled"}

Verdict == [cause : Cause, usage : Nat]                       \* of a RunResult
PreviewState == [live : BOOLEAN, snapshot : Snapshot \cup {None}]

ASSUME RunAssumption ==
    /\ SessionOf \in [Run -> Session]
    /\ MaxUsage \in Nat
    /\ None \notin Snapshot \cup Cause \cup Verdict \cup PreviewState

VARIABLES
    stage,      \* stage[r]: how far runMessage and its route are
    active,     \* Admission.active
    aborted,    \* aborted[r]: the run's AbortSignal
    started,    \* started[r]: the harness has been given the run
    spoke,      \* spoke[r]: the harness's settler has emitted
    settlement, \* settlement[r]: the Settlement [cause, usage], cause None until settled
    terminals,  \* terminals[r]: the causes of the terminal frames written, in order
    shown,      \* shown[r]: the usage of the usage_delta frames written
    result,     \* result[r]: the RunResult, None until there is one
    settled,    \* settled[r]: the result the `settled` frame carried, or None
    preview     \* preview[s]: PreviewRegistry.bySession

vars == <<stage, active, aborted, started, spoke, settlement, terminals, shown, result, settled, preview>>

Stages == {"idle", "workspace", "working", "returned", "resolved", "answered", "refused", "denied"}
Resolved == {"resolved", "refused"}        \* runMessage's result is there
Answered == {"answered", "denied"}

Init ==
    /\ stage = [r \in Run |-> "idle"]
    /\ active = {}
    /\ aborted = [r \in Run |-> FALSE]
    /\ started = [r \in Run |-> FALSE]
    /\ spoke = [r \in Run |-> FALSE]
    /\ settlement = [r \in Run |-> [cause |-> None, usage |-> 0]]
    /\ terminals = [r \in Run |-> <<>>]
    /\ shown = [r \in Run |-> 0]
    /\ result = [r \in Run |-> None]
    /\ settled = [r \in Run |-> None]
    /\ preview = [s \in Session |-> None]
-----------------------------------------------------------------------------
At(r, from, to) == stage[r] = from /\ stage' = [stage EXCEPT ![r] = to]

Settle_LastWins(state, cause) == [state EXCEPT !.cause = cause]

(* Settlement.settle: the first cause is the one that stays.               *)
Settle(state, cause) == IF state.cause = None THEN [state EXCEPT !.cause = cause] ELSE state

(* The pump, for a terminal: fold it into the settlement, forward it.      *)
EmitTerminal(r, cause) ==
    /\ settlement' = [settlement EXCEPT ![r] = Settle(@, cause)]
    /\ terminals' = [terminals EXCEPT ![r] = Append(@, cause)]

(* A RunResult made without a settlement.                                  *)
Failed == [cause |-> "error", usage |-> 0]

Release(r) == active' = active \ {SessionOf[r]}

Admit(r) ==
    /\ SessionOf[r] \notin active
    /\ At(r, "idle", "workspace")
    /\ active' = active \cup {SessionOf[r]}
    /\ UNCHANGED <<aborted, started, spoke, settlement, terminals, shown, result, settled, preview>>

Reject_Releases(r) ==
    /\ SessionOf[r] \in active
    /\ At(r, "idle", "refused")
    /\ terminals' = [terminals EXCEPT ![r] = Append(@, "error")]
    /\ result' = [result EXCEPT ![r] = Failed]
    /\ Release(r)
    /\ UNCHANGED <<aborted, started, spoke, settlement, shown, settled, preview>>

(* The session has a run: a terminal so that the stream settles, and a     *)
(* result; the lock is the other run's and stays.                          *)
Reject(r) ==
    /\ SessionOf[r] \in active
    /\ At(r, "idle", "refused")
    /\ terminals' = [terminals EXCEPT ![r] = Append(@, "error")]
    /\ result' = [result EXCEPT ![r] = Failed]
    /\ UNCHANGED <<active, aborted, started, spoke, settlement, shown, settled, preview>>

(* ensureWorkspace threw, or the harness ref is unknown.                   *)
NoWorkspace(r) ==
    /\ At(r, "workspace", "resolved")
    /\ terminals' = [terminals EXCEPT ![r] = Append(@, "error")]
    /\ result' = [result EXCEPT ![r] = Failed]
    /\ Release(r)
    /\ UNCHANGED <<aborted, started, spoke, settlement, shown, settled, preview>>

(* No runnable topology, or an unknown tool or skill: settles in place.    *)
Refuse(r) ==
    /\ At(r, "workspace", "returned")
    /\ EmitTerminal(r, "error")
    /\ result' = [result EXCEPT ![r] = Settle(settlement'[r], "error")]
    /\ UNCHANGED <<active, aborted, started, spoke, shown, settled, preview>>

Start(r) ==
    /\ At(r, "workspace", "working")
    /\ started' = [started EXCEPT ![r] = TRUE]
    /\ UNCHANGED <<active, aborted, spoke, settlement, terminals, shown, result, settled, preview>>

(* Settlement.observe of a usage_delta, which counts after a terminal too. *)
ObserveUsage(state) == [state EXCEPT !.usage = @ + 1]

Usage(r) ==
    /\ stage[r] = "working"
    /\ shown[r] < MaxUsage
    /\ settlement' = [settlement EXCEPT ![r] = ObserveUsage(@)]
    /\ shown' = [shown EXCEPT ![r] = @ + 1]
    /\ UNCHANGED <<stage, active, aborted, started, spoke, terminals, result, settled, preview>>

(* A sub-run whose delegate call the harness no longer awaits, its own run *)
(* being aborted, is still pumped: the settlement counts on, while the     *)
(* stream's client is gone and the RunResult has been read off.            *)
LateUsage(r) ==
    /\ started[r] /\ stage[r] # "working" /\ aborted[r]
    /\ settlement[r].usage < MaxUsage
    /\ settlement' = [settlement EXCEPT ![r] = ObserveUsage(@)]
    /\ UNCHANGED <<stage, active, aborted, started, spoke, terminals, shown, result, settled, preview>>

(* The harness's own terminal, through its exactly-once settler.  The cause*)
(* is the adapter's word: it may say "cancelled" of a run nobody aborted.  *)
Speak(r, cause) ==
    /\ stage[r] = "working"
    /\ ~spoke[r]
    /\ spoke' = [spoke EXCEPT ![r] = TRUE]
    /\ EmitTerminal(r, cause)
    /\ UNCHANGED <<stage, active, aborted, started, shown, result, settled, preview>>

(* Also after the harness returned: a tool it abandoned may still finish.  *)
MayEmit(r) == started[r]

(* PreviewRegistry.set: a live url keeps the snapshot already recorded.    *)
SetLive(state) == [live |-> TRUE, snapshot |-> IF state = None THEN None ELSE state.snapshot]

PreviewReady(r) ==
    /\ MayEmit(r)
    /\ preview' = [preview EXCEPT ![SessionOf[r]] = SetLive(@)]
    /\ UNCHANGED <<stage, active, aborted, started, spoke, settlement, terminals, shown, result, settled>>

(* PreviewRegistry.setSnapshot keeps the live url.                         *)
SnapshotReady(r, id) ==
    /\ MayEmit(r)
    /\ preview' = [preview EXCEPT ![SessionOf[r]] =
          [live |-> IF @ = None THEN FALSE ELSE @.live, snapshot |-> id]]
    /\ UNCHANGED <<stage, active, aborted, started, spoke, settlement, terminals, shown, result, settled>>

(* The harness returned.  If nothing settled the run, the kernel does.     *)
Return(r) ==
    LET cause == IF aborted[r] THEN "cancelled" ELSE "done" IN
    /\ At(r, "working", "returned")
    /\ \/ /\ settlement[r].cause = None
          /\ EmitTerminal(r, cause)
       \/ /\ settlement[r].cause # None
          /\ UNCHANGED <<settlement, terminals>>
    /\ result' = [result EXCEPT ![r] = Settle(settlement'[r], cause)]
    /\ UNCHANGED <<active, aborted, started, spoke, shown, settled, preview>>

(* The harness threw: a terminal is synthesised unless it had spoken.      *)
Throw(r) ==
    /\ At(r, "working", "returned")
    /\ \/ /\ settlement[r].cause = None
          /\ EmitTerminal(r, "error")
       \/ /\ settlement[r].cause # None
          /\ UNCHANGED <<settlement, terminals>>
    /\ result' = [result EXCEPT ![r] =
          Settle(settlement'[r], IF aborted[r] THEN "cancelled" ELSE "done")]
    /\ UNCHANGED <<active, aborted, started, spoke, shown, settled, preview>>

(* runMessage's finally.                                                   *)
Resolve(r) ==
    /\ At(r, "returned", "resolved")
    /\ Release(r)
    /\ UNCHANGED <<aborted, started, spoke, settlement, terminals, shown, result, settled, preview>>

(* The client closes the stream before the route saw a result.  A refused  *)
(* run has nothing to cancel.                                              *)
Cancel(r) ==
    /\ stage[r] \in {"workspace", "working", "returned"}
    /\ aborted' = [aborted EXCEPT ![r] = TRUE]
    /\ UNCHANGED <<stage, active, started, spoke, settlement, terminals, shown, result, settled, preview>>

Answer_NeedsSettlement(r) ==
    /\ settlement[r].cause # None
    /\ At(r, "resolved", "answered") \/ At(r, "refused", "denied")
    /\ settled' = [settled EXCEPT ![r] = result[r]]
    /\ UNCHANGED <<active, aborted, started, spoke, settlement, terminals, shown, result, preview>>

(* Memory and persistence written (best effort), the `settled` frame ends  *)
(* the stream.                                                             *)
Answer(r) ==
    /\ At(r, "resolved", "answered") \/ At(r, "refused", "denied")
    /\ settled' = [settled EXCEPT ![r] = result[r]]
    /\ UNCHANGED <<active, aborted, started, spoke, settlement, terminals, shown, result, preview>>

(* Kernel.endSession clears the session's preview, whatever runs.          *)
EndSession(s) ==
    /\ preview[s] # None
    /\ preview' = [preview EXCEPT ![s] = None]
    /\ UNCHANGED <<stage, active, aborted, started, spoke, settlement, terminals, shown, result, settled>>

Next ==
    \/ \E r \in Run :
        \/ Admit(r)
        \/ Reject(r)
        \/ NoWorkspace(r)
        \/ Refuse(r)
        \/ Start(r)
        \/ Usage(r)
        \/ LateUsage(r)
        \/ \E cause \in Cause : Speak(r, cause)
        \/ PreviewReady(r)
        \/ \E id \in Snapshot : SnapshotReady(r, id)
        \/ Return(r)
        \/ Throw(r)
        \/ Resolve(r)
        \/ Cancel(r)
        \/ Answer(r)
    \/ \E s \in Session : EndSession(s)

Spec == Init /\ [][Next]_vars

(* The promises of ensureWorkspace and of a harness (they return or throw  *)
(* in the end) and of the event loop (a resolved promise is acted on).     *)
(* No event has to be emitted, no session ended, no message sent.          *)
Fairness ==
    \A r \in Run :
        /\ WF_vars(Start(r) \/ NoWorkspace(r) \/ Refuse(r))
        /\ WF_vars(Return(r) \/ Throw(r))
        /\ WF_vars(Resolve(r))
        /\ WF_vars(Answer(r))

FairSpec == Spec /\ Fairness
-----------------------------------------------------------------------------
TypeOK ==
    /\ stage \in [Run -> Stages]
    /\ active \subseteq Session
    /\ aborted \in [Run -> BOOLEAN]
    /\ started \in [Run -> BOOLEAN]
    /\ spoke \in [Run -> BOOLEAN]
    /\ settlement \in [Run -> [cause : Cause \cup {None}, usage : Nat]]
    /\ terminals \in [Run -> Seq(Cause)]
    /\ shown \in [Run -> 0..MaxUsage]
    /\ result \in [Run -> Verdict \cup {None}]
    /\ settled \in [Run -> Verdict \cup {None}]
    /\ preview \in [Session -> PreviewState \cup {None}]
    /\ \A r \in Run : stage[r] \in Resolved \cup Answered => result[r] # None

(* However a run ends (refused, no workspace, invalid request, a harness   *)
(* that speaks, returns silent, throws before or after speaking, a client  *)
(* that leaves), its stream carries one terminal frame, never two, before  *)
(* the `settled` frame, and both name the same cause.                      *)
OneTerminal ==
    \A r \in Run :
        /\ Len(terminals[r]) <= 1
        /\ settled[r] # None => terminals[r] = <<settled[r].cause>>

(* A session's durable snapshot is only ever replaced by a newer one: a    *)
(* later live preview, of the same run or the next, or of a tool that      *)
(* outlived its run, never erases it (preview.ts:21-24).                   *)
SnapshotSurvives ==
    [][\A s \in Session :
        (/\ preview[s] # None /\ preview[s].snapshot # None
         /\ preview'[s] # None) => preview'[s].snapshot # None]_vars

(* Every message that arrives is answered with a `settled` frame.          *)
EveryRunAnswered == \A r \in Run : (stage[r] # "idle") ~> (stage[r] \in Answered)

(* The lifecycle implements the contract of module RunContract: what the   *)
(* client was told and shown is what the RunResult says, and a session has *)
(* one run open at a time.                                                 *)
Contract == INSTANCE RunContract WITH
    phase <- [r \in Run |->
        IF stage[r] = "idle" THEN "new"
        ELSE IF stage[r] \in Resolved \cup Answered THEN "closed" ELSE "open"],
    verdict <- [r \in Run |-> IF terminals[r] = <<>> THEN None ELSE Head(terminals[r])],
    bill <- shown,
    answer <- [r \in Run |->
        IF stage[r] \in Resolved \cup Answered THEN result[r] ELSE None]

KeepsContract == Contract!Spec

(* To its clients the kernel is module KernelService, the kernel ChatClient*)
(* is checked with: a message is on its way until it is handled, and the   *)
(* terminal on its stream is the verdict.                                  *)
PhaseOf(r) ==
    CASE stage[r] = "idle" -> "posted"
      [] stage[r] = "resolved" -> "released"
      [] stage[r] = "answered" -> "finished"
      [] stage[r] \in {"refused", "denied"} -> stage[r]
      [] OTHER -> IF terminals[r] = <<>> THEN "working" ELSE "concluded"

Service == INSTANCE KernelService WITH
    Message <- Run, phase <- [r \in Run |-> PhaseOf(r)], sentTo <- SessionOf, lock <- active

ServesClients == Service!Spec
=============================================================================
