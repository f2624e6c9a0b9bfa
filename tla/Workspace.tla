----------------------------- MODULE Workspace -----------------------------
(***************************************************************************)
(* Sessions and the sandboxes they own: SessionManager.ensureWorkspace and *)
(* end (src/src/kernel/session.ts), the per-session writer lock            *)
(* (kernel/admission.ts), the two kernel entry points that run them,       *)
(* warmSession and runMessage (kernel/index.ts), behind their HTTP routes  *)
(* (server/http.ts), on top of the warm pool of module PrewarmPool.        *)
(*                                                                         *)
(* ensureWorkspace takes no lock.  It awaits twice, while an old sandbox   *)
(* is destroyed and while a new one is provisioned, and any other call may *)
(* run there, so every action below is the code between two awaits.        *)
(* What the harness does with the sandbox belongs to module RunLifecycle.  *)
(***************************************************************************)
EXTENDS Naturals, Sequences, FiniteSets

CONSTANTS
    Identity, Handle, Target, None,   \* as in PrewarmPool
    Session,    \* session ids
    Calls,      \* bound: how many HTTP requests are sent
    Request,    \* what a call may ask: [kind, session, id]
    Opened      \* the identities that project opens (/prewarm) ask for

VARIABLES ready, inflight, timers, box, home, tenant, destroys, teardown
poolVars == <<ready, inflight, timers, box, home, tenant, destroys, teardown>>

Pool == INSTANCE PrewarmPool

(* Calls are numbered in the order they arrive.  A sandbox provisioned on  *)
(* a pool miss is named by the call that asked for it.                     *)
Call == 1..Calls
Sandbox == Handle \cup Call
EmptySeed == [kind |-> "files", mark |-> 0, seed |-> None]

(* The identity ensureWorkspace claims under.  The /warm route has no      *)
(* project to pass on, and a request without a source asks for an empty    *)
(* file seed.                                                              *)
ClaimId(r) ==
    [owner |-> r.id.owner, environment |-> r.id.environment, profile |-> r.id.profile,
     project |-> IF r.kind = "warm" THEN None ELSE r.id.project,
     source |-> IF r.id.source = None THEN EmptySeed ELSE r.id.source]

ASSUME RequestAssumption ==
    \A r \in Request :
        /\ DOMAIN r = {"kind", "session", "id"}
        /\ r.kind \in {"warm", "message"}
        /\ r.session \in Session
        /\ ClaimId(r) \in Identity
(* What the pool assumes of its constants (module PrewarmPool).            *)
ASSUME PoolAssumption ==
    /\ Identity # {} /\ None \notin Identity
    /\ \A id \in Identity :
        /\ DOMAIN id = {"owner", "environment", "profile", "project", "source"}
        /\ Pool!Sources(id.source)
    /\ Target \subseteq Nat /\ IsFiniteSet(Target) /\ IsFiniteSet(Handle)
ASSUME OpenedAssumption == Opened \subseteq Identity

SessionState ==
    [handle : Sandbox, environment : {id.environment : id \in Identity},
     profile : {id.profile : id \in Identity}, owner : {id.owner : id \in Identity}]

ASSUME SandboxAssumption ==
    /\ Calls \in Nat /\ Handle \cap Call = {}
    /\ None \notin Sandbox /\ None \notin Request /\ None \notin SessionState

VARIABLES
    sessions,   \* SessionManager.sessions: a SessionState per session, or None
    active,     \* Admission.active: the sessions with a run
    req,        \* req[c]: what call c asked, None before it arrives
    stage,      \* stage[c]: where c is; "switching" and "provisioning" are
                \* the two awaits, "unwinding" a throw on its way to the finally
    held,       \* held[c]: the sandbox ensureWorkspace returned to c, or None
    ended,      \* ended[x]: how often SessionManager called x.destroy()
    crossed     \* history: the sessions two calls of which got in each other's way

callVars == <<sessions, active, req, stage, held, ended, crossed>>
vars == <<poolVars, callVars>>

Stages == {"idle", "switching", "provisioning", "running", "unwinding",
           "done", "failed", "rejected"}

Waiting(s) == {c \in Call : stage[c] \in {"switching", "provisioning"} /\ req[c].session = s}
Using(s) == {c \in Call : stage[c] = "running" /\ req[c].session = s}
InFlight(c) == stage[c] \in {"switching", "provisioning", "running", "unwinding"}

(* The identity sandbox x was provisioned for.                             *)
HomeOf(x) == IF x \in Handle THEN home[x] ELSE req[x].id
-----------------------------------------------------------------------------
Init ==
    /\ Pool!Init
    /\ sessions = [s \in Session |-> None]
    /\ active = {}
    /\ req = [c \in Call |-> None]
    /\ stage = [c \in Call |-> "idle"]
    /\ held = [c \in Call |-> None]
    /\ ended = [x \in Sandbox |-> 0]
    /\ crossed = {}

MayUse_Anyone(state, owner) == TRUE

(* assertOwner: enforced only when both sides carry an owner.              *)
MayUse(state, owner) == owner = None \/ state.owner = None \/ state.owner = owner

Matches(state, id) == state.environment = id.environment /\ state.profile = id.profile

IsNext(c) == stage[c] = "idle" /\ \A d \in 1..(c - 1) : stage[d] # "idle"

(* Call c enters with request r.  A message takes the lock first; the rest *)
(* of the arrival is ensureWorkspace up to its first await.                *)
Arrive(c, r) ==
    /\ IsNext(c)
    /\ req' = [req EXCEPT ![c] = r]
    /\ r.kind = "message" => r.session \notin active
    /\ active' = IF r.kind = "message" THEN active \cup {r.session} ELSE active

(* ensureWorkspace has handle x for c: a warm call is over, a message hands*)
(* it to the harness.                                                      *)
Serve(c, kind, x) ==
    /\ held' = [held EXCEPT ![c] = x]
    /\ stage' = [stage EXCEPT ![c] = IF kind = "message" THEN "running" ELSE "done"]

Register(r, x) ==
    sessions' = [sessions EXCEPT ![r.session] =
        [handle |-> x, environment |-> r.id.environment,
         profile |-> r.id.profile, owner |-> r.id.owner]]

Destroy(x) == ended' = [ended EXCEPT ![x] = @ + 1]

CrossIf(condition, s) == crossed' = IF condition THEN crossed \cup {s} ELSE crossed

(* Claim from the pool, and only on a miss provision.  A claimed handle is *)
(* registered in the same step; a miss leaves the old entry until          *)
(* provision() resolves.                                                   *)
ClaimWarm(c, r) ==
    /\ \E h \in Handle :
        /\ Pool!Claim(ClaimId(r), h)
        /\ Register(r, h)
        /\ Serve(c, r.kind, h)
ClaimMiss(r) == ready[Pool!prewarmKey(ClaimId(r))] = <<>>
-----------------------------------------------------------------------------
(* A message while the session has a run: refused before anything is done. *)
Reject(c, r) ==
    /\ IsNext(c)
    /\ r.kind = "message" /\ r.session \in active
    /\ req' = [req EXCEPT ![c] = r]
    /\ stage' = [stage EXCEPT ![c] = "rejected"]
    /\ UNCHANGED <<poolVars, sessions, active, held, ended, crossed>>

(* Somebody else's session: SessionOwnershipError.                         *)
Deny(c, r) ==
    /\ Arrive(c, r)
    /\ sessions[r.session] # None
    /\ ~MayUse(sessions[r.session], r.id.owner)
    /\ stage' = [stage EXCEPT ![c] = "unwinding"]
    /\ UNCHANGED <<poolVars, sessions, held, ended, crossed>>

Reuse(c, r) ==
    /\ Arrive(c, r)
    /\ sessions[r.session] # None
    /\ MayUse(sessions[r.session], r.id.owner)
    /\ Matches(sessions[r.session], r.id)
    /\ Serve(c, r.kind, sessions[r.session].handle)
    /\ CrossIf(Waiting(r.session) # {}, r.session)
    /\ UNCHANGED <<poolVars, sessions, ended>>

Switch_NoDestroy(c, r) ==
    /\ Arrive(c, r)
    /\ sessions[r.session] # None
    /\ MayUse(sessions[r.session], r.id.owner)
    /\ ~Matches(sessions[r.session], r.id)
    /\ stage' = [stage EXCEPT ![c] = "switching"]
    /\ CrossIf(Waiting(r.session) \cup Using(r.session) # {}, r.session)
    /\ UNCHANGED <<poolVars, sessions, held, ended>>

(* The session asked for another environment or profile: tear the old      *)
(* sandbox down.  Its entry stays in the map across the await.             *)
Switch(c, r) ==
    /\ Arrive(c, r)
    /\ sessions[r.session] # None
    /\ MayUse(sessions[r.session], r.id.owner)
    /\ ~Matches(sessions[r.session], r.id)
    /\ Destroy(sessions[r.session].handle)
    /\ stage' = [stage EXCEPT ![c] = "switching"]
    /\ CrossIf(Waiting(r.session) \cup Using(r.session) # {}, r.session)
    /\ UNCHANGED <<poolVars, sessions, held>>

Adopt(c, r) ==
    /\ Arrive(c, r)
    /\ sessions[r.session] = None
    /\ ClaimWarm(c, r)
    /\ CrossIf(Waiting(r.session) # {}, r.session)
    /\ UNCHANGED ended

ColdStart(c, r) ==
    /\ Arrive(c, r)
    /\ sessions[r.session] = None
    /\ ClaimMiss(r)
    /\ stage' = [stage EXCEPT ![c] = "provisioning"]
    /\ CrossIf(Waiting(r.session) # {}, r.session)
    /\ UNCHANGED <<poolVars, sessions, held, ended>>

(* The destroy of `Switch` has settled (its failures are swallowed): drop  *)
(* whatever entry the session has now, then claim or provision.            *)
ResumeAdopt(c) ==
    /\ stage[c] = "switching"
    /\ ClaimWarm(c, req[c])
    /\ UNCHANGED <<active, req, ended, crossed>>

ResumeCold_KeepsEntry(c) ==
    /\ stage[c] = "switching"
    /\ ClaimMiss(req[c])
    /\ stage' = [stage EXCEPT ![c] = "provisioning"]
    /\ UNCHANGED <<poolVars, sessions, active, req, held, ended, crossed>>

ResumeCold(c) ==
    /\ stage[c] = "switching"
    /\ ClaimMiss(req[c])
    /\ sessions' = [sessions EXCEPT ![req[c].session] = None]
    /\ stage' = [stage EXCEPT ![c] = "provisioning"]
    /\ UNCHANGED <<poolVars, active, req, held, ended, crossed>>

(* provision() resolved: register its handle over whatever is there.       *)
Provisioned(c) ==
    /\ stage[c] = "provisioning"
    /\ Register(req[c], c)
    /\ Serve(c, req[c].kind, c)
    /\ UNCHANGED <<poolVars, active, req, ended, crossed>>

(* provision() threw: the warm call or the run fails, nothing registered.  *)
ProvisionThrew(c) ==
    /\ stage[c] = "provisioning"
    /\ stage' = [stage EXCEPT ![c] = "unwinding"]
    /\ UNCHANGED <<poolVars, sessions, active, req, held, ended, crossed>>

Settled(c) == stage' = [stage EXCEPT ![c] = IF @ = "running" THEN "done" ELSE "failed"]

Finish_KeepsLockOnError(c) ==
    /\ stage[c] \in {"running", "unwinding"}
    /\ Settled(c)
    /\ active' = IF stage[c] = "running" THEN active \ {req[c].session} ELSE active
    /\ UNCHANGED <<poolVars, sessions, req, held, ended, crossed>>

(* The run settled, or the throw reached the catch: a message's `finally`  *)
(* releases the lock, a warm call just answers.                            *)
Finish(c) ==
    /\ stage[c] \in {"running", "unwinding"}
    /\ Settled(c)
    /\ active' = IF req[c].kind = "message" THEN active \ {req[c].session} ELSE active
    /\ UNCHANGED <<poolVars, sessions, req, held, ended, crossed>>

(* SessionManager.end: forget the session, destroy its sandbox.            *)
End(s) ==
    /\ sessions[s] # None
    /\ sessions' = [sessions EXCEPT ![s] = None]
    /\ Destroy(sessions[s].handle)
    /\ CrossIf(Waiting(s) \cup Using(s) # {}, s)
    /\ UNCHANGED <<poolVars, active, req, stage, held>>

(* The pool's own steps: /prewarm, its provisions and its timers.          *)
PoolStep ==
    /\ \/ \E id \in Opened, t \in Target : Pool!Ensure(id, t)
       \/ \E h \in Handle : Pool!ProvisionOk(h)
       \/ \E h \in Handle : Pool!ProvisionFail(h)
       \/ \E h \in Handle : Pool!Evict(h)
    /\ UNCHANGED callVars

Next ==
    \/ \E c \in Call, r \in Request :
        \/ Reject(c, r)
        \/ Deny(c, r)
        \/ Reuse(c, r)
        \/ Switch(c, r)
        \/ Adopt(c, r)
        \/ ColdStart(c, r)
    \/ \E c \in Call : ResumeAdopt(c)
    \/ \E c \in Call : ResumeCold(c)
    \/ \E c \in Call : Provisioned(c)
    \/ \E c \in Call : ProvisionThrew(c)
    \/ \E c \in Call : Finish(c)
    \/ \E s \in Session : End(s)
    \/ PoolStep

Spec == Init /\ [][Next]_vars

(* destroy() and provision() settle and a harness returns: what the        *)
(* adapters promise the kernel, which sets no timeout of its own.  Nobody  *)
(* need send another request, end a session or open a project.             *)
Fairness ==
    \A c \in Call :
        /\ WF_vars(ResumeAdopt(c) \/ ResumeCold(c))
        /\ WF_vars(Provisioned(c) \/ ProvisionThrew(c))
        /\ WF_vars(Finish(c))

FairSpec == Spec /\ Fairness
-----------------------------------------------------------------------------
TypeOK ==
    /\ Pool!TypeOK
    /\ sessions \in [Session -> SessionState \cup {None}]
    /\ active \subseteq Session
    /\ req \in [Call -> Request \cup {None}]
    /\ stage \in [Call -> Stages]
    /\ held \in [Call -> Sandbox \cup {None}]
    /\ ended \in [Sandbox -> Nat]
    /\ crossed \subseteq Session
    /\ \A c \in Call : /\ stage[c] # "idle" => req[c] # None
                       /\ stage[c] \in {"running", "done"} => held[c] # None

(* No owner ever gets another owner's sandbox, whichever way it came to    *)
(* the call (reuse, pool, cold start) and whatever ran during the awaits:  *)
(* assertOwner is checked once, before them (session.ts:82).               *)
OwnersApart ==
    \A c \in Call : held[c] # None =>
        \/ req[c].id.owner = None
        \/ HomeOf(held[c]).owner \in {None, req[c].id.owner}

(* What the map says of a session's sandbox is what the sandbox was        *)
(* provisioned as, also when the pool provisioned it for somebody who only *)
(* had the same key: reuse decides on the entry, never on the handle.      *)
EntryDescribesSandbox ==
    \A s \in Session : sessions[s] # None =>
        LET was == HomeOf(sessions[s].handle) IN
        /\ sessions[s].environment = was.environment
        /\ sessions[s].profile = was.profile
        /\ sessions[s].owner = was.owner

(* The lock is held exactly by the sessions with a message under way, one  *)
(* message each: no exit (refusal, cross-owner throw, failed provision,    *)
(* settled run) leaves it taken or frees somebody else's.                  *)
LockIsExact ==
    LET Live == {c \in Call : InFlight(c) /\ req[c].kind = "message"} IN
    /\ active = {req[c].session : c \in Live}
    /\ \A c, d \in Live : req[c].session = req[d].session => c = d

(* A sandbox handed to a session is registered or destroyed: sequential    *)
(* use of a session, with any failures, switches, adoptions and ends, can  *)
(* leak none.  Calls that overlap can: both find no entry (session.ts:81)  *)
(* and both provision, so "Idempotent" (kernel/index.ts:114) is not so.    *)
NoOrphan ==
    \A c \in Call : held[c] # None /\ req[c].session \notin crossed =>
        \/ ended[held[c]] > 0
        \/ \E s \in Session : sessions[s] # None /\ sessions[s].handle = held[c]

(* Unless calls overlap, a run never works in a sandbox that is gone: a    *)
(* failed switch leaves no entry of the old one behind to be reused, and   *)
(* neither the pool's TTL nor a teardown reaches it.                       *)
RunsOnLiveSandbox ==
    \A c \in Call : stage[c] = "running" /\ req[c].session \notin crossed =>
        ended[held[c]] = 0 /\ (held[c] \in Handle => destroys[held[c]] = 0)

(* Every lock is given back: no message locks its session for good.        *)
LockReturns == \A s \in Session : (s \in active) ~> (s \notin active)
=============================================================================
