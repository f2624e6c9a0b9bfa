---------------------------- MODULE PrewarmPool ----------------------------
(***************************************************************************)
(* The project-open warm pool (src/src/kernel/prewarmPool.ts): a few       *)
(* sandboxes per key are provisioned in the background when a project is   *)
(* opened, a session that starts later claims one, and a timer destroys    *)
(* the ones nobody claims.                                                 *)
(*                                                                         *)
(* JavaScript runs the synchronous part of a method in one piece, so each  *)
(* action below is the code between two awaits (or a timer callback).      *)
(* An operator named X_Y is X with the plausible slip Y in it: TLC finds   *)
(* the properties below violated when Y is made.                           *)
(***************************************************************************)
EXTENDS Naturals, Sequences, FiniteSets, SequencesExt

CONSTANTS
    Identity,   \* the identities callers use (PrewarmIdentity records)
    Handle,     \* environment handles, each provisioned at most once
    Target,     \* the pool sizes callers ask for; ensure's `target`
    None        \* an absent field, owner, project, source or tenant

(***************************************************************************)
(* A PrewarmIdentity.  Of a ProvisionSource only what the fingerprint sees *)
(* is kept: its kind and its mark (a git url@revision, a cache ref, or the *)
(* NUMBER of files of a file seed), beside the seed that tells apart the   *)
(* contents two sources with one mark would materialise.                   *)
(***************************************************************************)
Sources(src) ==
    \/ src = None
    \/ /\ DOMAIN src = {"kind", "mark", "seed"}
       /\ src.kind \in {"git", "cache", "files"}

ASSUME IdentityAssumption ==
    /\ Identity # {}
    /\ \A id \in Identity :
        /\ DOMAIN id = {"owner", "environment", "profile", "project", "source"}
        /\ Sources(id.source)
    /\ None \notin Identity

ASSUME TargetAssumption == Target \subseteq Nat /\ IsFiniteSet(Target)
ASSUME HandleAssumption == IsFiniteSet(Handle)

sourceFingerprint(src) ==
    IF src = None THEN <<"none", None>> ELSE <<src.kind, src.mark>>

prewarmKey_NoOwner(id) ==
    << id.environment, id.profile,
       IF id.project # None THEN <<"proj", id.project>>
                            ELSE sourceFingerprint(id.source) >>

prewarmKey(id) ==
    << id.owner, id.environment, id.profile,
       IF id.project # None THEN <<"proj", id.project>>
                            ELSE sourceFingerprint(id.source) >>

Key == {prewarmKey(id) : id \in Identity}

VARIABLES
    ready,      \* ready[k]: the handles free to claim, oldest first
    inflight,   \* inflight[k]: the pool's own count of provisions under way
    timers,     \* the handles whose TTL timer is armed
    box,        \* box[h]: the sandbox behind h, "none", "booting", "up" or "failed"
    home,       \* home[h]: the identity h was provisioned for
    tenant,     \* tenant[h]: the identity that claimed h, or None
    destroys,   \* destroys[h]: how often the pool called h.destroy()
    teardown    \* history: destroyAll "never" ran, or "ran"

poolVars == <<ready, inflight, timers, box, home, tenant, destroys, teardown>>

Booting(k) == {h \in Handle : box[h] = "booting" /\ prewarmKey(home[h]) = k}
InReady(h) == \E k \in Key : \E i \in 1..Len(ready[k]) : ready[k][i] = h
-----------------------------------------------------------------------------
Init ==
    /\ ready = [k \in Key |-> <<>>]
    /\ inflight = [k \in Key |-> 0]
    /\ timers = {}
    /\ box = [h \in Handle |-> "none"]
    /\ home = [h \in Handle |-> None]
    /\ tenant = [h \in Handle |-> None]
    /\ destroys = [h \in Handle |-> 0]
    /\ teardown = "never"

Shortfall_IgnoresInflight(k, t) ==
    IF t > Len(ready[k]) THEN t - Len(ready[k]) ELSE 0

(* How many provisions `ensure` must start to bring k up to target t.      *)
Shortfall(k, t) ==
    IF t > Len(ready[k]) + inflight[k] THEN t - Len(ready[k]) - inflight[k] ELSE 0

(* ensure(): start the shortfall in the background, one provisionOne each, *)
(* counting every one before its first await.                              *)
Ensure(id, t) ==
    LET k == prewarmKey(id)
        want == Shortfall(k, t)
    IN \E fresh \in SUBSET {h \in Handle : box[h] = "none"} :
        /\ Cardinality(fresh) = want
        /\ want > 0
        /\ box' = [h \in Handle |-> IF h \in fresh THEN "booting" ELSE box[h]]
        /\ home' = [h \in Handle |-> IF h \in fresh THEN id ELSE home[h]]
        /\ inflight' = [inflight EXCEPT ![k] = @ + want]
        /\ UNCHANGED teardown
        /\ UNCHANGED <<ready, timers, tenant, destroys>>

(* The `finally` of provisionOne.                                          *)
CountDown(k) ==
    inflight' = [inflight EXCEPT ![k] = IF @ > 0 THEN @ - 1 ELSE 0]

ProvisionOk_NoTimer(h) ==
    LET k == prewarmKey(home[h]) IN
    /\ box[h] = "booting"
    /\ box' = [box EXCEPT ![h] = "up"]
    /\ ready' = [ready EXCEPT ![k] = Append(@, h)]
    /\ CountDown(k)
    /\ UNCHANGED <<timers, home, tenant, destroys, teardown>>

(* provisionOne resumes with a handle: arm its TTL and offer it.           *)
ProvisionOk(h) ==
    LET k == prewarmKey(home[h]) IN
    /\ box[h] = "booting"
    /\ box' = [box EXCEPT ![h] = "up"]
    /\ timers' = timers \cup {h}
    /\ ready' = [ready EXCEPT ![k] = Append(@, h)]
    /\ CountDown(k)
    /\ UNCHANGED <<home, tenant, destroys, teardown>>

ProvisionFail_NotCounted(h) ==
    /\ box[h] = "booting"
    /\ box' = [box EXCEPT ![h] = "failed"]
    /\ UNCHANGED <<ready, inflight, timers, home, tenant, destroys, teardown>>

(* provisionOne resumes with an exception: the slot just stays empty.      *)
ProvisionFail(h) ==
    /\ box[h] = "booting"
    /\ box' = [box EXCEPT ![h] = "failed"]
    /\ CountDown(prewarmKey(home[h]))
    /\ UNCHANGED <<ready, timers, home, tenant, destroys, teardown>>

Claim_TimerLeftArmed(id, h) ==
    LET k == prewarmKey(id) IN
    /\ ready[k] # <<>>
    /\ h = Head(ready[k])
    /\ ready' = [ready EXCEPT ![k] = Tail(@)]
    /\ tenant' = [tenant EXCEPT ![h] = id]
    /\ UNCHANGED <<inflight, timers, box, home, destroys, teardown>>

(* claim(): the oldest free handle of the key, its TTL cancelled.          *)
Claim(id, h) ==
    LET k == prewarmKey(id) IN
    /\ ready[k] # <<>>
    /\ h = Head(ready[k])
    /\ ready' = [ready EXCEPT ![k] = Tail(@)]
    /\ timers' = timers \ {h}
    /\ tenant' = [tenant EXCEPT ![h] = id]
    /\ UNCHANGED <<inflight, box, home, destroys, teardown>>

(* evict(), the TTL callback: take h off its list if it is still there and *)
(* destroy it either way.                                                  *)
Evict(h) ==
    LET k == prewarmKey(home[h]) IN
    /\ h \in timers
    /\ timers' = timers \ {h}
    /\ \/ \E i \in 1..Len(ready[k]) :
            /\ ready[k][i] = h
            /\ ready' = [ready EXCEPT ![k] = RemoveAt(@, i)]
       \/ /\ \A i \in 1..Len(ready[k]) : ready[k][i] # h
          /\ UNCHANGED ready
    /\ destroys' = [destroys EXCEPT ![h] = @ + 1]
    /\ UNCHANGED <<inflight, box, home, tenant, teardown>>

(* destroyAll(): forget every list and count, destroy every free handle.   *)
(* Provisions under way are not cancelled.                                 *)
DestroyAll ==
    /\ ready' = [k \in Key |-> <<>>]
    /\ inflight' = [k \in Key |-> 0]
    /\ timers' = {h \in timers : ~InReady(h)}
    /\ destroys' = [h \in Handle |-> IF InReady(h) THEN destroys[h] + 1 ELSE destroys[h]]
    /\ teardown' = "ran"
    /\ UNCHANGED <<box, home, tenant>>

Next ==
    \/ \E id \in Identity, t \in Target : Ensure(id, t)
    \/ \E h \in Handle : ProvisionOk(h)
    \/ \E h \in Handle : ProvisionFail(h)
    \/ \E id \in Identity, h \in Handle : Claim(id, h)
    \/ \E h \in Handle : Evict(h)
    \/ DestroyAll

Spec == Init /\ [][Next]_poolVars

(* Timers fire and provision() settles: the event loop owes both.  Callers *)
(* owe nothing: nobody need claim, ensure or tear down.                    *)
Fairness ==
    \A h \in Handle :
        /\ WF_poolVars(Evict(h))
        /\ WF_poolVars(ProvisionOk(h) \/ ProvisionFail(h))

FairSpec == Spec /\ Fairness
-----------------------------------------------------------------------------
(* Types, including that the pool's bookkeeping stays on real keys.        *)
TypeOK ==
    /\ ready \in [Key -> Seq(Handle)]
    /\ inflight \in [Key -> Nat]
    /\ timers \subseteq Handle
    /\ box \in [Handle -> {"none", "booting", "up", "failed"}]
    /\ home \in [Handle -> Identity \cup {None}]
    /\ tenant \in [Handle -> Identity \cup {None}]
    /\ destroys \in [Handle -> Nat]
    /\ teardown \in {"never", "ran"}

(* A sandbox is adopted only under the owner, environment, profile and     *)
(* project it was warmed for, and without a project only for a source of   *)
(* the same kind and mark ("so one user can never claim another user's     *)
(* warm sandbox", prewarmPool.ts:26-29).                                   *)
AdoptedByItsOwn ==
    \A h \in Handle : tenant[h] # None =>
        LET was == home[h]
            is  == tenant[h]
        IN /\ was # None
           /\ is.owner = was.owner
           /\ is.environment = was.environment
           /\ is.profile = was.profile
           /\ is.project = was.project
           /\ is.project = None => sourceFingerprint(is.source) = sourceFingerprint(was.source)

(* Once adopted, a sandbox is out of the pool's reach: no timer of its is  *)
(* armed and the pool never destroyed it, so a TTL that was about to fire  *)
(* cannot kill a session's workspace (claim's clearTimeout and shift).     *)
AdoptedNeverReaped ==
    \A h \in Handle : tenant[h] # None =>
        h \notin timers /\ destroys[h] = 0 /\ ~InReady(h)

(* The pool destroys a sandbox at most once, whether its TTL fires or the  *)
(* pool is torn down, in either order (evict and destroyAll).              *)
ReapedOnce == \A h \in Handle : destroys[h] <= 1

(* Until a teardown, the free handles of a key and the provisions under    *)
(* way for it never exceed the largest target anybody asked for, however   *)
(* ensure, claim, failures and TTLs interleave.                            *)
NoOvershoot ==
    teardown = "never" => \A k \in Key : \E t \in Target \cup {0} :
        Len(ready[k]) + Cardinality(Booting(k)) <= t

(* The inflight counter never claims more provisions than are under way:   *)
(* an over-count would keep `ensure` from ever refilling the key (the      *)
(* finally of provisionOne, and destroyAll clearing the counts).           *)
NoPhantomProvision == \A k \in Key : inflight[k] <= Cardinality(Booting(k))

(* Every sandbox the pool warmed is adopted or destroyed in the end: the   *)
(* TTL is the only reaper, and leaves none to linger (prewarmPool.ts:12).  *)
NoneLingers ==
    \A h \in Handle : (box[h] = "up") ~> (tenant[h] # None \/ destroys[h] > 0)
=============================================================================
