--------------------------- MODULE WorkspaceProofs ---------------------------
(***************************************************************************)
(* Proofs about sessions, their sandboxes and the lock, for any calls,     *)
(* owners, identities and pool.                                            *)
(*                                                                         *)
(* The pool's theorems are cited, not repeated: every step is a step of    *)
(* the pool's own module or leaves it alone.  Three arguments then share   *)
(* only the types.  Identity: whatever a call or a session has was         *)
(* provisioned before, who it is for is settled by then, and it came with  *)
(* the key, the entry or the request of the owner.  The lock: a step       *)
(* leaves the messages under way as they are, adds one whose session was   *)
(* free, or takes one out.  Lifetime: a sandbox is of one session at most; *)
(* and in a session whose calls never overlapped the entry, the one call   *)
(* under way and the sandboxes it was given account for each other.        *)
(***************************************************************************)
EXTENDS Workspace, TLAPS

PoolProofs == INSTANCE PrewarmPoolProofs

(* The pool's own inductive invariant.                                     *)
PoolInv == PoolProofs!IInv

CallTypes ==
    /\ DOMAIN sessions = Session /\ active \subseteq Session
    /\ req \in [Call -> Request \cup {None}]
    /\ stage \in [Call -> Stages]
    /\ held \in [Call -> Sandbox \cup {None}]
    /\ \A s \in Session : sessions[s] # None => sessions[s].handle \in Sandbox
    /\ \A c \in Call : stage[c] = "idle" <=> req[c] = None

(* A sandbox that has been provisioned: who it is for is settled.          *)
Born(x) == IF x \in Handle THEN box[x] = "up" ELSE req[x] # None

MayHold(c, x) ==
    /\ Born(x)
    /\ req[c] # None
    /\ req[c].id.owner = None \/ HomeOf(x).owner \in {None, req[c].id.owner}

Describes(entry) ==
    /\ Born(entry.handle)
    /\ entry.environment = HomeOf(entry.handle).environment
    /\ entry.profile = HomeOf(entry.handle).profile
    /\ entry.owner = HomeOf(entry.handle).owner

SandboxInv ==
    /\ \A c \in Call : held[c] # None => MayHold(c, held[c])
    /\ \A s \in Session : sessions[s] # None => Describes(sessions[s])

WInv == PoolInv /\ CallTypes /\ SandboxInv /\ LockIsExact
-----------------------------------------------------------------------------
(* A pool step, or a claim, changes the identity of no sandbox that is up. *)
UpKept == \A h \in Handle : box[h] = "up" => box'[h] = "up" /\ home'[h] = home[h]
ReqKept == \A c \in Call : req[c] # None => req'[c] = req[c]

LEMMA RequestFields == ASSUME NEW r \in Request
    PROVE  /\ r.session \in Session /\ r.kind \in {"warm", "message"} /\ r # None
           /\ ClaimId(r) \in Identity
           /\ ClaimId(r).owner = r.id.owner /\ ClaimId(r).environment = r.id.environment
           /\ ClaimId(r).profile = r.id.profile
<1>1. r.session \in Session /\ r.kind \in {"warm", "message"} /\ r # None /\ ClaimId(r) \in Identity
  BY RequestAssumption, SandboxAssumption
<1> QED
  BY <1>1 DEF ClaimId

(* Both instances of PrewarmPool say the same, and what it assumes holds.  *)
LEMMA PoolPremises ==
    /\ PoolProofs!IsFiniteSet(Target) /\ PoolProofs!IsFiniteSet(Handle)
    /\ \A id \in Identity : PoolProofs!Sources(id.source)
<1>1. PoolProofs!IsFiniteSet(Target) /\ PoolProofs!IsFiniteSet(Handle)
  BY PoolAssumption DEF PoolProofs!IsFiniteSet, IsFiniteSet
<1>2. \A id \in Identity : PoolProofs!Sources(id.source)
  BY PoolAssumption DEF PoolProofs!Sources, Pool!Sources
<1> QED
  BY <1>1, <1>2

LEMMA SameKey == ASSUME NEW id PROVE Pool!prewarmKey(id) = PoolProofs!prewarmKey(id)
  BY DEF Pool!prewarmKey, PoolProofs!prewarmKey,
         Pool!sourceFingerprint, PoolProofs!sourceFingerprint

LEMMA SameKeys == Pool!Key = PoolProofs!Key
  BY SameKey DEF Pool!Key, PoolProofs!Key

LEMMA SameInit == Pool!Init => PoolProofs!Init
  BY SameKeys DEF Pool!Init, PoolProofs!Init

LEMMA SameEnsure == ASSUME NEW id, NEW t, Pool!Ensure(id, t) PROVE PoolProofs!Ensure(id, t)
<1>1. ASSUME NEW S PROVE Pool!Cardinality(S) = PoolProofs!Cardinality(S)
  BY Zenon DEF Pool!Cardinality, PoolProofs!Cardinality
<1> QED
  BY SameKey, <1>1, Zenon
  DEF Pool!Ensure, PoolProofs!Ensure, Pool!Shortfall, PoolProofs!Shortfall

LEMMA SameProvision ==
    ASSUME NEW h
    PROVE  /\ Pool!ProvisionOk(h) => PoolProofs!ProvisionOk(h)
           /\ Pool!ProvisionFail(h) => PoolProofs!ProvisionFail(h)
<1>1. ASSUME NEW k, Pool!CountDown(k) PROVE PoolProofs!CountDown(k)
  BY <1>1 DEF Pool!CountDown, PoolProofs!CountDown
<1>2. Pool!ProvisionOk(h) => PoolProofs!ProvisionOk(h)
  BY SameKey, <1>1 DEF Pool!ProvisionOk, PoolProofs!ProvisionOk
<1>3. Pool!ProvisionFail(h) => PoolProofs!ProvisionFail(h)
  BY SameKey, <1>1 DEF Pool!ProvisionFail, PoolProofs!ProvisionFail
<1> QED
  BY <1>2, <1>3

LEMMA SameEvict == ASSUME NEW h, Pool!Evict(h) PROVE PoolProofs!Evict(h)
  BY SameKey DEF Pool!Evict, PoolProofs!Evict, Pool!RemoveAt, PoolProofs!RemoveAt

LEMMA SameClaim == ASSUME NEW id, NEW h, Pool!Claim(id, h) PROVE PoolProofs!Claim(id, h)
  BY SameKey DEF Pool!Claim, PoolProofs!Claim

(* What this module does with the pool the pool allows.                    *)
LEMMA PoolStepped ==
    ASSUME PoolInv, [PoolProofs!Next]_(PoolProofs!poolVars)
    PROVE  PoolInv'
  BY PoolPremises, PoolAssumption, PoolProofs!NextIInv DEF PoolInv

LEMMA Claimed ==
    ASSUME PoolInv, NEW r \in Request, NEW h \in Handle, Pool!Claim(ClaimId(r), h)
    PROVE  /\ PoolInv' /\ UpKept /\ box' = box /\ home' = home
           /\ box[h] = "up" /\ tenant[h] = None /\ ClaimId(r) # None
           /\ tenant' = [tenant EXCEPT ![h] = ClaimId(r)]
           /\ home[h].owner = r.id.owner /\ home[h].environment = r.id.environment
           /\ home[h].profile = r.id.profile
<1> DEFINE k == PoolProofs!prewarmKey(ClaimId(r))
<1>1. ClaimId(r) \in Identity /\ ClaimId(r) # None
  BY RequestFields, PoolAssumption
<1>2. PoolProofs!Claim(ClaimId(r), h)
  BY SameClaim
<1>3. k \in PoolProofs!Key
  BY <1>1 DEF PoolProofs!Key
<1>4. /\ ready[k] # <<>> /\ h = Head(ready[k])
      /\ box' = box /\ home' = home /\ tenant' = [tenant EXCEPT ![h] = ClaimId(r)]
  BY <1>2 DEF PoolProofs!Claim
<1>5. ready[k] \in Seq(Handle)
  BY <1>3 DEF PoolInv, PoolProofs!IInv, PoolProofs!TypeOK
<1>6. PoolInv'
  BY <1>1, <1>2, PoolStepped DEF PoolProofs!Next
<1>7. UpKept
  BY <1>4 DEF UpKept
<1> HIDE DEF k
<1>8. 1 \in 1..Len(ready[k]) /\ h = ready[k][1]
  BY <1>4, <1>5
<1>9. PoolProofs!FreeHandle(h, k)
  BY <1>3, <1>8 DEF PoolInv, PoolProofs!IInv, PoolProofs!ListsHoldFree
<1>10. /\ home[h].owner = ClaimId(r).owner /\ home[h].environment = ClaimId(r).environment
       /\ home[h].profile = ClaimId(r).profile
  BY <1>9 DEF PoolProofs!FreeHandle, PoolProofs!prewarmKey, k
<1> QED
  BY <1>1, <1>4, <1>6, <1>7, <1>9, <1>10, RequestFields DEF PoolProofs!FreeHandle

LEMMA PoolStepPool == ASSUME PoolInv, PoolStep
    PROVE  PoolInv' /\ UpKept /\ tenant' = tenant
<1>1. CASE \E id \in Opened, t \in Target : Pool!Ensure(id, t)
  <2>1. PICK id \in Opened, t \in Target : PoolProofs!Ensure(id, t)
    BY <1>1, SameEnsure
  <2>2. UpKept /\ tenant' = tenant
    BY <2>1 DEF UpKept, PoolProofs!Ensure
  <2>3. PoolProofs!Next
    BY <2>1, OpenedAssumption DEF PoolProofs!Next
  <2> QED
    BY <2>2, <2>3, PoolStepped
<1>2. CASE \E h \in Handle : Pool!ProvisionOk(h) \/ Pool!ProvisionFail(h)
  <2>1. PICK h \in Handle : PoolProofs!ProvisionOk(h) \/ PoolProofs!ProvisionFail(h)
    BY <1>2, SameProvision
  <2>2. UpKept /\ tenant' = tenant
    BY <2>1
    DEF UpKept, PoolProofs!ProvisionOk, PoolProofs!ProvisionFail,
        PoolInv, PoolProofs!IInv, PoolProofs!TypeOK
  <2>3. PoolProofs!Next
    BY <2>1 DEF PoolProofs!Next
  <2> QED
    BY <2>2, <2>3, PoolStepped
<1>3. CASE \E h \in Handle : Pool!Evict(h)
  <2>1. PICK h \in Handle : PoolProofs!Evict(h)
    BY <1>3, SameEvict
  <2>2. UpKept /\ tenant' = tenant
    BY <2>1 DEF UpKept, PoolProofs!Evict
  <2>3. PoolProofs!Next
    BY <2>1 DEF PoolProofs!Next
  <2> QED
    BY <2>2, <2>3, PoolStepped
<1> QED
  BY <1>1, <1>2, <1>3 DEF PoolStep
-----------------------------------------------------------------------------
(* The sandboxes.  What is born keeps its identity.                        *)
LEMMA BornStays ==
    ASSUME UpKept, ReqKept, NEW x \in Sandbox, Born(x)
    PROVE  Born(x)' /\ HomeOf(x)' = HomeOf(x)
<1>1. CASE x \in Handle
  BY <1>1 DEF Born, HomeOf, UpKept
<1>2. CASE x \notin Handle
  <2>1. x \in Call
    BY <1>2 DEF Sandbox
  <2> QED
    BY <1>2, <2>1 DEF Born, HomeOf, ReqKept
<1> QED
  BY <1>1, <1>2

LEMMA SandboxStep ==
    ASSUME CallTypes, SandboxInv, UpKept, ReqKept,
           DOMAIN sessions' = Session,
           \A c \in Call : held'[c] = held[c] \/ MayHold(c, held[c])',
           \A s \in Session : sessions'[s] \in {None, sessions[s]} \/ Describes(sessions[s])'
    PROVE  SandboxInv'
<1>1. ASSUME NEW c \in Call, held'[c] # None PROVE MayHold(c, held[c])'
  <2>1. CASE held'[c] = held[c]
    <3>1. held[c] \in Sandbox /\ MayHold(c, held[c])
      BY <1>1, <2>1 DEF CallTypes, SandboxInv
    <3>2. Born(held[c])' /\ HomeOf(held[c])' = HomeOf(held[c]) /\ req'[c] = req[c]
      BY <2>1, <3>1, BornStays DEF MayHold, ReqKept
    <3> QED
      BY <2>1, <3>1, <3>2 DEF MayHold
  <2> QED
    BY <1>1, <2>1
<1>2. ASSUME NEW s \in Session, sessions'[s] # None PROVE Describes(sessions[s])'
  <2>1. CASE sessions'[s] = sessions[s]
    <3>1. sessions[s].handle \in Sandbox /\ Describes(sessions[s])
      BY <1>2, <2>1 DEF CallTypes, SandboxInv
    <3>2. Born(sessions[s].handle)' /\ HomeOf(sessions[s].handle)' = HomeOf(sessions[s].handle)
      BY <2>1, <3>1, BornStays DEF Describes
    <3> QED
      BY <2>1, <3>1, <3>2 DEF Describes
  <2> QED
    BY <1>2, <2>1
<1> QED
  BY <1>1, <1>2 DEF SandboxInv

(* A sandbox that is given to a call and registered for its session.       *)
LEMMA Handed ==
    ASSUME CallTypes, SandboxInv, UpKept, ReqKept,
           NEW c \in Call, NEW r \in Request, NEW x \in Sandbox, req'[c] = r,
           Born(x)', HomeOf(x)'.owner = r.id.owner,
           HomeOf(x)'.environment = r.id.environment, HomeOf(x)'.profile = r.id.profile,
           Register(r, x), Serve(c, r.kind, x)
    PROVE  /\ SandboxInv'
           /\ DOMAIN sessions' = Session /\ held' \in [Call -> Sandbox \cup {None}]
           /\ \A s \in Session : sessions'[s] # None => sessions'[s].handle \in Sandbox
<1> DEFINE entry == [handle |-> x, environment |-> r.id.environment,
                     profile |-> r.id.profile, owner |-> r.id.owner]
<1>1. r.session \in Session /\ r # None
  BY RequestFields
<1>2. /\ sessions' = [sessions EXCEPT ![r.session] = entry]
      /\ held' = [held EXCEPT ![c] = x]
  BY DEF Register, Serve
<1>3. Describes(entry)'
  BY DEF Describes
<1>4. entry.handle = x
  OBVIOUS
<1> HIDE DEF entry
<1>5. DOMAIN sessions' = Session /\ held' \in [Call -> Sandbox \cup {None}]
      /\ sessions'[r.session] = entry /\ held'[c] = x
      /\ \A s \in Session \ {r.session} : sessions'[s] = sessions[s]
  BY <1>1, <1>2 DEF CallTypes
<1>9. \A d \in Call : d # c => held'[d] = held[d]
  BY <1>2 DEF CallTypes
<1>6. \A s \in Session : sessions'[s] \in {None, sessions[s]} \/ Describes(sessions[s])'
  <2> SUFFICES ASSUME NEW s \in Session
               PROVE  sessions'[s] \in {None, sessions[s]} \/ Describes(sessions[s])'
    OBVIOUS
  <2>1. CASE s = r.session
    <3>1. sessions'[s] = entry
      BY <1>5, <2>1
    <3>2. Describes(sessions[s])' <=> Describes(entry)'
      BY <3>1 DEF Describes, entry
    <3> QED
      BY <1>3, <3>2
  <2> QED
    BY <1>5, <2>1
<1>7. \A d \in Call : held'[d] = held[d] \/ MayHold(d, held[d])'
  <2>1. MayHold(c, x)'
    BY <1>1 DEF MayHold
  <2>2. MayHold(c, held[c])' <=> MayHold(c, x)'
    BY <1>5 DEF MayHold
  <2>3. ASSUME NEW d \in Call PROVE held'[d] = held[d] \/ MayHold(d, held[d])'
    <3>1. CASE d = c
      BY <2>1, <2>2, <3>1
    <3>2. CASE d # c
      <4>1. held'[d] = held[d]
        BY <1>9, <3>2
      <4> QED
        BY <4>1
    <3> QED
      BY <3>1, <3>2
  <2> QED
    BY <2>3
<1>8. SandboxInv'
  BY <1>5, <1>6, <1>7, SandboxStep
<1> QED
  BY <1>4, <1>5, <1>8 DEF CallTypes
-----------------------------------------------------------------------------
(* The lock.                                                               *)
Live == {c \in Call : InFlight(c) /\ req[c].kind = "message"}

LEMMA LockKept ==
    ASSUME LockIsExact, active' = active, Live' = Live,
           \A c \in Live : req'[c] = req[c]
    PROVE  LockIsExact'
  BY DEF LockIsExact, Live

LEMMA LockTaken ==
    ASSUME LockIsExact, NEW c \in Call, c \notin Live, Live' = Live \cup {c},
           \A d \in Live : req'[d] = req[d],
           req'[c].session \notin active, active' = active \cup {req'[c].session}
    PROVE  LockIsExact'
  BY DEF LockIsExact, Live

LEMMA LockFreed ==
    ASSUME LockIsExact, NEW c \in Live, Live' = Live \ {c}, req' = req,
           active' = active \ {req[c].session}
    PROVE  LockIsExact'
  BY DEF LockIsExact, Live

Busy == {"switching", "provisioning", "running", "unwinding"}

(* An arrival: the call was idle.                                          *)
LEMMA ArrivalLock ==
    ASSUME CallTypes, LockIsExact, NEW c \in Call, NEW r \in Request, NEW to \in Stages,
           Arrive(c, r), stage' = [stage EXCEPT ![c] = to],
           r.kind = "message" => to \in Busy
    PROVE  LockIsExact'
<1>1. /\ stage[c] = "idle" /\ req' = [req EXCEPT ![c] = r]
      /\ r.kind = "message" => r.session \notin active
      /\ active' = IF r.kind = "message" THEN active \cup {r.session} ELSE active
  BY DEF Arrive, IsNext
<1>2. c \notin Live
  BY <1>1 DEF Live, InFlight
<1>3. /\ req'[c] = r /\ stage'[c] = to
      /\ \A d \in Call \ {c} : req'[d] = req[d] /\ stage'[d] = stage[d]
  BY <1>1 DEF CallTypes
<1>4. \A d \in Live : req'[d] = req[d]
  BY <1>2, <1>3 DEF Live
<1>5. CASE r.kind = "message"
  <2>1. Live' = Live \cup {c}
    BY <1>3, <1>5 DEF Live, InFlight, Busy
  <2> QED
    BY <1>1, <1>2, <1>3, <1>4, <1>5, <2>1, LockTaken
<1>6. CASE r.kind # "message"
  <2>1. Live' = Live
    BY <1>2, <1>3, <1>6 DEF Live, InFlight
  <2> QED
    BY <1>1, <1>4, <1>6, <2>1, LockKept
<1> QED
  BY <1>5, <1>6

(* A step of a call under way that leaves the lock as it is.               *)
LEMMA MoveLock ==
    ASSUME CallTypes, LockIsExact, NEW c \in Call, NEW to \in Stages,
           stage[c] \in Busy, stage' = [stage EXCEPT ![c] = to],
           req' = req, active' = active, req[c].kind = "message" => to \in Busy
    PROVE  LockIsExact'
<1>1. stage'[c] = to /\ \A d \in Call \ {c} : stage'[d] = stage[d]
  BY DEF CallTypes
<1>2. Live' = Live
  BY <1>1 DEF Live, InFlight, Busy
<1> QED
  BY <1>2, LockKept
-----------------------------------------------------------------------------
(* Whose a sandbox is, and whether it is up.  A sandbox is fresh until the *)
(* pool hands it out or the call that provisions it has it.                *)
Fresh(x) == IF x \in Handle THEN tenant[x] = None
            ELSE stage[x] \in {"idle", "switching", "provisioning"}
Entry(s, x) == sessions[s] # None /\ sessions[s].handle = x
Of(c, s) == req[c] # None /\ req[c].session = s

(* A sandbox is registered for one session, and held by calls of it only;  *)
(* a fresh one for none, by none.                                          *)
Apart ==
    /\ ended \in [Sandbox -> Nat]
    /\ \A c \in Call : held[c] # None => stage[c] \in {"running", "done"}
    /\ \A s, t \in Session, x \in Sandbox : Entry(s, x) /\ Entry(t, x) => s = t
    /\ \A s \in Session, c \in Call : held[c] # None /\ Entry(s, held[c]) => Of(c, s)
    /\ \A x \in Sandbox : Fresh(x) =>
        /\ ended[x] = 0
        /\ \A c \in Call : held[c] # x
        /\ \A s \in Session : ~Entry(s, x)

(* A session whose calls did not get in each other's way: one of them at   *)
(* most is between the awaits; the entry's sandbox is up, unless it is     *)
(* being switched, and gone when another is being provisioned; a run works *)
(* in that sandbox, and every other that a call ever had is destroyed.     *)
Calm(s) ==
    /\ \A c, d \in Waiting(s) : c = d
    /\ sessions[s] # None =>
        \A c \in Call : Of(c, s) => stage[c] # "provisioning"
    /\ sessions[s] # None =>
        (ended[sessions[s].handle] = 0 <=> \A c \in Call : Of(c, s) => stage[c] # "switching")
    /\ \A c \in Using(s) : held[c] # None /\ Entry(s, held[c]) /\ ended[held[c]] = 0
    /\ \A c \in Call : Of(c, s) /\ held[c] # None => ended[held[c]] > 0 \/ Entry(s, held[c])

CalmInv == \A s \in Session : s \in crossed \/ Calm(s)

(* A call that a step leaves alone, or that gets out of the way: turned    *)
(* away, thrown, over.                                                     *)
Stays(c) == stage'[c] = stage[c] /\ held'[c] = held[c] /\ req'[c] = req[c]
Leaves(c, s) ==
    /\ stage[c] # "switching" /\ stage'[c] \notin {"switching", "provisioning", "running"}
    /\ held'[c] = held[c] /\ (held[c] # None => req'[c] = req[c])

LEMMA CalmStays ==
    ASSUME CallTypes, CallTypes', NEW s \in Session, Calm(s),
           sessions'[s] = sessions[s],
           \A c \in Call : \/ Stays(c) \/ Leaves(c, s)
                           \/ ~Of(c, s) /\ ~Of(c, s)',
           \A x \in Sandbox : ended[x] > 0 => ended'[x] > 0,
           sessions[s] # None => ended'[sessions[s].handle] = ended[sessions[s].handle]
    PROVE  Calm(s)'
<1>1. \A c \in Call : stage[c] # "idle" => req[c] # None
  BY DEF CallTypes
<1>2. \A c \in Call : stage'[c] # "idle" => req'[c] # None
  BY DEF CallTypes
<1>3. Waiting(s)' \subseteq Waiting(s) /\ Using(s)' \subseteq Using(s)
  BY <1>1, <1>2 DEF Waiting, Using, Stays, Leaves, Of
<1>4. ASSUME NEW c \in Call, sessions[s] # None
      PROVE  /\ Of(c, s)' /\ stage'[c] = "provisioning" => Of(c, s) /\ stage[c] = "provisioning"
             /\ Of(c, s)' /\ stage'[c] = "switching" <=> Of(c, s) /\ stage[c] = "switching"
  BY <1>1, <1>2 DEF Stays, Leaves, Of
<1>5. ASSUME NEW c \in Using(s)'
      PROVE  held'[c] # None /\ Entry(s, held[c])' /\ ended'[held'[c]] = 0
  <2>1. c \in Using(s) /\ c \in Call /\ held'[c] = held[c]
    BY <1>2, <1>3 DEF Using, Stays, Leaves, Of
  <2> QED
    BY <2>1 DEF Calm, Entry
<1>6. ASSUME NEW c \in Call, Of(c, s)', held'[c] # None
      PROVE  ended'[held'[c]] > 0 \/ Entry(s, held[c])'
  <2>1. Of(c, s) /\ held'[c] = held[c] /\ held[c] \in Sandbox
    BY <1>6 DEF Stays, Leaves, Of, CallTypes
  <2> QED
    BY <1>6, <2>1 DEF Calm, Entry
<1> QED
  BY <1>3, <1>4, <1>5, <1>6 DEF Calm

(* A step that registers no sandbox anew.                                  *)
LEMMA ApartStays ==
    ASSUME CallTypes, CallTypes', Apart, ReqKept,
           \A s \in Session : sessions'[s] \in {None, sessions[s]},
           \A c \in Call :
              \/ held'[c] = held[c] /\ (stage'[c] = stage[c] \/ stage'[c] = "done" \/ held[c] = None)
              \/ /\ stage'[c] \in {"running", "done"}
                 /\ \E s \in Session : Of(c, s)' /\ Entry(s, held'[c]),
           \A x \in Sandbox : Fresh(x)' => Fresh(x),
           ended' \in [Sandbox -> Nat], \A x \in Sandbox : Fresh(x) => ended'[x] = ended[x]
    PROVE  Apart'
<1>1. \A s \in Session, x \in Sandbox : Entry(s, x)' => Entry(s, x)
  BY DEF Entry
<1>2. \A c \in Call, s \in Session : Of(c, s) => Of(c, s)'
  BY SandboxAssumption DEF Of, ReqKept
<1>3. \A c \in Call : held'[c] # None => stage'[c] \in {"running", "done"}
  BY DEF Apart
<1>4. \A s, t \in Session, x \in Sandbox : Entry(s, x)' /\ Entry(t, x)' => s = t
  BY <1>1 DEF Apart
<1>5. ASSUME NEW s \in Session, NEW c \in Call, held'[c] # None, Entry(s, held[c])'
      PROVE  Of(c, s)'
  <2>1. held'[c] \in Sandbox
    BY <1>5 DEF CallTypes
  <2>2. Entry(s, held'[c])
    BY <1>1, <1>5, <2>1 DEF Entry
  <2>3. CASE held'[c] = held[c]
    BY <1>2, <1>5, <2>2, <2>3 DEF Apart
  <2>4. CASE \E t \in Session : Of(c, t)' /\ Entry(t, held'[c])
    BY <2>1, <2>2, <2>4 DEF Apart
  <2> QED
    BY <2>3, <2>4
<1>6. ASSUME NEW x \in Sandbox, Fresh(x)'
      PROVE  ended'[x] = 0 /\ (\A c \in Call : held'[c] # x) /\ \A s \in Session : ~Entry(s, x)'
  <2>1. Fresh(x)
    BY <1>6
  <2>2. /\ ended[x] = 0 /\ \A c \in Call : held[c] # x
        /\ \A s \in Session : ~Entry(s, x)
    BY <2>1 DEF Apart
  <2>3. \A c \in Call : held'[c] # x
    BY <2>2
  <2> QED
    BY <1>1, <2>1, <2>2, <2>3
<1> QED
  BY <1>3, <1>4, <1>5, <1>6 DEF Apart

LEMMA EntryIsSome ==
    ASSUME NEW r \in Request, NEW x \in Sandbox
    PROVE  [handle |-> x, environment |-> r.id.environment,
            profile |-> r.id.profile, owner |-> r.id.owner] # None
<1>1. /\ ClaimId(r) \in Identity /\ ClaimId(r).owner = r.id.owner
      /\ ClaimId(r).environment = r.id.environment /\ ClaimId(r).profile = r.id.profile
  BY RequestFields
<1> QED
  BY <1>1, SandboxAssumption DEF SessionState

(* A step that gives call c a sandbox that nobody had.                     *)
LEMMA ApartServed ==
    ASSUME CallTypes, CallTypes', Apart, ReqKept,
           NEW c \in Call, NEW r \in Request, NEW x \in Sandbox,
           Fresh(x), ~Fresh(x)', \A y \in Sandbox : Fresh(y)' => Fresh(y),
           req'[c] = r, Register(r, x), Serve(c, r.kind, x), ended' = ended
    PROVE  Apart'
<1> DEFINE entry == [handle |-> x, environment |-> r.id.environment,
                     profile |-> r.id.profile, owner |-> r.id.owner]
<1>1. r.session \in Session /\ r # None
  BY RequestFields
<1>2. /\ held'[c] = x /\ stage'[c] \in {"running", "done"}
      /\ \A d \in Call \ {c} : held'[d] = held[d] /\ stage'[d] = stage[d]
      /\ sessions'[r.session] = entry
      /\ \A s \in Session \ {r.session} : sessions'[s] = sessions[s]
  BY <1>1 DEF CallTypes, Register, Serve
<1>3. entry.handle = x /\ entry # None
  BY EntryIsSome
<1> HIDE DEF entry
<1>4. /\ \A y \in Sandbox : Entry(r.session, y)' => y = x
      /\ \A s \in Session \ {r.session}, y \in Sandbox : Entry(s, y)' <=> Entry(s, y)
  BY <1>2, <1>3 DEF Entry
<1>5. \A d \in Call, s \in Session : Of(d, s) => Of(d, s)'
  BY DEF Of, ReqKept
<1>6. \A d \in Call : held[d] # x
  BY DEF Apart
<1>7. \A s \in Session : ~Entry(s, x)
  BY DEF Apart
<1>8. \A d \in Call : held'[d] # None => stage'[d] \in {"running", "done"}
  BY <1>2 DEF Apart
<1>9. \A s, t \in Session, y \in Sandbox : Entry(s, y)' /\ Entry(t, y)' => s = t
  BY <1>4, <1>7 DEF Apart
<1>10. ASSUME NEW s \in Session, NEW d \in Call, held'[d] # None, Entry(s, held[d])'
       PROVE  Of(d, s)'
  <2>1. held'[d] \in Sandbox
    BY <1>10 DEF CallTypes
  <2>2. CASE d = c
    <3>1. s = r.session
      BY <1>2, <1>4, <1>7, <1>10, <2>2 DEF Entry
    <3> QED
      BY <1>1, <2>2, <3>1 DEF Of
  <2>3. CASE d # c
    <3>1. held'[d] = held[d] /\ held[d] # x
      BY <1>2, <1>6, <2>3
    <3>2. s # r.session
      BY <1>4, <1>10, <2>1, <3>1 DEF Entry
    <3>3. Entry(s, held[d])
      BY <1>4, <1>10, <2>1, <3>1, <3>2 DEF Entry
    <3> QED
      BY <1>5, <1>10, <3>1, <3>3 DEF Apart
  <2> QED
    BY <2>2, <2>3
<1>11. ASSUME NEW y \in Sandbox, Fresh(y)'
       PROVE  ended'[y] = 0 /\ (\A d \in Call : held'[d] # y) /\ \A s \in Session : ~Entry(s, y)'
  <2>1. Fresh(y) /\ y # x
    BY <1>11
  <2>2. /\ ended[y] = 0 /\ \A d \in Call : held[d] # y
        /\ \A s \in Session : ~Entry(s, y)
    BY <2>1 DEF Apart
  <2> QED
    BY <1>2, <1>4, <2>1, <2>2
<1> QED
  BY <1>8, <1>9, <1>10, <1>11 DEF Apart

(* ... and the session it is for stays calm, if nobody else of it waits    *)
(* and what it had before is gone.                                         *)
LEMMA CalmServed ==
    ASSUME CallTypes, CallTypes', Apart, ReqKept,
           NEW c \in Call, NEW r \in Request, NEW x \in Sandbox,
           Fresh(x), req'[c] = r, Register(r, x), Serve(c, r.kind, x), ended' = ended,
           \A d \in Call \ {c} : Stays(d),
           Calm(r.session), Waiting(r.session) \subseteq {c},
           sessions[r.session] # None => ended[sessions[r.session].handle] > 0
    PROVE  Calm(r.session)'
<1> DEFINE s == r.session
           entry == [handle |-> x, environment |-> r.id.environment,
                     profile |-> r.id.profile, owner |-> r.id.owner]
<1>1. s \in Session /\ r # None
  BY RequestFields
<1>2. /\ held'[c] = x /\ stage'[c] \in {"running", "done"}
      /\ sessions'[s] = entry
  BY <1>1 DEF CallTypes, Register, Serve
<1>3. x # None /\ ended[x] = 0
  BY SandboxAssumption DEF Apart
<1>4. Entry(s, x)'
  BY <1>2, EntryIsSome DEF Entry
<1> HIDE DEF entry
<1>5. \A d \in Call : stage[d] # "idle" => req[d] # None
  BY DEF CallTypes
<1>6. Using(s) = {}
  <2> SUFFICES ASSUME NEW d \in Using(s) PROVE FALSE
    OBVIOUS
  <2>1. held[d] # None /\ Entry(s, held[d]) /\ ended[held[d]] = 0
    BY DEF Calm
  <2> QED
    BY <2>1 DEF Entry
<1>7. ASSUME NEW d \in Call, Of(d, s)'
      PROVE  stage'[d] \notin {"switching", "provisioning"}
  <2>1. CASE d = c
    BY <1>2, <2>1
  <2>2. CASE d # c
    BY <1>7, <2>2 DEF Stays, Waiting, Of
  <2> QED
    BY <2>1, <2>2
<1>8. Waiting(s)' = {}
  BY <1>7 DEF Waiting, Of, CallTypes
<1>9. Using(s)' \subseteq {c}
  BY <1>5, <1>6 DEF Using, Stays
<1>10. ASSUME NEW d \in Call, Of(d, s)', held'[d] # None
       PROVE  ended'[held'[d]] > 0 \/ Entry(s, held[d])'
  <2>1. CASE d = c
    BY <1>2, <1>4, <2>1 DEF Entry
  <2>2. CASE d # c
    <3>1. Of(d, s) /\ held[d] # None /\ held'[d] = held[d]
      BY <1>10, <2>2 DEF Of, Stays
    <3>2. ended[held[d]] > 0 \/ Entry(s, held[d])
      BY <3>1 DEF Calm
    <3> QED
      BY <3>1, <3>2 DEF Entry
  <2> QED
    BY <2>1, <2>2
<1>11. sessions'[s].handle = x
  BY <1>4 DEF Entry
<1> QED
  BY <1>2, <1>3, <1>4, <1>7, <1>8, <1>9, <1>10, <1>11 DEF Calm, Entry
-----------------------------------------------------------------------------
LEMMA Still == ASSUME PoolInv, UNCHANGED poolVars
    PROVE  PoolInv' /\ UpKept /\ tenant' = tenant
  BY PoolStepped DEF poolVars, PoolProofs!poolVars, UpKept

LEMMA InitWInv == Init => WInv
<1> SUFFICES ASSUME Init PROVE WInv
  OBVIOUS
<1>1. PoolInv
  BY SameInit, PoolPremises, PoolAssumption, PoolProofs!InitIInv DEF Init, PoolInv
<1>2. CallTypes
  BY SandboxAssumption DEF Init, CallTypes, Stages
<1>3. SandboxInv
  BY DEF Init, SandboxInv
<1>4. LockIsExact
  BY DEF Init, LockIsExact, InFlight
<1> QED
  BY <1>1, <1>2, <1>3, <1>4 DEF WInv

(* Turned away: a busy session, or somebody else's.                        *)
LEMMA TurnedAwayWInv ==
    ASSUME WInv, NEW c \in Call, NEW r \in Request, Reject(c, r) \/ Deny(c, r)
    PROVE  WInv'
<1>1. PoolInv' /\ UpKept
  BY Still DEF WInv, Reject, Deny
<1>2. /\ CallTypes /\ SandboxInv /\ LockIsExact /\ stage[c] = "idle" /\ req[c] = None
      /\ r # None
      /\ req' = [req EXCEPT ![c] = r] /\ sessions' = sessions /\ held' = held
  BY RequestFields DEF WInv, Reject, Deny, Arrive, IsNext, CallTypes
<1>3. ReqKept
  BY <1>2 DEF ReqKept, CallTypes
<1>4. \E to \in {"rejected", "unwinding"} : stage' = [stage EXCEPT ![c] = to]
  BY DEF Reject, Deny
<1>5. active' \subseteq Session
  BY <1>2, RequestFields DEF Reject, Deny, Arrive, CallTypes
<1>6. CallTypes'
  BY <1>2, <1>4, <1>5 DEF CallTypes, Stages
<1>7. SandboxInv'
  BY <1>1, <1>2, <1>3, SandboxStep DEF CallTypes
<1>8. LockIsExact'
  <2>1. CASE Deny(c, r)
    <3>1. Arrive(c, r) /\ stage' = [stage EXCEPT ![c] = "unwinding"]
      BY <2>1 DEF Deny
    <3> QED
      BY <1>2, <3>1, ArrivalLock DEF Stages, Busy
  <2>2. CASE Reject(c, r)
    <3>1. stage' = [stage EXCEPT ![c] = "rejected"] /\ active' = active
      BY <2>2 DEF Reject
    <3>2. Live' = Live /\ \A d \in Live : req'[d] = req[d]
      BY <1>2, <3>1 DEF Live, InFlight, CallTypes
    <3> QED
      BY <1>2, <3>1, <3>2, LockKept
  <2> QED
    BY <2>1, <2>2
<1> QED
  BY <1>1, <1>6, <1>7, <1>8 DEF WInv

LEMMA ReuseWInv ==
    ASSUME WInv, NEW c \in Call, NEW r \in Request, Reuse(c, r)
    PROVE  WInv'
<1> DEFINE entry == sessions[r.session]
           to == IF r.kind = "message" THEN "running" ELSE "done"
<1>1. PoolInv' /\ UpKept
  BY Still DEF WInv, Reuse
<1>2. /\ CallTypes /\ SandboxInv /\ LockIsExact /\ stage[c] = "idle" /\ req[c] = None
      /\ r # None /\ r.session \in Session
      /\ Arrive(c, r) /\ req' = [req EXCEPT ![c] = r] /\ sessions' = sessions
      /\ held' = [held EXCEPT ![c] = entry.handle]
      /\ stage' = [stage EXCEPT ![c] = to]
      /\ entry # None /\ MayUse(entry, r.id.owner)
  BY RequestFields DEF WInv, Reuse, Serve, Arrive, IsNext, CallTypes
<1>3. ReqKept
  BY <1>2 DEF ReqKept, CallTypes
<1>4. entry.handle \in Sandbox /\ Describes(entry)
  BY <1>2 DEF CallTypes, SandboxInv
<1>5. Born(entry.handle)' /\ HomeOf(entry.handle)' = HomeOf(entry.handle)
  BY <1>1, <1>2, <1>3, <1>4, BornStays DEF Describes
<1>6. held'[c] = entry.handle /\ req'[c] = r /\ \A d \in Call \ {c} : held'[d] = held[d]
  BY <1>2 DEF CallTypes
<1>7. MayHold(c, held[c])'
  BY <1>2, <1>4, <1>5, <1>6 DEF MayHold, Describes, MayUse
<1>8. SandboxInv'
  BY <1>1, <1>2, <1>3, <1>6, <1>7, SandboxStep DEF CallTypes
<1>9. to \in Stages /\ (r.kind = "message" => to \in Busy)
  BY DEF Stages, Busy
<1>10. LockIsExact'
  BY <1>2, <1>9, ArrivalLock
<1>11. CallTypes'
  <2>1. active' \subseteq Session
    BY <1>2 DEF Arrive, CallTypes
  <2> QED
    BY <1>2, <1>4, <1>9, <2>1 DEF CallTypes
<1> QED
  BY <1>1, <1>8, <1>10, <1>11 DEF WInv

(* An arrival that goes on to wait.                                        *)
LEMMA WaitsWInv ==
    ASSUME WInv, NEW c \in Call, NEW r \in Request, Switch(c, r) \/ ColdStart(c, r)
    PROVE  WInv'
<1>1. PoolInv' /\ UpKept
  BY Still DEF WInv, Switch, ColdStart
<1>2. /\ CallTypes /\ SandboxInv /\ LockIsExact /\ req[c] = None /\ r # None
      /\ Arrive(c, r) /\ req' = [req EXCEPT ![c] = r] /\ sessions' = sessions /\ held' = held
  BY RequestFields DEF WInv, Switch, ColdStart, Arrive, IsNext, CallTypes
<1>3. ReqKept
  BY <1>2 DEF ReqKept, CallTypes
<1>4. PICK to \in {"switching", "provisioning"} : stage' = [stage EXCEPT ![c] = to]
  BY DEF Switch, ColdStart
<1>5. SandboxInv'
  BY <1>1, <1>2, <1>3, SandboxStep DEF CallTypes
<1>6. to \in Stages /\ to \in Busy
  BY DEF Stages, Busy
<1>7. LockIsExact'
  BY <1>2, <1>4, <1>6, ArrivalLock
<1>8. active' \subseteq Session
  BY <1>2, RequestFields DEF Arrive, CallTypes
<1>9. CallTypes'
  BY <1>2, <1>4, <1>6, <1>8 DEF CallTypes
<1> QED
  BY <1>1, <1>5, <1>7, <1>9 DEF WInv

LEMMA AdoptWInv ==
    ASSUME WInv, NEW c \in Call, NEW r \in Request, Adopt(c, r)
    PROVE  WInv'
<1> DEFINE to == IF r.kind = "message" THEN "running" ELSE "done"
<1>1. PICK h \in Handle : Pool!Claim(ClaimId(r), h) /\ Register(r, h) /\ Serve(c, r.kind, h)
  BY DEF Adopt, ClaimWarm
<1>2. /\ PoolInv' /\ UpKept /\ box' = box /\ home' = home /\ box[h] = "up"
      /\ home[h].owner = r.id.owner /\ home[h].environment = r.id.environment
      /\ home[h].profile = r.id.profile
  BY <1>1, Claimed DEF WInv
<1>3. /\ CallTypes /\ SandboxInv /\ LockIsExact /\ req[c] = None /\ r # None
      /\ Arrive(c, r) /\ req' = [req EXCEPT ![c] = r] /\ h \in Sandbox
  BY RequestFields DEF WInv, Adopt, Arrive, IsNext, CallTypes, Sandbox
<1>4. ReqKept /\ req'[c] = r
  BY <1>3 DEF ReqKept, CallTypes
<1>5. Born(h)' /\ HomeOf(h)' = home[h]
  BY <1>2 DEF Born, HomeOf
<1>6. /\ SandboxInv'
      /\ DOMAIN sessions' = Session /\ held' \in [Call -> Sandbox \cup {None}]
      /\ \A s \in Session : sessions'[s] # None => sessions'[s].handle \in Sandbox
  BY <1>1, <1>2, <1>3, <1>4, <1>5, Handed
<1>7. stage' = [stage EXCEPT ![c] = to] /\ to \in Stages /\ to # "idle"
      /\ (r.kind = "message" => to \in Busy)
  BY <1>1 DEF Serve, Stages, Busy
<1>8. LockIsExact'
  BY <1>3, <1>7, ArrivalLock
<1>9. active' \subseteq Session
  BY <1>3, RequestFields DEF Arrive, CallTypes
<1> HIDE DEF to
<1>10. CallTypes'
  BY <1>3, <1>6, <1>7, <1>9 DEF CallTypes
<1> QED
  BY <1>2, <1>6, <1>8, <1>10 DEF WInv

(* The end of a wait with a sandbox, warm or new.                          *)
LEMMA ServedWInv ==
    ASSUME WInv, NEW c \in Call, ResumeAdopt(c) \/ Provisioned(c)
    PROVE  WInv'
<1> DEFINE r == req[c]
           to == IF r.kind = "message" THEN "running" ELSE "done"
<1>1. /\ CallTypes /\ SandboxInv /\ LockIsExact /\ PoolInv
      /\ stage[c] \in Busy /\ r \in Request /\ req' = req /\ active' = active
  BY DEF WInv, CallTypes, ResumeAdopt, Provisioned, Busy
<1>2. PICK x \in Sandbox :
        /\ PoolInv' /\ UpKept
        /\ Register(r, x) /\ Serve(c, r.kind, x)
        /\ Born(x)' /\ HomeOf(x)'.owner = r.id.owner
        /\ HomeOf(x)'.environment = r.id.environment /\ HomeOf(x)'.profile = r.id.profile
  <2>1. CASE ResumeAdopt(c)
    <3>1. PICK h \in Handle : Pool!Claim(ClaimId(r), h) /\ Register(r, h) /\ Serve(c, r.kind, h)
      BY <2>1 DEF ResumeAdopt, ClaimWarm
    <3>2. /\ PoolInv' /\ UpKept /\ box' = box /\ home' = home /\ box[h] = "up"
          /\ home[h].owner = r.id.owner /\ home[h].environment = r.id.environment
          /\ home[h].profile = r.id.profile
      BY <1>1, <3>1, Claimed
    <3>3. Born(h)' /\ HomeOf(h)' = home[h] /\ h \in Sandbox
      BY <3>2 DEF Born, HomeOf, Sandbox
    <3> QED
      BY <3>1, <3>2, <3>3
  <2>2. CASE Provisioned(c)
    <3>1. PoolInv' /\ UpKept /\ Register(r, c) /\ Serve(c, r.kind, c)
      BY <1>1, <2>2, Still DEF Provisioned
    <3>2. c \notin Handle /\ c \in Sandbox /\ r # None
      BY <1>1, SandboxAssumption DEF Sandbox
    <3>3. Born(c)' /\ HomeOf(c)' = r.id
      BY <1>1, <3>2 DEF Born, HomeOf
    <3> QED
      BY <3>1, <3>2, <3>3
  <2> QED
    BY <2>1, <2>2
<1>3. ReqKept /\ req'[c] = r
  BY <1>1 DEF ReqKept
<1>4. /\ SandboxInv'
      /\ DOMAIN sessions' = Session /\ held' \in [Call -> Sandbox \cup {None}]
      /\ \A s \in Session : sessions'[s] # None => sessions'[s].handle \in Sandbox
  BY <1>1, <1>2, <1>3, Handed
<1>5. stage' = [stage EXCEPT ![c] = to] /\ to \in Stages /\ to # "idle"
      /\ (req[c].kind = "message" => to \in Busy)
  BY <1>2 DEF Serve, Stages, Busy
<1>6. LockIsExact'
  BY <1>1, <1>5, MoveLock
<1>7. req[c] # None
  BY <1>1, RequestFields
<1> HIDE DEF to
<1>8. CallTypes'
  BY <1>1, <1>4, <1>5, <1>7 DEF CallTypes
<1> QED
  BY <1>2, <1>4, <1>6, <1>8 DEF WInv

(* The steps that give nobody a sandbox.                                   *)
LEMMA ResumesWInv ==
    ASSUME WInv, NEW c \in Call, ResumeCold(c) \/ ProvisionThrew(c)
    PROVE  WInv'
<1>1. PoolInv' /\ UpKept
  BY Still DEF WInv, ResumeCold, ProvisionThrew
<1>2. /\ CallTypes /\ SandboxInv /\ LockIsExact /\ stage[c] \in Busy
      /\ req' = req /\ active' = active /\ held' = held
      /\ \A s \in Session : sessions'[s] \in {None, sessions[s]}
      /\ DOMAIN sessions' = Session
  BY DEF WInv, CallTypes, ResumeCold, ProvisionThrew, Busy
<1>3. PICK to \in {"provisioning", "unwinding"} : stage' = [stage EXCEPT ![c] = to]
  BY DEF ResumeCold, ProvisionThrew
<1>4. ReqKept /\ to \in Stages /\ to \in Busy
  BY <1>2 DEF ReqKept, Stages, Busy
<1>5. SandboxInv'
  BY <1>1, <1>2, <1>4, SandboxStep
<1>6. LockIsExact'
  BY <1>2, <1>3, <1>4, MoveLock
<1>7. stage[c] # "idle"
  BY <1>2 DEF Busy
<1>8. CallTypes'
  BY <1>2, <1>3, <1>4, <1>7 DEF CallTypes
<1> QED
  BY <1>1, <1>5, <1>6, <1>8 DEF WInv

LEMMA FinishWInv == ASSUME WInv, NEW c \in Call, Finish(c)
    PROVE  WInv'
<1> DEFINE to == IF stage[c] = "running" THEN "done" ELSE "failed"
<1>1. PoolInv' /\ UpKept
  BY Still DEF WInv, Finish
<1>2. /\ CallTypes /\ SandboxInv /\ LockIsExact /\ stage[c] \in {"running", "unwinding"}
      /\ sessions' = sessions /\ req' = req /\ held' = held
      /\ stage' = [stage EXCEPT ![c] = to] /\ to \in Stages /\ to \in {"done", "failed"}
      /\ active' = IF req[c].kind = "message" THEN active \ {req[c].session} ELSE active
  BY DEF WInv, Finish, Settled, Stages
<1> HIDE DEF to
<1>3. SandboxInv'
  BY <1>1, <1>2, SandboxStep DEF ReqKept, CallTypes
<1>4. CallTypes'
  BY <1>2 DEF CallTypes
<1>5. stage'[c] = to /\ \A d \in Call \ {c} : stage'[d] = stage[d]
  BY <1>2 DEF CallTypes
<1>6. LockIsExact'
  <2>1. CASE req[c].kind = "message"
    <3>1. c \in Live /\ Live' = Live \ {c}
      BY <1>2, <1>5, <2>1 DEF Live, InFlight
    <3> QED
      BY <1>2, <2>1, <3>1, LockFreed
  <2>2. CASE req[c].kind # "message"
    <3>1. Live' = Live
      BY <1>2, <1>5, <2>2 DEF Live, InFlight
    <3> QED
      BY <1>2, <2>2, <3>1, LockKept
  <2> QED
    BY <2>1, <2>2
<1> QED
  BY <1>1, <1>3, <1>4, <1>6 DEF WInv

LEMMA EndWInv == ASSUME WInv, NEW s \in Session, End(s)
    PROVE  WInv'
<1>1. PoolInv' /\ UpKept
  BY Still DEF WInv, End
<1>2. /\ CallTypes /\ SandboxInv /\ LockIsExact
      /\ sessions' = [sessions EXCEPT ![s] = None]
      /\ req' = req /\ stage' = stage /\ held' = held /\ active' = active
  BY DEF WInv, End
<1>3. SandboxInv'
  BY <1>1, <1>2, SandboxStep DEF ReqKept, CallTypes
<1>4. CallTypes'
  BY <1>2 DEF CallTypes
<1>5. LockIsExact'
  BY <1>2 DEF LockIsExact, InFlight
<1> QED
  BY <1>1, <1>3, <1>4, <1>5 DEF WInv

LEMMA PoolStepWInv == ASSUME WInv, PoolStep \/ UNCHANGED vars
    PROVE  WInv'
<1>1. PoolInv' /\ UpKept
  BY PoolStepPool, Still DEF WInv, vars
<1>2. /\ CallTypes /\ SandboxInv /\ LockIsExact
      /\ sessions' = sessions /\ active' = active /\ req' = req /\ stage' = stage /\ held' = held
  BY DEF WInv, PoolStep, callVars, vars
<1>3. SandboxInv'
  BY <1>1, <1>2, SandboxStep DEF ReqKept, CallTypes
<1>4. CallTypes'
  BY <1>2 DEF CallTypes
<1>5. LockIsExact'
  BY <1>2 DEF LockIsExact, InFlight
<1> QED
  BY <1>1, <1>3, <1>4, <1>5 DEF WInv

LEMMA NextWInv == WInv /\ [Next]_vars => WInv'
<1> SUFFICES ASSUME WInv, [Next]_vars PROVE WInv'
  OBVIOUS
<1>1. CASE \E c \in Call, r \in Request : Reject(c, r) \/ Deny(c, r)
  BY <1>1, TurnedAwayWInv
<1>2. CASE \E c \in Call, r \in Request : Reuse(c, r)
  BY <1>2, ReuseWInv
<1>3. CASE \E c \in Call, r \in Request : Switch(c, r) \/ ColdStart(c, r)
  BY <1>3, WaitsWInv
<1>4. CASE \E c \in Call, r \in Request : Adopt(c, r)
  BY <1>4, AdoptWInv
<1>5. CASE \E c \in Call : ResumeAdopt(c) \/ Provisioned(c)
  BY <1>5, ServedWInv
<1>6. CASE \E c \in Call : ResumeCold(c) \/ ProvisionThrew(c)
  BY <1>6, ResumesWInv
<1>7. CASE \E c \in Call : Finish(c)
  BY <1>7, FinishWInv
<1>8. CASE \E s \in Session : End(s)
  BY <1>8, EndWInv
<1>9. CASE PoolStep \/ UNCHANGED vars
  BY <1>9, PoolStepWInv
<1> QED
  BY <1>1, <1>2, <1>3, <1>4, <1>5, <1>6, <1>7, <1>8, <1>9 DEF Next

(* Whatever calls overlap during the awaits of ensureWorkspace, who holds  *)
(* a sandbox, what an entry says of it and who has the lock stay in step.  *)
THEOREM WorkspaceInvariance == Spec => []WInv
  BY InitWInv, NextWInv, PTL DEF Spec

(* No owner gets another owner's sandbox (assertOwner, the pool's key).    *)
THEOREM OwnersStayApart == Spec => []OwnersApart
<1>1. WInv => OwnersApart
  BY DEF WInv, SandboxInv, MayHold, OwnersApart
<1> QED
  BY <1>1, WorkspaceInvariance, PTL

(* A session's entry says what its sandbox was provisioned as.             *)
THEOREM EntriesAreTrue == Spec => []EntryDescribesSandbox
<1>1. WInv => EntryDescribesSandbox
  BY DEF WInv, SandboxInv, Describes, EntryDescribesSandbox
<1> QED
  BY <1>1, WorkspaceInvariance, PTL

(* The lock is held by the sessions with a message under way, one each:    *)
(* admit and the `finally` of runMessage pair up on every path.            *)
THEOREM LockPairsUp == Spec => []LockIsExact
<1>1. WInv => LockIsExact
  BY DEF WInv
<1> QED
  BY <1>1, WorkspaceInvariance, PTL
-----------------------------------------------------------------------------
XInv == Apart /\ CalmInv

LEMMA FreshOnly ==
    ASSUME tenant' = tenant,
           \A c \in Call : stage'[c] \in {"idle", "switching", "provisioning"} =>
                             stage[c] \in {"idle", "switching", "provisioning"}
    PROVE  \A x \in Sandbox : Fresh(x)' => Fresh(x)
  BY DEF Fresh, Sandbox

LEMMA InitXInv == Init => XInv
<1> SUFFICES ASSUME Init PROVE XInv
  OBVIOUS
<1>1. Apart
  <2>1. ended \in [Sandbox -> Nat] /\ \A x \in Sandbox : ended[x] = 0
    BY DEF Init
  <2>2. \A c \in Call : held[c] = None
    BY DEF Init
  <2>3. \A s \in Session : sessions[s] = None
    BY DEF Init
  <2>4. \A s \in Session, x \in Sandbox : ~Entry(s, x)
    BY <2>3 DEF Entry
  <2>5. \A x \in Sandbox : x # None
    BY SandboxAssumption
  <2>6. \A x \in Sandbox, c \in Call : held[c] # x
    BY <2>2, <2>5
  <2> QED
    BY <2>1, <2>2, <2>4, <2>6 DEF Apart
<1>2. CalmInv
  BY DEF Init, CalmInv, Calm, Waiting, Using
<1> QED
  BY <1>1, <1>2 DEF XInv

LEMMA TurnedAwayXInv ==
    ASSUME WInv, WInv', XInv, NEW c \in Call, NEW r \in Request, Reject(c, r) \/ Deny(c, r)
    PROVE  XInv'
<1>1. /\ CallTypes /\ CallTypes' /\ Apart /\ CalmInv /\ stage[c] = "idle" /\ req[c] = None
      /\ req' = [req EXCEPT ![c] = r] /\ sessions' = sessions /\ held' = held
      /\ ended' = ended /\ crossed' = crossed
  BY DEF WInv, XInv, Reject, Deny, Arrive, IsNext, CallTypes
<1>2. tenant' = tenant
  BY Still DEF WInv, Reject, Deny
<1>3. \E to \in {"rejected", "unwinding"} : stage' = [stage EXCEPT ![c] = to]
  BY DEF Reject, Deny
<1>4. /\ stage'[c] \in {"rejected", "unwinding"}
      /\ \A d \in Call \ {c} : stage'[d] = stage[d] /\ req'[d] = req[d]
      /\ held[c] = None
  BY <1>1, <1>3 DEF CallTypes, Apart
<1>5. ReqKept
  BY <1>1, <1>4 DEF ReqKept
<1>6. Apart'
  BY <1>1, <1>2, <1>4, <1>5, FreshOnly, ApartStays DEF Apart
<1>7. ASSUME NEW s \in Session, s \notin crossed' PROVE Calm(s)'
  <2>1. \A d \in Call : Stays(d) \/ Leaves(d, s)
    BY <1>1, <1>4 DEF Stays, Leaves
  <2> QED
    BY <1>1, <1>7, <2>1, CalmStays DEF CalmInv
<1> QED
  BY <1>6, <1>7 DEF XInv, CalmInv

LEMMA ReuseXInv ==
    ASSUME WInv, WInv', XInv, NEW c \in Call, NEW r \in Request, Reuse(c, r)
    PROVE  XInv'
<1> DEFINE x == sessions[r.session].handle
<1>1. /\ CallTypes /\ CallTypes' /\ Apart /\ CalmInv /\ stage[c] = "idle" /\ req[c] = None
      /\ req' = [req EXCEPT ![c] = r] /\ sessions' = sessions /\ ended' = ended
      /\ held' = [held EXCEPT ![c] = x]
      /\ sessions[r.session] # None
      /\ crossed' = IF Waiting(r.session) # {} THEN crossed \cup {r.session} ELSE crossed
      /\ r.session \in Session /\ r # None
  BY RequestFields DEF WInv, XInv, Reuse, Serve, CrossIf, Arrive, IsNext, CallTypes
<1>2. tenant' = tenant
  BY Still DEF WInv, Reuse
<1>3. \E to \in {"running", "done"} : stage' = [stage EXCEPT ![c] = to]
  BY DEF Reuse, Serve
<1>4. /\ stage'[c] \in {"running", "done"} /\ held'[c] = x /\ req'[c] = r /\ x \in Sandbox
      /\ \A d \in Call \ {c} : stage'[d] = stage[d] /\ req'[d] = req[d] /\ held'[d] = held[d]
      /\ \A d \in Call : stage[d] # "idle" => req[d] # None
  BY <1>1, <1>3 DEF CallTypes
<1>5. ReqKept /\ \A d \in Call \ {c} : Stays(d)
  BY <1>1, <1>4 DEF ReqKept, Stays
<1>6. Entry(r.session, x) /\ Of(c, r.session)'
  BY <1>1, <1>4 DEF Entry, Of
<1> HIDE DEF x
<1>7. Apart'
  BY <1>1, <1>2, <1>4, <1>5, <1>6, FreshOnly, ApartStays DEF Apart
<1>8. ASSUME NEW s \in Session, s \notin crossed' PROVE Calm(s)'
  <2>1. Calm(s)
    BY <1>1, <1>8 DEF CalmInv
  <2>2. CASE s # r.session
    <3>1. ~Of(c, s) /\ ~Of(c, s)'
      BY <1>1, <1>4, <2>2 DEF Of
    <3> QED
      BY <1>1, <1>5, <2>1, <3>1, CalmStays
  <2>3. CASE s = r.session
    <3>1. Waiting(s) = {}
      BY <1>1, <1>8, <2>3
    <3>2. \A d \in Call : Of(d, s) => stage[d] \notin {"switching", "provisioning"}
      BY <3>1 DEF Waiting, Of
    <3>3. ended[x] = 0 /\ Entry(s, x) /\ sessions[s].handle = x
      BY <1>6, <2>1, <2>3, <3>2 DEF Calm, Entry
    <3>4. \A d \in Call : Of(d, s)' => stage'[d] \notin {"switching", "provisioning"}
      BY <1>4, <3>2 DEF Of
    <3>5. Waiting(s)' = {} /\ Using(s)' \subseteq Using(s) \cup {c}
      BY <1>1, <1>4, <3>4 DEF Waiting, Using, Of, CallTypes
    <3>6. x # None
      BY <1>4, SandboxAssumption
    <3>7. ASSUME NEW d \in Call, Of(d, s)', held'[d] # None
          PROVE  ended'[held'[d]] > 0 \/ Entry(s, held[d])'
      <4>1. CASE d = c
        BY <1>1, <1>4, <3>3, <4>1 DEF Entry
      <4>2. CASE d # c
        BY <1>1, <1>4, <2>1, <3>7, <4>2 DEF Calm, Entry, Of
      <4> QED
        BY <4>1, <4>2
    <3>8. ASSUME NEW d \in Using(s)' PROVE held'[d] # None /\ Entry(s, held[d])' /\ ended'[held'[d]] = 0
      <4>1. CASE d = c
        BY <1>1, <1>4, <3>3, <3>6, <4>1 DEF Entry
      <4>2. CASE d # c
        <5>1. d \in Using(s) /\ d \in Call
          BY <3>5, <4>2 DEF Using
        <5> QED
          BY <1>1, <1>4, <2>1, <4>2, <5>1 DEF Calm, Entry
      <4> QED
        BY <4>1, <4>2
    <3> QED
      BY <1>1, <3>3, <3>4, <3>5, <3>7, <3>8 DEF Calm
  <2> QED
    BY <2>2, <2>3
<1> QED
  BY <1>7, <1>8 DEF XInv, CalmInv

LEMMA SwitchXInv ==
    ASSUME WInv, WInv', XInv, NEW c \in Call, NEW r \in Request, Switch(c, r)
    PROVE  XInv'
<1> DEFINE x == sessions[r.session].handle
<1>1. /\ CallTypes /\ CallTypes' /\ Apart /\ CalmInv /\ stage[c] = "idle" /\ req[c] = None
      /\ req' = [req EXCEPT ![c] = r] /\ sessions' = sessions /\ held' = held
      /\ stage' = [stage EXCEPT ![c] = "switching"]
      /\ ended' = [ended EXCEPT ![x] = @ + 1]
      /\ sessions[r.session] # None
      /\ crossed' = IF Waiting(r.session) \cup Using(r.session) # {}
                    THEN crossed \cup {r.session} ELSE crossed
      /\ r.session \in Session /\ r # None
  BY RequestFields DEF WInv, XInv, Switch, Destroy, CrossIf, Arrive, IsNext, CallTypes
<1>2. tenant' = tenant
  BY Still DEF WInv, Switch
<1>3. /\ stage'[c] = "switching" /\ req'[c] = r /\ held[c] = None /\ x \in Sandbox
      /\ \A d \in Call \ {c} : stage'[d] = stage[d] /\ req'[d] = req[d]
      /\ \A d \in Call : stage[d] # "idle" => req[d] # None
  BY <1>1 DEF CallTypes, Apart
<1>4. ReqKept /\ \A d \in Call \ {c} : Stays(d)
  BY <1>1, <1>3 DEF ReqKept, Stays
<1>5. Entry(r.session, x) /\ ~Fresh(x)
  BY <1>1, <1>3 DEF Entry, Apart
<1>6. /\ ended \in [Sandbox -> Nat] /\ ended' \in [Sandbox -> Nat] /\ ended'[x] > 0
      /\ \A y \in Sandbox \ {x} : ended'[y] = ended[y]
  BY <1>1, <1>3 DEF Apart
<1> HIDE DEF x
<1>7. Apart'
  BY <1>1, <1>2, <1>3, <1>4, <1>5, <1>6, FreshOnly, ApartStays DEF Apart
<1>8. ASSUME NEW s \in Session, s \notin crossed' PROVE Calm(s)'
  <2>1. Calm(s)
    BY <1>1, <1>8 DEF CalmInv
  <2>2. CASE s # r.session
    <3>1. ~Of(c, s) /\ ~Of(c, s)'
      BY <1>1, <1>3, <2>2 DEF Of
    <3>2. sessions[s] # None => sessions[s].handle \in Sandbox /\ sessions[s].handle # x
      BY <1>1, <1>3, <1>5, <2>2 DEF Apart, Entry, CallTypes
    <3>3. \A y \in Sandbox : ended[y] > 0 => ended'[y] > 0
      BY <1>6
    <3> QED
      BY <1>1, <1>4, <1>6, <2>1, <3>1, <3>2, <3>3, CalmStays
  <2>3. CASE s = r.session
    <3>1. Waiting(s) = {} /\ Using(s) = {}
      BY <1>1, <1>8, <2>3
    <3>2. /\ \A d \in Call \ {c} : Of(d, s)' => stage'[d] \notin {"switching", "provisioning"}
          /\ Waiting(s)' \subseteq {c} /\ Using(s)' = {}
      BY <1>1, <1>3, <3>1 DEF Waiting, Using, Of, CallTypes
    <3>3. sessions'[s].handle = x /\ Of(c, s)'
      BY <1>1, <1>3, <1>5, <2>3 DEF Entry, Of
    <3>4. ASSUME NEW d \in Call, Of(d, s)', held'[d] # None
          PROVE  ended'[held'[d]] > 0 \/ Entry(s, held[d])'
      <4>1. d # c /\ Of(d, s) /\ held'[d] = held[d] /\ held[d] \in Sandbox
        BY <1>1, <1>3, <3>4 DEF Of, CallTypes
      <4>2. ended[held[d]] > 0 \/ Entry(s, held[d])
        BY <2>1, <3>4, <4>1 DEF Calm
      <4> QED
        BY <1>1, <1>6, <4>1, <4>2 DEF Entry
    <3> QED
      BY <1>3, <1>6, <3>2, <3>3, <3>4 DEF Calm
  <2> QED
    BY <2>2, <2>3
<1> QED
  BY <1>7, <1>8 DEF XInv, CalmInv

LEMMA ColdStartXInv ==
    ASSUME WInv, WInv', XInv, NEW c \in Call, NEW r \in Request, ColdStart(c, r)
    PROVE  XInv'
<1>1. /\ CallTypes /\ CallTypes' /\ Apart /\ CalmInv /\ stage[c] = "idle" /\ req[c] = None
      /\ req' = [req EXCEPT ![c] = r] /\ sessions' = sessions /\ held' = held /\ ended' = ended
      /\ stage' = [stage EXCEPT ![c] = "provisioning"]
      /\ sessions[r.session] = None
      /\ crossed' = IF Waiting(r.session) # {} THEN crossed \cup {r.session} ELSE crossed
      /\ r.session \in Session /\ r # None
  BY RequestFields DEF WInv, XInv, ColdStart, CrossIf, Arrive, IsNext, CallTypes
<1>2. tenant' = tenant
  BY Still DEF WInv, ColdStart
<1>3. /\ stage'[c] = "provisioning" /\ req'[c] = r /\ held[c] = None
      /\ \A d \in Call \ {c} : stage'[d] = stage[d] /\ req'[d] = req[d]
      /\ \A d \in Call : stage[d] # "idle" => req[d] # None
  BY <1>1 DEF CallTypes, Apart
<1>4. ReqKept /\ \A d \in Call \ {c} : Stays(d)
  BY <1>1, <1>3 DEF ReqKept, Stays
<1>5. Apart'
  BY <1>1, <1>2, <1>3, <1>4, FreshOnly, ApartStays DEF Apart
<1>6. ASSUME NEW s \in Session, s \notin crossed' PROVE Calm(s)'
  <2>1. Calm(s)
    BY <1>1, <1>6 DEF CalmInv
  <2>2. CASE s # r.session
    <3>1. ~Of(c, s) /\ ~Of(c, s)'
      BY <1>1, <1>3, <2>2 DEF Of
    <3> QED
      BY <1>1, <1>4, <2>1, <3>1, CalmStays
  <2>3. CASE s = r.session
    <3>1. Waiting(s) = {} /\ sessions'[s] = None /\ sessions[s] = None
      BY <1>1, <1>6, <2>3
    <3>2. Using(s) = {}
      BY <2>1, <3>1 DEF Calm, Entry
    <3>3. Waiting(s)' \subseteq {c} /\ Using(s)' = {}
      BY <1>1, <1>3, <3>1, <3>2 DEF Waiting, Using
    <3>4. ASSUME NEW d \in Call, Of(d, s)', held'[d] # None
          PROVE  ended'[held'[d]] > 0 \/ Entry(s, held[d])'
      BY <1>1, <1>3, <2>1, <3>1, <3>4 DEF Of, Calm, Entry
    <3> QED
      BY <3>1, <3>3, <3>4 DEF Calm
  <2> QED
    BY <2>2, <2>3
<1> QED
  BY <1>5, <1>6 DEF XInv, CalmInv

(* The three ways a call gets a sandbox of its own.                        *)
LEMMA ServedXInv ==
    ASSUME WInv, WInv', XInv, ReqKept,
           NEW c \in Call, NEW r \in Request, NEW x \in Sandbox, req'[c] = r,
           Fresh(x), ~Fresh(x)', \A y \in Sandbox : Fresh(y)' => Fresh(y),
           Register(r, x), Serve(c, r.kind, x), ended' = ended,
           \A d \in Call \ {c} : req'[d] = req[d],
           \A s \in Session : Of(c, s) => s = r.session,
           crossed \subseteq crossed',
           r.session \notin crossed' =>
              /\ Waiting(r.session) \subseteq {c}
              /\ Calm(r.session) /\ sessions[r.session] # None =>
                     ended[sessions[r.session].handle] > 0
    PROVE  XInv'
<1>1. /\ CallTypes /\ CallTypes' /\ Apart /\ CalmInv
      /\ r.session \in Session /\ r # None
  BY RequestFields DEF WInv, XInv
<1>2. Apart'
  BY <1>1, ApartServed
<1>3. /\ \A d \in Call \ {c} : Stays(d)
      /\ \A s \in Session \ {r.session} : sessions'[s] = sessions[s]
  BY <1>1 DEF Stays, Serve, Register, CallTypes
<1>4. ASSUME NEW s \in Session, s \notin crossed' PROVE Calm(s)'
  <2>1. Calm(s)
    BY <1>1, <1>4 DEF CalmInv
  <2>2. CASE s # r.session
    <3>1. ~Of(c, s) /\ ~Of(c, s)'
      BY <2>2 DEF Of
    <3> QED
      BY <1>1, <1>3, <2>1, <2>2, <3>1, CalmStays
  <2>3. CASE s = r.session
    BY <1>1, <1>3, <1>4, <2>1, <2>3, CalmServed
  <2> QED
    BY <2>2, <2>3
<1> QED
  BY <1>2, <1>4 DEF XInv, CalmInv

LEMMA ClaimFresh ==
    ASSUME PoolInv, NEW r \in Request, NEW h \in Handle, Pool!Claim(ClaimId(r), h),
           \A c \in Call : stage'[c] \in {"idle", "switching", "provisioning"} =>
                             stage[c] \in {"idle", "switching", "provisioning"}
    PROVE  h \in Sandbox /\ Fresh(h) /\ ~Fresh(h)' /\ \A y \in Sandbox : Fresh(y)' => Fresh(y)
<1>1. tenant[h] = None /\ ClaimId(r) # None /\ tenant' = [tenant EXCEPT ![h] = ClaimId(r)]
  BY Claimed
<1>2. tenant \in [Handle -> Identity \cup {None}]
  BY DEF PoolInv, PoolProofs!IInv, PoolProofs!TypeOK
<1> QED
  BY <1>1, <1>2 DEF Fresh, Sandbox

LEMMA AdoptXInv ==
    ASSUME WInv, WInv', XInv, NEW c \in Call, NEW r \in Request, Adopt(c, r)
    PROVE  XInv'
<1>1. PICK h \in Handle : Pool!Claim(ClaimId(r), h) /\ Register(r, h) /\ Serve(c, r.kind, h)
  BY DEF Adopt, ClaimWarm
<1>2. /\ CallTypes /\ PoolInv /\ stage[c] = "idle" /\ req[c] = None
      /\ req' = [req EXCEPT ![c] = r] /\ ended' = ended /\ sessions[r.session] = None
      /\ crossed' = IF Waiting(r.session) # {} THEN crossed \cup {r.session} ELSE crossed
  BY DEF WInv, Adopt, CrossIf, Arrive, IsNext, CallTypes
<1>3. /\ req'[c] = r /\ \A d \in Call \ {c} : req'[d] = req[d]
      /\ \A d \in Call \ {c} : stage'[d] = stage[d]
  BY <1>1, <1>2 DEF CallTypes, Serve
<1>4. ReqKept /\ \A s \in Session : ~Of(c, s)
  BY <1>2, <1>3 DEF ReqKept, Of
<1>5. h \in Sandbox /\ Fresh(h) /\ ~Fresh(h)' /\ \A y \in Sandbox : Fresh(y)' => Fresh(y)
  BY <1>1, <1>2, <1>3, ClaimFresh
<1>6. crossed \subseteq crossed' /\ (r.session \notin crossed' => Waiting(r.session) \subseteq {c})
  BY <1>2, RequestFields
<1> QED
  BY <1>1, <1>2, <1>3, <1>4, <1>5, <1>6, ServedXInv

(* A call that waits is the only one, and whatever the session still has   *)
(* is gone.                                                                *)
LEMMA AloneAndGone ==
    ASSUME CallTypes, Apart, NEW c \in Call, stage[c] \in {"switching", "provisioning"},
           Calm(req[c].session), req[c].session \in Session
    PROVE  /\ Waiting(req[c].session) \subseteq {c}
           /\ sessions[req[c].session] # None =>
                stage[c] = "switching" /\ ended[sessions[req[c].session].handle] > 0
<1> DEFINE s == req[c].session
<1>1. c \in Waiting(s) /\ Of(c, s)
  BY DEF Waiting, Of, CallTypes
<1>2. Waiting(s) \subseteq {c}
  BY <1>1 DEF Calm
<1>3. ASSUME sessions[s] # None
      PROVE  stage[c] = "switching" /\ ended[sessions[s].handle] > 0
  <2>1. stage[c] = "switching"
    BY <1>1, <1>3 DEF Calm
  <2>2. ended[sessions[s].handle] # 0
    BY <1>1, <1>3, <2>1 DEF Calm
  <2>3. ended[sessions[s].handle] \in Nat
    BY <1>3 DEF CallTypes, Apart
  <2> QED
    BY <2>1, <2>2, <2>3
<1> QED
  BY <1>2, <1>3

LEMMA ResumeServedXInv ==
    ASSUME WInv, WInv', XInv, NEW c \in Call, ResumeAdopt(c) \/ Provisioned(c)
    PROVE  XInv'
<1> DEFINE r == req[c]
<1>1. /\ CallTypes /\ PoolInv /\ Apart /\ stage[c] \in {"switching", "provisioning"}
      /\ r \in Request /\ r # None /\ r.session \in Session
      /\ req' = req /\ ended' = ended /\ crossed' = crossed
  <2>1. /\ CallTypes /\ PoolInv /\ Apart /\ stage[c] \in {"switching", "provisioning"}
        /\ req' = req /\ ended' = ended /\ crossed' = crossed
    BY DEF WInv, XInv, ResumeAdopt, Provisioned
  <2>2. r \in Request /\ r # None
    BY <2>1 DEF CallTypes
  <2> QED
    BY <2>1, <2>2, RequestFields
<1>2. PICK x \in Sandbox :
        /\ Register(r, x) /\ Serve(c, r.kind, x)
        /\ Fresh(x) /\ ~Fresh(x)' /\ \A y \in Sandbox : Fresh(y)' => Fresh(y)
  <2>1. CASE ResumeAdopt(c)
    <3>1. PICK h \in Handle : Pool!Claim(ClaimId(r), h) /\ Register(r, h) /\ Serve(c, r.kind, h)
      BY <2>1 DEF ResumeAdopt, ClaimWarm
    <3>2. \A d \in Call : stage'[d] \in {"idle", "switching", "provisioning"} =>
                            stage[d] \in {"idle", "switching", "provisioning"}
      BY <1>1, <3>1 DEF Serve, CallTypes
    <3> QED
      BY <1>1, <3>1, <3>2, ClaimFresh
  <2>2. CASE Provisioned(c)
    <3>1. Register(r, c) /\ Serve(c, r.kind, c) /\ tenant' = tenant /\ stage[c] = "provisioning"
      BY <1>1, <2>2, Still DEF Provisioned
    <3>2. stage'[c] \in {"running", "done"} /\ \A d \in Call \ {c} : stage'[d] = stage[d]
      BY <1>1, <3>1 DEF Serve, CallTypes
    <3>3. c \notin Handle /\ c \in Sandbox
      BY SandboxAssumption DEF Sandbox
    <3>4. \A y \in Sandbox : Fresh(y)' => Fresh(y)
      BY <3>1, <3>2, FreshOnly
    <3>5. Fresh(c) /\ ~Fresh(c)'
      BY <3>1, <3>2, <3>3 DEF Fresh
    <3> QED
      BY <3>1, <3>3, <3>4, <3>5
  <2> QED
    BY <2>1, <2>2
<1>3. ReqKept /\ \A s \in Session : Of(c, s) => s = r.session
  BY <1>1 DEF ReqKept, Of
<1>4. Calm(r.session) =>
        /\ Waiting(r.session) \subseteq {c}
        /\ sessions[r.session] # None => ended[sessions[r.session].handle] > 0
  BY <1>1, AloneAndGone
<1>5. r.session \notin crossed' => Calm(r.session)
  BY <1>1 DEF XInv, CalmInv
<1> QED
  BY <1>1, <1>2, <1>3, <1>4, <1>5, ServedXInv

LEMMA ResumeColdXInv ==
    ASSUME WInv, WInv', XInv, NEW c \in Call, ResumeCold(c)
    PROVE  XInv'
<1> DEFINE r == req[c]
<1>1. /\ CallTypes /\ CallTypes' /\ Apart /\ CalmInv /\ stage[c] = "switching"
      /\ sessions' = [sessions EXCEPT ![r.session] = None]
      /\ stage' = [stage EXCEPT ![c] = "provisioning"]
      /\ req' = req /\ held' = held /\ ended' = ended /\ crossed' = crossed
  BY DEF WInv, XInv, ResumeCold
<1>2. r \in Request /\ r.session \in Session /\ r # None
  BY <1>1, RequestFields DEF CallTypes
<1>3. tenant' = tenant
  BY Still DEF WInv, ResumeCold
<1>4. /\ stage'[c] = "provisioning" /\ held[c] = None
      /\ \A d \in Call \ {c} : stage'[d] = stage[d]
      /\ sessions'[r.session] = None
      /\ \A s \in Session \ {r.session} : sessions'[s] = sessions[s]
  BY <1>1, <1>2 DEF CallTypes, Apart
<1>5. ReqKept /\ \A d \in Call \ {c} : Stays(d)
  BY <1>1, <1>4 DEF ReqKept, Stays
<1>6. Apart'
  BY <1>1, <1>3, <1>4, <1>5, FreshOnly, ApartStays DEF Apart
<1>7. ASSUME NEW s \in Session, s \notin crossed' PROVE Calm(s)'
  <2>1. Calm(s)
    BY <1>1, <1>7 DEF CalmInv
  <2>2. CASE s # r.session
    <3>1. ~Of(c, s) /\ ~Of(c, s)'
      BY <1>1, <2>2 DEF Of
    <3> QED
      BY <1>1, <1>4, <1>5, <2>1, <2>2, <3>1, CalmStays
  <2>3. CASE s = r.session
    <3>1. Waiting(s) \subseteq {c} /\ (sessions[s] # None => ended[sessions[s].handle] > 0)
      BY <1>1, <1>2, <2>1, <2>3, AloneAndGone
    <3>2. Using(s) = {}
      BY <2>1, <3>1 DEF Calm, Entry
    <3>3. Waiting(s)' \subseteq {c} /\ Using(s)' = {} /\ sessions'[s] = None
      BY <1>1, <1>4, <2>3, <3>1, <3>2 DEF Waiting, Using
    <3>4. ASSUME NEW d \in Call, Of(d, s)', held'[d] # None
          PROVE  ended'[held'[d]] > 0 \/ Entry(s, held[d])'
      <4>1. Of(d, s) /\ held[d] # None
        BY <1>1, <3>4 DEF Of
      <4>2. ended[held[d]] > 0
        BY <2>1, <3>1, <4>1 DEF Calm, Entry
      <4> QED
        BY <1>1, <4>2
    <3> QED
      BY <3>3, <3>4 DEF Calm
  <2> QED
    BY <2>2, <2>3
<1> QED
  BY <1>6, <1>7 DEF XInv, CalmInv

(* A throw, or the end of a call.                                          *)
LEMMA OverXInv ==
    ASSUME WInv, WInv', XInv, NEW c \in Call, ProvisionThrew(c) \/ Finish(c)
    PROVE  XInv'
<1>1. /\ CallTypes /\ CallTypes' /\ Apart /\ CalmInv
      /\ stage[c] \in {"provisioning", "running", "unwinding"}
      /\ sessions' = sessions /\ req' = req /\ held' = held /\ ended' = ended
      /\ crossed' = crossed
  BY DEF WInv, XInv, ProvisionThrew, Finish
<1>2. tenant' = tenant
  BY Still DEF WInv, ProvisionThrew, Finish
<1>3. /\ stage'[c] \in {"done", "failed", "unwinding"}
      /\ stage[c] = "running" => stage'[c] = "done"
      /\ \A d \in Call \ {c} : stage'[d] = stage[d]
  BY <1>1 DEF ProvisionThrew, Finish, Settled, CallTypes
<1>4. stage[c] # "running" => held[c] = None
  BY <1>1 DEF Apart
<1>5. ReqKept
  BY <1>1 DEF ReqKept
<1>6. Apart'
  BY <1>1, <1>2, <1>3, <1>4, <1>5, FreshOnly, ApartStays DEF Apart
<1>7. ASSUME NEW s \in Session, s \notin crossed' PROVE Calm(s)'
  <2>1. \A d \in Call : Stays(d) \/ Leaves(d, s)
    BY <1>1, <1>3 DEF Stays, Leaves
  <2> QED
    BY <1>1, <1>7, <2>1, CalmStays DEF CalmInv
<1> QED
  BY <1>6, <1>7 DEF XInv, CalmInv

LEMMA EndXInv ==
    ASSUME WInv, WInv', XInv, NEW t \in Session, End(t)
    PROVE  XInv'
<1> DEFINE x == sessions[t].handle
<1>1. /\ CallTypes /\ CallTypes' /\ Apart /\ CalmInv
      /\ sessions' = [sessions EXCEPT ![t] = None] /\ sessions[t] # None
      /\ req' = req /\ held' = held /\ stage' = stage
      /\ ended' = [ended EXCEPT ![x] = @ + 1]
      /\ crossed' = IF Waiting(t) \cup Using(t) # {} THEN crossed \cup {t} ELSE crossed
  BY DEF WInv, XInv, End, Destroy, CrossIf
<1>2. tenant' = tenant
  BY Still DEF WInv, End
<1>3. /\ x \in Sandbox /\ sessions'[t] = None
      /\ \A s \in Session \ {t} : sessions'[s] = sessions[s]
  BY <1>1 DEF CallTypes
<1>4. Entry(t, x) /\ ~Fresh(x)
  BY <1>1, <1>3 DEF Entry, Apart
<1>5. /\ ended \in [Sandbox -> Nat] /\ ended' \in [Sandbox -> Nat] /\ ended'[x] > 0
      /\ \A y \in Sandbox \ {x} : ended'[y] = ended[y]
  BY <1>1, <1>3 DEF Apart
<1>6. ReqKept /\ \A d \in Call : Stays(d)
  BY <1>1 DEF ReqKept, Stays
<1> HIDE DEF x
<1>7. Apart'
  BY <1>1, <1>2, <1>3, <1>4, <1>5, <1>6, FreshOnly, ApartStays
<1>8. ASSUME NEW s \in Session, s \notin crossed' PROVE Calm(s)'
  <2>1. Calm(s)
    BY <1>1, <1>8 DEF CalmInv
  <2>2. CASE s # t
    <3>1. sessions[s] # None => sessions[s].handle \in Sandbox /\ sessions[s].handle # x
      BY <1>1, <1>3, <1>4, <2>2 DEF Apart, Entry, CallTypes
    <3>2. \A y \in Sandbox : ended[y] > 0 => ended'[y] > 0
      BY <1>5
    <3> QED
      BY <1>1, <1>3, <1>5, <1>6, <2>1, <2>2, <3>1, <3>2, CalmStays
  <2>3. CASE s = t
    <3>1. Waiting(s) = {} /\ Using(s) = {}
      BY <1>1, <1>8, <2>3
    <3>2. Waiting(s)' = {} /\ Using(s)' = {} /\ sessions'[s] = None
      BY <1>1, <1>3, <2>3, <3>1 DEF Waiting, Using
    <3>3. ASSUME NEW d \in Call, Of(d, s)', held'[d] # None
          PROVE  ended'[held'[d]] > 0 \/ Entry(s, held[d])'
      <4>1. Of(d, s) /\ held'[d] = held[d] /\ held[d] \in Sandbox
        BY <1>1, <3>3 DEF Of, CallTypes
      <4>2. ended[held[d]] > 0 \/ held[d] = x
        BY <1>4, <2>1, <2>3, <3>3, <4>1 DEF Calm, Entry
      <4> QED
        BY <1>5, <4>1, <4>2
    <3> QED
      BY <3>2, <3>3 DEF Calm
  <2> QED
    BY <2>2, <2>3
<1> QED
  BY <1>7, <1>8 DEF XInv, CalmInv

LEMMA PoolStepXInv ==
    ASSUME WInv, WInv', XInv, PoolStep \/ UNCHANGED vars
    PROVE  XInv'
<1>1. /\ CallTypes /\ CallTypes' /\ Apart /\ CalmInv
      /\ sessions' = sessions /\ req' = req /\ stage' = stage /\ held' = held
      /\ ended' = ended /\ crossed' = crossed
  BY DEF WInv, XInv, PoolStep, callVars, vars
<1>2. tenant' = tenant
  BY PoolStepPool, Still DEF WInv, vars
<1>3. ReqKept /\ \A d \in Call : Stays(d)
  BY <1>1 DEF ReqKept, Stays
<1>4. Apart'
  BY <1>1, <1>2, <1>3, FreshOnly, ApartStays DEF Apart
<1>5. ASSUME NEW s \in Session, s \notin crossed' PROVE Calm(s)'
  BY <1>1, <1>3, <1>5, CalmStays DEF CalmInv
<1> QED
  BY <1>4, <1>5 DEF XInv, CalmInv

LEMMA NextXInv == WInv /\ WInv' /\ XInv /\ [Next]_vars => XInv'
<1> SUFFICES ASSUME WInv, WInv', XInv, [Next]_vars PROVE XInv'
  OBVIOUS
<1>1. CASE \E c \in Call, r \in Request : Reject(c, r) \/ Deny(c, r)
  BY <1>1, TurnedAwayXInv
<1>2. CASE \E c \in Call, r \in Request : Reuse(c, r)
  BY <1>2, ReuseXInv
<1>3. CASE \E c \in Call, r \in Request : Switch(c, r)
  BY <1>3, SwitchXInv
<1>4. CASE \E c \in Call, r \in Request : ColdStart(c, r)
  BY <1>4, ColdStartXInv
<1>5. CASE \E c \in Call, r \in Request : Adopt(c, r)
  BY <1>5, AdoptXInv
<1>6. CASE \E c \in Call : ResumeAdopt(c) \/ Provisioned(c)
  BY <1>6, ResumeServedXInv
<1>7. CASE \E c \in Call : ResumeCold(c)
  BY <1>7, ResumeColdXInv
<1>8. CASE \E c \in Call : ProvisionThrew(c) \/ Finish(c)
  BY <1>8, OverXInv
<1>9. CASE \E s \in Session : End(s)
  BY <1>9, EndXInv
<1>10. CASE PoolStep \/ UNCHANGED vars
  BY <1>10, PoolStepXInv
<1> QED
  BY <1>1, <1>2, <1>3, <1>4, <1>5, <1>6, <1>7, <1>8, <1>9, <1>10 DEF Next

(* Who has which sandbox, and what is left of it, stays in step: calls of  *)
(* different sessions never meet in one, and those of one session follow   *)
(* each other as ensureWorkspace expects until two of them overlap.        *)
THEOREM SandboxesAreAccountedFor == Spec => []XInv
  BY InitXInv, NextXInv, WorkspaceInvariance, PTL DEF Spec

(* Sequential use of a session leaks no sandbox: what a call was given is  *)
(* the one registered for its session, or was destroyed.                   *)
THEOREM NothingLeaks == Spec => []NoOrphan
<1>1. WInv /\ XInv => NoOrphan
  <2> SUFFICES ASSUME WInv, XInv, NEW c \in Call, held[c] # None, req[c].session \notin crossed
               PROVE  ended[held[c]] > 0 \/ \E s \in Session : Entry(s, held[c])
    BY DEF NoOrphan, Entry
  <2>1. req[c] # None /\ req[c].session \in Session
    BY RequestFields, SandboxAssumption DEF WInv, CallTypes, SandboxInv, MayHold
  <2>2. Calm(req[c].session) /\ Of(c, req[c].session)
    BY <2>1 DEF XInv, CalmInv, Of
  <2> QED
    BY <2>1, <2>2 DEF Calm
<1> QED
  BY <1>1, WorkspaceInvariance, SandboxesAreAccountedFor, PTL

(* Unless calls overlap, a run works in a sandbox that neither the session *)
(* manager nor the pool has destroyed.                                     *)
THEOREM RunsFindTheirSandbox == Spec => []RunsOnLiveSandbox
<1>1. WInv /\ XInv => RunsOnLiveSandbox
  <2> SUFFICES ASSUME WInv, XInv, NEW c \in Call, stage[c] = "running",
                      req[c].session \notin crossed
               PROVE  ended[held[c]] = 0 /\ (held[c] \in Handle => destroys[held[c]] = 0)
    BY DEF RunsOnLiveSandbox
  <2>1. req[c] # None /\ req[c].session \in Session
    BY RequestFields DEF WInv, CallTypes
  <2>2. held[c] # None /\ Entry(req[c].session, held[c]) /\ ended[held[c]] = 0
    BY <2>1 DEF XInv, CalmInv, Calm, Using
  <2>3. ASSUME held[c] \in Handle PROVE destroys[held[c]] = 0
    <3>1. tenant[held[c]] # None
      BY <2>1, <2>2, <2>3 DEF XInv, Apart, Fresh, Sandbox
    <3> QED
      BY <2>3, <3>1 DEF WInv, PoolInv, PoolProofs!IInv, PoolProofs!TenantsKeyed
  <2> QED
    BY <2>2, <2>3
<1> QED
  BY <1>1, WorkspaceInvariance, SandboxesAreAccountedFor, PTL
-----------------------------------------------------------------------------
(* Every step leaves the pool alone or is a step of the pool's own module. *)
LEMMA PoolMoves ==
    ASSUME CallTypes, [Next]_vars
    PROVE  [PoolProofs!Next]_(PoolProofs!poolVars)
<1>1. CASE \E c \in Call, r \in Request :
               Reject(c, r) \/ Deny(c, r) \/ Reuse(c, r) \/ Switch(c, r) \/ ColdStart(c, r)
  BY <1>1 DEF Reject, Deny, Reuse, Switch, ColdStart, poolVars, PoolProofs!poolVars
<1>2. ASSUME NEW c, NEW r \in Request, ClaimWarm(c, r)
      PROVE  PoolProofs!Next
  <2>1. PICK h \in Handle : Pool!Claim(ClaimId(r), h)
    BY <1>2 DEF ClaimWarm
  <2>2. ClaimId(r) \in Identity
    BY RequestFields
  <2> QED
    BY <2>1, <2>2, SameClaim DEF PoolProofs!Next
<1>3. CASE \E c \in Call, r \in Request : Adopt(c, r)
  BY <1>2, <1>3 DEF Adopt
<1>4. CASE \E c \in Call : ResumeAdopt(c)
  <2>1. PICK c \in Call : ResumeAdopt(c)
    BY <1>4
  <2>2. stage[c] = "switching" /\ ClaimWarm(c, req[c])
    BY <2>1 DEF ResumeAdopt
  <2>3. req[c] \in Request
    BY <2>2 DEF CallTypes
  <2> QED
    BY <1>2, <2>2, <2>3
<1>5. CASE \E c \in Call :
               ResumeCold(c) \/ Provisioned(c) \/ ProvisionThrew(c) \/ Finish(c)
  BY <1>5 DEF ResumeCold, Provisioned, ProvisionThrew, Finish, poolVars, PoolProofs!poolVars
<1>6. CASE \E s \in Session : End(s)
  BY <1>6 DEF End, poolVars, PoolProofs!poolVars
<1>7. CASE PoolStep
  <2>1. ASSUME NEW id \in Opened, NEW t \in Target, Pool!Ensure(id, t) PROVE PoolProofs!Next
    BY <2>1, SameEnsure, OpenedAssumption DEF PoolProofs!Next
  <2>2. ASSUME NEW h \in Handle, Pool!ProvisionOk(h) \/ Pool!ProvisionFail(h) \/ Pool!Evict(h)
        PROVE  PoolProofs!Next
    BY <2>2, SameProvision, SameEvict DEF PoolProofs!Next
  <2> QED
    BY <1>7, <2>1, <2>2 DEF PoolStep
<1>8. CASE UNCHANGED vars
  BY <1>8 DEF vars, poolVars, PoolProofs!poolVars
<1> QED
  BY <1>1, <1>3, <1>4, <1>5, <1>6, <1>7, <1>8 DEF Next

(* Sessions and calls drive the pool as PrewarmPool says it may be driven: *)
(* what is proved of the pool on its own holds of it here.                 *)
THEOREM PoolIsKept == Spec => PoolProofs!Spec
<1>1. Init => PoolProofs!Init
  BY SameInit DEF Init
<1>2. WInv /\ [Next]_vars => [PoolProofs!Next]_(PoolProofs!poolVars)
  BY PoolMoves DEF WInv
<1> QED
  BY <1>1, <1>2, WorkspaceInvariance, PTL DEF Spec, PoolProofs!Spec
=============================================================================
