------------------------- MODULE PrewarmPoolProofs -------------------------
(***************************************************************************)
(* Proofs about the warm pool, for every set of identities, handles and    *)
(* targets.                                                                *)
(***************************************************************************)
EXTENDS PrewarmPool, SequenceTheorems, FiniteSetTheorems, TLAPS

(* Every handle on a list is up, on the list of its own key, unclaimed,    *)
(* never destroyed and has its TTL armed.                                  *)
FreeHandle(h, k) ==
    /\ box[h] = "up"
    /\ prewarmKey(home[h]) = k
    /\ tenant[h] = None
    /\ destroys[h] = 0
    /\ h \in timers

ListsHoldFree == \A k \in Key : \A i \in 1..Len(ready[k]) : FreeHandle(ready[k][i], k)

(* No list holds a handle twice (across lists ListsHoldFree says it).      *)
ListsAreInjective ==
    \A k \in Key : \A i, j \in 1..Len(ready[k]) : ready[k][i] = ready[k][j] => i = j

(* A timer is armed only for a handle that is still on a list.             *)
TimersAreFree == \A h \in timers : InReady(h)

HomesKnown == \A h \in Handle : box[h] # "none" => home[h] \in Identity

TenantsKeyed ==
    \A h \in Handle : tenant[h] # None =>
        /\ home[h] \in Identity
        /\ prewarmKey(tenant[h]) = prewarmKey(home[h])
        /\ box[h] = "up"
        /\ h \notin timers
        /\ destroys[h] = 0

UnbornUntouched == \A h \in Handle : box[h] # "up" => destroys[h] = 0 /\ tenant[h] = None

IInv ==
    /\ TypeOK
    /\ HomesKnown
    /\ ListsHoldFree
    /\ ListsAreInjective
    /\ TimersAreFree
    /\ TenantsKeyed
    /\ UnbornUntouched
    /\ ReapedOnce

(* The counter, and what it counts.                                        *)
Counted ==
    /\ NoPhantomProvision
    /\ teardown = "never" => \A k \in Key :
        /\ inflight[k] = Cardinality(Booting(k))
        /\ \E t \in Target \cup {0} : Len(ready[k]) + inflight[k] <= t
-----------------------------------------------------------------------------
(* Dropping one entry of a sequence (evict's splice) keeps the others, in  *)
(* order: each entry of the result is an entry of the original, and two    *)
(* different ones come from different places.                              *)
LEMMA RemoveAtKeeps ==
    ASSUME NEW S, NEW s \in Seq(S), NEW i \in 1..Len(s)
    PROVE  /\ RemoveAt(s, i) \in Seq(S)
           /\ Len(RemoveAt(s, i)) = Len(s) - 1
           /\ \A j \in 1..Len(s)-1 :
                RemoveAt(s, i)[j] = s[IF j < i THEN j ELSE j + 1]
<1> DEFINE front == SubSeq(s, 1, i-1)
           back  == SubSeq(s, i+1, Len(s))
<1>1. Len(s) \in Nat /\ i \in Nat /\ i >= 1 /\ i <= Len(s)
  BY LenProperties
<1>2. \A j \in 1..Len(s) : s[j] \in S
  BY ElementOfSeq
<1>3. /\ front \in Seq(S)
      /\ Len(front) = i - 1
      /\ \A j \in 1..i-1 : front[j] = s[j]
  <2>1. \A j \in 1..i-1 : s[j] \in S
    BY <1>1, <1>2
  <2>2. /\ front \in Seq(S)
        /\ Len(front) = (IF 1 <= i-1 THEN (i-1)-1+1 ELSE 0)
        /\ \A j \in 1..(i-1)-1+1 : front[j] = s[1+j-1]
    BY <1>1, <2>1, SubSeqProperties
  <2> QED BY <1>1, <2>2
<1>4. /\ back \in Seq(S)
      /\ Len(back) = Len(s) - i
      /\ \A j \in 1..Len(s)-i : back[j] = s[i+j]
  <2>1. \A j \in i+1..Len(s) : s[j] \in S
    BY <1>1, <1>2
  <2>2. /\ back \in Seq(S)
        /\ Len(back) = (IF i+1 <= Len(s) THEN Len(s)-(i+1)+1 ELSE 0)
        /\ \A j \in 1..Len(s)-(i+1)+1 : back[j] = s[i+1+j-1]
    BY <1>1, <2>1, SubSeqProperties
  <2> QED BY <1>1, <2>2
<1>5. /\ front \o back \in Seq(S)
      /\ Len(front \o back) = Len(front) + Len(back)
      /\ \A j \in 1..Len(front) + Len(back) :
            (front \o back)[j] = IF j <= Len(front) THEN front[j] ELSE back[j - Len(front)]
  BY <1>3, <1>4, ConcatProperties
<1>6. RemoveAt(s, i) = front \o back
  BY DEF RemoveAt
<1> HIDE DEF front, back
<1>7. ASSUME NEW j \in 1..Len(s)-1
      PROVE  (front \o back)[j] = s[IF j < i THEN j ELSE j + 1]
  <2>1. CASE j < i
    BY <1>1, <1>3, <1>4, <1>5, <2>1
  <2>2. CASE ~(j < i)
    <3>1. j - (i-1) \in 1..Len(s)-i
      BY <1>1, <2>2
    <3>2. back[j - (i-1)] = s[i + (j - (i-1))]
      BY <1>4, <3>1
    <3>3. (front \o back)[j] = back[j - (i-1)]
      BY <1>1, <1>3, <1>4, <1>5, <2>2
    <3> QED BY <1>1, <2>2, <3>2, <3>3
  <2> QED BY <2>1, <2>2
<1>8. Len(front \o back) = Len(s) - 1
  <2>1. Len(front) + Len(back) = Len(s) - 1
    BY <1>1, <1>3, <1>4
  <2> QED BY <1>5, <2>1
<1> QED BY <1>5, <1>6, <1>7, <1>8 DEF RemoveAt

LEMMA KeyOfIdentity == \A id \in Identity : prewarmKey(id) \in Key
  BY DEF Key

(* Equal keys mean the same owner, environment, profile and project, and   *)
(* without a project the same kind and mark of source.                     *)
LEMMA KeyIsFaithful ==
    ASSUME NEW a \in Identity, NEW b \in Identity, prewarmKey(a) = prewarmKey(b)
    PROVE  /\ a.owner = b.owner
           /\ a.environment = b.environment
           /\ a.profile = b.profile
           /\ a.project = b.project
           /\ a.project = None => sourceFingerprint(a.source) = sourceFingerprint(b.source)
<1> DEFINE work(id) == IF id.project # None THEN <<"proj", id.project>>
                                            ELSE sourceFingerprint(id.source)
<1>1. /\ a.owner = b.owner
      /\ a.environment = b.environment
      /\ a.profile = b.profile
      /\ work(a) = work(b)
  BY DEF prewarmKey
<1>2. ASSUME NEW id \in Identity
      PROVE  /\ sourceFingerprint(id.source)[1] \in {"none", "git", "cache", "files"}
  BY IdentityAssumption DEF sourceFingerprint, Sources
<1>3. ASSUME NEW id \in Identity
      PROVE  /\ id.project # None => work(id)[1] = "proj" /\ work(id)[2] = id.project
             /\ id.project = None => work(id)[1] # "proj"
  BY <1>2
<1>4. a.project = b.project
  BY <1>1, <1>3
<1> QED BY <1>1, <1>4
-----------------------------------------------------------------------------
LEMMA InitIInv == Init => IInv
<1> SUFFICES ASSUME Init PROVE IInv
  OBVIOUS
<1>1. \A k \in Key : ready[k] = <<>> /\ Len(ready[k]) = 0
  BY DEF Init
<1>2. TypeOK
  BY DEF Init, TypeOK
<1> QED BY <1>1, <1>2 DEF Init, IInv, HomesKnown, ListsHoldFree, ListsAreInjective,
         TimersAreFree, TenantsKeyed, UnbornUntouched, ReapedOnce

LEMMA EnsureIInv ==
    ASSUME IInv, NEW id \in Identity, NEW t \in Target, Ensure(id, t)
    PROVE  IInv'
<1> DEFINE k == prewarmKey(id)
           want == Shortfall(k, t)
<1>1. PICK fresh \in SUBSET {h \in Handle : box[h] = "none"} :
        /\ box' = [h \in Handle |-> IF h \in fresh THEN "booting" ELSE box[h]]
        /\ home' = [h \in Handle |-> IF h \in fresh THEN id ELSE home[h]]
        /\ inflight' = [inflight EXCEPT ![k] = @ + want]
        /\ UNCHANGED teardown
        /\ UNCHANGED <<ready, timers, tenant, destroys>>
  BY DEF Ensure
<1>2. k \in Key
  BY KeyOfIdentity
<1>3. TypeOK'
  <2>1. want \in Nat
    <3>1. Len(ready[k]) \in Nat
      BY <1>2, LenProperties DEF IInv, TypeOK
    <3> QED BY <1>2, <3>1, TargetAssumption DEF Shortfall, IInv, TypeOK
  <2> QED BY <1>1, <1>2, <2>1 DEF IInv, TypeOK
<1>4. \A h \in Handle : box[h] = "up" => h \notin fresh /\ box'[h] = "up" /\ home'[h] = home[h]
  BY <1>1 DEF IInv, TypeOK
<1>5. ListsHoldFree'
  <2> SUFFICES ASSUME NEW q \in Key, NEW i \in 1..Len(ready[q])
               PROVE  FreeHandle(ready[q][i], q)'
    BY <1>1 DEF ListsHoldFree
  <2>1. ready[q][i] \in Handle
    BY ElementOfSeq DEF IInv, TypeOK
  <2> QED BY <1>1, <1>4, <2>1 DEF IInv, ListsHoldFree, FreeHandle
<1>6. ListsAreInjective' /\ TimersAreFree' /\ ReapedOnce'
  BY <1>1 DEF IInv, ListsAreInjective, TimersAreFree, InReady, ReapedOnce
<1>7. HomesKnown' /\ TenantsKeyed' /\ UnbornUntouched'
  BY <1>1, <1>4 DEF IInv, TypeOK, HomesKnown, TenantsKeyed, UnbornUntouched
<1> QED BY <1>3, <1>5, <1>6, <1>7 DEF IInv

LEMMA ProvisionOkIInv ==
    ASSUME IInv, NEW h \in Handle, ProvisionOk(h)
    PROVE  IInv'
<1> DEFINE k == prewarmKey(home[h])
<1>1. k \in Key /\ home[h] \in Identity
  BY KeyOfIdentity DEF IInv, HomesKnown, ProvisionOk
<1>2. /\ ready[k] \in Seq(Handle) /\ Len(ready[k]) \in Nat
      /\ ready'[k] = Append(ready[k], h)
      /\ \A q \in Key \ {k} : ready'[q] = ready[q]
  BY <1>1, LenProperties DEF IInv, TypeOK, ProvisionOk
<1>3. /\ ready'[k] \in Seq(Handle)
      /\ Len(ready'[k]) = Len(ready[k]) + 1
      /\ \A i \in 1..Len(ready[k]) : ready'[k][i] = ready[k][i]
      /\ ready'[k][Len(ready[k]) + 1] = h
  BY <1>2, AppendProperties
<1>4. \A q \in Key : \A i \in 1..Len(ready[q]) : ready[q][i] \in Handle /\ ready[q][i] # h
  <2>1. \A q \in Key : \A i \in 1..Len(ready[q]) : ready[q][i] \in Handle
    BY ElementOfSeq DEF IInv, TypeOK
  <2> QED BY <2>1 DEF IInv, ListsHoldFree, FreeHandle, ProvisionOk
<1>5. TypeOK'
  <2>1. ready' \in [Key -> Seq(Handle)]
    BY <1>1, <1>2, <1>3 DEF IInv, TypeOK, ProvisionOk
  <2>2. inflight' \in [Key -> Nat]
    BY <1>1 DEF IInv, TypeOK, ProvisionOk, CountDown
  <2> QED BY <2>1, <2>2 DEF IInv, TypeOK, ProvisionOk
<1>6. FreeHandle(h, k)'
  BY DEF IInv, TypeOK, ProvisionOk, FreeHandle, UnbornUntouched
<1>7. ListsHoldFree'
  <2> SUFFICES ASSUME NEW q \in Key, NEW i \in 1..Len(ready'[q])
               PROVE  FreeHandle(ready[q][i], q)'
    BY DEF ListsHoldFree
  <2>1. CASE i \in 1..Len(ready[q])
    <3>1. ready'[q][i] = ready[q][i]
      BY <1>2, <1>3, <2>1
    <3>2. FreeHandle(ready[q][i], q) /\ ready[q][i] \in Handle /\ ready[q][i] # h
      BY <1>4, <2>1 DEF IInv, ListsHoldFree
    <3> QED BY <3>1, <3>2 DEF IInv, TypeOK, ProvisionOk, FreeHandle
  <2>2. CASE i \notin 1..Len(ready[q])
    <3>1. q = k
      BY <1>2, <2>2
    <3>2. i = Len(ready[k]) + 1
      BY <1>2, <1>3, <2>2, <3>1
    <3>3. ready'[q][i] = h
      BY <1>3, <3>1, <3>2
    <3> QED BY <1>6, <3>1, <3>3 DEF FreeHandle, ProvisionOk
  <2> QED BY <2>1, <2>2
<1>8. ListsAreInjective'
  <2> SUFFICES ASSUME NEW q \in Key, NEW i \in 1..Len(ready'[q]), NEW j \in 1..Len(ready'[q]),
                      ready'[q][i] = ready'[q][j]
               PROVE  i = j
    BY DEF ListsAreInjective
  <2>1. CASE q # k
    BY <1>2, <2>1 DEF IInv, ListsAreInjective
  <2>2. CASE q = k
    <3> DEFINE n == Len(ready[k])
    <3>1. i \in 1..n+1 /\ j \in 1..n+1
      BY <1>3, <2>2
    <3>2. \A m \in 1..n : ready'[k][m] # ready'[k][n+1]
      BY <1>1, <1>3, <1>4
    <3>3. \A l, m \in 1..n : ready'[k][l] = ready'[k][m] => l = m
      BY <1>1, <1>3 DEF IInv, ListsAreInjective
    <3>4. n \in Nat
      BY <1>2
    <3> HIDE DEF n
    <3> QED BY <2>2, <3>1, <3>2, <3>3, <3>4
  <2> QED BY <2>1, <2>2
<1>9. TimersAreFree'
  <2> SUFFICES ASSUME NEW x \in timers'
               PROVE  InReady(x)'
    BY DEF TimersAreFree
  <2>1. CASE x = h
    <3>1. Len(ready[k]) + 1 \in 1..Len(ready'[k])
      BY <1>2, <1>3
    <3> QED BY <1>1, <1>3, <2>1, <3>1 DEF InReady
  <2>2. CASE x # h
    <3>1. PICK q \in Key : \E i \in 1..Len(ready[q]) : ready[q][i] = x
      BY <2>2 DEF IInv, TimersAreFree, InReady, ProvisionOk
    <3>2. \E i \in 1..Len(ready'[q]) : ready'[q][i] = x
      BY <1>2, <1>3, <3>1
    <3> QED BY <3>2 DEF InReady
  <2> QED BY <2>1, <2>2
<1>10. HomesKnown' /\ TenantsKeyed' /\ UnbornUntouched' /\ ReapedOnce'
  BY DEF IInv, TypeOK, HomesKnown, TenantsKeyed, UnbornUntouched, ReapedOnce, ProvisionOk
<1> QED BY <1>5, <1>7, <1>8, <1>9, <1>10 DEF IInv

LEMMA ProvisionFailIInv ==
    ASSUME IInv, NEW h \in Handle, ProvisionFail(h)
    PROVE  IInv'
<1>1. prewarmKey(home[h]) \in Key
  BY KeyOfIdentity DEF IInv, HomesKnown, ProvisionFail
<1>2. TypeOK'
  BY <1>1 DEF IInv, TypeOK, ProvisionFail, CountDown
<1>3. ListsHoldFree'
  <2> SUFFICES ASSUME NEW q \in Key, NEW i \in 1..Len(ready[q])
               PROVE  FreeHandle(ready[q][i], q)'
    BY DEF ListsHoldFree, ProvisionFail
  <2>1. ready[q][i] \in Handle
    BY ElementOfSeq DEF IInv, TypeOK
  <2> QED BY <2>1 DEF IInv, TypeOK, ListsHoldFree, FreeHandle, ProvisionFail
<1>4. ListsAreInjective' /\ TimersAreFree' /\ ReapedOnce'
  BY DEF IInv, ListsAreInjective, TimersAreFree, InReady, ReapedOnce, ProvisionFail
<1>5. HomesKnown' /\ TenantsKeyed' /\ UnbornUntouched'
  BY DEF IInv, TypeOK, HomesKnown, TenantsKeyed, UnbornUntouched, ProvisionFail
<1> QED BY <1>2, <1>3, <1>4, <1>5 DEF IInv

(* Taking one entry off a list, by claim or by eviction: what both share.  *)
(* The entry's timer goes, and nothing else is on a list twice or lost.    *)
LEMMA TakeOff ==
    ASSUME IInv, NEW k \in Key, NEW n \in 1..Len(ready[k]),
           NEW rest \in Seq(Handle),
           Len(rest) = Len(ready[k]) - 1,
           \A j \in 1..Len(rest) : rest[j] = ready[k][IF j < n THEN j ELSE j + 1],
           ready' = [ready EXCEPT ![k] = rest],
           timers' = timers \ {ready[k][n]}
    PROVE  /\ ready' \in [Key -> Seq(Handle)]
           /\ \A q \in Key : \A i \in 1..Len(ready'[q]) :
                /\ ready'[q][i] # ready[k][n]
                /\ \E j \in 1..Len(ready[q]) : ready'[q][i] = ready[q][j]
           /\ ListsAreInjective'
           /\ TimersAreFree'
<1> DEFINE h == ready[k][n]
           old(j) == IF j < n THEN j ELSE j + 1
<1>1. /\ \A q \in Key : ready[q] \in Seq(Handle) /\ Len(ready[q]) \in Nat
      /\ ready'[k] = rest
      /\ \A q \in Key \ {k} : ready'[q] = ready[q]
      /\ ready' \in [Key -> Seq(Handle)]
  BY LenProperties DEF IInv, TypeOK
<1>2. /\ \A j \in 1..Len(rest) : old(j) \in 1..Len(ready[k]) /\ old(j) # n
      /\ \A i, j \in 1..Len(rest) : old(i) = old(j) => i = j
      /\ \A m \in 1..Len(ready[k]) : m # n => \E j \in 1..Len(rest) : old(j) = m
  <2>1. ASSUME NEW m \in 1..Len(ready[k]), m # n
        PROVE  \E j \in 1..Len(rest) : old(j) = m
    <3>1. CASE m < n
      <4>1. m \in 1..Len(rest) /\ old(m) = m
        BY <1>1, <3>1
      <4> QED BY <4>1
    <3>2. CASE m > n
      <4>1. m - 1 \in 1..Len(rest) /\ old(m - 1) = m
        BY <1>1, <3>2
      <4> QED BY <4>1
    <3> QED BY <2>1, <3>1, <3>2
  <2>2. \A j \in 1..Len(rest) : old(j) \in 1..Len(ready[k]) /\ old(j) # n
    BY <1>1
  <2>3. \A i, j \in 1..Len(rest) : old(i) = old(j) => i = j
    BY <1>1
  <2> HIDE DEF old
  <2> QED BY <2>1, <2>2, <2>3
<1>3. \A j \in 1..Len(rest) : rest[j] = ready[k][old(j)]
  OBVIOUS
<1> HIDE DEF old
<1>4. \A q \in Key : \A i \in 1..Len(ready'[q]) :
                /\ ready'[q][i] # h
                /\ \E j \in 1..Len(ready[q]) : ready'[q][i] = ready[q][j]
  <2> SUFFICES ASSUME NEW q \in Key, NEW i \in 1..Len(ready'[q])
               PROVE  /\ ready'[q][i] # h
                      /\ \E j \in 1..Len(ready[q]) : ready'[q][i] = ready[q][j]
    OBVIOUS
  <2>1. CASE q = k
    <3>1. i \in 1..Len(rest) /\ ready'[q][i] = ready[k][old(i)]
      BY <1>1, <1>3, <2>1
    <3>2. old(i) \in 1..Len(ready[k]) /\ old(i) # n
      BY <1>2, <3>1
    <3>3. ready[k][old(i)] # h
      BY <3>2 DEF IInv, ListsAreInjective
    <3> QED BY <2>1, <3>1, <3>2, <3>3
  <2>2. CASE q # k
    <3>1. ready'[q] = ready[q]
      BY <1>1, <2>2
    <3>2. prewarmKey(home[h]) = k /\ prewarmKey(home[ready[q][i]]) = q
      BY <3>1 DEF IInv, ListsHoldFree, FreeHandle
    <3> QED BY <2>2, <3>1, <3>2
  <2> QED BY <2>1, <2>2
<1>5. ListsAreInjective'
  <2> SUFFICES ASSUME NEW q \in Key, NEW i \in 1..Len(ready'[q]), NEW j \in 1..Len(ready'[q]),
                      ready'[q][i] = ready'[q][j]
               PROVE  i = j
    BY DEF ListsAreInjective
  <2>1. CASE q = k
    <3>1. /\ i \in 1..Len(rest) /\ ready'[q][i] = ready[k][old(i)]
          /\ j \in 1..Len(rest) /\ ready'[q][j] = ready[k][old(j)]
      BY <1>1, <1>3, <2>1
    <3>2. old(i) \in 1..Len(ready[k]) /\ old(j) \in 1..Len(ready[k])
      BY <1>2, <3>1
    <3>3. old(i) = old(j)
      BY <3>1, <3>2 DEF IInv, ListsAreInjective
    <3> QED BY <1>2, <3>1, <3>3
  <2>2. CASE q # k
    BY <1>1, <2>2 DEF IInv, ListsAreInjective
  <2> QED BY <2>1, <2>2
<1>6. TimersAreFree'
  <2> SUFFICES ASSUME NEW x \in timers' PROVE InReady(x)'
    BY DEF TimersAreFree
  <2>1. PICK q \in Key : \E i \in 1..Len(ready[q]) : ready[q][i] = x
    BY DEF IInv, TimersAreFree, InReady
  <2>2. CASE q = k
    <3>1. PICK m \in 1..Len(ready[k]) : ready[k][m] = x /\ m # n
      BY <2>1, <2>2
    <3>2. PICK j \in 1..Len(rest) : old(j) = m
      BY <1>2, <3>1
    <3>3. j \in 1..Len(ready'[k]) /\ ready'[k][j] = x
      BY <1>1, <1>3, <3>1, <3>2
    <3> QED BY <3>3 DEF InReady
  <2>3. CASE q # k
    <3>1. ready'[q] = ready[q]
      BY <1>1, <2>3
    <3> QED BY <2>1, <3>1 DEF InReady
  <2> QED BY <2>2, <2>3
<1> QED BY <1>1, <1>4, <1>5, <1>6

LEMMA ClaimIInv ==
    ASSUME IInv, NEW id \in Identity, NEW h \in Handle, Claim(id, h)
    PROVE  IInv'
<1> DEFINE k == prewarmKey(id)
<1>1. k \in Key
  BY KeyOfIdentity
<1>2. ready[k] \in Seq(Handle) /\ ready[k] # <<>>
  BY <1>1 DEF IInv, TypeOK, Claim
<1>3. 1 \in 1..Len(ready[k]) /\ ready[k][1] = h
  BY <1>2, EmptySeq DEF Claim
<1>4. /\ Tail(ready[k]) \in Seq(Handle)
      /\ Len(Tail(ready[k])) = Len(ready[k]) - 1
      /\ \A j \in 1..Len(Tail(ready[k])) : Tail(ready[k])[j] = ready[k][j+1]
  BY <1>2, HeadTailProperties
<1> DEFINE rest == Tail(ready[k])
<1>5. \A j \in 1..Len(rest) : rest[j] = ready[k][IF j < 1 THEN j ELSE j + 1]
  BY <1>4
<1>6. ready' = [ready EXCEPT ![k] = rest] /\ timers' = timers \ {ready[k][1]}
  BY <1>3 DEF Claim
<1>7. /\ ready' \in [Key -> Seq(Handle)]
      /\ \A q \in Key : \A i \in 1..Len(ready'[q]) :
            /\ ready'[q][i] # h
            /\ \E j \in 1..Len(ready[q]) : ready'[q][i] = ready[q][j]
      /\ ListsAreInjective'
      /\ TimersAreFree'
  <2>1. rest \in Seq(Handle) /\ Len(rest) = Len(ready[k]) - 1
    BY <1>4
  <2> HIDE DEF rest, k
  <2>2. /\ ready' \in [Key -> Seq(Handle)]
        /\ \A q \in Key : \A i \in 1..Len(ready'[q]) :
              /\ ready'[q][i] # ready[k][1]
              /\ \E j \in 1..Len(ready[q]) : ready'[q][i] = ready[q][j]
        /\ ListsAreInjective'
        /\ TimersAreFree'
    BY <1>1, <1>3, <1>5, <1>6, <2>1, TakeOff
  <2> QED BY <1>3, <2>2
<1>8. TypeOK'
  BY <1>7 DEF IInv, TypeOK, Claim
<1>9. ListsHoldFree'
  <2> SUFFICES ASSUME NEW q \in Key, NEW i \in 1..Len(ready'[q])
               PROVE  FreeHandle(ready[q][i], q)'
    BY DEF ListsHoldFree
  <2>1. PICK j \in 1..Len(ready[q]) : ready'[q][i] = ready[q][j] /\ ready[q][j] # h
    BY <1>7
  <2>2. ready[q][j] \in Handle
    BY ElementOfSeq DEF IInv, TypeOK
  <2> QED BY <2>1, <2>2, SMTT(30) DEF IInv, TypeOK, ListsHoldFree, FreeHandle, Claim
<1>10. FreeHandle(h, k)
  BY <1>1, <1>3 DEF IInv, ListsHoldFree
<1>11. HomesKnown' /\ UnbornUntouched' /\ ReapedOnce'
  BY <1>10 DEF IInv, TypeOK, HomesKnown, UnbornUntouched, ReapedOnce, FreeHandle, Claim
<1>12. TenantsKeyed'
  BY <1>10, IdentityAssumption DEF IInv, TypeOK, HomesKnown, TenantsKeyed, FreeHandle, Claim
<1> QED BY <1>7, <1>8, <1>9, <1>11, <1>12 DEF IInv

LEMMA EvictIInv ==
    ASSUME IInv, NEW h \in Handle, Evict(h)
    PROVE  IInv'
<1> DEFINE k == prewarmKey(home[h])
<1>1. PICK q \in Key : \E n \in 1..Len(ready[q]) : ready[q][n] = h
  BY DEF IInv, TimersAreFree, InReady, Evict
<1>2. FreeHandle(h, q) /\ q = k
  BY <1>1 DEF IInv, ListsHoldFree, FreeHandle
<1>3. PICK n \in 1..Len(ready[k]) :
        ready[k][n] = h /\ ready' = [ready EXCEPT ![k] = RemoveAt(ready[k], n)]
  BY <1>1, <1>2 DEF Evict
<1>4. k \in Key /\ ready[k] \in Seq(Handle)
  BY <1>2 DEF IInv, TypeOK
<1>5. /\ RemoveAt(ready[k], n) \in Seq(Handle)
      /\ Len(RemoveAt(ready[k], n)) = Len(ready[k]) - 1
      /\ \A j \in 1..Len(ready[k])-1 :
            RemoveAt(ready[k], n)[j] = ready[k][IF j < n THEN j ELSE j + 1]
  BY <1>4, RemoveAtKeeps
<1> DEFINE rest == RemoveAt(ready[k], n)
<1>6. /\ timers' = timers \ {ready[k][n]}
      /\ destroys' = [destroys EXCEPT ![h] = @ + 1]
      /\ UNCHANGED <<inflight, box, home, tenant, teardown>>
  BY <1>3 DEF Evict
<1>7. /\ ready' \in [Key -> Seq(Handle)]
      /\ \A p \in Key : \A i \in 1..Len(ready'[p]) :
            /\ ready'[p][i] # h
            /\ \E j \in 1..Len(ready[p]) : ready'[p][i] = ready[p][j]
      /\ ListsAreInjective'
      /\ TimersAreFree'
  <2>1. /\ rest \in Seq(Handle) /\ Len(rest) = Len(ready[k]) - 1
        /\ \A j \in 1..Len(rest) : rest[j] = ready[k][IF j < n THEN j ELSE j + 1]
        /\ ready' = [ready EXCEPT ![k] = rest]
    BY <1>3, <1>5
  <2> HIDE DEF rest, k
  <2>2. /\ ready' \in [Key -> Seq(Handle)]
        /\ \A p \in Key : \A i \in 1..Len(ready'[p]) :
              /\ ready'[p][i] # ready[k][n]
              /\ \E j \in 1..Len(ready[p]) : ready'[p][i] = ready[p][j]
        /\ ListsAreInjective'
        /\ TimersAreFree'
    BY <1>3, <1>4, <1>6, <2>1, TakeOff
  <2> QED BY <1>3, <2>2
<1>8. TypeOK'
  BY <1>3, <1>6, <1>7 DEF IInv, TypeOK
<1>9. ListsHoldFree'
  <2> SUFFICES ASSUME NEW p \in Key, NEW i \in 1..Len(ready'[p])
               PROVE  FreeHandle(ready[p][i], p)'
    BY DEF ListsHoldFree
  <2>1. PICK j \in 1..Len(ready[p]) : ready'[p][i] = ready[p][j] /\ ready[p][j] # h
    BY <1>7
  <2>2. ready[p][j] \in Handle
    BY ElementOfSeq DEF IInv, TypeOK
  <2> QED BY <1>3, <1>6, <2>1, <2>2 DEF IInv, TypeOK, ListsHoldFree, FreeHandle
<1>10. HomesKnown' /\ TenantsKeyed' /\ UnbornUntouched' /\ ReapedOnce'
  BY <1>2, <1>3, <1>6 DEF IInv, TypeOK, HomesKnown, TenantsKeyed, UnbornUntouched, ReapedOnce, FreeHandle
<1> QED BY <1>7, <1>8, <1>9, <1>10 DEF IInv

LEMMA DestroyAllIInv ==
    ASSUME IInv, DestroyAll
    PROVE  IInv'
<1>1. \A q \in Key : ready'[q] = <<>> /\ Len(ready'[q]) = 0
  BY DEF DestroyAll
<1>2. TypeOK'
  BY DEF IInv, TypeOK, DestroyAll
<1>3. timers' = {}
  BY DEF IInv, TypeOK, TimersAreFree, DestroyAll
<1>4. \A h \in Handle : InReady(h) => box[h] = "up" /\ tenant[h] = None /\ destroys[h] = 0
  BY DEF IInv, ListsHoldFree, FreeHandle, InReady
<1>5. HomesKnown' /\ TenantsKeyed' /\ UnbornUntouched' /\ ReapedOnce'
  BY <1>3, <1>4 DEF IInv, TypeOK, HomesKnown, TenantsKeyed, UnbornUntouched, ReapedOnce, DestroyAll
<1> QED BY <1>1, <1>2, <1>3, <1>5 DEF IInv, ListsHoldFree, ListsAreInjective, TimersAreFree

LEMMA NextIInv == IInv /\ [Next]_poolVars => IInv'
<1> SUFFICES ASSUME IInv, [Next]_poolVars PROVE IInv'
  OBVIOUS
<1>1. CASE Next
  BY <1>1, EnsureIInv, ProvisionOkIInv, ProvisionFailIInv, ClaimIInv, EvictIInv, DestroyAllIInv
     DEF Next
<1>2. CASE UNCHANGED poolVars
  BY <1>2 DEF poolVars, IInv, TypeOK, HomesKnown, ListsHoldFree, FreeHandle, ListsAreInjective,
     TimersAreFree, InReady, TenantsKeyed, UnbornUntouched, ReapedOnce
<1> QED BY <1>1, <1>2

LEMMA PoolInvariant == Spec => []IInv
  BY InitIInv, NextIInv, PTL DEF Spec

LEMMA IInvImplies == IInv => TypeOK /\ AdoptedByItsOwn /\ AdoptedNeverReaped /\ ReapedOnce
<1> SUFFICES ASSUME IInv PROVE AdoptedByItsOwn /\ AdoptedNeverReaped
  BY DEF IInv
<1>1. AdoptedByItsOwn
  <2> SUFFICES ASSUME NEW h \in Handle, tenant[h] # None
               PROVE  LET was == home[h]
                          is  == tenant[h]
                      IN /\ was # None
                         /\ is.owner = was.owner
                         /\ is.environment = was.environment
                         /\ is.profile = was.profile
                         /\ is.project = was.project
                         /\ is.project = None =>
                              sourceFingerprint(is.source) = sourceFingerprint(was.source)
    BY DEF AdoptedByItsOwn
  <2>1. /\ home[h] \in Identity /\ tenant[h] \in Identity
        /\ prewarmKey(tenant[h]) = prewarmKey(home[h])
    BY DEF IInv, TypeOK, TenantsKeyed
  <2> QED BY <2>1, KeyIsFaithful, IdentityAssumption
<1>2. AdoptedNeverReaped
  BY DEF IInv, TenantsKeyed, AdoptedNeverReaped, ListsHoldFree, FreeHandle, InReady
<1> QED BY <1>1, <1>2

(* The pool's state is well formed in every reachable state.               *)
THEOREM PoolTypeOK == Spec => []TypeOK
  BY PoolInvariant, IInvImplies, PTL

(* No warm sandbox is ever adopted under another owner, environment,       *)
(* profile or project than it was warmed for.                              *)
THEOREM PoolAdoptedByItsOwn == Spec => []AdoptedByItsOwn
  BY PoolInvariant, IInvImplies, PTL

(* An adopted sandbox is out of reach of the TTL and of a teardown.        *)
THEOREM PoolAdoptedNeverReaped == Spec => []AdoptedNeverReaped
  BY PoolInvariant, IInvImplies, PTL

(* The pool never destroys one sandbox twice.                              *)
THEOREM PoolReapedOnce == Spec => []ReapedOnce
  BY PoolInvariant, IInvImplies, PTL
-----------------------------------------------------------------------------
(* The counting half: what `inflight` says of the provisions under way.    *)

LEMMA BootingFinite ==
    \A k : IsFiniteSet(Booting(k)) /\ Cardinality(Booting(k)) \in Nat
<1> SUFFICES ASSUME NEW k
             PROVE  IsFiniteSet(Booting(k)) /\ Cardinality(Booting(k)) \in Nat
  OBVIOUS
<1>1. Booting(k) \in SUBSET Handle
  BY DEF Booting
<1>2. IsFiniteSet(Booting(k))
  BY <1>1, HandleAssumption, FS_Subset
<1> QED BY <1>2, FS_CardinalityType

LEMMA InitCounted == Init => Counted
<1> SUFFICES ASSUME Init PROVE Counted
  OBVIOUS
<1>1. \A k \in Key : inflight[k] = 0 /\ Len(ready[k]) = 0 /\ Cardinality(Booting(k)) = 0
  BY FS_EmptySet DEF Init, Booting
<1>2. NoPhantomProvision
  BY <1>1 DEF NoPhantomProvision
<1>3. \A k \in Key : \E t \in Target \cup {0} : Len(ready[k]) + inflight[k] <= t
  <2> TAKE k \in Key
  <2> WITNESS 0 \in Target \cup {0}
  <2> QED BY <1>1
<1> QED BY <1>1, <1>2, <1>3 DEF Counted

(* One provision settles: one fewer is under way, and the counter follows  *)
(* it down unless a teardown has already cleared it.                       *)
LEMMA SettledProvision ==
    ASSUME IInv, Counted, NEW h \in Handle, box[h] = "booting",
           NEW state \in {"up", "failed"}, box' = [box EXCEPT ![h] = state],
           home' = home, CountDown(prewarmKey(home[h]))
    PROVE  /\ NoPhantomProvision'
           /\ teardown = "never" => \A q \in Key :
                /\ inflight'[q] = Cardinality(Booting(q))'
                /\ inflight'[q] = inflight[q] - (IF q = prewarmKey(home[h]) THEN 1 ELSE 0)
<1> DEFINE k == prewarmKey(home[h])
<1>1. k \in Key
  BY KeyOfIdentity DEF IInv, HomesKnown
<1>2. h \in Booting(k)
  BY DEF Booting
<1>3. Booting(k)' = Booting(k) \ {h}
  BY DEF Booting, IInv, TypeOK
<1>4. \A q \in Key \ {k} : Booting(q)' = Booting(q)
  BY DEF Booting, IInv, TypeOK
<1>5. Cardinality(Booting(k))' = Cardinality(Booting(k)) - 1
  BY <1>2, <1>3, BootingFinite, FS_RemoveElement
<1>6. /\ \A q \in Key : inflight[q] \in Nat /\ Cardinality(Booting(q)) \in Nat
      /\ inflight'[k] = IF inflight[k] > 0 THEN inflight[k] - 1 ELSE 0
      /\ \A q \in Key \ {k} : inflight'[q] = inflight[q]
  BY <1>1, BootingFinite DEF IInv, TypeOK, CountDown
<1>7. inflight[k] <= Cardinality(Booting(k))
  BY <1>1 DEF Counted, NoPhantomProvision
<1>8. Cardinality(Booting(k)) >= 1
  BY <1>1, <1>2, <1>6, FS_EmptySet, BootingFinite
<1>9. ASSUME NEW q \in Key
      PROVE  inflight'[q] <= Cardinality(Booting(q))'
  <2>1. CASE q = k
    BY <1>1, <1>5, <1>6, <1>7, <1>8, <2>1
  <2>2. CASE q # k
    BY <1>4, <1>6, <2>2 DEF Counted, NoPhantomProvision
  <2> QED BY <2>1, <2>2
<1>10. ASSUME teardown = "never", NEW q \in Key
       PROVE  /\ inflight'[q] = Cardinality(Booting(q))'
              /\ inflight'[q] = inflight[q] - (IF q = k THEN 1 ELSE 0)
  <2>1. inflight[q] = Cardinality(Booting(q))
    BY <1>10 DEF Counted
  <2>2. CASE q = k
    BY <1>1, <1>5, <1>6, <1>8, <2>1, <2>2
  <2>3. CASE q # k
    BY <1>4, <1>6, <2>1, <2>3
  <2> QED BY <2>2, <2>3
<1> QED BY <1>9, <1>10 DEF NoPhantomProvision

LEMMA EnsureCounted ==
    ASSUME IInv, Counted, NEW id \in Identity, NEW t \in Target, Ensure(id, t)
    PROVE  Counted'
<1> DEFINE k == prewarmKey(id)
           want == Shortfall(k, t)
<1>1. PICK fresh \in SUBSET {h \in Handle : box[h] = "none"} :
        /\ Cardinality(fresh) = want
        /\ want > 0
        /\ box' = [h \in Handle |-> IF h \in fresh THEN "booting" ELSE box[h]]
        /\ home' = [h \in Handle |-> IF h \in fresh THEN id ELSE home[h]]
        /\ inflight' = [inflight EXCEPT ![k] = @ + want]
        /\ UNCHANGED teardown
        /\ UNCHANGED <<ready, timers, tenant, destroys>>
  BY DEF Ensure
<1>2. k \in Key
  BY KeyOfIdentity
<1>3. \A q \in Key : /\ Len(ready[q]) \in Nat /\ inflight[q] \in Nat
                     /\ Cardinality(Booting(q)) \in Nat
  BY LenProperties, BootingFinite DEF IInv, TypeOK
<1>4. t \in Nat /\ want = t - Len(ready[k]) - inflight[k] /\ want \in Nat
  BY <1>1, <1>2, <1>3, TargetAssumption DEF Shortfall
<1>5. Booting(k)' = Booting(k) \cup fresh
  BY <1>1 DEF Booting
<1>6. Booting(k) \cap fresh = {}
  BY DEF Booting
<1>7. \A q \in Key \ {k} : Booting(q)' = Booting(q)
  BY <1>1 DEF Booting
<1>8. IsFiniteSet(fresh)
  BY HandleAssumption, FS_Subset
<1>9. Cardinality(Booting(k))' = Cardinality(Booting(k)) + want
  <2>1. Cardinality(Booting(k) \cup fresh) =
          Cardinality(Booting(k)) + Cardinality(fresh) - Cardinality(Booting(k) \cap fresh)
    BY <1>8, BootingFinite, FS_Union
  <2>2. Cardinality(Booting(k) \cap fresh) = 0
    BY <1>6, FS_EmptySet
  <2>3. Cardinality(Booting(k))' = Cardinality(Booting(k) \cup fresh)
    BY <1>5
  <2> HIDE DEF want, k
  <2> QED BY <1>1, <1>2, <1>3, <1>4, <2>1, <2>2, <2>3
<1>10. /\ inflight'[k] = inflight[k] + want
       /\ \A q \in Key \ {k} : inflight'[q] = inflight[q]
  BY <1>1, <1>2 DEF IInv, TypeOK
<1> HIDE DEF k, want
<1>11. NoPhantomProvision'
  <2> SUFFICES ASSUME NEW q \in Key PROVE inflight'[q] <= Cardinality(Booting(q))'
    BY DEF NoPhantomProvision
  <2>1. inflight[q] <= Cardinality(Booting(q))
    BY DEF Counted, NoPhantomProvision
  <2>2. CASE q = k
    BY <1>3, <1>4, <1>9, <1>10, <2>1, <2>2
  <2>3. CASE q # k
    BY <1>7, <1>10, <2>1, <2>3
  <2> QED BY <2>2, <2>3
<1>12. ASSUME teardown' = "never", NEW q \in Key
       PROVE  /\ inflight'[q] = Cardinality(Booting(q))'
              /\ \E s \in Target \cup {0} : Len(ready'[q]) + inflight'[q] <= s
  <2>1. teardown = "never"
    BY <1>1, <1>12 DEF IInv, TypeOK
  <2>2. /\ inflight[q] = Cardinality(Booting(q))
        /\ \E s \in Target \cup {0} : Len(ready[q]) + inflight[q] <= s
    BY <2>1 DEF Counted
  <2>3. CASE q = k
    <3>1. Len(ready'[k]) + inflight'[k] <= t
      BY <1>1, <1>2, <1>3, <1>4, <1>10
    <3> QED BY <1>9, <1>10, <2>2, <2>3, <3>1
  <2>4. CASE q # k
    BY <1>1, <1>7, <1>10, <2>2, <2>4
  <2> QED BY <2>3, <2>4
<1> QED BY <1>11, <1>12 DEF Counted

LEMMA ProvisionOkCounted ==
    ASSUME IInv, Counted, NEW h \in Handle, ProvisionOk(h)
    PROVE  Counted'
<1> DEFINE k == prewarmKey(home[h])
<1>1. /\ box[h] = "booting" /\ home' = home /\ CountDown(k) /\ teardown' = teardown
      /\ box' = [box EXCEPT ![h] = "up"]
      /\ ready' = [ready EXCEPT ![k] = Append(@, h)]
  BY DEF ProvisionOk
<1>2. /\ NoPhantomProvision'
      /\ teardown = "never" => \A q \in Key :
            /\ inflight'[q] = Cardinality(Booting(q))'
            /\ inflight'[q] = inflight[q] - (IF q = k THEN 1 ELSE 0)
  BY <1>1, SettledProvision
<1>3. k \in Key
  BY KeyOfIdentity DEF IInv, HomesKnown, ProvisionOk
<1>4. \A q \in Key : /\ Len(ready[q]) \in Nat /\ inflight[q] \in Nat
                     /\ Len(ready'[q]) = Len(ready[q]) + (IF q = k THEN 1 ELSE 0)
  BY <1>1, <1>3, LenProperties, AppendProperties DEF IInv, TypeOK
<1>5. ASSUME teardown' = "never", NEW q \in Key
      PROVE  \E s \in Target \cup {0} : Len(ready'[q]) + inflight'[q] <= s
  <2>1. PICK s \in Target \cup {0} : Len(ready[q]) + inflight[q] <= s
    BY <1>1, <1>5 DEF Counted
  <2>2. inflight'[q] = inflight[q] - (IF q = k THEN 1 ELSE 0)
    BY <1>1, <1>2, <1>5
  <2>3. Len(ready'[q]) + inflight'[q] = Len(ready[q]) + inflight[q]
    <3>1. Len(ready[q]) \in Nat /\ inflight[q] \in Nat
      BY <1>4
    <3>2. Len(ready'[q]) = Len(ready[q]) + (IF q = k THEN 1 ELSE 0)
      BY <1>4
    <3> HIDE DEF k
    <3>3. CASE q = k
      BY <2>2, <3>1, <3>2, <3>3
    <3>4. CASE q # k
      BY <2>2, <3>1, <3>2, <3>4
    <3> QED BY <3>3, <3>4
  <2> QED BY <2>1, <2>3
<1> QED BY <1>1, <1>2, <1>5 DEF Counted

LEMMA ProvisionFailCounted ==
    ASSUME IInv, Counted, NEW h \in Handle, ProvisionFail(h)
    PROVE  Counted'
<1> DEFINE k == prewarmKey(home[h])
<1>1. /\ box[h] = "booting" /\ home' = home /\ CountDown(k) /\ teardown' = teardown
      /\ box' = [box EXCEPT ![h] = "failed"] /\ ready' = ready
  BY DEF ProvisionFail
<1>2. /\ NoPhantomProvision'
      /\ teardown = "never" => \A q \in Key :
            /\ inflight'[q] = Cardinality(Booting(q))'
            /\ inflight'[q] = inflight[q] - (IF q = k THEN 1 ELSE 0)
  BY <1>1, SettledProvision
<1>3. \A q \in Key : Len(ready[q]) \in Nat /\ inflight[q] \in Nat
  BY LenProperties DEF IInv, TypeOK
<1>4. ASSUME teardown' = "never", NEW q \in Key
      PROVE  \E s \in Target \cup {0} : Len(ready'[q]) + inflight'[q] <= s
  <2>1. PICK s \in Target \cup {0} : Len(ready[q]) + inflight[q] <= s
    BY <1>1, <1>4 DEF Counted
  <2>2. s \in Nat
    BY TargetAssumption
  <2>3. Len(ready'[q]) + inflight'[q] <= s
    BY <1>1, <1>2, <1>3, <1>4, <2>1, <2>2
  <2> QED BY <2>3
<1> QED BY <1>1, <1>2, <1>4 DEF Counted

(* Lists may only have shrunk, and nothing else the counts depend on moved.*)
LEMMA ShrunkListsCounted ==
    ASSUME IInv, Counted, IInv',
           UNCHANGED <<inflight, box, home, teardown>>,
           \A q \in Key : Len(ready'[q]) <= Len(ready[q])
    PROVE  Counted'
<1>1. \A q \in Key : /\ Len(ready[q]) \in Nat /\ Len(ready'[q]) \in Nat
                     /\ inflight[q] \in Nat /\ Booting(q)' = Booting(q)
  BY LenProperties DEF IInv, TypeOK, Booting
<1>2. \A s \in Target \cup {0} : s \in Nat
  BY TargetAssumption
<1> QED BY <1>1, <1>2 DEF Counted, NoPhantomProvision

LEMMA ClaimCounted ==
    ASSUME IInv, Counted, NEW id \in Identity, NEW h \in Handle, Claim(id, h)
    PROVE  Counted'
<1> DEFINE k == prewarmKey(id)
<1>1. ready[k] \in Seq(Handle) /\ ready[k] # <<>> /\ ready' = [ready EXCEPT ![k] = Tail(@)]
  BY KeyOfIdentity DEF Claim, IInv, TypeOK
<1>2. Len(Tail(ready[k])) = Len(ready[k]) - 1 /\ Len(ready[k]) \in Nat
  BY <1>1, HeadTailProperties, LenProperties
<1>3. \A q \in Key : Len(ready[q]) \in Nat
  BY LenProperties DEF IInv, TypeOK
<1>4. \A q \in Key : Len(ready'[q]) <= Len(ready[q])
  BY <1>1, <1>2, <1>3 DEF IInv, TypeOK
<1>5. UNCHANGED <<inflight, box, home, teardown>>
  BY DEF Claim
<1> QED BY <1>4, <1>5, ClaimIInv, ShrunkListsCounted

LEMMA EvictCounted ==
    ASSUME IInv, Counted, NEW h \in Handle, Evict(h)
    PROVE  Counted'
<1> DEFINE k == prewarmKey(home[h])
<1>1. UNCHANGED <<inflight, box, home, teardown>>
  BY DEF Evict
<1>2. \A q \in Key : ready[q] \in Seq(Handle) /\ Len(ready[q]) \in Nat
  BY LenProperties DEF IInv, TypeOK
<1>3. \A q \in Key : Len(ready'[q]) <= Len(ready[q])
  <2>1. CASE ready' = ready
    BY <1>2, <2>1
  <2>2. CASE \E n \in 1..Len(ready[k]) : ready' = [ready EXCEPT ![k] = RemoveAt(@, n)]
    <3>1. PICK n \in 1..Len(ready[k]) : ready' = [ready EXCEPT ![k] = RemoveAt(ready[k], n)]
      BY <2>2
    <3>2. ASSUME k \in Key PROVE Len(RemoveAt(ready[k], n)) = Len(ready[k]) - 1
      BY <1>2, <3>2, RemoveAtKeeps
    <3> QED BY <1>2, <3>1, <3>2 DEF IInv, TypeOK
  <2> QED BY <2>1, <2>2 DEF Evict
<1> QED BY <1>1, <1>3, EvictIInv, ShrunkListsCounted

LEMMA DestroyAllCounted ==
    ASSUME IInv, DestroyAll
    PROVE  Counted'
<1>1. \A q \in Key : inflight'[q] = 0 /\ Cardinality(Booting(q))' \in Nat
  <2>1. \A q \in Key : Booting(q)' = Booting(q)
    BY DEF DestroyAll, Booting
  <2> QED BY <2>1, BootingFinite DEF DestroyAll
<1> QED BY <1>1 DEF Counted, NoPhantomProvision, DestroyAll

LEMMA NextCounted == IInv /\ Counted /\ [Next]_poolVars => Counted'
<1> SUFFICES ASSUME IInv, Counted, [Next]_poolVars PROVE Counted'
  OBVIOUS
<1>1. CASE Next
  BY <1>1, EnsureCounted, ProvisionOkCounted, ProvisionFailCounted, ClaimCounted, EvictCounted,
     DestroyAllCounted DEF Next
<1>2. CASE UNCHANGED poolVars
  BY <1>2 DEF poolVars, Counted, NoPhantomProvision, Booting
<1> QED BY <1>1, <1>2

LEMMA PoolCounted == Spec => []Counted
  BY InitCounted, NextCounted, PoolInvariant, PTL DEF Spec

(* The inflight counter never claims a provision that is not under way, so *)
(* a key can always be refilled once its provisions have settled.          *)
THEOREM PoolNoPhantomProvision == Spec => []NoPhantomProvision
<1>1. Counted => NoPhantomProvision
  BY DEF Counted
<1> QED BY <1>1, PoolCounted, PTL

(* Until a teardown no key ever holds or awaits more sandboxes than the    *)
(* largest target asked for.                                               *)
THEOREM PoolNoOvershoot == Spec => []NoOvershoot
<1>1. Counted => NoOvershoot
  BY DEF Counted, NoOvershoot
<1> QED BY <1>1, PoolCounted, PTL
=============================================================================
