------------------------- MODULE EnvironmentsProofs -------------------------
(***************************************************************************)
(* Proofs about module Environments, for any tools, ports and bound.       *)
(*                                                                         *)
(* AllOrNothing needs only what provision had done at the step that        *)
(* failed.  DestroyTakesAll needs the books of the proxies: without        *)
(* overlaps a port has exactly the server its entry names, until the loop  *)
(* of destroy has closed it.                                               *)
(***************************************************************************)
EXTENDS Environments, Integers, TLAPS

Stages == {"creating", "preparing", "materializing", "failed", "ready",
           "destroying", "deleting", "destroyed", "crashed"}

EnvironmentTypes ==
    /\ adapter \in Adapters
    /\ proxied \in BOOLEAN /\ filled \in BOOLEAN /\ refused \in BOOLEAN
    /\ crossed \in BOOLEAN /\ late \in BOOLEAN
    /\ stage \in Stages
    /\ call \in [Caller -> Port \cup {None}]
    /\ servers \in [Port -> Int]
    /\ entries \subseteq Port /\ visited \subseteq Port
    /\ closing \in Port \cup {None}

(* What a provision of Daytona has done at each of its steps.              *)
ProvisionInv ==
    /\ adapter = "daytona" /\ HasHandle => filled
    /\ adapter = "daytona" /\ stage = "failed" => sandbox # "running" \/ refused
    /\ stage = "creating" => sandbox = "none"
    /\ stage = "destroyed" => sandbox = "gone" \/ refused

(* Nothing is exposed before there is a handle, or without a proxy.        *)
HandleInv ==
    /\ stage # "destroying" => visited = {} /\ closing = None
    /\ ~HasHandle \/ ~proxied => entries = {} /\ \A c \in Caller : call[c] = None
    /\ stage = "destroying" => proxied

(* Is the server of p's entry still to be closed?                          *)
Serves(p) == p \in entries /\ (p \notin visited \/ p = closing)

(* The books, as long as no two exposes of a port overlapped and nothing   *)
(* overlapped the destroy.                                                 *)
ProxyInv ==
    ~crossed /\ ~late =>
        /\ \A c, d \in Caller : call[c] = call[d] /\ call[c] # None => c = d
        /\ \A c \in Caller : call[c] \notin entries
        /\ Ending => \A c \in Caller : call[c] = None
        /\ \A p \in Port : servers[p] = IF Serves(p) THEN 1 ELSE 0
        /\ closing # None => closing \in entries \cap visited
        /\ stage \in {"deleting", "destroyed"} => entries = {}
        /\ Ending => children = 0

EInv == EnvironmentTypes /\ ProvisionInv /\ HandleInv /\ ProxyInv
-----------------------------------------------------------------------------
LEMMA InitEInv == Init => EInv
<1> SUFFICES ASSUME Init PROVE EInv
  OBVIOUS
<1>1. EnvironmentTypes
  <2>1. adapter \in Adapters /\ proxied \in BOOLEAN /\ stage = "creating"
    BY DEF Init
  <2>2. filled = FALSE /\ refused = FALSE /\ crossed = FALSE /\ late = FALSE
    BY DEF Init
  <2>3. call = [c \in Caller |-> None] /\ servers = [p \in Port |-> 0]
    BY DEF Init
  <2>4. entries = {} /\ visited = {} /\ closing = None
    BY DEF Init
  <2>5. call \in [Caller -> Port \cup {None}] /\ servers \in [Port -> Int]
    BY <2>3
  <2>6. /\ filled \in BOOLEAN /\ refused \in BOOLEAN
        /\ crossed \in BOOLEAN /\ late \in BOOLEAN
    BY <2>2
  <2> QED
    BY <2>1, <2>4, <2>5, <2>6 DEF EnvironmentTypes, Stages
<1>2. ProvisionInv /\ HandleInv
  BY DEF Init, ProvisionInv, HandleInv, HasHandle
<1>3. ProxyInv
  BY EnvironmentAssumption DEF Init, ProxyInv, Serves, Ending
<1> QED
  BY <1>1, <1>2, <1>3 DEF EInv

(* Every action preserves the invariant; the actions of provision touch no *)
(* proxy.                                                                  *)
USE EnvironmentAssumption DEF Stage, Adapters, Stages, HasHandle, Ending, provisionVars, proxyVars
USE DEF EInv, EnvironmentTypes, ProvisionInv, HandleInv, ProxyInv, Serves

LEMMA ProvisionEInv ==
    ASSUME EInv, CreateFails \/ Create \/ Prepare \/ PrepareFails
    PROVE  EInv'
<1>1. CASE CreateFails
  BY <1>1 DEF CreateFails
<1>2. CASE Create
  BY <1>2 DEF Create
<1>3. CASE Prepare
  BY <1>3 DEF Prepare
<1>4. CASE PrepareFails
  BY <1>4 DEF PrepareFails
<1> QED
  BY <1>1, <1>2, <1>3, <1>4

LEMMA MaterializeEInv ==
    ASSUME EInv, Materialize \/ MaterializeFails
    PROVE  EInv'
<1>1. CASE Materialize
  <2>1. filled' \in BOOLEAN /\ (adapter = "daytona" => filled')
    BY <1>1 DEF Materialize, CloneIsChecked, RejectsCache
  <2> QED
    BY <1>1, <2>1 DEF Materialize
<1>2. CASE MaterializeFails
  <2>1. refused' \in BOOLEAN /\ (adapter = "daytona" => sandbox' # "running" \/ refused')
    BY <1>2 DEF MaterializeFails, CleansUp
  <2> QED
    BY <1>2, <2>1 DEF MaterializeFails
<1> QED
  BY <1>1, <1>2

LEMMA ExposeEInv ==
    ASSUME EInv, NEW c \in Caller, NEW p \in Port, Expose(c, p)
    PROVE  EInv'
<1>1. EnvironmentTypes' /\ ProvisionInv' /\ HandleInv'
  BY DEF Expose
<1>2. ProxyInv'
  <2> SUFFICES ASSUME ~crossed', ~late' PROVE ProxyInv'
    OBVIOUS
  <2>1. ~crossed /\ ~late /\ ~Ending /\ \A d \in Caller : call[d] # p
    BY DEF Expose
  <2>2. p \notin entries /\ p # None
    BY DEF Expose, Reused
  <2>3. \A d \in Caller : call'[d] = IF d = c THEN p ELSE call[d]
    BY DEF Expose
  <2>4. UNCHANGED <<stage, servers, entries, visited, closing, children>>
    BY DEF Expose
  <2> QED
    BY <2>1, <2>2, <2>3, <2>4
<1> QED
  BY <1>1, <1>2

LEMMA ExposeFailsEInv ==
    ASSUME EInv, NEW c \in Caller, ExposeFails(c)
    PROVE  EInv'
  BY DEF ExposeFails

LEMMA ListeningEInv ==
    ASSUME EInv, NEW c \in Caller, Listening(c)
    PROVE  EInv'
<1> DEFINE p == call[c]
<1>1. p \in Port /\ p # None
  BY DEF Listening
<1>2. EnvironmentTypes' /\ ProvisionInv' /\ HandleInv'
  BY <1>1 DEF Listening
<1>3. ProxyInv'
  <2> SUFFICES ASSUME ~crossed', ~late' PROVE ProxyInv'
    OBVIOUS
  <2>1. ~crossed /\ ~late /\ ~Ending
    BY <1>1 DEF Listening
  <2>2. visited = {} /\ closing = None /\ p \notin entries
    BY <2>1
  <2>3. servers[p] = 0
    BY <1>1, <2>1, <2>2
  <2>4. \A d \in Caller : d # c => call[d] # p
    BY <1>1, <2>1
  <2>5. /\ \A q \in Port : servers'[q] = IF q = p THEN 1 ELSE servers[q]
        /\ \A d \in Caller : call'[d] = IF d = c THEN None ELSE call[d]
        /\ entries' = entries \cup {p}
        /\ UNCHANGED <<stage, visited, closing, children>>
    BY <1>1, <2>3 DEF Listening
  <2> QED
    BY <1>1, <2>1, <2>2, <2>4, <2>5
<1> QED
  BY <1>2, <1>3

LEMMA ListenFailsEInv ==
    ASSUME EInv, NEW c \in Caller, ListenFails(c)
    PROVE  EInv'
  BY DEF ListenFails

LEMMA UseEInv ==
    ASSUME EInv, Spawn \/ \E p \in Port : ViewerArrives(p) \/ ViewerLeaves(p)
    PROVE  EInv'
<1>1. CASE Spawn
  BY <1>1 DEF Spawn
<1>2. CASE \E p \in Port : ViewerArrives(p) \/ ViewerLeaves(p)
  BY <1>2 DEF ViewerArrives, ViewerLeaves
<1> QED
  BY <1>1, <1>2

LEMMA DestroyEInv == ASSUME EInv, Destroy
    PROVE  EInv'
<1>1. EnvironmentTypes' /\ ProvisionInv' /\ HandleInv'
  BY DEF Destroy
<1>2. ProxyInv'
  <2> SUFFICES ASSUME ~crossed', ~late' PROVE ProxyInv'
    OBVIOUS
  <2>1. ~crossed /\ ~late /\ \A c \in Caller : call[c] = None
    BY DEF Destroy
  <2>2. UNCHANGED <<call, servers, entries, visited, closing>> /\ children' = 0
    BY DEF Destroy
  <2>3. stage' = "deleting" => entries = {}
    BY DEF Destroy
  <2> QED
    BY <2>1, <2>2, <2>3 DEF Destroy
<1> QED
  BY <1>1, <1>2

LEMMA CloseServerEInv ==
    ASSUME EInv, NEW p \in Port, CloseServer(p)
    PROVE  EInv'
<1>1. EnvironmentTypes' /\ ProvisionInv' /\ HandleInv'
  BY DEF CloseServer
<1>2. ProxyInv'
  <2>1. /\ visited' = visited \cup {p} /\ closing' = p
        /\ closing = None /\ p \in entries \ visited
        /\ UNCHANGED <<stage, call, servers, entries, crossed, late, children>>
    BY DEF CloseServer
  <2>2. \A q \in Port : Serves(q)' <=> Serves(q)
    BY <2>1
  <2> QED
    BY <2>1, <2>2
<1> QED
  BY <1>1, <1>2

LEMMA ServerClosedEInv == ASSUME EInv, ServerClosed
    PROVE  EInv'
<1>1. EnvironmentTypes' /\ ProvisionInv' /\ HandleInv'
  BY DEF ServerClosed
<1>2. ProxyInv'
  <2>1. /\ closing \in Port /\ closing # None /\ closing' = None
        /\ \A q \in Port : servers'[q] = IF q = closing THEN servers[q] - 1 ELSE servers[q]
        /\ UNCHANGED <<stage, call, entries, visited, crossed, late, children>>
    BY DEF ServerClosed
  <2>2. stage = "destroying"
    BY <2>1
  <2>3. ASSUME ~crossed, ~late, NEW q \in Port
        PROVE  servers'[q] = IF Serves(q)' THEN 1 ELSE 0
    <3>1. CASE q = closing
      <4>1. Serves(q) /\ ~Serves(q)'
        BY <2>1, <2>3, <3>1
      <4> QED
        BY <2>1, <2>3, <3>1, <4>1
    <3>2. CASE q # closing
      <4>1. Serves(q)' <=> Serves(q)
        BY <2>1, <2>3, <3>2
      <4> QED
        BY <2>1, <2>3, <3>2, <4>1
    <3> QED
      BY <3>1, <3>2
  <2> QED
    BY <2>1, <2>2, <2>3
<1> QED
  BY <1>1, <1>2

LEMMA ProxiesClosedEInv == ASSUME EInv, ProxiesClosed
    PROVE  EInv'
<1>1. EnvironmentTypes' /\ ProvisionInv' /\ HandleInv'
  BY DEF ProxiesClosed
<1>2. ProxyInv'
  BY DEF ProxiesClosed
<1> QED
  BY <1>1, <1>2

LEMMA DeletedEInv == ASSUME EInv, Deleted
    PROVE  EInv'
  BY DEF Deleted

LEMMA NextEInv == EInv /\ [Next]_vars => EInv'
<1> SUFFICES ASSUME EInv, [Next]_vars PROVE EInv'
  OBVIOUS
<1>1. CASE UNCHANGED vars
  BY <1>1 DEF vars
<1>2. CASE Next
  BY <1>2, ProvisionEInv, MaterializeEInv, ExposeEInv, ExposeFailsEInv, ListeningEInv,
     ListenFailsEInv, UseEInv, DestroyEInv, CloseServerEInv, ServerClosedEInv, ProxiesClosedEInv, DeletedEInv
     DEF Next
<1> QED
  BY <1>1, <1>2
-----------------------------------------------------------------------------
HIDE DEF EInv

(* The invariant holds in every reachable state, for any Caller, Port and  *)
(* MaxServers.                                                             *)
THEOREM EnvironmentInvariance == Spec => []EInv
<1>1. EInv /\ [Next]_vars => EInv'
  BY NextEInv
<1> QED
  BY InitEInv, <1>1, PTL DEF Spec

(* Daytona's provision hands out a workspace that holds its source, or     *)
(* leaves no sandbox the provider agreed to delete (daytona/index.ts:350). *)
THEOREM ProvisionIsAllOrNothing == Spec => []AllOrNothing
<1>1. EInv => AllOrNothing
  BY DEF AllOrNothing, EInv
<1> QED
  BY EnvironmentInvariance, <1>1, PTL

(* destroy takes the proxies, the processes and the sandbox with it        *)
(* (docker/index.ts:186, docker/proxy.ts:72), unless operations overlap.   *)
THEOREM DestroyIsComplete == Spec => []DestroyTakesAll
<1>1. EInv => DestroyTakesAll
  BY DEF DestroyTakesAll, EInv
<1> QED
  BY EnvironmentInvariance, <1>1, PTL
=============================================================================
