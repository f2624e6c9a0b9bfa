---------------------------- MODULE Environments ----------------------------
(***************************************************************************)
(* One sandbox of any adapter, from provision to destroy                   *)
(* (src/src/environments/{local,docker,e2b,daytona,codesandbox}/index.ts), *)
(* with the preview proxy some of them put in front of it (docker/proxy.ts *)
(* and previewProxy.ts, which differ in the headers they add).             *)
(*                                                                         *)
(* Every step a provider call may fail at is a step here.  The handle is   *)
(* used by tools that run side by side (harnesses, kernel tools) and is    *)
(* destroyed by the kernel whenever it likes; viewers hold connections to  *)
(* the proxies they were sent to.                                          *)
(***************************************************************************)
EXTENDS Naturals, FiniteSets

CONSTANTS
    Caller,     \* tools that may be using the handle at one time
    Port,       \* ports of the sandbox
    MaxServers, \* bound: proxy servers started per port
    None

Adapters == {"local", "docker", "e2b", "daytona", "codesandbox"}

ASSUME EnvironmentAssumption == MaxServers \in Nat /\ None \notin Port

VARIABLES
    adapter,
    source,     \* ProvisionSpec.source.kind
    proxied,    \* exposePort goes through a local proxy
    stage,      \* how far provision or destroy is; "crashed": the process is gone
    sandbox,    \* "none", "running" or "gone": what the provider has
    filled,     \* the workspace holds its source
    refused,    \* history: the provider refused to delete the sandbox
    call,       \* call[c]: the port c is opening a proxy for, or None
    servers,    \* servers[p]: proxy servers listening for p
    entries,    \* the ports in the proxy's map
    visited,    \* the entries destroy's loop has come to
    closing,    \* the port whose server it waits for, or None
    viewers,    \* ports whose mapped server has a connection open
    children,   \* detached processes of a local workspace
    crossed,    \* history: two exposes of a port overlapped
    late        \* history: an operation overlapped the destroy

provisionVars == <<adapter, source, proxied, filled>>
proxyVars == <<call, servers, entries, viewers, crossed>>
vars == <<provisionVars, stage, sandbox, refused, proxyVars, visited, closing, children, late>>

(* E2B proxies when the sandbox turns out to have a traffic token.         *)
Init ==
    /\ adapter \in Adapters
    /\ source \in {"files", "git", "cache"}
    /\ proxied \in BOOLEAN
    /\ adapter = "docker" => proxied
    /\ adapter \notin {"docker", "e2b"} => ~proxied
    /\ stage = "creating"
    /\ sandbox = "none"
    /\ filled = FALSE /\ refused = FALSE /\ crossed = FALSE /\ late = FALSE
    /\ call = [c \in Caller |-> None]
    /\ servers = [p \in Port |-> 0]
    /\ entries = {} /\ visited = {} /\ viewers = {}
    /\ closing = None
    /\ children = 0
-----------------------------------------------------------------------------
Stage(from, to) == stage = from /\ stage' = to

(* The key, the image, the directory or the create call itself fails.      *)
CreateFails ==
    /\ Stage("creating", "failed")
    /\ UNCHANGED <<provisionVars, sandbox, refused, proxyVars, visited, closing, children, late>>

Create ==
    /\ Stage("creating", "preparing")
    /\ sandbox' = "running"
    /\ UNCHANGED <<provisionVars, refused, proxyVars, visited, closing, children, late>>

(* Docker starts the container, E2B makes the directory, CodeSandbox       *)
(* connects; the others have nothing to do that could fail.                *)
Prepare ==
    /\ Stage("preparing", "materializing")
    /\ UNCHANGED <<provisionVars, sandbox, refused, proxyVars, visited, closing, children, late>>

PrepareFails ==
    /\ adapter \in {"docker", "e2b", "codesandbox"}
    /\ Stage("preparing", "failed")
    /\ UNCHANGED <<provisionVars, sandbox, refused, proxyVars, visited, closing, children, late>>

(* A clone through exec reports its failure as an exit code, which nobody  *)
(* looks at; Daytona's own clone throws.                                   *)
CloneIsChecked == adapter = "daytona"

(* No adapter has a cache: two say so, the others hand out an empty        *)
(* workspace.                                                              *)
RejectsCache == adapter \in {"daytona", "codesandbox"}

Materialize ==
    /\ Stage("materializing", "ready")
    /\ \/ source # "cache" /\ filled' = TRUE
       \/ source = "git" /\ ~CloneIsChecked /\ filled' = FALSE
       \/ source = "cache" /\ ~RejectsCache /\ filled' = FALSE
    /\ UNCHANGED <<adapter, source, proxied, sandbox, refused, proxyVars, visited, closing, children, late>>

CleansUp_Never == FALSE

(* Only Daytona's provision has a catch.                                   *)
CleansUp == adapter = "daytona"

(* provision throws what materialize threw.                                *)
MaterializeFails ==
    /\ Stage("materializing", "failed")
    /\ \/ CleansUp /\ sandbox' = "gone" /\ UNCHANGED refused
       \/ CleansUp /\ refused' = TRUE /\ UNCHANGED sandbox
       \/ ~CleansUp /\ UNCHANGED <<sandbox, refused>>
    /\ UNCHANGED <<provisionVars, proxyVars, visited, closing, children, late>>
-----------------------------------------------------------------------------
HasHandle == stage \in {"ready", "destroying", "deleting", "destroyed"}
Ending == stage \in {"destroying", "deleting", "destroyed"}

Reused_Never(p) == FALSE

Reused(p) == p \in entries

(* exposePort up to freePort's await.  A port that has its proxy gets the  *)
(* url of it and changes nothing.                                          *)
Expose(c, p) ==
    /\ HasHandle /\ proxied /\ sandbox = "running"
    /\ call[c] = None
    /\ ~Reused(p)
    /\ servers[p] + Cardinality({d \in Caller : call[d] = p}) < MaxServers
    /\ call' = [call EXCEPT ![c] = p]
    /\ crossed' = (crossed \/ \E d \in Caller : call[d] = p)
    /\ late' = (late \/ Ending)
    /\ UNCHANGED <<provisionVars, stage, sandbox, refused, servers, entries, viewers, visited, closing, children>>

(* No free port: exposePort rejects.                                       *)
ExposeFails(c) ==
    /\ call[c] # None
    /\ call' = [call EXCEPT ![c] = None]
    /\ UNCHANGED <<provisionVars, stage, sandbox, refused, servers, entries, viewers, crossed, visited, closing, children, late>>

(* The server listens and takes the port's entry, whoever had it; the      *)
(* viewers of a server that lost its entry are of no concern to destroy.   *)
Listening(c) ==
    LET p == call[c] IN
    /\ p # None
    /\ call' = [call EXCEPT ![c] = None]
    /\ servers' = [servers EXCEPT ![p] = @ + 1]
    /\ entries' = entries \cup {p}
    /\ viewers' = viewers \ ({p} \ {closing})
    /\ UNCHANGED <<provisionVars, stage, sandbox, refused, crossed, visited, closing, children, late>>

(* Another listener took the free port meanwhile.  Nobody handles the      *)
(* server's error event, which ends the process, its proxies with it.      *)
ListenFails(c) ==
    /\ call[c] # None
    /\ stage' = "crashed"
    /\ call' = [d \in Caller |-> None]
    /\ servers' = [p \in Port |-> 0]
    /\ entries' = {} /\ visited' = {} /\ viewers' = {}
    /\ closing' = None
    /\ UNCHANGED <<provisionVars, sandbox, refused, crossed, children, late>>

(* A browser opens the preview, hot reloading over a WebSocket; a server   *)
(* that is closing takes no new connection.                                *)
ViewerArrives(p) ==
    /\ p \in entries \ visited
    /\ viewers' = viewers \cup {p}
    /\ UNCHANGED <<provisionVars, stage, sandbox, refused, call, servers, entries, crossed, visited, closing, children, late>>

ViewerLeaves(p) ==
    /\ p \in viewers
    /\ viewers' = viewers \ {p}
    /\ UNCHANGED <<provisionVars, stage, sandbox, refused, call, servers, entries, crossed, visited, closing, children, late>>

(* LocalHandle.exec, detached: a process group of the host.                *)
Spawn ==
    /\ adapter = "local" /\ stage \in {"ready", "deleting"}
    /\ children < MaxServers
    /\ children' = children + 1
    /\ late' = (late \/ Ending)
    /\ UNCHANGED <<provisionVars, stage, sandbox, refused, proxyVars, visited, closing>>

(* destroy: the proxies first, while the sandbox still runs.  A local      *)
(* workspace has none: its processes are killed, then it is removed.  Two  *)
(* overlapping calls of a session may both come here (session.ts:89, 138). *)
(* The second starts over, or goes through the map in step with the first: *)
(* to close a server that is closing is to wait for the same connections.  *)
Destroy ==
    /\ stage \in {"ready", "destroyed"}
    /\ stage' = IF proxied THEN "destroying" ELSE "deleting"
    /\ children' = 0
    /\ late' = (late \/ \E c \in Caller : call[c] # None)
    /\ UNCHANGED <<provisionVars, sandbox, refused, proxyVars, visited, closing>>

(* The loop runs over the live map: an entry added meanwhile is visited,   *)
(* one that was replaced after its visit is not.                           *)
CloseServer(p) ==
    /\ stage = "destroying" /\ closing = None
    /\ p \in entries \ visited
    /\ visited' = visited \cup {p}
    /\ closing' = p
    /\ UNCHANGED <<provisionVars, stage, sandbox, refused, proxyVars, children, late>>

(* server.close calls back when the last connection is gone.               *)
ServerClosed ==
    /\ closing # None
    /\ closing \notin viewers
    /\ servers' = [servers EXCEPT ![closing] = @ - 1]
    /\ closing' = None
    /\ UNCHANGED <<provisionVars, stage, sandbox, refused, call, entries, viewers, crossed, visited, children, late>>

ProxiesClosed_WhenEmpty ==
    /\ Stage("destroying", "deleting")
    /\ closing = None /\ entries = {}
    /\ visited' = {}
    /\ UNCHANGED <<provisionVars, sandbox, refused, proxyVars, closing, children, late>>

(* The map is cleared only after the loop.                                 *)
ProxiesClosed ==
    /\ Stage("destroying", "deleting")
    /\ closing = None /\ entries \subseteq visited
    /\ entries' = {} /\ visited' = {}
    /\ UNCHANGED <<provisionVars, sandbox, refused, call, servers, viewers, crossed, closing, children, late>>

(* Stopped and removed, killed, deleted, shut down; a failure is ignored.  *)
Deleted ==
    /\ Stage("deleting", "destroyed")
    /\ \/ sandbox' = "gone" /\ UNCHANGED refused
       \/ refused' = TRUE /\ UNCHANGED sandbox
    /\ UNCHANGED <<provisionVars, proxyVars, visited, closing, children, late>>
-----------------------------------------------------------------------------
Next ==
    \/ CreateFails \/ Create \/ Prepare \/ PrepareFails \/ Materialize \/ MaterializeFails
    \/ \E c \in Caller :
          \/ \E p \in Port : Expose(c, p)
          \/ ExposeFails(c)
          \/ Listening(c)
          \/ ListenFails(c)
    \/ \E p \in Port : ViewerArrives(p) \/ ViewerLeaves(p) \/ CloseServer(p)
    \/ Spawn
    \/ Destroy \/ ServerClosed \/ ProxiesClosed \/ Deleted

Spec == Init /\ [][Next]_vars

(* destroy's own steps, and browsers that close their tab in the end.      *)
Fairness ==
    /\ \A p \in Port : WF_vars(CloseServer(p)) /\ WF_vars(ViewerLeaves(p))
    /\ WF_vars(ServerClosed)
    /\ WF_vars(ProxiesClosed)
    /\ WF_vars(Deleted)

FairSpec == Spec /\ Fairness
-----------------------------------------------------------------------------
(* The one adapter that checks its clone and catches what fails hands out  *)
(* a workspace that holds its source or leaves no sandbox behind, whatever *)
(* step failed, unless the provider refused the delete (daytona/index.ts:  *)
(* 317-360).  The other four may leak one (docker/index.ts:242) or hand    *)
(* out an empty workspace after a failed clone (docker/index.ts:256).      *)
AllOrNothing ==
    adapter = "daytona" =>
        /\ stage \in {"ready", "destroying", "deleting"} => filled
        /\ stage = "failed" => sandbox # "running" \/ refused

(* After destroy no proxy listens and no process of the workspace runs,    *)
(* and the sandbox is gone unless the provider refused: whatever was       *)
(* exposed and watched before, as long as no operation overlapped the      *)
(* destroy and no two exposes of a port overlapped each other.             *)
DestroyTakesAll ==
    stage = "destroyed" /\ ~late /\ ~crossed =>
        /\ \A p \in Port : servers[p] = 0
        /\ children = 0
        /\ sandbox = "gone" \/ refused

(* destroy waits for the viewers, not for ever: it ends if they leave,     *)
(* or an expose that overlaps it ends the process.                         *)
DestroyEnds == (stage = "destroying") ~> (stage \in {"destroyed", "crashed"})
=============================================================================
