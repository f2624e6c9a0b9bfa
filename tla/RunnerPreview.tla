----------------------------- MODULE RunnerPreview -----------------------------
(***************************************************************************)
(* The preview of a runner session: features/canvas/hooks/usePreview.ts    *)
(* over core/preview.ts, and the two iframes of shared/                    *)
(* PreviewIframeHost.tsx that screens/preview/PreviewScreen.tsx gives its  *)
(* url to.  The hook lives as long as its session (the screen is keyed by  *)
(* it); the runner behind it is external.                                  *)
(*                                                                         *)
(* An action is a callback together with the effects of the render that    *)
(* follows (Render).  A url is what it is built from: the stamp (builtAt,  *)
(* devRunNonce, surface) of a snapshot that has a path and the token, else *)
(* None.  A token is named by the session's epoch it was fetched in.       *)
(* MaxMoves bounds the runner's versions, MaxReads the reads under way at  *)
(* once besides the poll.                                                  *)
(***************************************************************************)
EXTENDS CanvasBase, FiniteSets

CONSTANTS Stamp, MaxReads

ASSUME PreviewAssumption == None \notin Stamp /\ MaxReads \in Nat

VARIABLES
    runner,     \* the snapshot the runner would give now
    hook,       \* the state and the refs of usePreview
    reads,      \* GET /preview/snapshot under way: who reads, and the answer once given
    host        \* the slots of PreviewIframeHost

previewVars == <<runner, hook, reads, host>>
-----------------------------------------------------------------------------
Snapshot(epoch, version, status, stamp) ==
    [epoch |-> epoch, version |-> version, status |-> status, stamp |-> stamp]

MAX_AUTO_RECOVERIES == 2

Asked(who) == [by |-> who, answer |-> None]

NotMounted == [a |-> None, b |-> None, active |-> "a", bounced |-> FALSE]

(* isNewerSnapshot, for snapshots of the session shown.                    *)
Newer(prev, next) ==
    \/ prev = None
    \/ next.epoch > prev.epoch
    \/ next.epoch = prev.epoch /\ next.version > prev.version

Base(h) == IF h.snapshot = None THEN "provisioning" ELSE h.snapshot.status

State(h) ==
    IF h.evicted THEN "evicted"
    ELSE IF h.timedOut /\ Base(h) # "ready" THEN "error" ELSE Base(h)

ReadyWithUrl(h) == Base(h) = "ready" /\ h.url # None
Shown(h) == IF State(h) = "ready" /\ ReadyWithUrl(h) THEN h.url ELSE None

Path(h) == h.snapshot # None /\ h.snapshot.stamp # None
TokenKey(h) == IF Path(h) THEN h.snapshot.epoch ELSE None
Target(h) == IF Path(h) /\ h.token # None THEN <<h.snapshot.stamp, h.token>> ELSE None
-----------------------------------------------------------------------------
(* The token effect runs when path or epoch change: the call of before is  *)
(* cancelled, and a new one starts unless the key was fetched last.        *)
TokenEffect(h) ==
    IF TokenKey(h) = TokenKey(hook) THEN h
    ELSE IF TokenKey(h) \in {None, h.tokenKey} THEN [h EXCEPT !.fetching = FALSE]
    ELSE [h EXCEPT !.fetching = TRUE, !.tokenKey = TokenKey(h)]

(* The url effect: inputs gone clear it, new ones are resolved (after a    *)
(* preflight) at once the first time and 800 ms later from then on.        *)
UrlEffect(h) ==
    IF Target(h) = Target(hook) THEN h
    ELSE IF Target(h) = None THEN [h EXCEPT !.url = None, !.due = None]
    ELSE [h EXCEPT !.due = Target(h)]

(* Both timers are set anew whenever the state changes.                    *)
TimerEffects(h) ==
    IF State(h) = State(hook) /\ ReadyWithUrl(h) = ReadyWithUrl(hook) THEN h
    ELSE [h EXCEPT !.timeout = ~ReadyWithUrl(h),
                   !.recover = ~ReadyWithUrl(h) /\ State(h) # "evicted"]

Other(slot) == IF slot = "a" THEN "b" ELSE "a"
Candidate(t) == t[Other(t.active)]

Hosted_FirstWarms(u) ==
    IF u = Shown(hook) THEN host
    ELSE IF u = None THEN NotMounted
    ELSE IF Shown(hook) = None THEN [NotMounted EXCEPT !.a = u]
    ELSE IF Candidate(host) # None THEN host
    ELSE [host EXCEPT ![Other(host.active)] = u, !.bounced = FALSE]

(* The iframe host is there while there is a url to show.  The first url   *)
(* goes into the active slot, another one warms the other slot, and one    *)
(* that is in a slot already changes nothing (bounced: it is the active    *)
(* one, while the other slot still warms).                                 *)
Hosted(u) ==
    IF u = Shown(hook) THEN host
    ELSE IF u = None THEN NotMounted
    ELSE IF Shown(hook) = None THEN [NotMounted EXCEPT !.a = u]
    ELSE IF u = host[host.active] THEN [host EXCEPT !.bounced = Candidate(host) # None]
    ELSE IF u = Candidate(host) THEN [host EXCEPT !.bounced = FALSE]
    ELSE [host EXCEPT ![Other(host.active)] = u, !.bounced = FALSE]

(* The effects in their order.  (\E x \in {e} has TLC evaluate e once.)     *)
Render(h) ==
    \E fetched \in {TokenEffect(h)} : \E resolved \in {UrlEffect(fetched)} :
        /\ hook' = TimerEffects(resolved)
        /\ host' = Hosted(Shown(hook'))
-----------------------------------------------------------------------------
PreviewInit ==
    /\ runner = Snapshot(1, 1, "provisioning", None)
    /\ hook = [snapshot |-> None, token |-> None, tokenKey |-> None, fetching |-> FALSE,
               url |-> None, due |-> None, evicted |-> FALSE,
               timedOut |-> FALSE, recoveries |-> 0, timeout |-> TRUE, recover |-> TRUE]
    /\ reads = {Asked("poll")}
    /\ host = NotMounted

(* The runner's session moves on, or starts a new epoch (external; it is   *)
(* taken to name a path while it is ready and no longer).                  *)
RunnerMoves ==
    /\ runner.epoch + runner.version <= MaxMoves + 1
    /\ \E status \in {"provisioning", "container_dead", "ready"}, stamp \in Stamp \cup {None} :
          /\ (status = "ready") = (stamp # None)
          /\ \/ runner' = Snapshot(runner.epoch, runner.version + 1, status, stamp)
             \/ runner.epoch = 1 /\ runner' = Snapshot(2, 1, status, stamp)
    /\ UNCHANGED <<hook, reads, host>>

ServeSnapshot(r) ==
    /\ r.answer = None
    /\ reads' = (reads \ {r}) \cup {[r EXCEPT !.answer = runner]}
    /\ UNCHANGED <<runner, hook, host>>

(* The poll reads again and again, whatever a read came to; a read of the  *)
(* user or a timer is done once.                                           *)
ReadDone(r) ==
    reads' = (reads \ {r}) \cup
             IF r.by = "poll" THEN {Asked("poll")} ELSE {}

SnapshotArrives(r) ==
    /\ r.by # "retry" /\ r.answer # None /\ ReadDone(r)
    /\ Render(IF Newer(hook.snapshot, r.answer)
              THEN [hook EXCEPT !.snapshot = r.answer] ELSE hook)
    /\ UNCHANGED runner

(* The read of a manual Retry is applied without the gate.                 *)
RetryArrives(r) ==
    /\ r.by = "retry" /\ r.answer # None /\ ReadDone(r)
    /\ Render([hook EXCEPT !.snapshot = r.answer])
    /\ UNCHANGED runner

SnapshotFails(r) ==
    /\ ReadDone(r)
    /\ UNCHANGED <<runner, hook, host>>

(* The token comes; or the call fails, or answers that there is none.      *)
TokenArrives ==
    /\ hook.fetching
    /\ Render([hook EXCEPT !.fetching = FALSE, !.token = hook.tokenKey])
    /\ UNCHANGED <<runner, reads>>

TokenFails ==
    /\ hook.fetching
    /\ \E absent \in BOOLEAN :
          Render([hook EXCEPT !.fetching = FALSE, !.token = IF absent THEN None ELSE @])
    /\ UNCHANGED <<runner, reads>>

UrlResolves ==
    /\ hook.due # None
    /\ Render([hook EXCEPT !.url = hook.due, !.due = None])
    /\ UNCHANGED <<runner, reads>>

(* The probe of the url finds the session evicted, which is never taken    *)
(* back.  (The other such state, router_upgrade, waits for a property no   *)
(* location has, PreviewIframeHost.tsx:207, and is never entered.)         *)
Evicted ==
    /\ hook.url # None /\ ~hook.evicted
    /\ Render([hook EXCEPT !.evicted = TRUE])
    /\ UNCHANGED <<runner, reads>>
-----------------------------------------------------------------------------
AddRead(who) ==
    /\ Cardinality(reads) <= MaxReads
    /\ reads' = reads \cup {Asked(who)}

(* 300 s in one state without a url (the other timer comes at 120 s).      *)
TimesOut ==
    /\ hook.timeout /\ ~hook.recover
    /\ Render([hook EXCEPT !.timeout = FALSE, !.timedOut = TRUE])
    /\ UNCHANGED <<runner, reads>>

(* 120 s: reload by itself, twice at most.                                 *)
AutoRecovers ==
    /\ hook.recover
    /\ IF hook.recoveries < MAX_AUTO_RECOVERIES
       THEN /\ Render([hook EXCEPT !.recover = FALSE, !.recoveries = @ + 1])
            /\ AddRead("reload")
       ELSE /\ Render([hook EXCEPT !.recover = FALSE, !.timedOut = TRUE])
            /\ UNCHANGED reads
    /\ UNCHANGED runner

(* Reload in the toolbar, Restart on a panel (which may clear the dev      *)
(* backoff first).                                                         *)
ReloadPreview ==
    /\ Shown(hook) # None \/ State(hook) \in {"evicted", "container_dead", "error"}
    /\ AddRead("reload")
    /\ UNCHANGED <<runner, hook, host>>

Retry ==
    /\ State(hook) = "error"
    /\ AddRead("retry")
    /\ Render([hook EXCEPT !.timedOut = FALSE, !.recoveries = 0])
    /\ UNCHANGED runner

(* The other slot is promoted: its app said it is ready, or 1.5 s passed.  *)
(* (The timer that would discard it is set to 10 s and never gets there.)  *)
Promote ==
    /\ Candidate(host) # None
    /\ host' = [host EXCEPT ![host.active] = None, !.active = Other(@)]
    /\ UNCHANGED <<runner, hook, reads>>

PreviewNext ==
    \/ RunnerMoves
    \/ \E r \in reads : ServeSnapshot(r) \/ SnapshotArrives(r) \/ RetryArrives(r) \/ SnapshotFails(r)
    \/ TokenArrives \/ TokenFails \/ UrlResolves \/ Evicted
    \/ TimesOut \/ AutoRecovers \/ ReloadPreview \/ Retry \/ Promote
-----------------------------------------------------------------------------
(* Left without a token: the key of a call that failed, or was cancelled   *)
(* when the path went and came back, is never fetched again.               *)
Starved(h) == Path(h) /\ h.token = None /\ ~h.fetching

(* A session that is ready comes to be seen: the frame in front shows the  *)
(* url of the last snapshot, however often that changes while the one      *)
(* before is resolved, waits out the debounce or warms.  Or it stops being *)
(* ready, was left without a token, or its url went back to the one in     *)
(* front while a successor warmed, which is promoted all the same.         *)
ReadyIsShown ==
    State(hook) = "ready" ~>
        \/ Shown(hook) # None /\ Shown(hook) = Target(hook)
           /\ host[host.active] = Shown(hook)
        \/ State(hook) # "ready" \/ Starved(hook) \/ host.bounced
=============================================================================
