------------------------------ MODULE ChildMount ------------------------------
(***************************************************************************)
(* An embedded app in the canvas: features/canvas/hooks/useChildAppMount   *)
(* over core/childMount.ts, with the screen that puts its iframe in the    *)
(* page.  The app is found and (if materialized) attached, its iframe      *)
(* loads, and the host sends AOS_INIT until the app answers or three tries *)
(* are spent.                                                              *)
(*                                                                         *)
(* What the callbacks read is not the state but `seen', a copy made when   *)
(* React commits (and the iframe comes or goes): promises, timers and      *)
(* messages may run in between, network answers take longer than a commit. *)
(* The app inside the iframe is external.  MaxMoves bounds what the user   *)
(* does; MaxPolls stands for the 40 polls of the code.                     *)
(***************************************************************************)
EXTENDS CanvasBase

CONSTANTS App, MaxPolls

ASSUME MountAssumption == None \notin App /\ MaxPolls \in Nat \ {0}

VARIABLES
    load,       \* the resolution effect: the app it is for, how far it is, its polls
    mount,      \* the reducer's state: status, mountId, and whether it has an iframeSrc
    seen,       \* stateRef.current
    frame,      \* the iframe: its app, where it is, if it loaded, what AOS_INIT it got
    sends,      \* sendInit calls that wait for their token: app, attempt, and whether
                \* the window they hold is still the iframe's
    timer,      \* the attempt the ACK timer is for
    acks,       \* AOS_INIT_ACKs on their way, by mountId
    moves

mountVars == <<load, mount, seen, frame, sends, timer, acks, moves>>
-----------------------------------------------------------------------------
MAX_INIT_ATTEMPTS == 3

Initial == [status |-> "loading-node", app |-> None, src |-> FALSE]
NoFrame == [app |-> None, place |-> "none", loaded |-> FALSE, got |-> None]

Busy(m) == m.status \in {"loading-node", "attaching-runner", "iframe-loading", "init-sent"}
Committed == seen = mount
Dispatch(status) == mount' = [mount EXCEPT !.status = status]

Resolving(a) == [app |-> a, at |-> "node", polls |-> 0]
Resolved == [load EXCEPT !.at = "done"]

(* One app is mounted first (they are all alike).                          *)
MountInit ==
    /\ load = Resolving(CHOOSE a \in App : TRUE)
    /\ mount = Initial /\ seen = Initial
    /\ frame = NoFrame /\ sends = {} /\ timer = None /\ acks = {}
    /\ moves = 0

(* The screen keeps the iframe in a hidden box while busy and full-size    *)
(* when ready.  These are two places of its tree: passing from one to the  *)
(* other makes a new iframe.                                               *)
Place(m) ==
    CASE m.src /\ m.status = "ready" -> "shown"
      [] m.src /\ Busy(m) -> "hidden"
      [] OTHER -> "none"

Commit ==
    /\ ~Committed
    /\ seen' = mount
    /\ IF Place(mount) = frame.place /\ (frame # NoFrame => mount.app = frame.app)
       THEN UNCHANGED <<frame, sends>>
       ELSE /\ frame' = IF Place(mount) = "none" THEN NoFrame
                        ELSE [NoFrame EXCEPT !.app = mount.app, !.place = Place(mount)]
            /\ sends' = {[s EXCEPT !.here = FALSE] : s \in sends}
    /\ UNCHANGED <<load, mount, timer, acks, moves>>
-----------------------------------------------------------------------------
(* The resolution effect runs for another app, or after Reload (offered by *)
(* the error panels): what an older one still awaits is cancelled.  Sends  *)
(* under way and the ACK timer are not.                                    *)
StartLoad(a) ==
    /\ load' = Resolving(a) /\ mount' = Initial
    /\ moves' = moves + 1
    /\ UNCHANGED <<seen, frame, sends, timer, acks>>

SwitchApp(a) == moves < MaxMoves /\ a # load.app /\ StartLoad(a)

ReloadApp ==
    /\ moves < MaxMoves /\ Committed /\ seen.status \in {"no-session", "failed"}
    /\ StartLoad(load.app)

(* resolveAppNode: no row, or an overlay that names no mount.              *)
ResolveNothing ==
    /\ Committed /\ load.at = "node" /\ load' = Resolved
    /\ \E status \in {"no-such-app", "misconfigured"} :
          mount' = [Initial EXCEPT !.status = status]
    /\ UNCHANGED <<seen, frame, sends, timer, acks, moves>>

(* A mount of either kind has its src: the iframe is to come.              *)
ResolveTo(a) ==
    /\ load' = Resolved
    /\ mount' = [status |-> "iframe-loading", app |-> a, src |-> TRUE]
    /\ UNCHANGED <<seen, frame, sends, timer, acks, moves>>

ResolveBaked == Committed /\ load.at = "node" /\ ResolveTo(load.app)

(* A materialized one first needs the user's token, then a session.        *)
ResolveMaterialized ==
    /\ Committed /\ load.at = "node"
    /\ load' = [load EXCEPT !.at = "token"]
    /\ UNCHANGED <<mount, seen, frame, sends, timer, acks, moves>>

Attach ==
    /\ Committed /\ load.at = "token"
    /\ load' = [load EXCEPT !.at = "attach"]
    /\ mount' = [mount EXCEPT !.status = "attaching-runner", !.app = load.app]
    /\ UNCHANGED <<seen, frame, sends, timer, acks, moves>>

AttachSignedOut ==
    /\ Committed /\ load.at = "token" /\ load' = Resolved
    /\ Dispatch("no-session")
    /\ UNCHANGED <<seen, frame, sends, timer, acks, moves>>

(* resolveMaterializedMount: a poll that says neither ready nor dead is    *)
(* repeated while polls are left; everything else that is not ready throws. *)
PollAgain ==
    /\ Committed /\ load.at = "attach" /\ load.polls + 1 < MaxPolls
    /\ load' = [load EXCEPT !.polls = @ + 1]
    /\ UNCHANGED <<mount, seen, frame, sends, timer, acks, moves>>

PollReady == Committed /\ load.at = "attach" /\ ResolveTo(load.app)

AttachThrows ==
    /\ Committed /\ load.at = "attach" /\ load' = Resolved
    /\ Dispatch("failed")
    /\ UNCHANGED <<seen, frame, sends, timer, acks, moves>>
-----------------------------------------------------------------------------
(* sendInit up to its await: it needs a window and a resolved mount, and   *)
(* takes both as they are now.                                             *)
SendInit(n) ==
    IF frame = NoFrame \/ ~seen.src
    THEN Dispatch("failed") /\ UNCHANGED sends
    ELSE /\ sends' = sends \cup {[app |-> seen.app, attempt |-> n, here |-> TRUE]}
         /\ UNCHANGED mount

(* The iframe loads: the first load of a mount starts the handshake.       *)
FrameLoads ==
    /\ frame # NoFrame /\ ~frame.loaded
    /\ frame' = [frame EXCEPT !.loaded = TRUE]
    /\ IF seen.status = "iframe-loading" THEN SendInit(0) ELSE UNCHANGED <<sends, mount>>
    /\ UNCHANGED <<load, seen, timer, acks, moves>>

Reaches_LateWindow(s) == frame # NoFrame

(* The token is there: AOS_INIT goes to the window that was taken (which   *)
(* gets it if it is still in the page and loaded) and the timer starts.    *)
Reaches(s) == s.here

InitPosted_NoTimer(s) ==
    /\ s \in sends /\ sends' = sends \ {s}
    /\ frame' = IF Reaches(s) /\ frame.loaded THEN [frame EXCEPT !.got = s.app] ELSE frame
    /\ Dispatch("init-sent")
    /\ UNCHANGED <<load, seen, timer, acks, moves>>

InitPosted(s) ==
    /\ s \in sends /\ sends' = sends \ {s}
    /\ frame' = IF Reaches(s) /\ frame.loaded THEN [frame EXCEPT !.got = s.app] ELSE frame
    /\ Dispatch("init-sent")
    /\ timer' = s.attempt
    /\ UNCHANGED <<load, seen, acks, moves>>

InitSignedOut(s) ==
    /\ sends' = sends \ {s}
    /\ Dispatch("no-session")
    /\ UNCHANGED <<load, seen, frame, timer, acks, moves>>

(* The app answers an AOS_INIT it got, in its own time or never.           *)
AppAnswers ==
    /\ frame.got # None /\ frame.got \notin acks
    /\ acks' = acks \cup {frame.got}
    /\ UNCHANGED <<load, mount, seen, frame, sends, timer, moves>>

(* An ACK counts while one is awaited and if it names the mount.           *)
AckArrives(a) ==
    /\ acks' = acks \ {a}
    /\ IF seen.status = "init-sent" /\ seen.src /\ seen.app = a
       THEN timer' = None /\ Dispatch("ready")
       ELSE UNCHANGED <<timer, mount>>
    /\ UNCHANGED <<load, seen, frame, sends, moves>>

AckTimesOut ==
    /\ timer # None /\ timer' = None
    /\ IF timer + 1 >= MAX_INIT_ATTEMPTS
       THEN Dispatch("failed") /\ UNCHANGED sends
       ELSE SendInit(timer + 1)
    /\ UNCHANGED <<load, seen, frame, acks, moves>>

LoadProceeds ==
    \/ ResolveNothing \/ ResolveBaked \/ ResolveMaterialized
    \/ Attach \/ AttachSignedOut \/ PollAgain \/ PollReady \/ AttachThrows

MountNext ==
    \/ Commit \/ ReloadApp \/ \E a \in App : SwitchApp(a)
    \/ LoadProceeds
    \/ FrameLoads \/ AppAnswers \/ AckTimesOut
    \/ \E s \in sends : InitPosted(s) \/ InitSignedOut(s)
    \/ \E a \in acks : AckArrives(a)
-----------------------------------------------------------------------------
(* AOS_INIT, which carries the user's token, reaches only the iframe of    *)
(* the app it was made for, although the app may be switched while the     *)
(* token is fetched.                                                       *)
InitReachesItsApp == frame.got \in {None, frame.app}
=============================================================================
