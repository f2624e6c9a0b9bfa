----------------------------- MODULE KernelPreview -----------------------------
(***************************************************************************)
(* The preview pane of the canvas, features/canvas/screens/               *)
(* KernelPreviewPane.tsx, and what it reads: the bus of core/kernel.ts,    *)
(* filled by the frames of runs and, after a page load, from the kernel's  *)
(* registry over GET /preview/:sessionId.                                  *)
(*                                                                         *)
(* A url is a pair: the session it belongs to and a live server of its     *)
(* sandbox, or "app" for the durable snapshot.  MaxMoves bounds how often  *)
(* the pane changes hands.                                                 *)
(***************************************************************************)
EXTENDS CanvasBase, Sequences

CONSTANTS Session, Server

ASSUME PaneAssumption == None \notin Session \cup Server /\ "app" \notin Server

VARIABLES
    registry,   \* the kernel's PreviewRegistry: the live server and whether a snapshot is kept
    wire,       \* preview frames of each session's run on their way, as urls
    bus,        \* previewUrls
    pane,       \* the session the pane shows and its url
    asks,       \* GET /preview calls under way, with the answer once it is given
    showings

paneVars == <<registry, wire, bus, pane, asks, showings>>
-----------------------------------------------------------------------------
Url(s, u) == <<s, u>>
Empty == [live |-> None, kept |-> FALSE]

(* What the route answers and the pane makes of it: the durable snapshot   *)
(* first, else the live url, else nothing.                                 *)
Restored(s) ==
    IF registry[s].kept THEN Url(s, "app")
    ELSE IF registry[s].live # None THEN Url(s, registry[s].live) ELSE None

PaneInit ==
    /\ registry = [s \in Session |-> Empty]
    /\ wire = [s \in Session |-> <<>>]
    /\ bus = [s \in Session |-> None]
    /\ pane = [session |-> None, url |-> None]
    /\ asks = {}
    /\ showings = 0

(* The pump stores a live url (the snapshot stays) or a snapshot (the live *)
(* url stays), and the frame goes to the client.                           *)
SurfaceLive(s, v) ==
    /\ Len(wire[s]) = 0
    /\ registry' = [registry EXCEPT ![s].live = v]
    /\ wire' = [wire EXCEPT ![s] = Append(@, Url(s, v))]
    /\ UNCHANGED <<bus, pane, asks, showings>>

SurfaceSnapshot(s) ==
    /\ Len(wire[s]) < 2
    /\ registry' = [registry EXCEPT ![s].kept = TRUE]
    /\ wire' = [wire EXCEPT ![s] = Append(@, Url(s, "app"))]
    /\ UNCHANGED <<bus, pane, asks, showings>>

(* endSession clears the registry; the client is not told.                 *)
ClearPreview(s) ==
    /\ registry[s] # Empty
    /\ registry' = [registry EXCEPT ![s] = Empty]
    /\ UNCHANGED <<wire, bus, pane, asks, showings>>

(* A frame arrives: the bus keeps its url and calls the pane's listener.   *)
FrameArrives(s) ==
    /\ wire[s] # <<>>
    /\ bus' = [bus EXCEPT ![s] = Head(wire[s])]
    /\ pane' = IF pane.session = s THEN [pane EXCEPT !.url = Head(wire[s])] ELSE pane
    /\ wire' = [wire EXCEPT ![s] = Tail(@)]
    /\ UNCHANGED <<registry, asks, showings>>

(* The subscription to a run is dropped: what it still had to say is lost. *)
StreamDrops(s) ==
    /\ wire[s] # <<>>
    /\ wire' = [wire EXCEPT ![s] = <<>>]
    /\ UNCHANGED <<registry, bus, pane, asks, showings>>

Forget_NotCancelled(calls) == calls

(* Another session is shown (none while a chat has no session yet): the    *)
(* pane is mounted anew, the calls of the old one are cancelled, and what  *)
(* the bus does not have is asked for.                                     *)
Forget(calls) == {}
Ask(s) == IF s # None /\ bus[s] = None THEN {[session |-> s, at |-> "asked", answer |-> None]} ELSE {}

ShowSession(s) ==
    /\ showings < MaxMoves /\ s # pane.session
    /\ pane' = [session |-> s, url |-> IF s = None THEN None ELSE bus[s]]
    /\ asks' = Forget(asks) \cup Ask(s)
    /\ showings' = showings + 1
    /\ UNCHANGED <<registry, wire, bus>>

(* The kernel answers; the answer travels.                                 *)
AnswerAsk(a) ==
    /\ a.at = "asked"
    /\ asks' = (asks \ {a}) \cup {[a EXCEPT !.at = "answered", !.answer = Restored(a.session)]}
    /\ UNCHANGED <<registry, wire, bus, pane, showings>>

(* It arrives: an answer with a url goes into the pane and onto the bus,   *)
(* whose listeners hear it.                                                *)
AskArrives(a) ==
    /\ a.at = "answered"
    /\ asks' = asks \ {a}
    /\ IF a.answer = None THEN UNCHANGED <<bus, pane>>
       ELSE /\ bus' = [bus EXCEPT ![a.session] = a.answer]
            /\ pane' = [pane EXCEPT !.url = a.answer]
    /\ UNCHANGED <<registry, wire, showings>>

AskFails(a) ==
    /\ asks' = asks \ {a}
    /\ UNCHANGED <<registry, wire, bus, pane, showings>>

(* The page is loaded again: bus, streams and calls are gone.              *)
ReloadPage ==
    /\ showings < MaxMoves
    /\ wire' = [s \in Session |-> <<>>]
    /\ bus' = [s \in Session |-> None]
    /\ pane' = [session |-> None, url |-> None]
    /\ asks' = {}
    /\ showings' = showings + 1
    /\ UNCHANGED registry

PaneNext ==
    \/ \E s \in Session : \/ \E v \in Server : SurfaceLive(s, v)
                          \/ SurfaceSnapshot(s) \/ ClearPreview(s)
                          \/ FrameArrives(s) \/ StreamDrops(s)
    \/ \E s \in Session \cup {None} : ShowSession(s)
    \/ \E a \in asks : AnswerAsk(a) \/ AskArrives(a) \/ AskFails(a)
    \/ ReloadPage
-----------------------------------------------------------------------------
(* The pane shows what the bus has for its own session and nothing else,   *)
(* whenever answers and frames of sessions that were left come in.         *)
PaneShowsItsSession ==
    /\ pane.url = IF pane.session = None THEN None ELSE bus[pane.session]
    /\ pane.url # None => pane.url[1] = pane.session
=============================================================================
