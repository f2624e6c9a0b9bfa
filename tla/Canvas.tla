-------------------------------- MODULE Canvas --------------------------------
(***************************************************************************)
(* The canvas beside the chat, with one of the surfaces it can show: the   *)
(* kernel's preview, a file, an embedded app or the preview of a runner    *)
(* session.  They share no state (a file covers the kernel's preview, an   *)
(* app takes the place of both, and the runner's preview is exported for   *)
(* runner sessions), so a behaviour is that of one of them.                *)
(***************************************************************************)
EXTENDS KernelPreview, FileReader, ChildMount, RunnerPreview

VARIABLE surface

canvasVars == <<surface, paneVars, readerVars, mountVars, previewVars>>

CanvasInit ==
    /\ surface \in {"kernel", "file", "app", "runner"}
    /\ PaneInit /\ ReaderInit /\ MountInit /\ PreviewInit

On(s, A) == surface = s /\ A

CanvasNext ==
    \/ /\ On("kernel", PaneNext)
       /\ UNCHANGED <<surface, readerVars, mountVars, previewVars>>
    \/ /\ On("file", ReaderNext)
       /\ UNCHANGED <<surface, paneVars, mountVars, previewVars>>
    \/ /\ On("app", MountNext)
       /\ UNCHANGED <<surface, paneVars, readerVars, previewVars>>
    \/ /\ On("runner", PreviewNext)
       /\ UNCHANGED <<surface, paneVars, readerVars, mountVars>>

CanvasSpec == CanvasInit /\ [][CanvasNext]_canvasVars

(* The browser commits, loads iframes, fires timers and hands out stored   *)
(* tokens; the back end answers (requests fail in the end).  No embedded   *)
(* app has to answer, no runner has to move.                               *)
Fairness ==
    /\ WF_mountVars(On("app", Commit))
    /\ WF_mountVars(On("app", FrameLoads))
    /\ WF_mountVars(On("app", AckTimesOut))
    /\ WF_mountVars(On("app", \E s \in sends : InitPosted(s) \/ InitSignedOut(s)))
    /\ WF_mountVars(On("app", LoadProceeds))
    /\ WF_previewVars(On("runner", TokenArrives \/ TokenFails))
    /\ WF_previewVars(On("runner", UrlResolves))
    /\ WF_previewVars(On("runner", Promote))

FairSpec == CanvasSpec /\ Fairness
-----------------------------------------------------------------------------
(* Nobody looks at the spinner of an embedded app for ever: an app that    *)
(* never answers, a switch in the middle of a handshake and a runner that  *)
(* is never ready all come to an end.                                      *)
LoadingEnds == (surface = "app" /\ Busy(seen)) ~> ~Busy(seen)
=============================================================================
