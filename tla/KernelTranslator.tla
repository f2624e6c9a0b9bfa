-------------------------- MODULE KernelTranslator --------------------------
(***************************************************************************)
(* core/kernelTranslator.ts and features/chat/adapters/streamReducer.ts:   *)
(* the kernel's frames of one run become events, and the events become the *)
(* transcript and the status of a chat.  Both are functions; ChatClient    *)
(* feeds them.  Usage and previews are left out, and a tool's call and its *)
(* result are one kind of frame.                                           *)
(*                                                                         *)
(* A frame of a sub-run comes untagged: "by" says who spoke, and neither   *)
(* function may look at it.                                                *)
(***************************************************************************)
EXTENDS Naturals, Sequences, FiniteSets, SequencesExt, ClientBase

Started == [event |-> "run_started"]
Says(kind, who) == [event |-> kind, by |-> who]
ChildStarted(kid) == [event |-> "child_started", kid |-> kid]
ChildSettled(kid) == [event |-> "child_settled", kid |-> kid]
Terminal(cause) == [event |-> "terminal", cause |-> cause]
SettledWith(cause) == [event |-> "settled", cause |-> cause]
-----------------------------------------------------------------------------
(* createKernelTranslator: the stack of open children and terminalSeen.    *)
NewTranslator == [stack |-> <<>>, terminalSeen |-> FALSE]

LastIndexOf(stack, kid) == SelectLastInSeq(stack, LAMBDA k : k = kid)

Without_Truncates(stack, kid) ==
    IF LastIndexOf(stack, kid) # 0 THEN SubSeq(stack, 1, LastIndexOf(stack, kid) - 1) ELSE stack

(* splice(idx, 1)                                                          *)
Without(stack, kid) ==
    IF LastIndexOf(stack, kid) # 0 THEN RemoveAt(stack, LastIndexOf(stack, kid)) ELSE stack

Advance(t, frame) ==
    CASE frame.event = "child_started" -> [t EXCEPT !.stack = Append(@, frame.kid)]
      [] frame.event = "child_settled" -> [t EXCEPT !.stack = Without(@, frame.kid)]
      [] frame.event = "terminal" -> [t EXCEPT !.terminalSeen = TRUE]
      [] OTHER -> t

Inside(t) == t.stack # <<>>

(* An event of the run; who it shows at the top level of the transcript,   *)
(* if it is not nested under the Task part of a child.                     *)
Event(type, who, nested) == [type |-> type, shows |-> IF nested THEN {} ELSE who]
NoEvent == Event("nothing", {}, TRUE)
Completion(cause) == Event(IF cause = "error" THEN "error" ELSE "complete", {}, TRUE)

(* What a frame becomes: text only of the main agent, every tool under the *)
(* child opened last, a completion from settled only without a terminal.   *)
Translate(t, frame) ==
    CASE frame.event = "run_started" -> Event("start", {}, TRUE)
      [] frame.event = "stream_chunk" ->
            IF Inside(t) THEN NoEvent ELSE Event("progress", {frame.by}, FALSE)
      [] frame.event = "final_text" ->
            IF Inside(t) THEN NoEvent ELSE Event("message", {frame.by}, FALSE)
      [] frame.event = "tool" -> Event("progress", {frame.by}, Inside(t))
      [] frame.event \in {"child_started", "child_settled"} -> Event("progress", {}, TRUE)
      [] frame.event = "terminal" -> Completion(frame.cause)
      [] frame.event = "settled" -> IF t.terminalSeen THEN NoEvent ELSE Completion(frame.cause)
-----------------------------------------------------------------------------
(* A chat has its transcript, known once something populated it, and the   *)
(* status its composer shows.  Of the parts of a turn only whose they are  *)
(* is kept.                                                                *)
Turn(role, run) == [role |-> role, run |-> run, shows |-> {}]

EnsureAssistant(turns, run) ==
    IF \E i \in 1..Len(turns) : turns[i].role = "assistant" /\ turns[i].run = run
    THEN turns
    ELSE Append(turns, Turn("assistant", run))

(* updateAssistantParts: the trailing assistant turn, whosever it is.      *)
WithPart(turns, who) ==
    LET last == SelectLastInSeq(turns, LAMBDA turn : turn.role = "assistant")
    IN  [turns EXCEPT ![last].shows = @ \cup who]

StatusAfter(type, status) ==
    CASE type \in {"start", "progress"} -> "streaming"
      [] type = "complete" -> "ready"
      [] type = "error" -> "error"
      [] type \in {"message", "nothing"} -> status

(* applyFrame: what an event of a run does to its chat.                    *)
Tells(ev) == ev.type \in {"start", "progress", "message", "error"}

ApplyFrame(chat, ev, run) ==
    [known |-> chat.known \/ Tells(ev),
     turns |-> IF Tells(ev) THEN WithPart(EnsureAssistant(chat.turns, run), ev.shows)
               ELSE chat.turns,
     status |-> StatusAfter(ev.type, chat.status)]
=============================================================================
