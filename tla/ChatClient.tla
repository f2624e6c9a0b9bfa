----------------------------- MODULE ChatClient -----------------------------
(***************************************************************************)
(* The browser's chat pane (apps/next/src/features/chat: useChat.ts,       *)
(* useChatSession.ts, useChatRun.ts, useChatHistory.ts, chatStore.ts; and  *)
(* core/chat.ts): one pane that moves between chats, one subscription, and *)
(* a store of all chats that every frame is written to.                    *)
(*                                                                         *)
(* A prompt is named by its number and its run by its prompt.  A session   *)
(* is its chat (createSession).  The kernel is module KernelService, and   *)
(* what it does with a prompt writes frames, those of one run in order.    *)
(***************************************************************************)
EXTENDS KernelTranslator

CONSTANTS
    ChatId,
    Archived,    \* chats with a durable transcript
    Kid,         \* sub-runs of a run
    MaxPrompts   \* bound: prompts typed

Prompt == 1..MaxPrompts
Locking == {"submitted", "streaming"}

ASSUME ChatAssumption ==
    /\ Archived \subseteq ChatId /\ None \notin ChatId \cup Kid \cup Prompt
    /\ MaxPrompts \in Nat

VARIABLES
    view,      \* the chat in the URL, or None: the home page, or settings
    session,   \* useChatSession: the session that accepts for the chat, or None
    queued,    \* pendingPrompts: queued[c], or None
    chats,     \* chatStore: chats[c], its transcript and status
    fetching,  \* inFlight: chats whose history is on its way
    unsubRef,  \* the run whose stream is subscribed to, None once it ended
    stream,    \* stream[r]: where its frames go, how far they are, and
               \* the sub-runs of r that are open, while it is read
    sentTo,    \* sentTo[p]: the sessionId of the POST /message with p, or None
    kernel,    \* kernel[r]: how far the kernel is with it
    lock,      \* sessions the kernel has a run for
    typed      \* prompts used

storeVars == <<queued, chats, fetching>>
viewVars == <<view, session>>
kernelVars == <<sentTo, kernel, lock>>
chatVars == <<viewVars, storeVars, unsubRef, stream, kernelVars, typed>>

Reading(state, c) ==
    [state |-> state, chat |-> c, translator |-> NewTranslator, kids |-> {}]

(* The stream of r is not read any more.                                   *)
Over(streams, r, state) == [streams EXCEPT ![r] = Reading(state, None)]

ChatInit ==
    /\ view = None /\ session = None
    /\ queued = [c \in ChatId |-> None]
    /\ chats = [c \in ChatId |-> [known |-> FALSE, turns |-> <<>>, status |-> "ready"]]
    /\ fetching = {}
    /\ unsubRef = None
    /\ stream = [r \in Prompt |-> Reading("unsent", None)]
    /\ sentTo = [r \in Prompt |-> None]
    /\ kernel = [r \in Prompt |-> "idle"]
    /\ lock = {}
    /\ typed = 0
-----------------------------------------------------------------------------
Locked(c) == chats[c].status \in Locking

WithPrompt(chat, p) ==
    [known |-> TRUE, turns |-> Append(chat.turns, Turn("user", p)), status |-> "submitted"]

(* The subscription's stop function: the fetch is aborted, which errors    *)
(* its body, so nothing more is read from it.                              *)
Unsubscribed(streams) ==
    IF unsubRef # None THEN Over(streams, unsubRef, "dropped") ELSE streams

(* useChatRun.send: admitAndSend resolves at once; the stream before it is *)
(* dropped, of whatever chat it was, and POST /message is fired.           *)
SendPrompt(c, s, p) ==
    /\ unsubRef' = p
    /\ stream' = [Unsubscribed(stream) EXCEPT ![p] = Reading("open", c)]
    /\ sentTo' = [sentTo EXCEPT ![p] = s]
    /\ kernel' = [kernel EXCEPT ![p] = "posted"]
    /\ UNCHANGED lock

NothingSent == UNCHANGED <<unsubRef, stream, kernelVars>>

Flush_TakesEarly(queue, all, c, s) ==
    IF queue[c] # None
    THEN /\ queued' = [queue EXCEPT ![c] = None] /\ chats' = all
         /\ IF s # None THEN SendPrompt(c, s, queue[c]) ELSE NothingSent
    ELSE NothingSent /\ queued' = queue /\ chats' = all

Flush_Keeps(queue, all, c, s) ==
    IF s # None /\ queue[c] # None
    THEN /\ SendPrompt(c, s, queue[c])
         /\ queued' = queue
         /\ chats' = [all EXCEPT ![c].status = "submitted"]
    ELSE NothingSent /\ queued' = queue /\ chats' = all

(* The queue effect, in the commit that shows c with accepting session s.  *)
Flush(queue, all, c, s) ==
    IF s # None /\ queue[c] # None
    THEN /\ SendPrompt(c, s, queue[c])
         /\ queued' = [queue EXCEPT ![c] = None]
         /\ chats' = [all EXCEPT ![c].status = "submitted"]
    ELSE NothingSent /\ queued' = queue /\ chats' = all

(* useChatHistory: fetched once, if nothing populated the chat so far.     *)
Fetch(c, all) ==
    fetching' = IF ~all[c].known /\ all[c].status \notin Locking
                THEN fetching \cup {c} ELSE fetching

(* The URL moves to c.  The effects of that commit see the session of the  *)
(* page before; the session's own effect resets it for the next.           *)
Show(c, all, queue) ==
    /\ view' = c
    /\ session' = None
    /\ Fetch(c, all)
    /\ Flush(queue, all, c, session)

OpenChat(c) ==
    /\ c # view
    /\ Show(c, chats, queued)
    /\ UNCHANGED typed

GoHome ==
    /\ view # None
    /\ view' = None /\ session' = None
    /\ UNCHANGED <<storeVars, unsubRef, stream, kernelVars, typed>>

(* createSession resolves: accepting, and the queue effect runs again.     *)
SessionReady ==
    /\ view # None /\ session = None
    /\ session' = view
    /\ Flush(queued, chats, view, view)
    /\ UNCHANGED <<view, fetching, typed>>

(* handleSend in a chat whose composer is unlocked.                        *)
Submit ==
    LET p == typed + 1 IN
    /\ view # None /\ ~Locked(view)
    /\ p \in Prompt
    /\ typed' = p
    /\ chats' = [chats EXCEPT ![view] = WithPrompt(@, p)]
    /\ \/ /\ session # None
          /\ SendPrompt(view, session, p)
          /\ UNCHANGED queued
       \/ /\ session = None
          /\ NothingSent
          /\ queued' = [queued EXCEPT ![view] = p]
    /\ UNCHANGED <<viewVars, fetching>>

(* handleSend with an app picked or on the home page, once the new chat c  *)
(* exists: the prompt is queued for it and the URL moves there.            *)
SubmitToNew(c) ==
    LET p == typed + 1 IN
    /\ c # view
    /\ c \notin Archived /\ ~chats[c].known /\ c \notin fetching
    /\ p \in Prompt
    /\ typed' = p
    /\ Show(c, [chats EXCEPT ![c] = WithPrompt(@, p)], [queued EXCEPT ![c] = p])

(* stop: drops the one stream there is and unlocks the chat in view, if    *)
(* that has its session.                                                   *)
Stop ==
    /\ view # None /\ Locked(view)
    /\ stream' = Unsubscribed(stream)
    /\ unsubRef' = None
    /\ chats' = IF session = None THEN chats ELSE [chats EXCEPT ![view].status = "ready"]
    /\ UNCHANGED <<viewVars, queued, fetching, kernelVars, typed>>

(* The settings page replaces the pane, which unsubscribes.  What comes    *)
(* back from it is a new pane, which is as at the home page: without a     *)
(* stream this is GoHome.                                                  *)
Settings ==
    /\ unsubRef # None
    /\ view' = None /\ session' = None
    /\ stream' = Unsubscribed(stream)
    /\ unsubRef' = None
    /\ UNCHANGED <<storeVars, kernelVars, typed>>

Rows(c) == IF c \in Archived THEN <<Turn("user", None), Turn("assistant", None)>> ELSE <<>>

Hydrated_Overwrites(chat, rows) == [chat EXCEPT !.known = TRUE, !.turns = rows]

(* hydrateMessages keeps what is live.                                     *)
Hydrated(chat, rows) ==
    IF chat.turns # <<>> THEN chat ELSE [chat EXCEPT !.known = TRUE, !.turns = rows]

(* fetchChatHistory never throws: a query that fails reads as no rows.     *)
HistoryLoads(c) ==
    /\ c \in fetching
    /\ fetching' = fetching \ {c}
    /\ \E rows \in {Rows(c), <<>>} : chats' = [chats EXCEPT ![c] = Hydrated(@, rows)]
    /\ UNCHANGED <<viewVars, queued, unsubRef, stream, kernelVars, typed>>
-----------------------------------------------------------------------------
(* A frame of run r goes through its translator and what comes out of it   *)
(* into its chat.                                                          *)
Take(to, frame, r) ==
    [translator |-> Advance(to.translator, frame),
     chat |-> ApplyFrame(to.chat, Translate(to.translator, frame), r)]

Reader(r) == [translator |-> stream[r].translator, chat |-> chats[stream[r].chat]]

Receive(r, to, kids) ==
    /\ stream' = [stream EXCEPT ![r].translator = to.translator, ![r].kids = kids]
    /\ chats' = [chats EXCEPT ![stream[r].chat] = to.chat]

(* A frame the kernel writes is read if the stream was not dropped.        *)
Deliver(r, frame) ==
    \/ stream[r].state = "open" /\ Receive(r, Take(Reader(r), frame, r), stream[r].kids)
    \/ stream[r].state # "open" /\ UNCHANGED <<stream, chats>>

Browser == <<viewVars, queued, fetching, unsubRef, sentTo, typed>>

Kernel == INSTANCE KernelService WITH
    Message <- Prompt, Session <- ChatId, phase <- kernel

(* POST /message arrives and the session is free.                          *)
Admit(r) ==
    /\ Kernel!Admit(r)
    /\ Deliver(r, Started)
    /\ UNCHANGED Browser

(* It is not: runMessage writes the terminal before it returns, and http   *)
(* writes run_started after that (kernel/index.ts:244, http.ts:508).       *)
Refuse(r) ==
    /\ Kernel!Refuse(r)
    /\ \/ /\ stream[r].state = "open"
          /\ Receive(r, Take(Take(Reader(r), Terminal("error"), r), Started, r), {})
       \/ stream[r].state # "open" /\ UNCHANGED <<stream, chats>>
    /\ UNCHANGED Browser

(* What the run does until its verdict, as far as it is read: text or a    *)
(* tool frame of the main agent or of an open sub-run, and sub-runs that   *)
(* open and settle.                                                        *)
Live(r) == kernel[r] = "working" /\ stream[r].state = "open"

Speak(r, kind, who) ==
    /\ Live(r) /\ who \in {None} \cup stream[r].kids
    /\ Deliver(r, Says(kind, <<r, who>>))
    /\ UNCHANGED <<kernelVars, Browser>>

OpenKid(r, kid) ==
    /\ Live(r) /\ kid \notin stream[r].kids
    /\ Receive(r, Take(Reader(r), ChildStarted(kid), r), stream[r].kids \cup {kid})
    /\ UNCHANGED <<kernelVars, Browser>>

CloseKid(r, kid) ==
    /\ Live(r) /\ kid \in stream[r].kids
    /\ Receive(r, Take(Reader(r), ChildSettled(kid), r), stream[r].kids \ {kid})
    /\ UNCHANGED <<kernelVars, Browser>>

(* The verdict.  No frame of a sub-run follows: pi's terminal waits for    *)
(* its tool calls, and a harness that threw leaves their brackets open.    *)
Conclude(r, cause) ==
    /\ Kernel!Conclude(r)
    /\ Deliver(r, Terminal(cause))
    /\ UNCHANGED Browser

(* There is no workspace to run in, so there were no sub-runs: runMessage's*)
(* catch and its finally.                                                  *)
NoWorkspace(r) ==
    /\ Kernel!Fail(r) /\ stream[r].kids = {}
    /\ Deliver(r, Terminal("error"))
    /\ UNCHANGED Browser

(* runMessage's finally, which no frame tells of.                          *)
Release(r) == Kernel!Release(r) /\ UNCHANGED <<stream, chats, Browser>>

(* The stream of r ended, and with it what its chat shows of it.           *)
Ended(r, state, to) ==
    /\ stream' = Over(stream, r, state)
    /\ chats' = [chats EXCEPT ![stream[r].chat] = to]
    /\ unsubRef' = None

(* The settled frame is written and the response ended.                    *)
FinishRun(r) ==
    /\ Kernel!Answer(r)
    /\ \/ /\ stream[r].state = "open"
          /\ Ended(r, "ended", Take(Reader(r), SettledWith("done"), r).chat)
       \/ stream[r].state # "open" /\ UNCHANGED <<stream, chats, unsubRef>>
    /\ UNCHANGED <<viewVars, queued, fetching, sentTo, typed>>

Lost_Silently(r) == Ended(r, "failed", chats[stream[r].chat])

(* streamKernelMessage throws: subscribeRun turns it into an error event.  *)
Lost(r) == Ended(r, "failed", ApplyFrame(chats[stream[r].chat], Completion("error"), r))

(* The request is not answered with a stream, or the stream breaks off, or *)
(* its body ends early but cleanly, which the reader takes for the end.    *)
Break(r) ==
    /\ stream[r].state = "open"
    /\ Lost(r) \/ Ended(r, "dropped", chats[stream[r].chat])
    /\ UNCHANGED <<kernelVars, viewVars, queued, fetching, typed>>

ChatNext ==
    \/ \E c \in ChatId : OpenChat(c) \/ SubmitToNew(c) \/ HistoryLoads(c)
    \/ GoHome
    \/ SessionReady
    \/ Submit
    \/ Stop
    \/ Settings
    \/ \E r \in Prompt :
        \/ Admit(r)
        \/ Refuse(r)
        \/ \E cause \in {"done", "error"} : Conclude(r, cause)
        \/ NoWorkspace(r)
        \/ Release(r)
        \/ FinishRun(r)
        \/ \E kind \in {"stream_chunk", "final_text", "tool"}, who \in {None} \cup Kid : Speak(r, kind, who)
        \/ \E kid \in Kid : OpenKid(r, kid) \/ CloseKid(r, kid)
        \/ Break(r)

ChatSpec == ChatInit /\ [][ChatNext]_chatVars
-----------------------------------------------------------------------------
(* What a chat's transcript shows is where it belongs, whatever chat is    *)
(* open and however runs and sub-runs overlap: a turn holds only frames of *)
(* its own run, and what a sub-run said or did never appears as the main   *)
(* agent's ("The child's work is shown via its Task part",                 *)
(* kernelTranslator.ts:117).                                               *)
SaidWhereShown ==
    \A c \in ChatId : \A i \in 1..Len(chats[c].turns) :
        LET turn == chats[c].turns[i] IN
        \A who \in turn.shows : who = <<turn.run, None>>

(* A transcript only grows: no step, the arrival of the chat's history     *)
(* included, takes back or reorders a turn that was shown.                 *)
SameTurn(old, new) == old.role = new.role /\ old.run = new.run

ShownIsKept ==
    [][chats' # chats => \A c \in ChatId :
        LET old == chats[c].turns new == chats'[c].turns IN
        /\ Len(old) <= Len(new)
        /\ \A i \in 1..Len(old) : SameTurn(old[i], new[i])]_chatVars

LastRun(c) ==
    LET turns == chats[c].turns
    IN  turns[SelectLastInSeq(turns, LAMBDA turn : turn.role = "user")].run

Settled(turn) == turn.run = None \/ stream[turn.run].state # "unsent"

(* What the queue is for ("Session still provisioning -> optimistic user   *)
(* turn + queue; the effect sends when ready", useChat.ts:196): a prompt a *)
(* chat shows waits in the chat's queue or was sent.  No prompt typed      *)
(* after it, chat opened meanwhile or session that comes late swallows it, *)
(* with one exception: the stream of an earlier prompt of that chat broke  *)
(* off.  That unlocks the composer while this one still waits for its      *)
(* session, and the next prompt takes its place in the queue.              *)
QueuedOrSent ==
    \A c \in ChatId : \A i \in 1..Len(chats[c].turns) :
        LET turns == chats[c].turns IN
        turns[i].role = "user" =>
            \/ Settled(turns[i]) \/ queued[c] = turns[i].run
            \/ \E j \in 1..(i - 1) :
                   /\ turns[j].role = "user" /\ turns[j].run # None
                   /\ stream[turns[j].run].state = "failed"

(* A chat whose composer is locked has a prompt that waits in its queue or *)
(* a stream that is read to its end: what will unlock it is under way,     *)
(* whatever failed.  Three cases are out, in which the chat stays locked   *)
(* for good: the stream of its last prompt was dropped, for the sake of    *)
(* another chat or of the settings page or by a stop that came before the  *)
(* chat had its session again; that stream ended cleanly without a         *)
(* terminal; or the kernel refused the prompt, so that run_started follows *)
(* the terminal and puts the chat back to streaming.                       *)
LockedIsBusy ==
    \A c \in ChatId : Locked(c) =>
        \/ queued[c] # None
        \/ stream[LastRun(c)].state \in {"open", "dropped"}
        \/ kernel[LastRun(c)] = "denied"

(* What the kernel may rely on, and module RunLifecycle is shown to serve: *)
(* whatever commits, queue flushes, stops and lost streams a prompt goes   *)
(* through, it is posted once, with a session that exists and stays the    *)
(* prompt's; no answer, broken stream or second visit to its chat makes    *)
(* the browser post it again ("the effect sends when ready",               *)
(* useChat.ts:196).                                                        *)
UsesService == Kernel!Spec

(* "Still emit a terminal so the SSE consumer settles" (kernel/index.ts:   *)
(* 243): once a refused message's stream is read to its end, the chat it   *)
(* was typed in is not locked by it.                                       *)
RefusalSettles ==
    \A c \in ChatId : Locked(c) =>
        ~(kernel[LastRun(c)] = "denied" /\ stream[LastRun(c)].state = "ended")
=============================================================================
