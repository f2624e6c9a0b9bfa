-------------------------------- MODULE Shell --------------------------------
(***************************************************************************)
(* Where the web client is: apps/next/src/app/shell, features/shell and    *)
(* the navigation of features/chat, over the store state/uiStore.ts.       *)
(*                                                                         *)
(* The URL is the authority for the open project and chat.  React effects  *)
(* carry it into the store (the selection, the tab strip) and ask the      *)
(* server for a chat when it names none; handlers and late answers move    *)
(* it.  An action is one handler or one answer together with the effects   *)
(* of the render that follows.  Every organisation has one workspace.      *)
(* MaxGestures bounds the user's actions, MaxPending the creations that    *)
(* are under way.                                                          *)
(***************************************************************************)
EXTENDS Naturals, FiniteSets, SequencesExt, ClientBase

CONSTANTS Org, Project, Chat, MaxGestures, MaxPending,
          First,        \* the user's first organisation: the scope until one is picked
          Had           \* the organisation of every project, None for one not made yet

ASSUME ShellAssumption ==
    /\ First \in Org /\ None \notin Org \cup Project \cup Chat
    /\ Had \in [Project -> Org \cup {None}]
    /\ MaxGestures \in Nat /\ MaxPending \in Nat

VARIABLES
    org,        \* activeOrgId
    orgs,       \* the organisations of the user
    mode,       \* activeMode; files, people and history are "panel"
    route,      \* the URL
    past,       \* the entry the browser's Back goes to
    back,       \* preSettingsPath
    selected,   \* activeNodeId and activeChatId
    strips,     \* chatTabsByOrg; a tab is the route it opens
    target,     \* landingTarget, the app picked for the next prompt
    owner,      \* the organisation each project is in
    rows,       \* the project each chat is in
    mains,      \* the chats of kind main
    ensuring,   \* calls of ensureMainChat under way
    refused,    \* the one for this page failed
    pending,    \* creations under way
    gestures,
    carried,    \* history: projects taken along into another scope
    rescoped    \* history: the selection was reset and the page was not left

tables == <<owner, rows, mains>>
screenVars == <<org, mode, route, past, back, selected, strips, ensuring, refused, rescoped>>
shellVars == <<screenVars, tables, orgs, target, pending, gestures, carried>>
-----------------------------------------------------------------------------
At(p, c, w) == [page |-> "project", project |-> p, chat |-> c, ws |-> w]
Home == [page |-> "home", project |-> None, chat |-> None, ws |-> FALSE]
SettingsPage == [page |-> "settings", project |-> None, chat |-> None, ws |-> FALSE]
Nothing == [project |-> None, chat |-> None]

Mounted == mode # "settings"
Scope(o) == IF o = None THEN First ELSE o
Strip == strips[org]
Own == {p \in Project : owner[p] = Scope(org)}

(* The store as a handler leaves it, before the effects run; remount when  *)
(* the chat stage was not on screen.                                       *)
Store == [org |-> org, strips |-> strips, selected |-> selected,
          ensuring |-> ensuring, remount |-> ~Mounted]

(* Which effects run when route r is rendered in mode m: those that depend *)
(* on the project and chat, and the one that depends on the workspace too. *)
Fresh_ChatOnly(r, m, s) == m # "settings" /\ (s.remount \/ r.chat # route.chat)

Fresh(r, m, s) ==
    /\ m # "settings"
    /\ s.remount \/ <<r.project, r.chat>> # <<route.project, route.chat>>

Asks_UrlOnly(r, m, s) == m # "settings" /\ r # route

Asks(r, m, s) == m # "settings" /\ (Fresh(r, m, s) \/ r.ws # route.ws)

Cancelled_StaysLive(calls) == calls

Cancelled(calls) == {[e EXCEPT !.live = FALSE] : e \in calls}
NeedsChat(r) == r.project # None /\ r.chat = None /\ r.ws

(* The tab of the chat on screen is registered unless it is there.         *)
Registered(s, r) ==
    IF r.chat = None \/ \E i \in DOMAIN s.strips[s.org] : s.strips[s.org][i].chat = r.chat
    THEN s.strips
    ELSE [s.strips EXCEPT ![s.org] = Append(@, r)]

AskedFor(r) == IF NeedsChat(r) THEN {[project |-> r.project, live |-> TRUE]} ELSE {}

Stage(r, m, s) ==
    /\ route' = r /\ mode' = m /\ org' = s.org
    /\ selected' = IF Fresh(r, m, s) THEN [project |-> r.project, chat |-> r.chat] ELSE s.selected
    /\ strips' = IF Fresh(r, m, s) THEN Registered(s, r) ELSE s.strips
    /\ ensuring' = CASE m = "settings" -> Cancelled(s.ensuring)
                     [] Asks(r, m, s) -> Cancelled(s.ensuring) \cup AskedFor(r)
                     [] OTHER -> s.ensuring
    /\ refused' = (refused /\ ~Asks(r, m, s))
    /\ rescoped' = (~Fresh(r, m, s) /\ (rescoped \/ s.selected # selected))

(* The last path outside settings is kept for the way back.                *)
Noted(r) == back' = IF r.page = "settings" THEN back ELSE r

GoTo(r) == Stage(r, mode, Store) /\ Noted(r) /\ past' = route

(* History: r shows a project of another organisation.                     *)
Carries(r) ==
    carried' = IF r.project \in Project \ Own THEN carried \cup {r.project} ELSE carried

(* A row of the explorer that leaves the screen drops its callback.        *)
Unmounted(calls) == {IF q.what = "row" THEN [q EXCEPT !.live = FALSE] ELSE q : q \in calls}
UnlessExplorer(m) == pending' = IF m = "explorer" THEN pending ELSE Unmounted(pending)
-----------------------------------------------------------------------------
ShellInit ==
    /\ orgs \in {{First}, Org}
    /\ org \in {None} \cup orgs
    /\ mode = "explorer" /\ route = Home /\ past = None /\ back = Home
    /\ selected = Nothing
    /\ strips = [o \in Org \cup {None} |-> <<>>]
    /\ target = None
    /\ owner = [p \in Project |-> IF Had[p] \in orgs THEN Had[p] ELSE None]
    /\ rows = [c \in Chat |-> None] /\ mains = {}
    /\ ensuring = {} /\ refused = FALSE /\ pending = {}
    /\ gestures = 0 /\ carried = {} /\ rescoped = FALSE

Gesture == gestures < MaxGestures /\ gestures' = gestures + 1

(* orgChanged, read before the store is set.                               *)
Leaves_AfterTheSet(o) == o # o

Leaves(o) == o # org

(* switchScope: home, unless the organisation is the one that is active.   *)
Switch(o) ==
    /\ Gesture /\ o \in orgs
    /\ LET r == IF Leaves(o) THEN Home ELSE route
       IN /\ Stage(r, mode, [Store EXCEPT !.org = o, !.selected = Nothing])
          /\ Noted(r)
          /\ past' = IF Leaves(o) THEN route ELSE past
    /\ pending' = IF Scope(o) # Scope(org) THEN Unmounted(pending) ELSE pending
    /\ UNCHANGED <<tables, orgs, target, carried>>

(* onCreateOrganization makes the new organisation active before it calls  *)
(* switchScope, which then sees no change and does not go home.            *)
CreateOrg(o) ==
    /\ Gesture /\ o \in Org \ orgs
    /\ orgs' = orgs \cup {o}
    /\ Stage(route, mode, [Store EXCEPT !.org = o, !.selected = Nothing])
    /\ pending' = Unmounted(pending)
    /\ carried' = carried \cup ({route.project, back.project} \ {None})
    /\ UNCHANGED <<past, back, tables, target>>

Open(c) ==
    /\ Gesture /\ mode = "explorer" /\ rows[c] \in Own \cup ({selected.project} \ {None})
    /\ GoTo(At(rows[c], c, TRUE))
    /\ UNCHANGED <<tables, orgs, target, pending, carried>>

OpenProject(p) ==
    /\ Gesture /\ mode = "explorer" /\ p \in Own
    /\ ~(selected.project = p /\ selected.chat # None)
    /\ GoTo(At(p, None, TRUE))
    /\ UNCHANGED <<tables, orgs, target, pending, carried>>

(* The history lists the chats of every organisation, with no workspace.   *)
OpenFromHistory(c) ==
    /\ Gesture /\ mode = "panel" /\ rows[c] # None
    /\ GoTo(At(rows[c], c, FALSE))
    /\ Carries(At(rows[c], c, FALSE))
    /\ UNCHANGED <<tables, orgs, target, pending>>

PressTab(i) ==
    /\ Gesture /\ Mounted /\ i \in DOMAIN Strip
    /\ GoTo(Strip[i])
    /\ UNCHANGED <<tables, orgs, target, pending, carried>>

CloseTab(i) ==
    /\ Gesture /\ Mounted /\ i \in DOMAIN Strip
    /\ LET rest == RemoveAt(Strip, i)
           s == [Store EXCEPT !.strips[org] = rest]
           next == CASE i <= Len(rest) -> rest[i]
                     [] i > Len(rest) /\ rest # <<>> -> Last(rest)
                     [] rest = <<>> /\ selected.project # None -> At(selected.project, None, FALSE)
                     [] OTHER -> Home
       IN IF Strip[i].chat = selected.chat
          THEN Stage(next, mode, s) /\ Noted(next) /\ past' = route
          ELSE Stage(route, mode, s) /\ UNCHANGED <<past, back>>
    /\ UNCHANGED <<tables, orgs, target, pending, carried>>

Reorder(i, j) ==
    /\ Gesture /\ Mounted /\ {i, j} \subseteq DOMAIN Strip /\ i # j
    /\ strips' = [strips EXCEPT ![org] = InsertAt(RemoveAt(@, i), j, @[i])]
    /\ UNCHANGED <<org, mode, route, past, back, selected, ensuring, refused, rescoped,
                   tables, orgs, target, pending, carried>>
-----------------------------------------------------------------------------
(* The creations: what is asked for, in which project and organisation,    *)
(* and whether its answer still moves the user.                            *)
Begin(what, p, o) ==
    /\ Cardinality(pending) < MaxPending
    /\ pending' = pending \cup {[what |-> what, project |-> p, scope |-> o, live |-> TRUE]}
    /\ UNCHANGED screenVars

(* handleNewChat takes the workspace from the tab of the selected chat.    *)
NewChat ==
    /\ Gesture /\ Mounted
    /\ LET known == selected.project # None
                    /\ \E i \in DOMAIN Strip : Strip[i].chat = selected.chat /\ Strip[i].ws
       IN IF known THEN Begin("branch", selected.project, Scope(org))
          ELSE GoTo(Home) /\ UNCHANGED pending
    /\ UNCHANGED <<tables, orgs, target, carried>>

(* Only the last mutate of a row calls back.                               *)
NewChatIn(p) ==
    /\ Gesture /\ mode = "explorer" /\ p \in Own
    /\ LET others == {q \in pending : q.what # "row" \/ q.project # p}
       IN /\ Cardinality(pending) < MaxPending
          /\ pending' = others \cup Unmounted(pending \ others)
                        \cup {[what |-> "row", project |-> p, scope |-> Scope(org), live |-> TRUE]}
    /\ UNCHANGED <<screenVars, tables, orgs, target, carried>>

NewApp ==
    /\ Gesture /\ mode = "explorer"
    /\ Begin("app", None, Scope(org))
    /\ UNCHANGED <<tables, orgs, target, carried>>

PickTarget(p) ==
    /\ Gesture /\ Mounted /\ p \in Own \cup {None} /\ target # p
    /\ target' = p
    /\ UNCHANGED <<screenVars, tables, orgs, pending, carried>>

(* handleSend from the landing composer: the app that was picked, or one   *)
(* that the prompt makes.                                                  *)
Send ==
    /\ Gesture /\ Mounted /\ (target # None \/ route.project = None)
    /\ Begin("send", target, Scope(org))
    /\ UNCHANGED <<tables, orgs, target, carried>>

Unused(table) == {x \in DOMAIN table : table[x] = None}
NewId(table) == CHOOSE x \in Unused(table) : TRUE

(* Where an answer leads, and what it has made.                            *)
Made(q) ==
    CASE q.what = "app" -> At(NewId(owner), None, TRUE)
      [] q.what = "send" /\ q.project = None -> At(NewId(owner), NewId(rows), TRUE)
      [] OTHER -> At(q.project, NewId(rows), TRUE)

Finish(q) ==
    /\ q.what \in {"app", "send"} /\ q.project = None => Unused(owner) # {}
    /\ q.what # "app" => Unused(rows) # {}
    /\ pending' = pending \ {q}
    /\ LET r == Made(q) IN
       /\ owner' = IF owner[r.project] = None THEN [owner EXCEPT ![r.project] = q.scope] ELSE owner
       /\ rows' = IF r.chat = None THEN rows ELSE [rows EXCEPT ![r.chat] = r.project]
       /\ mains' = IF q.what = "send" /\ q.project = None THEN mains \cup {r.chat} ELSE mains
       /\ IF ~q.live THEN UNCHANGED <<screenVars, carried>>
          ELSE /\ GoTo(r)
               /\ carried' = IF owner'[r.project] # Scope(org) THEN carried \cup {r.project} ELSE carried
       /\ target' = IF q.what = "send" /\ q.live THEN None ELSE target
    /\ UNCHANGED <<orgs, gestures>>

(* A failed branch goes home from wherever the user is by then; a prompt   *)
(* may fail after it has made its app.                                     *)
Fail(q) ==
    /\ pending' = pending \ {q}
    /\ IF q.what = "branch" /\ q.live THEN GoTo(Home) ELSE UNCHANGED screenVars
    /\ \/ UNCHANGED owner
       \/ /\ q.what = "send" /\ q.project = None /\ Unused(owner) # {}
          /\ owner' = [owner EXCEPT ![NewId(owner)] = q.scope]
    /\ UNCHANGED <<rows, mains, orgs, target, gestures, carried>>
-----------------------------------------------------------------------------
(* ensureMainChat finds or makes the main chat; the URL is replaced unless *)
(* the page that asked is gone.                                            *)
Redirect(e) ==
    LET found == {c \in mains : rows[c] = e.project}
        c == IF found # {} THEN CHOOSE x \in found : TRUE ELSE NewId(rows)
        s == [Store EXCEPT !.ensuring = @ \ {e}]
        r == At(e.project, c, TRUE)
    IN /\ found # {} \/ Unused(rows) # {}
       /\ rows' = [rows EXCEPT ![c] = e.project] /\ mains' = mains \cup {c}
       /\ IF e.live THEN Stage(r, mode, s) /\ Noted(r) /\ UNCHANGED past
          ELSE Stage(route, mode, s) /\ UNCHANGED <<past, back>>
       /\ UNCHANGED <<owner, orgs, target, pending, gestures, carried>>

RedirectFails(e) ==
    /\ ensuring' = ensuring \ {e}
    /\ refused' = (refused \/ e.live)
    /\ UNCHANGED <<org, mode, route, past, back, selected, strips, rescoped,
                   tables, orgs, target, pending, gestures, carried>>

Back ==
    /\ Gesture /\ past # None
    /\ Stage(past, mode, Store) /\ Noted(past) /\ past' = None
    /\ Carries(past)
    /\ UNCHANGED <<tables, orgs, target, pending>>

(* Pressed in settings, too: then settings are what it goes back to.       *)
OpenSettings ==
    /\ Gesture
    /\ Stage(SettingsPage, "settings", Store)
    /\ back' = route /\ past' = route
    /\ UnlessExplorer("settings")
    /\ UNCHANGED <<tables, orgs, target, carried>>

LeaveSettings(m) ==
    /\ Gesture /\ ~Mounted
    /\ Stage(back, m, Store) /\ Noted(back) /\ past' = route
    /\ UNCHANGED <<tables, orgs, target, pending, carried>>

(* The other panels keep the URL; the organisation menu opens people from  *)
(* settings as well.                                                       *)
ShowPanel(m) ==
    /\ Gesture /\ m # mode /\ (Mounted \/ m = "panel")
    /\ Stage(route, m, Store)
    /\ UnlessExplorer(m)
    /\ UNCHANGED <<past, back, tables, orgs, target, carried>>

ManagePeople ==
    /\ Gesture /\ mode = "panel"
    /\ GoTo(SettingsPage)
    /\ UNCHANGED <<tables, orgs, target, pending, carried>>

(* What is stored survives; answers under way are not waited for.          *)
Reload ==
    /\ Gesture
    /\ Stage(route, IF route.page = "settings" THEN "settings" ELSE "explorer",
             [Store EXCEPT !.remount = TRUE, !.selected = Nothing])
    /\ Noted(route)
    /\ target' = None
    /\ pending' = Cancelled(pending)
    /\ UNCHANGED <<past, tables, orgs, carried>>

Panels == {"explorer", "panel"}

User ==
    \/ \E o \in Org : Switch(o) \/ CreateOrg(o)
    \/ \E c \in Chat : Open(c) \/ OpenFromHistory(c)
    \/ \E p \in Project : OpenProject(p) \/ NewChatIn(p)
    \/ \E p \in Project \cup {None} : PickTarget(p)
    \/ \E i \in DOMAIN Strip : PressTab(i) \/ CloseTab(i)
    \/ \E m \in Panels : LeaveSettings(m) \/ ShowPanel(m)
    \/ \E i, j \in DOMAIN Strip : Reorder(i, j)
    \/ NewChat \/ NewApp \/ Send
    \/ Back \/ OpenSettings \/ ManagePeople \/ Reload

PageAnswer == \E e \in ensuring : e.live /\ (Redirect(e) \/ RedirectFails(e))
LateAnswer ==
    \/ \E e \in ensuring : ~e.live /\ (Redirect(e) \/ RedirectFails(e))
    \/ \E q \in pending : Finish(q) \/ Fail(q)

ShellNext == User \/ PageAnswer \/ LateAnswer
ShellSpec == ShellInit /\ [][ShellNext]_shellVars /\ WF_shellVars(PageAnswer)
-----------------------------------------------------------------------------
(* Tabs are scoped to an organisation, and so is the page.  A project of   *)
(* another one shows only when it was carried over: by Back, by the        *)
(* history panel, by an answer or an app picked from before the change, or *)
(* because the organisation was made while the page was open.              *)
OwnScope ==
    /\ \A o \in DOMAIN strips : \A i \in DOMAIN strips[o] :
           owner[strips[o][i].project] = Scope(o) \/ strips[o][i].project \in carried
    /\ route.project # None => owner[route.project] = Scope(org) \/ route.project \in carried

(* The selection mirrors the URL, and the chat on screen has its tab, as   *)
(* long as no scope was picked that keeps the page (it clears the          *)
(* selection all the same).                                                *)
SelectionMirrorsRoute ==
    Mounted /\ ~rescoped =>
        /\ selected = [project |-> route.project, chat |-> route.chat]
        /\ route.chat # None => \E i \in DOMAIN Strip : Strip[i].chat = route.chat

(* A call for a main chat that may still move the user is of the page on   *)
(* screen: leaving it, or covering it with settings, cancels the call.     *)
RedirectStaysHome ==
    \A e \in ensuring : e.live => Mounted /\ route = At(e.project, None, TRUE)

(* A project page with its workspace comes to a chat, unless the call      *)
(* fails or the page is left; settings that cover it lose the call, and    *)
(* the page asks again when they are closed.                               *)
Waiting == Mounted /\ NeedsChat(route) /\ ~refused
ProjectOpensAChat == Waiting ~> ~Waiting
=============================================================================
