---------------------------- MODULE ClientProofs ----------------------------
(***************************************************************************)
(* Proofs about the browser: module Shell, for any organisations,          *)
(* projects, chats and bounds; module ChatClient, for any chats, sub-runs  *)
(* and number of prompts; module Canvas, for any sessions, servers, apps   *)
(* and bounds.                                                             *)
(*                                                                         *)
(* Shell.  Everything that moves the user goes through Stage, so the       *)
(* argument is about Stage once: what it makes of the selection, the strip *)
(* and the calls for a main chat, given the store a handler leaves behind. *)
(* Each handler then owes its store.  The scope of what is shown needs     *)
(* the same of what the user may be led back to.                           *)
(*                                                                         *)
(* ChatClient.  Four things happen to the store: a prompt is sent, one is  *)
(* queued, an open stream is read, a stream ends.  Each has a lemma that   *)
(* it keeps the invariant; the actions are instances of them.              *)
(*                                                                         *)
(* Canvas.  The surfaces share no state, so each has its own invariant.    *)
(***************************************************************************)
EXTENDS Shell, ChatClient, Canvas, SequenceTheorems, WellFoundedInduction, TLAPS

Page == {At(p, c, w) : p \in Project, c \in Chat \cup {None}, w \in BOOLEAN}
Routes == Page \cup {Home, SettingsPage}
Selection == [project : Project \cup {None}, chat : Chat \cup {None}]
Strips == [Org \cup {None} -> Seq(Page)]
Calls == [project : Project, live : BOOLEAN]
Creations ==
    [what : {"branch", "row", "app", "send"}, project : Project \cup {None},
     scope : Org, live : BOOLEAN]
Modes == {"explorer", "panel", "settings"}
Stores ==
    [org : Org \cup {None}, strips : Strips, selected : Selection,
     ensuring : SUBSET Calls, remount : BOOLEAN]

ScreenTypes ==
    /\ org \in Org \cup {None} /\ mode \in Modes
    /\ route \in Routes /\ selected \in Selection
    /\ strips \in Strips /\ ensuring \subseteq Calls
    /\ refused \in BOOLEAN /\ rescoped \in BOOLEAN

(* A chat is made in a project; an app or a prompt makes its own.          *)
Wellformed(calls) ==
    /\ calls \subseteq Creations
    /\ \A q \in calls : q.what \in {"branch", "row"} => q.project \in Project
    /\ \A q \in calls : q.what = "app" => q.project = None

TableTypes ==
    /\ orgs \subseteq Org /\ target \in Project \cup {None}
    /\ owner \in [Project -> Org \cup {None}] /\ rows \in [Chat -> Project \cup {None}]
    /\ mains \subseteq Chat /\ \A c \in mains : rows[c] \in Project
    /\ Wellformed(pending)

ShellTypes ==
    /\ ScreenTypes /\ TableTypes
    /\ past \in Routes \cup {None} /\ back \in Routes

SInv == ShellTypes /\ SelectionMirrorsRoute /\ RedirectStaysHome
-----------------------------------------------------------------------------
LEMMA PageFields ==
    ASSUME NEW r \in Page
    PROVE  /\ r.page = "project" /\ r.project \in Project
           /\ r.chat \in Chat \cup {None} /\ r.ws \in BOOLEAN
           /\ r = At(r.project, r.chat, r.ws)
  BY DEF Page, At

LEMMA RouteFields ==
    ASSUME NEW r \in Routes
    PROVE  /\ r.project \in Project \cup {None} /\ r.chat \in Chat \cup {None} /\ r.ws \in BOOLEAN
           /\ r.project # None \/ r.chat # None => r \in Page
<1>1. CASE r \in Page
  BY <1>1, PageFields
<1>2. CASE r = Home
  BY <1>2 DEF Home
<1>3. CASE r = SettingsPage
  BY <1>3 DEF SettingsPage
<1> QED
  BY <1>1, <1>2, <1>3 DEF Routes

LEMMA AtIsPage ==
    ASSUME NEW p \in Project, NEW c \in Chat \cup {None}, NEW w \in BOOLEAN
    PROVE  At(p, c, w) \in Page /\ At(p, c, w) \in Routes
  BY DEF Page, Routes

LEMMA CancelledCalls ==
    ASSUME NEW calls \in SUBSET Calls
    PROVE  Cancelled(calls) \in SUBSET Calls /\ \A e \in Cancelled(calls) : ~e.live
  BY DEF Cancelled, Calls

LEMMA Joined ==
    ASSUME NEW S, NEW u \in Seq(S), NEW v \in Seq(S)
    PROVE  /\ u \o v \in Seq(S) /\ Len(u) \in Nat /\ Len(v) \in Nat
           /\ Len(u \o v) = Len(u) + Len(v)
           /\ \A j \in 1..(Len(u) + Len(v)) :
                 (u \o v)[j] = IF j <= Len(u) THEN u[j] ELSE v[j - Len(u)]
  OBVIOUS

(* Taking a tab out of the strip, or putting one in, moves the others.     *)
LEMMA TabRemoved ==
    ASSUME NEW S, NEW q \in Seq(S), NEW i \in DOMAIN q
    PROVE  /\ RemoveAt(q, i) \in Seq(S) /\ Len(RemoveAt(q, i)) = Len(q) - 1
           /\ \A j \in DOMAIN q \ {i} : \E k \in DOMAIN RemoveAt(q, i) : RemoveAt(q, i)[k] = q[j]
<1> DEFINE a == SubSeq(q, 1, i - 1)
           b == SubSeq(q, i + 1, Len(q))
<1>1. i \in 1..Len(q) /\ Len(q) \in Nat
  OBVIOUS
<1>2. a \in Seq(S) /\ Len(a) = i - 1 /\ \A j \in 1..(i - 1) : a[j] = q[j]
  BY <1>1
<1>3. b \in Seq(S) /\ Len(b) = Len(q) - i /\ \A j \in 1..(Len(q) - i) : b[j] = q[i + j]
  BY <1>1
<1>4. RemoveAt(q, i) = a \o b
  BY DEF RemoveAt
<1> HIDE DEF a, b
<1>5. /\ a \o b \in Seq(S) /\ Len(a \o b) = Len(q) - 1
      /\ \A j \in 1..(Len(q) - 1) :
            (a \o b)[j] = IF j <= i - 1 THEN a[j] ELSE b[j - (i - 1)]
  <2>1. /\ a \o b \in Seq(S) /\ Len(a \o b) = Len(a) + Len(b)
        /\ \A j \in 1..(Len(a) + Len(b)) :
              (a \o b)[j] = IF j <= Len(a) THEN a[j] ELSE b[j - Len(a)]
    BY <1>2, <1>3, Joined
  <2>2. Len(a) = i - 1 /\ Len(a) + Len(b) = Len(q) - 1
    BY <1>1, <1>2, <1>3
  <2> QED
    BY <2>1, <2>2
<1>6. ASSUME NEW j \in DOMAIN q \ {i}
      PROVE  \E k \in DOMAIN (a \o b) : (a \o b)[k] = q[j]
  <2>1. j \in 1..Len(q) /\ j # i
    BY <1>6
  <2>2. CASE j < i
    <3>1. j \in 1..(Len(q) - 1) /\ j \in 1..(i - 1)
      BY <1>1, <2>1, <2>2
    <3>2. (a \o b)[j] = q[j]
      BY <1>1, <1>2, <1>5, <3>1
    <3> QED
      BY <1>5, <3>1, <3>2
  <2>3. CASE j > i
    <3>1. j - 1 \in 1..(Len(q) - 1) /\ j - i \in 1..(Len(q) - i) /\ ~(j - 1 <= i - 1)
      BY <1>1, <2>1, <2>3
    <3>2. (a \o b)[j - 1] = b[(j - 1) - (i - 1)]
      BY <1>5, <3>1
    <3>3. (j - 1) - (i - 1) = j - i /\ i + (j - i) = j
      BY <1>1, <2>1
    <3>4. (a \o b)[j - 1] = q[j]
      BY <1>3, <3>1, <3>2, <3>3
    <3> QED
      BY <1>5, <3>1, <3>4
  <2> QED
    BY <1>1, <2>1, <2>2, <2>3
<1> QED
  BY <1>4, <1>5, <1>6

LEMMA TabInserted ==
    ASSUME NEW S, NEW q \in Seq(S), NEW i \in 1..(Len(q) + 1), NEW x \in S
    PROVE  /\ InsertAt(q, i, x) \in Seq(S)
           /\ \E k \in DOMAIN InsertAt(q, i, x) : InsertAt(q, i, x)[k] = x
           /\ \A j \in DOMAIN q : \E k \in DOMAIN InsertAt(q, i, x) : InsertAt(q, i, x)[k] = q[j]
<1> DEFINE a == SubSeq(q, 1, i - 1)
           b == SubSeq(q, i, Len(q))
           r == (a \o <<x>>) \o b
<1>1. i \in Nat /\ Len(q) \in Nat
  OBVIOUS
<1>2. a \in Seq(S) /\ Len(a) = i - 1 /\ \A j \in 1..(i - 1) : a[j] = q[j]
  BY <1>1
<1>3. /\ b \in Seq(S) /\ Len(b) = Len(q) - i + 1
      /\ \A j \in 1..(Len(q) - i + 1) : b[j] = q[i + j - 1]
  BY <1>1
<1>4. InsertAt(q, i, x) = r
  BY DEF InsertAt
<1> HIDE DEF a, b
<1>5. /\ r \in Seq(S) /\ Len(r) = Len(q) + 1
      /\ \A j \in 1..(Len(q) + 1) :
            r[j] = IF j <= i - 1 THEN a[j] ELSE IF j = i THEN x ELSE b[j - i]
  <2> DEFINE ax == a \o <<x>>
  <2>1. /\ ax \in Seq(S) /\ Len(ax) = i
        /\ \A j \in 1..i : ax[j] = IF j <= i - 1 THEN a[j] ELSE x
    BY <1>1, <1>2
  <2> HIDE DEF ax
  <2>2. /\ ax \o b \in Seq(S) /\ Len(ax \o b) = Len(q) + 1
        /\ \A j \in 1..(Len(q) + 1) :
              (ax \o b)[j] = IF j <= i THEN ax[j] ELSE b[j - i]
    <3>1. Len(b) \in Nat /\ i + Len(b) = Len(q) + 1
      BY <1>1, <1>3
    <3>2. /\ ax \o b \in Seq(S) /\ Len(ax \o b) = i + Len(b)
          /\ \A j \in 1..(i + Len(b)) : (ax \o b)[j] = IF j <= i THEN ax[j] ELSE b[j - i]
      BY <1>3, <2>1, Joined
    <3> QED
      BY <3>1, <3>2
  <2>3. r = ax \o b
    BY DEF ax, r
  <2> HIDE DEF r
  <2>4. ASSUME NEW j \in 1..(Len(q) + 1)
        PROVE  r[j] = IF j <= i - 1 THEN a[j] ELSE IF j = i THEN x ELSE b[j - i]
    <3>1. CASE j <= i
      <4>1. j \in 1..i /\ r[j] = ax[j] /\ (j <= i - 1 \/ j = i)
        BY <1>1, <2>2, <2>3, <3>1
      <4>2. ~(i <= i - 1)
        BY <1>1
      <4> QED
        BY <2>1, <4>1, <4>2
    <3>2. CASE ~(j <= i)
      <4>1. ~(j <= i - 1) /\ j # i
        BY <1>1, <3>2
      <4> QED
        BY <2>2, <2>3, <3>2, <4>1
    <3> QED
      BY <3>1, <3>2
  <2> QED
    BY <2>2, <2>3, <2>4
<1> HIDE DEF r
<1>6. i \in 1..Len(r) /\ r[i] = x
  BY <1>1, <1>5
<1>7. ASSUME NEW j \in DOMAIN q PROVE \E k \in DOMAIN r : r[k] = q[j]
  <2>1. j \in 1..Len(q)
    BY <1>7
  <2>2. CASE j < i
    <3>1. j \in 1..(i - 1) /\ j \in 1..(Len(q) + 1)
      BY <1>1, <2>1, <2>2
    <3>2. r[j] = q[j]
      BY <1>1, <1>2, <1>5, <3>1
    <3> QED
      BY <1>5, <3>1, <3>2
  <2>3. CASE j >= i
    <3>1. /\ j + 1 \in 1..(Len(q) + 1) /\ j + 1 - i \in 1..(Len(q) - i + 1)
          /\ ~(j + 1 <= i - 1) /\ j + 1 # i /\ i + (j + 1 - i) - 1 = j
      BY <1>1, <2>1, <2>3
    <3>2. r[j + 1] = b[j + 1 - i]
      BY <1>5, <3>1
    <3>3. r[j + 1] = q[j]
      BY <1>3, <3>1, <3>2
    <3> QED
      BY <1>5, <3>1, <3>3
  <2> QED
    BY <1>1, <2>1, <2>2, <2>3
<1>8. DOMAIN r = 1..Len(r)
  BY <1>5
<1> QED
  BY <1>4, <1>5, <1>6, <1>7, <1>8

LEMMA PageInserted ==
    ASSUME NEW u \in Seq(Page), NEW k \in 1..(Len(u) + 1), NEW x \in Page
    PROVE  /\ InsertAt(u, k, x) \in Seq(Page)
           /\ \E l \in DOMAIN InsertAt(u, k, x) : InsertAt(u, k, x)[l] = x
           /\ \A n \in DOMAIN u :
                 \E l \in DOMAIN InsertAt(u, k, x) : InsertAt(u, k, x)[l] = u[n]
BY TabInserted, SMTT(30)
-----------------------------------------------------------------------------
(* What Stage makes of the store a handler leaves.                         *)
LEMMA StoreTypes == ASSUME ScreenTypes
    PROVE  /\ Store \in Stores
           /\ Store.org = org /\ Store.strips = strips /\ Store.selected = selected
           /\ Store.ensuring = ensuring /\ Store.remount = ~Mounted
<1>1. org \in Org \cup {None} /\ strips \in Strips /\ selected \in Selection
      /\ ensuring \in SUBSET Calls
  BY DEF ScreenTypes
<1>2. (~Mounted) \in BOOLEAN
  BY DEF Mounted
<1> QED
  BY <1>1, <1>2 DEF Store, Stores

LEMMA RegisteredTypes ==
    ASSUME NEW r \in Routes, NEW s \in Stores
    PROVE  /\ Registered(s, r) \in Strips
           /\ r.chat # None => \E i \in DOMAIN Registered(s, r)[s.org] :
                                  Registered(s, r)[s.org][i].chat = r.chat
<1>1. s.strips \in Strips /\ s.org \in Org \cup {None}
  BY DEF Stores
<1>2. CASE r.chat = None \/ \E i \in DOMAIN s.strips[s.org] : s.strips[s.org][i].chat = r.chat
  BY <1>1, <1>2 DEF Registered
<1>3. CASE ~(r.chat = None \/ \E i \in DOMAIN s.strips[s.org] : s.strips[s.org][i].chat = r.chat)
  <2> DEFINE q == s.strips[s.org]
  <2>1. r \in Page
    BY <1>3, RouteFields
  <2>2. q \in Seq(Page)
    BY <1>1 DEF Strips
  <2>3. /\ Append(q, r) \in Seq(Page)
        /\ Len(q) + 1 \in DOMAIN Append(q, r) /\ Append(q, r)[Len(q) + 1] = r
    <3> HIDE DEF q
    <3> QED
      BY <2>1, <2>2
  <2>4. Registered(s, r) = [s.strips EXCEPT ![s.org] = Append(q, r)]
    BY <1>3 DEF Registered
  <2>5. Registered(s, r) \in Strips /\ Registered(s, r)[s.org] = Append(q, r)
    BY <1>1, <2>3, <2>4 DEF Strips
  <2> QED
    BY <2>3, <2>5
<1> QED
  BY <1>2, <1>3

LEMMA StageTypes ==
    ASSUME ScreenTypes, NEW r \in Routes, NEW m \in Modes, NEW s \in Stores, Stage(r, m, s)
    PROVE  ScreenTypes'
<1>1. route' = r /\ mode' = m /\ org' = s.org /\ s.org \in Org \cup {None}
  BY DEF Stage, Stores
<1>2. selected' \in Selection
  <2>1. [project |-> r.project, chat |-> r.chat] \in Selection
    BY RouteFields DEF Selection
  <2>2. s.selected \in Selection
    BY DEF Stores
  <2> QED
    BY <2>1, <2>2 DEF Stage
<1>3. strips' \in Strips
  <2>1. s.strips \in Strips
    BY DEF Stores
  <2> QED
    BY <2>1, RegisteredTypes DEF Stage
<1>4. ensuring' \subseteq Calls
  <2>1. s.ensuring \in SUBSET Calls
    BY DEF Stores
  <2>2. Cancelled(s.ensuring) \in SUBSET Calls
    BY <2>1, CancelledCalls
  <2>3. AskedFor(r) \in SUBSET Calls
    BY RouteFields DEF AskedFor, NeedsChat, Calls
  <2> QED
    BY <2>1, <2>2, <2>3 DEF Stage
<1>5. refused' \in BOOLEAN /\ rescoped' \in BOOLEAN
  BY DEF Stage
<1> QED
  BY <1>1, <1>2, <1>3, <1>4, <1>5 DEF ScreenTypes

(* The selection mirrors the route that is rendered, provided that what    *)
(* keeps the page keeps the tab of its chat.                               *)
LEMMA StageMirrors ==
    ASSUME ScreenTypes, SelectionMirrorsRoute,
           NEW r \in Routes, NEW m \in Modes, NEW s \in Stores, Stage(r, m, s),
           ~Mounted => s.remount,
           Mounted /\ ~rescoped /\ r.chat = route.chat /\ r.chat # None /\ s.selected = selected =>
               \E i \in DOMAIN s.strips[s.org] : s.strips[s.org][i].chat = r.chat
    PROVE  SelectionMirrorsRoute'
<1> SUFFICES ASSUME m # "settings", ~rescoped'
             PROVE  /\ selected' = [project |-> r.project, chat |-> r.chat]
                    /\ r.chat # None => \E i \in DOMAIN strips'[s.org] :
                                           strips'[s.org][i].chat = r.chat
  BY DEF SelectionMirrorsRoute, Stage, Strip, Mounted
<1>1. CASE Fresh(r, m, s)
  BY <1>1, RegisteredTypes DEF Stage
<1>2. CASE ~Fresh(r, m, s)
  <2>1. ~s.remount /\ Mounted /\ r.project = route.project /\ r.chat = route.chat
    BY <1>2 DEF Fresh
  <2>2. ~rescoped /\ s.selected = selected
    BY <1>2 DEF Stage
  <2>3. selected' = selected /\ strips' = s.strips
    BY <1>2, <2>2 DEF Stage
  <2>4. selected = [project |-> route.project, chat |-> route.chat]
    BY <2>1, <2>2 DEF SelectionMirrorsRoute
  <2> QED
    BY <2>1, <2>2, <2>3, <2>4
<1> QED
  BY <1>1, <1>2

(* A live call is one of this page: those of the page before are cancelled *)
(* by the effect's clean-up.                                               *)
LEMMA StageStaysHome ==
    ASSUME ScreenTypes, RedirectStaysHome,
           NEW r \in Routes, NEW m \in Modes, NEW s \in Stores, Stage(r, m, s),
           s.ensuring \subseteq ensuring
    PROVE  RedirectStaysHome'
<1> SUFFICES ASSUME NEW e \in ensuring', e.live
             PROVE  m # "settings" /\ r = At(e.project, None, TRUE)
  BY DEF RedirectStaysHome, Stage, Mounted
<1>1. s.ensuring \in SUBSET Calls
  BY DEF Stores
<1>2. e \notin Cancelled(s.ensuring)
  BY <1>1, CancelledCalls
<1>3. CASE Asks(r, m, s)
  <2>1. m # "settings" /\ e \in AskedFor(r)
    BY <1>2, <1>3 DEF Stage, Asks
  <2>2. NeedsChat(r) /\ e.project = r.project
    BY <2>1 DEF AskedFor
  <2>3. r \in Page /\ r.ws = TRUE
    BY <2>2, RouteFields DEF NeedsChat
  <2> QED
    BY <2>1, <2>2, <2>3, PageFields DEF NeedsChat
<1>4. CASE ~Asks(r, m, s)
  <2>1. m # "settings" /\ e \in ensuring
    BY <1>2, <1>4 DEF Stage
  <2>2. r.project = route.project /\ r.chat = route.chat /\ r.ws = route.ws
    BY <1>4, <2>1 DEF Asks, Fresh
  <2>3. route = At(e.project, None, TRUE) /\ e.project \in Project
    BY <2>1 DEF RedirectStaysHome, ScreenTypes, Calls
  <2>4. e.project # None
    BY <2>3, ShellAssumption
  <2>5. r.project = e.project /\ r.chat = None /\ r.ws = TRUE
    BY <2>2, <2>3 DEF At
  <2>6. r \in Page
    BY <2>4, <2>5, RouteFields
  <2> QED
    BY <2>1, <2>5, <2>6, PageFields
<1> QED
  BY <1>3, <1>4

(* A step that goes through Stage owes its store and nothing else.         *)
LEMMA StageSteps ==
    ASSUME ScreenTypes, SelectionMirrorsRoute, RedirectStaysHome,
           NEW r \in Routes, NEW m \in Modes, NEW s \in Stores, Stage(r, m, s),
           ~Mounted => s.remount,
           s.ensuring \subseteq ensuring,
           Mounted /\ ~rescoped /\ r.chat = route.chat /\ r.chat # None /\ s.selected = selected =>
               \E i \in DOMAIN s.strips[s.org] : s.strips[s.org][i].chat = r.chat
    PROVE  ScreenTypes' /\ SelectionMirrorsRoute' /\ RedirectStaysHome'
  BY StageTypes, StageMirrors, StageStaysHome

(* A plain move: the store is as it was.                                   *)
LEMMA StoreSteps ==
    ASSUME ScreenTypes, SelectionMirrorsRoute, RedirectStaysHome,
           NEW r \in Routes, NEW m \in Modes, Stage(r, m, Store)
    PROVE  ScreenTypes' /\ SelectionMirrorsRoute' /\ RedirectStaysHome'
<1>1. /\ Store \in Stores /\ Store.org = org /\ Store.strips = strips
      /\ Store.selected = selected /\ Store.ensuring = ensuring /\ Store.remount = ~Mounted
  BY StoreTypes
<1>2. Mounted /\ ~rescoped /\ r.chat = route.chat /\ r.chat # None
         => \E i \in DOMAIN strips[org] : strips[org][i].chat = r.chat
  BY DEF SelectionMirrorsRoute, Strip
<1> QED
  BY <1>1, <1>2, StageSteps
-----------------------------------------------------------------------------
LEMMA ShownKept ==
    ASSUME ScreenTypes, SelectionMirrorsRoute, RedirectStaysHome, UNCHANGED screenVars
    PROVE  ScreenTypes' /\ SelectionMirrorsRoute' /\ RedirectStaysHome'
  BY DEF screenVars, ScreenTypes, SelectionMirrorsRoute, RedirectStaysHome, Mounted, Strip

LEMMA SilencedCalls ==
    ASSUME NEW calls, Wellformed(calls)
    PROVE  Wellformed(Unmounted(calls)) /\ Wellformed(Cancelled(calls))
<1>1. ASSUME NEW q \in calls
      PROVE  /\ [q EXCEPT !.live = FALSE] \in Creations
             /\ [q EXCEPT !.live = FALSE].what = q.what
             /\ [q EXCEPT !.live = FALSE].project = q.project
  BY DEF Wellformed, Creations
<1> DEFINE off(q) == [q EXCEPT !.live = FALSE]
<1>2. \A u \in Unmounted(calls) \cup Cancelled(calls) :
          \E q \in calls : u \in {q, off(q)}
  BY DEF Unmounted, Cancelled
<1>3. \A q \in calls : \A u \in {q, off(q)} :
          u \in Creations /\ u.what = q.what /\ u.project = q.project
  BY <1>1 DEF Wellformed
<1> HIDE DEF off
<1>4. \A u \in Unmounted(calls) \cup Cancelled(calls) :
          /\ u \in Creations
          /\ u.what \in {"branch", "row"} => u.project \in Project
          /\ u.what = "app" => u.project = None
  BY <1>2, <1>3 DEF Wellformed
<1> QED
  BY <1>4 DEF Wellformed

LEMMA NewCall ==
    ASSUME NEW w \in {"branch", "row", "app", "send"}, NEW p \in Project \cup {None},
           NEW o \in Org, NEW calls, Wellformed(calls),
           w \in {"branch", "row"} => p \in Project, w = "app" => p = None
    PROVE  Wellformed(calls \cup {[what |-> w, project |-> p, scope |-> o, live |-> TRUE]})
<1> DEFINE q == [what |-> w, project |-> p, scope |-> o, live |-> TRUE]
<1>1. q \in Creations /\ q.what = w /\ q.project = p
  BY DEF Creations
<1> HIDE DEF q
<1>2. Wellformed(calls \cup {q})
  BY <1>1 DEF Wellformed
<1> QED
  BY <1>2 DEF q

LEMMA ResolvedType == ASSUME NEW o \in Org \cup {None}
    PROVE  Scope(o) \in Org
  BY ShellAssumption DEF Scope

LEMMA Landmarks == Home \in Routes /\ SettingsPage \in Routes
  BY DEF Routes

LEMMA NotedType == ASSUME NEW r \in Routes, back \in Routes, Noted(r)
    PROVE  back' \in Routes
  BY DEF Noted

(* A navigation from the page: GoTo is a plain move.                       *)
LEMMA GoToSteps ==
    ASSUME SInv, NEW r \in Routes, GoTo(r)
    PROVE  /\ ScreenTypes' /\ SelectionMirrorsRoute' /\ RedirectStaysHome'
           /\ past' \in Routes \cup {None} /\ back' \in Routes
<1>1. mode \in Modes /\ route \in Routes
  BY DEF SInv, ShellTypes, ScreenTypes
<1> QED
  BY <1>1, StoreSteps, NotedType DEF GoTo, SInv, ShellTypes

LEMMA InitSInv == ShellInit => SInv
<1> SUFFICES ASSUME ShellInit PROVE SInv
  OBVIOUS
<1>1. ScreenTypes
  <2>1. org \in Org \cup {None}
    BY ShellAssumption DEF ShellInit
  <2>2. mode \in Modes /\ refused \in BOOLEAN /\ rescoped \in BOOLEAN
    BY DEF ShellInit, Modes
  <2>3. route \in Routes
    BY Landmarks DEF ShellInit
  <2>4. selected \in Selection
    BY DEF ShellInit, Nothing, Selection
  <2>5. strips \in Strips
    BY DEF ShellInit, Strips
  <2>6. ensuring \subseteq Calls
    BY DEF ShellInit
  <2> QED
    BY <2>1, <2>2, <2>3, <2>4, <2>5, <2>6 DEF ScreenTypes
<1>2. TableTypes
  <2>1. orgs \subseteq Org
    BY ShellAssumption DEF ShellInit
  <2>2. owner \in [Project -> Org \cup {None}]
    BY <2>1, ShellAssumption DEF ShellInit
  <2> QED
    BY <2>1, <2>2 DEF ShellInit, TableTypes, Wellformed
<1>3. past \in Routes \cup {None} /\ back \in Routes
  BY Landmarks DEF ShellInit
<1>4. SelectionMirrorsRoute /\ RedirectStaysHome
  BY DEF ShellInit, SelectionMirrorsRoute, RedirectStaysHome, Nothing, Home
<1> QED
  BY <1>1, <1>2, <1>3, <1>4 DEF SInv, ShellTypes

LEMMA SwitchSInv == ASSUME SInv, NEW o \in Org, Switch(o)
    PROVE  SInv'
<1> DEFINE r == IF Leaves(o) THEN Home ELSE route
           s == [Store EXCEPT !.org = o, !.selected = Nothing]
<1>1. ScreenTypes /\ TableTypes /\ back \in Routes /\ past \in Routes \cup {None}
      /\ SelectionMirrorsRoute /\ RedirectStaysHome
  BY DEF SInv, ShellTypes
<1>2. route \in Routes /\ mode \in Modes
  BY <1>1 DEF ScreenTypes
<1>3. r \in Routes
  BY <1>2, Landmarks
<1>4. s \in Stores /\ s.org = o /\ s.selected = Nothing /\ s.strips = strips
      /\ s.ensuring = ensuring /\ s.remount = ~Mounted
  <2>1. Nothing \in Selection
    BY DEF Nothing, Selection
  <2> QED
    BY <1>1, <2>1, StoreTypes DEF Stores
<1>5. Stage(r, mode, s) /\ Noted(r) /\ past' = IF Leaves(o) THEN route ELSE past
  BY DEF Switch
<1>6. ~(Mounted /\ ~rescoped /\ r.chat = route.chat /\ r.chat # None /\ s.selected = selected)
  BY <1>1, <1>4 DEF SelectionMirrorsRoute, Nothing
<1>7. ScreenTypes' /\ SelectionMirrorsRoute' /\ RedirectStaysHome'
  <2> HIDE DEF r, s
  <2> QED
    BY <1>1, <1>2, <1>3, <1>4, <1>5, <1>6, StageSteps
<1>8. past' \in Routes \cup {None} /\ back' \in Routes
  BY <1>1, <1>2, <1>3, <1>5, NotedType
<1>9. TableTypes'
  BY <1>1, SilencedCalls DEF Switch, TableTypes, tables
<1> QED
  BY <1>7, <1>8, <1>9 DEF SInv, ShellTypes

LEMMA CreateOrgSInv == ASSUME SInv, NEW o \in Org, CreateOrg(o)
    PROVE  SInv'
<1> DEFINE s == [Store EXCEPT !.org = o, !.selected = Nothing]
<1>1. ScreenTypes /\ TableTypes /\ back \in Routes /\ past \in Routes \cup {None}
      /\ SelectionMirrorsRoute /\ RedirectStaysHome
  BY DEF SInv, ShellTypes
<1>2. route \in Routes /\ mode \in Modes
  BY <1>1 DEF ScreenTypes
<1>3. s \in Stores /\ s.org = o /\ s.selected = Nothing /\ s.strips = strips
      /\ s.ensuring = ensuring /\ s.remount = ~Mounted
  <2>1. Nothing \in Selection
    BY DEF Nothing, Selection
  <2> QED
    BY <1>1, <2>1, StoreTypes DEF Stores
<1>4. Stage(route, mode, s) /\ UNCHANGED <<past, back>>
  BY DEF CreateOrg
<1>5. ~(Mounted /\ ~rescoped /\ route.chat # None /\ s.selected = selected)
  BY <1>1, <1>3 DEF SelectionMirrorsRoute, Nothing
<1>6. ScreenTypes' /\ SelectionMirrorsRoute' /\ RedirectStaysHome'
  <2> HIDE DEF s
  <2> QED
    BY <1>1, <1>2, <1>3, <1>4, <1>5, StageSteps
<1>7. TableTypes'
  BY <1>1, SilencedCalls DEF CreateOrg, TableTypes, tables
<1> QED
  BY <1>1, <1>4, <1>6, <1>7 DEF SInv, ShellTypes

(* The navigations of the explorer, the history list and the tab strip.    *)
LEMMA NavigationSInv ==
    ASSUME SInv,
           \/ \E c \in Chat : Open(c) \/ OpenFromHistory(c)
           \/ \E p \in Project : OpenProject(p)
           \/ \E i \in DOMAIN Strip : PressTab(i)
           \/ ManagePeople
    PROVE  SInv'
<1>1. \E r \in Routes : GoTo(r)
  <2>1. CASE \E c \in Chat : Open(c) \/ OpenFromHistory(c)
    <3>1. PICK c \in Chat : Open(c) \/ OpenFromHistory(c)
      BY <2>1
    <3>2. rows[c] \in Project
      BY <3>1, ShellAssumption DEF Open, OpenFromHistory, Own, SInv, ShellTypes, TableTypes,
         ScreenTypes, Selection
    <3> QED
      BY <3>1, <3>2, AtIsPage DEF Open, OpenFromHistory
  <2>2. CASE \E p \in Project : OpenProject(p)
    BY <2>2, AtIsPage DEF OpenProject
  <2>3. CASE \E i \in DOMAIN Strip : PressTab(i)
    <3>1. Strip \in Seq(Page)
      BY DEF SInv, ShellTypes, ScreenTypes, Strip, Strips
    <3>2. \A i \in DOMAIN Strip : Strip[i] \in Page
      BY <3>1
    <3> QED
      BY <2>3, <3>2 DEF PressTab, Routes
  <2>4. CASE ManagePeople
    BY <2>4, Landmarks DEF ManagePeople
  <2> QED
    BY <2>1, <2>2, <2>3, <2>4
<1>2. UNCHANGED <<tables, orgs, target, pending>>
  BY DEF Open, OpenFromHistory, OpenProject, PressTab, ManagePeople
<1>3. TableTypes'
  BY <1>2 DEF SInv, ShellTypes, TableTypes, tables
<1> QED
  BY <1>1, <1>3, GoToSteps DEF SInv, ShellTypes

LEMMA CloseTabSInv == ASSUME SInv, NEW i \in DOMAIN Strip, CloseTab(i)
    PROVE  SInv'
<1> DEFINE rest == RemoveAt(Strip, i)
           s == [Store EXCEPT !.strips[org] = rest]
           next == CASE i <= Len(rest) -> rest[i]
                     [] i > Len(rest) /\ rest # <<>> -> Last(rest)
                     [] rest = <<>> /\ selected.project # None -> At(selected.project, None, FALSE)
                     [] OTHER -> Home
<1>1. ScreenTypes /\ TableTypes /\ back \in Routes /\ past \in Routes \cup {None}
      /\ SelectionMirrorsRoute /\ RedirectStaysHome /\ Mounted
  BY DEF SInv, ShellTypes, CloseTab
<1>2. /\ route \in Routes /\ mode \in Modes /\ org \in Org \cup {None}
      /\ strips \in Strips /\ selected \in Selection
  BY <1>1 DEF ScreenTypes
<1>3. Strip \in Seq(Page) /\ i \in 1..Len(Strip)
  BY <1>2 DEF Strip, Strips
<1>4. /\ rest \in Seq(Page)
      /\ \A j \in DOMAIN Strip \ {i} : \E k \in DOMAIN rest : rest[k] = Strip[j]
  BY <1>3, TabRemoved
<1>5. s \in Stores /\ s.org = org /\ s.selected = selected /\ s.strips[org] = rest
      /\ s.ensuring = ensuring /\ s.remount = ~Mounted
  <2>1. [strips EXCEPT ![org] = rest] \in Strips /\ [strips EXCEPT ![org] = rest][org] = rest
    BY <1>2, <1>4 DEF Strips
  <2> HIDE DEF rest
  <2>2. s = [Store EXCEPT !.strips = [strips EXCEPT ![org] = rest]]
    BY <1>1, StoreTypes DEF Store
  <2> QED
    BY <1>1, <2>1, <2>2, StoreTypes DEF Stores
<1>6. CASE Strip[i].chat = selected.chat
  <2>1. Stage(next, mode, s) /\ Noted(next) /\ past' = route
    BY <1>6 DEF CloseTab
  <2>2. next \in Routes /\ (next.chat # None => \E k \in DOMAIN rest : rest[k] = next)
    <3> HIDE DEF rest, s
    <3>1. /\ i \in Nat /\ Len(rest) \in Nat /\ DOMAIN rest = 1..Len(rest)
          /\ rest = <<>> => Len(rest) = 0
      BY <1>3, <1>4
    <3>2. \/ i <= Len(rest) /\ next = rest[i]
          \/ i > Len(rest) /\ rest # <<>> /\ next = Last(rest)
          \/ rest = <<>> /\ selected.project # None /\ next = At(selected.project, None, FALSE)
          \/ next = Home
      <4>1. CASE i <= Len(rest)
        <5>1. ~(i > Len(rest)) /\ rest # <<>>
          BY <1>3, <3>1, <4>1
        <5> QED
          BY <4>1, <5>1
      <4>2. CASE i > Len(rest) /\ rest # <<>>
        <5>1. ~(i <= Len(rest))
          BY <3>1, <4>2
        <5> QED
          BY <4>2, <5>1
      <4>3. CASE rest = <<>>
        <5>1. i > Len(rest) /\ ~(i <= Len(rest))
          BY <1>3, <3>1, <4>3
        <5> QED
          BY <4>3, <5>1
      <4> QED
        BY <3>1, <4>1, <4>2, <4>3
    <3> HIDE DEF next
    <3>3. CASE \E k \in DOMAIN rest : next = rest[k]
      BY <1>4, <3>3 DEF Routes
    <3>4. CASE i <= Len(rest) /\ next = rest[i]
      BY <1>3, <3>1, <3>3, <3>4
    <3>5. CASE rest # <<>> /\ next = Last(rest)
      <4>1. Len(rest) \in DOMAIN rest
        BY <1>4, <3>5
      <4> QED
        BY <3>3, <3>5, <4>1 DEF Last
    <3>6. CASE selected.project # None /\ next = At(selected.project, None, FALSE)
      <4>1. selected.project \in Project
        BY <1>2, <3>6 DEF Selection
      <4> QED
        BY <3>6, <4>1, AtIsPage DEF At
    <3>7. CASE next = Home
      BY <3>7, Landmarks DEF Home
    <3> QED
      BY <3>2, <3>4, <3>5, <3>6, <3>7
  <2> HIDE DEF next, s, rest
  <2>3. next.chat # None => \E k \in DOMAIN s.strips[s.org] : s.strips[s.org][k].chat = next.chat
    BY <1>5, <2>2
  <2>4. ScreenTypes' /\ SelectionMirrorsRoute' /\ RedirectStaysHome'
    BY <1>1, <1>2, <1>5, <2>1, <2>2, <2>3, StageSteps
  <2>5. past' \in Routes \cup {None} /\ back' \in Routes
    BY <1>1, <1>2, <2>1, <2>2, NotedType
  <2>6. TableTypes'
    BY <1>1 DEF CloseTab, TableTypes, tables
  <2> QED
    BY <2>4, <2>5, <2>6 DEF SInv, ShellTypes
<1>7. CASE Strip[i].chat # selected.chat
  <2>1. Stage(route, mode, s) /\ UNCHANGED <<past, back>>
    BY <1>7 DEF CloseTab
  <2>2. ~rescoped /\ route.chat # None =>
            \E k \in DOMAIN s.strips[s.org] : s.strips[s.org][k].chat = route.chat
    <3> SUFFICES ASSUME ~rescoped, route.chat # None
                 PROVE  \E k \in DOMAIN rest : rest[k].chat = route.chat
      BY <1>5
    <3>1. selected.chat = route.chat
      BY <1>1 DEF SelectionMirrorsRoute
    <3>2. PICK j \in DOMAIN Strip : Strip[j].chat = route.chat
      BY <1>1 DEF SelectionMirrorsRoute
    <3> QED
      BY <1>4, <1>7, <3>1, <3>2
  <2> HIDE DEF next, s, rest
  <2>3. ScreenTypes' /\ SelectionMirrorsRoute' /\ RedirectStaysHome'
    BY <1>1, <1>2, <1>5, <2>1, <2>2, StageSteps
  <2>4. TableTypes'
    BY <1>1 DEF CloseTab, TableTypes, tables
  <2> QED
    BY <1>1, <2>1, <2>3, <2>4 DEF SInv, ShellTypes
<1> QED
  BY <1>6, <1>7

LEMMA ReorderSInv ==
    ASSUME SInv, NEW i \in DOMAIN Strip, NEW j \in DOMAIN Strip, Reorder(i, j)
    PROVE  SInv'
<1> DEFINE rest == RemoveAt(Strip, i)
           q == InsertAt(rest, j, Strip[i])
<1>1. ScreenTypes /\ TableTypes /\ org \in Org \cup {None} /\ strips \in Strips
  BY DEF SInv, ShellTypes, ScreenTypes
<1>2. Strip \in Seq(Page) /\ i \in 1..Len(Strip) /\ j \in 1..Len(Strip) /\ Strip[i] \in Page
  BY <1>1 DEF Strip, Strips
<1>3. /\ rest \in Seq(Page) /\ Len(rest) = Len(Strip) - 1
      /\ \A k \in DOMAIN Strip \ {i} : \E l \in DOMAIN rest : rest[l] = Strip[k]
  BY <1>2, TabRemoved
<1> HIDE DEF rest
<1>4. /\ q \in Seq(Page)
      /\ \E k \in DOMAIN q : q[k] = Strip[i]
      /\ \A k \in DOMAIN rest : \E l \in DOMAIN q : q[l] = rest[k]
  <2>1. j \in 1..(Len(rest) + 1)
    BY <1>2, <1>3
  <2>2. /\ InsertAt(rest, j, Strip[i]) \in Seq(Page)
        /\ \E l \in DOMAIN InsertAt(rest, j, Strip[i]) :
              InsertAt(rest, j, Strip[i])[l] = Strip[i]
        /\ \A n \in DOMAIN rest : \E l \in DOMAIN InsertAt(rest, j, Strip[i]) :
              InsertAt(rest, j, Strip[i])[l] = rest[n]
    <3>1. rest \in Seq(Page) /\ j \in 1..(Len(rest) + 1) /\ Strip[i] \in Page
      BY <1>2, <1>3, <2>1
    <3> QED BY <3>1, PageInserted
  <2>3. i \in DOMAIN Strip
    OBVIOUS
  <2> QED
    BY <2>2, <2>3, Zenon
<1> HIDE DEF q
<1>5. \A k \in DOMAIN Strip : \E l \in DOMAIN q : q[l] = Strip[k]
  BY <1>3, <1>4
<1>6. strips' = [strips EXCEPT ![org] = q]
  BY DEF Reorder, q, rest, Strip
<1>7. strips' \in Strips /\ strips'[org] = q
  BY <1>1, <1>4, <1>6 DEF Strips
<1>8. ScreenTypes'
  BY <1>1, <1>7 DEF Reorder, ScreenTypes
<1>9. SelectionMirrorsRoute'
  <2>1. UNCHANGED <<org, mode, route, selected, rescoped>>
    BY DEF Reorder
  <2> QED
    BY <1>5, <1>7, <2>1 DEF SInv, SelectionMirrorsRoute, Mounted, Strip
<1>10. RedirectStaysHome'
  BY DEF SInv, Reorder, RedirectStaysHome, Mounted
<1>11. TableTypes'
  BY <1>1 DEF Reorder, TableTypes, tables
<1> QED
  BY <1>8, <1>9, <1>10, <1>11 DEF Reorder, SInv, ShellTypes

(* What is only asked for moves nobody.                                    *)
LEMMA AskSInv ==
    ASSUME SInv, NewApp \/ Send \/ (\E p \in Project : NewChatIn(p))
                 \/ \E p \in Project \cup {None} : PickTarget(p)
    PROVE  SInv'
<1>1. TableTypes /\ Scope(org) \in Org
  BY ResolvedType DEF SInv, ShellTypes, ScreenTypes
<1>2. UNCHANGED screenVars /\ UNCHANGED tables /\ UNCHANGED orgs
  BY DEF NewApp, Send, NewChatIn, PickTarget, Begin
<1>3. target' \in Project \cup {None}
  BY <1>1 DEF NewApp, Send, NewChatIn, PickTarget, TableTypes, Own
<1>4. Wellformed(pending')
  <2>1. Wellformed(pending) /\ target \in Project \cup {None}
    BY <1>1 DEF TableTypes
  <2>2. CASE NewApp
    BY <1>1, <2>1, <2>2, NewCall DEF NewApp, Begin
  <2>3. CASE Send
    BY <1>1, <2>1, <2>3, NewCall DEF Send, Begin
  <2>4. CASE \E p \in Project : NewChatIn(p)
    <3>1. PICK p \in Project : NewChatIn(p)
      BY <2>4
    <3> DEFINE others == {q \in pending : q.what # "row" \/ q.project # p}
               calls == others \cup Unmounted(pending \ others)
    <3>2. Wellformed(others) /\ Wellformed(pending \ others)
      BY <2>1 DEF Wellformed
    <3>3. Wellformed(calls)
      <4> HIDE DEF others
      <4>1. Wellformed(Unmounted(pending \ others))
        BY <3>2, SilencedCalls
      <4> QED
        BY <3>2, <4>1 DEF Wellformed
    <3>4. pending' = calls \cup {[what |-> "row", project |-> p, scope |-> Scope(org),
                                  live |-> TRUE]}
      BY <3>1 DEF NewChatIn
    <3> HIDE DEF calls
    <3> QED
      BY <1>1, <3>3, <3>4, NewCall
  <2>5. CASE \E p \in Project \cup {None} : PickTarget(p)
    BY <2>1, <2>5 DEF PickTarget
  <2> QED
    BY <2>2, <2>3, <2>4, <2>5
<1>5. ScreenTypes' /\ SelectionMirrorsRoute' /\ RedirectStaysHome'
  BY <1>2, ShownKept DEF SInv, ShellTypes
<1>6. TableTypes'
  BY <1>1, <1>2, <1>3, <1>4 DEF TableTypes, tables
<1> QED
  BY <1>2, <1>5, <1>6 DEF SInv, ShellTypes, screenVars

LEMMA NewChatSInv == ASSUME SInv, NewChat
    PROVE  SInv'
<1>1. TableTypes /\ Scope(org) \in Org /\ selected \in Selection
  BY ResolvedType DEF SInv, ShellTypes, ScreenTypes
<1>2. CASE Begin("branch", selected.project, Scope(org)) /\ selected.project # None
  <2>1. selected.project \in Project
    BY <1>1, <1>2 DEF Selection
  <2>2. Wellformed(pending')
    BY <1>1, <1>2, <2>1, NewCall DEF Begin, TableTypes
  <2>3. UNCHANGED screenVars
    BY <1>2 DEF Begin
  <2>4. ScreenTypes' /\ SelectionMirrorsRoute' /\ RedirectStaysHome'
    BY <2>3, ShownKept DEF SInv, ShellTypes
  <2>5. TableTypes'
    BY <1>1, <2>2 DEF NewChat, TableTypes, tables
  <2> QED
    BY <2>3, <2>4, <2>5 DEF SInv, ShellTypes, screenVars
<1>3. CASE GoTo(Home) /\ UNCHANGED pending
  <2>1. TableTypes'
    BY <1>1, <1>3 DEF NewChat, TableTypes, tables
  <2> QED
    BY <1>3, <2>1, Landmarks, GoToSteps DEF SInv, ShellTypes
<1> QED
  BY <1>2, <1>3 DEF NewChat

LEMMA NewIdType ==
    ASSUME NEW S, NEW T, NEW table \in [S -> T], Unused(table) # {}
    PROVE  NewId(table) \in S
  BY DEF Unused, NewId

LEMMA MadeType ==
    ASSUME SInv, NEW q \in pending,
           q.what \in {"app", "send"} /\ q.project = None => Unused(owner) # {},
           q.what # "app" => Unused(rows) # {}
    PROVE  /\ Made(q) \in Page
           /\ q.what = "send" /\ q.project = None => Made(q).chat \in Chat
<1>1. /\ q.what \in {"branch", "row", "app", "send"} /\ q.project \in Project \cup {None}
      /\ q.what \in {"branch", "row"} => q.project \in Project
  BY DEF SInv, ShellTypes, TableTypes, Wellformed, Creations
<1>2. q.what \in {"app", "send"} /\ q.project = None => NewId(owner) \in Project
  BY NewIdType DEF SInv, ShellTypes, TableTypes
<1>3. q.what # "app" => NewId(rows) \in Chat
  BY NewIdType DEF SInv, ShellTypes, TableTypes
<1> DEFINE app == At(NewId(owner), None, TRUE)
           both == At(NewId(owner), NewId(rows), TRUE)
           chat == At(q.project, NewId(rows), TRUE)
<1>4. CASE q.what = "app" /\ q.project = None
  BY <1>2, <1>4, AtIsPage DEF Made
<1>5. CASE q.what = "send" /\ q.project = None
  <2>1. Made(q) = both
    BY <1>5 DEF Made
  <2>2. both.chat = NewId(rows)
    BY DEF At
  <2> QED
    BY <1>2, <1>3, <1>5, <2>1, <2>2, AtIsPage
<1>6. CASE q.what # "app" /\ q.project # None
  <2>1. Made(q) = chat
    BY <1>6 DEF Made
  <2> QED
    BY <1>1, <1>3, <1>6, <2>1, AtIsPage
<1>7. q.what = "app" => q.project = None
  BY DEF SInv, ShellTypes, TableTypes, Wellformed
<1>8. \/ q.what = "app" /\ q.project = None
      \/ q.what = "send" /\ q.project = None
      \/ q.what # "app" /\ q.project # None
  BY <1>1, <1>7, ShellAssumption
<1> QED
  BY <1>4, <1>5, <1>6, <1>8

LEMMA FinishSInv == ASSUME SInv, NEW q \in pending, Finish(q)
    PROVE  SInv'
<1> DEFINE r == Made(q)
<1>1. /\ TableTypes /\ r \in Page /\ r \in Routes
      /\ q.what = "send" /\ q.project = None => r.chat \in Chat
  BY MadeType DEF Finish, SInv, ShellTypes, Routes
<1>2. /\ r.project \in Project /\ r.chat \in Chat \cup {None} /\ q.scope \in Org
      /\ None \notin Chat
  BY <1>1, PageFields, ShellAssumption DEF TableTypes, Wellformed, Creations
<1>3. /\ pending' = pending \ {q} /\ UNCHANGED orgs
      /\ owner' = IF owner[r.project] = None THEN [owner EXCEPT ![r.project] = q.scope] ELSE owner
      /\ rows' = IF r.chat = None THEN rows ELSE [rows EXCEPT ![r.chat] = r.project]
      /\ mains' = IF q.what = "send" /\ q.project = None THEN mains \cup {r.chat} ELSE mains
      /\ target' = IF q.what = "send" /\ q.live THEN None ELSE target
      /\ UNCHANGED screenVars \/ GoTo(r)
  BY DEF Finish
<1> HIDE DEF r
<1>4. TableTypes'
  <2>1. Wellformed(pending')
    BY <1>1, <1>3 DEF TableTypes, Wellformed
  <2>2. /\ owner' \in [Project -> Org \cup {None}] /\ orgs' \subseteq Org
        /\ target' \in Project \cup {None}
    BY <1>1, <1>2, <1>3 DEF TableTypes
  <2>3. rows' \in [Chat -> Project \cup {None}] /\ mains' \subseteq Chat
    BY <1>1, <1>2, <1>3 DEF TableTypes
  <2>4. \A c \in Chat : rows'[c] = rows[c] \/ (c = r.chat /\ rows'[c] = r.project)
    BY <1>1, <1>2, <1>3 DEF TableTypes
  <2>5. q.what = "send" /\ q.project = None => rows'[r.chat] = r.project
    BY <1>1, <1>2, <1>3 DEF TableTypes
  <2>6. \A c \in mains' : rows'[c] \in Project
    BY <1>1, <1>2, <1>3, <2>3, <2>4, <2>5 DEF TableTypes
  <2> QED
    BY <2>1, <2>2, <2>3, <2>6 DEF TableTypes
<1>5. CASE UNCHANGED screenVars
  <2>1. ScreenTypes' /\ SelectionMirrorsRoute' /\ RedirectStaysHome'
    BY <1>5, ShownKept DEF SInv, ShellTypes
  <2> QED
    BY <1>4, <1>5, <2>1 DEF SInv, ShellTypes, screenVars
<1>6. CASE GoTo(r)
  BY <1>1, <1>4, <1>6, GoToSteps DEF SInv, ShellTypes
<1> QED
  BY <1>3, <1>5, <1>6

LEMMA FailSInv == ASSUME SInv, NEW q \in pending, Fail(q)
    PROVE  SInv'
<1>1. TableTypes'
  <2>1. TableTypes /\ UNCHANGED <<rows, mains, orgs, target>>
    BY DEF SInv, ShellTypes, Fail
  <2>2. Wellformed(pending') /\ q.scope \in Org
    BY <2>1 DEF Fail, TableTypes, Wellformed, Creations
  <2>3. owner' \in [Project -> Org \cup {None}]
    BY <2>1, <2>2 DEF Fail, TableTypes
  <2> QED
    BY <2>1, <2>2, <2>3 DEF TableTypes
<1>2. CASE UNCHANGED screenVars
  <2>1. ScreenTypes' /\ SelectionMirrorsRoute' /\ RedirectStaysHome'
    BY <1>2, ShownKept DEF SInv, ShellTypes
  <2> QED
    BY <1>1, <1>2, <2>1 DEF SInv, ShellTypes, screenVars
<1>3. CASE GoTo(Home)
  BY <1>1, <1>3, Landmarks, GoToSteps DEF SInv, ShellTypes
<1> QED
  BY <1>2, <1>3 DEF Fail

LEMMA RedirectSInv == ASSUME SInv, NEW e \in ensuring, Redirect(e)
    PROVE  SInv'
<1> DEFINE found == {c \in mains : rows[c] = e.project}
           chat == IF found # {} THEN CHOOSE x \in found : TRUE ELSE NewId(rows)
           s == [Store EXCEPT !.ensuring = @ \ {e}]
           r == At(e.project, chat, TRUE)
<1>1. ScreenTypes /\ TableTypes /\ back \in Routes /\ past \in Routes \cup {None}
      /\ SelectionMirrorsRoute /\ RedirectStaysHome
  BY DEF SInv, ShellTypes
<1>2. route \in Routes /\ mode \in Modes /\ ensuring \in SUBSET Calls /\ e.project \in Project
  BY <1>1 DEF ScreenTypes, Calls
<1>3. chat \in Chat
  <2>1. CASE found # {}
    BY <1>1, <2>1 DEF TableTypes
  <2>2. CASE found = {}
    <3>1. Unused(rows) # {}
      BY <2>2 DEF Redirect
    <3> QED
      BY <1>1, <2>2, <3>1, NewIdType DEF TableTypes
  <2> QED
    BY <2>1, <2>2
<1>4. /\ rows' = [rows EXCEPT ![chat] = e.project] /\ mains' = mains \cup {chat}
      /\ \/ Stage(r, mode, s) /\ Noted(r) /\ UNCHANGED past
         \/ Stage(route, mode, s) /\ UNCHANGED <<past, back>>
      /\ UNCHANGED <<owner, orgs, target, pending>>
  BY DEF Redirect
<1>5. s \in Stores /\ s.org = org /\ s.strips = strips /\ s.selected = selected
      /\ s.ensuring \subseteq ensuring /\ s.remount = ~Mounted
  <2>1. s = [Store EXCEPT !.ensuring = ensuring \ {e}]
    BY DEF Store
  <2>2. ensuring \ {e} \in SUBSET Calls
    BY <1>2
  <2> QED
    BY <1>1, <2>1, <2>2, StoreTypes DEF Stores
<1>6. r \in Routes
  BY <1>2, <1>3, AtIsPage
<1> HIDE DEF chat, found
<1>7. TableTypes'
  BY <1>1, <1>2, <1>3, <1>4 DEF TableTypes
<1> HIDE DEF r, s
<1>8. \A d \in Chat : Mounted /\ ~rescoped /\ route.chat = d =>
          \E k \in DOMAIN s.strips[s.org] : s.strips[s.org][k].chat = d
  BY <1>1, <1>5, ShellAssumption DEF SelectionMirrorsRoute, Strip
<1>9. \A x \in Routes : x.chat # None => x.chat \in Chat
  BY RouteFields
<1>10. CASE Stage(r, mode, s) /\ Noted(r) /\ UNCHANGED past
  <2>1. ScreenTypes' /\ SelectionMirrorsRoute' /\ RedirectStaysHome'
    BY <1>1, <1>2, <1>5, <1>6, <1>8, <1>9, <1>10, StageSteps
  <2>2. back' \in Routes
    BY <1>1, <1>6, <1>10, NotedType
  <2> QED
    BY <1>1, <1>7, <1>10, <2>1, <2>2 DEF SInv, ShellTypes
<1>11. CASE Stage(route, mode, s) /\ UNCHANGED <<past, back>>
  <2>1. ScreenTypes' /\ SelectionMirrorsRoute' /\ RedirectStaysHome'
    BY <1>1, <1>2, <1>5, <1>8, <1>9, <1>11, StageSteps
  <2> QED
    BY <1>1, <1>7, <1>11, <2>1 DEF SInv, ShellTypes
<1> QED
  BY <1>4, <1>10, <1>11

LEMMA RedirectFailsSInv == ASSUME SInv, NEW e \in ensuring, RedirectFails(e)
    PROVE  SInv'
<1>1. ensuring' \subseteq ensuring /\ refused' \in BOOLEAN
  BY DEF RedirectFails, SInv, ShellTypes, ScreenTypes
<1>2. UNCHANGED <<org, mode, route, past, back, selected, strips, rescoped>>
      /\ UNCHANGED <<owner, rows, mains, orgs, target, pending>>
  BY DEF RedirectFails, tables
<1>3. ScreenTypes'
  BY <1>1, <1>2 DEF SInv, ShellTypes, ScreenTypes
<1>4. SelectionMirrorsRoute'
  BY <1>2 DEF SInv, SelectionMirrorsRoute, Mounted, Strip
<1>5. RedirectStaysHome'
  BY <1>1, <1>2 DEF SInv, RedirectStaysHome, Mounted
<1>6. TableTypes'
  BY <1>2 DEF SInv, ShellTypes, TableTypes
<1> QED
  BY <1>2, <1>3, <1>4, <1>5, <1>6 DEF SInv, ShellTypes

(* Back, settings and the panels.                                          *)
LEMMA PanelSInv ==
    ASSUME SInv, \/ Back \/ OpenSettings
                 \/ \E m \in Panels : LeaveSettings(m) \/ ShowPanel(m)
    PROVE  SInv'
<1>1. ScreenTypes /\ TableTypes /\ back \in Routes /\ past \in Routes \cup {None}
      /\ SelectionMirrorsRoute /\ RedirectStaysHome
  BY DEF SInv, ShellTypes
<1>2. route \in Routes /\ mode \in Modes /\ "settings" \in Modes /\ Panels \subseteq Modes
  BY <1>1 DEF ScreenTypes, Modes, Panels
<1>3. TableTypes'
  <2>1. Wellformed(pending')
    BY <1>1, SilencedCalls DEF TableTypes, Back, OpenSettings, LeaveSettings, ShowPanel,
       UnlessExplorer
  <2>2. UNCHANGED <<owner, rows, mains, orgs, target>>
    BY DEF Back, OpenSettings, LeaveSettings, ShowPanel, tables
  <2> QED
    BY <1>1, <2>1, <2>2 DEF TableTypes
<1>4. /\ \E r \in Routes, m \in Modes : Stage(r, m, Store)
      /\ past' \in Routes \cup {None} /\ back' \in Routes
  <2>1. CASE Back
    BY <1>1, <1>2, <2>1, NotedType DEF Back
  <2>2. CASE OpenSettings
    BY <1>1, <1>2, <2>2, Landmarks DEF OpenSettings
  <2>3. CASE \E m \in Panels : LeaveSettings(m)
    BY <1>1, <1>2, <2>3, NotedType DEF LeaveSettings
  <2>4. CASE \E m \in Panels : ShowPanel(m)
    BY <1>1, <1>2, <2>4 DEF ShowPanel
  <2> QED
    BY <2>1, <2>2, <2>3, <2>4
<1>5. ScreenTypes' /\ SelectionMirrorsRoute' /\ RedirectStaysHome'
  BY <1>1, <1>4, StoreSteps
<1> QED
  BY <1>3, <1>4, <1>5 DEF SInv, ShellTypes

LEMMA ReloadSInv == ASSUME SInv, Reload
    PROVE  SInv'
<1> DEFINE s == [Store EXCEPT !.remount = TRUE, !.selected = Nothing]
           m == IF route.page = "settings" THEN "settings" ELSE "explorer"
<1>1. ScreenTypes /\ TableTypes /\ back \in Routes /\ past \in Routes \cup {None}
      /\ SelectionMirrorsRoute /\ RedirectStaysHome
  BY DEF SInv, ShellTypes
<1>2. route \in Routes /\ m \in Modes
  BY <1>1 DEF ScreenTypes, Modes
<1>3. s \in Stores /\ s.selected = Nothing /\ s.ensuring = ensuring /\ s.remount = TRUE
  <2>1. Nothing \in Selection
    BY DEF Nothing, Selection
  <2> QED
    BY <1>1, <2>1, StoreTypes DEF Stores
<1>4. Stage(route, m, s) /\ Noted(route) /\ UNCHANGED past
  BY DEF Reload
<1>5. ~(Mounted /\ ~rescoped /\ route.chat # None /\ s.selected = selected)
  BY <1>1, <1>3 DEF SelectionMirrorsRoute, Nothing
<1>6. ScreenTypes' /\ SelectionMirrorsRoute' /\ RedirectStaysHome'
  <2> HIDE DEF m, s
  <2> QED
    BY <1>1, <1>2, <1>3, <1>4, <1>5, StageSteps
<1>7. TableTypes'
  BY <1>1, SilencedCalls DEF Reload, TableTypes, tables
<1>8. back' \in Routes
  BY <1>1, <1>2, <1>4, NotedType
<1> QED
  BY <1>1, <1>4, <1>6, <1>7, <1>8 DEF SInv, ShellTypes
-----------------------------------------------------------------------------
LEMMA NextSInv == SInv /\ [ShellNext]_shellVars => SInv'
<1> SUFFICES ASSUME SInv, [ShellNext]_shellVars PROVE SInv'
  OBVIOUS
<1>1. CASE User
  <2>1. CASE \E o \in Org : Switch(o) \/ CreateOrg(o)
    BY <2>1, SwitchSInv, CreateOrgSInv
  <2>2. CASE \/ \E c \in Chat : Open(c) \/ OpenFromHistory(c)
             \/ \E p \in Project : OpenProject(p)
             \/ \E i \in DOMAIN Strip : PressTab(i)
             \/ ManagePeople
    BY <2>2, NavigationSInv
  <2>3. CASE \E i \in DOMAIN Strip : CloseTab(i)
    BY <2>3, CloseTabSInv
  <2>4. CASE \E i, j \in DOMAIN Strip : Reorder(i, j)
    BY <2>4, ReorderSInv
  <2>5. CASE \/ NewApp \/ Send \/ \E p \in Project : NewChatIn(p)
             \/ \E p \in Project \cup {None} : PickTarget(p)
    BY <2>5, AskSInv
  <2>6. CASE NewChat
    BY <2>6, NewChatSInv
  <2>7. CASE Back \/ OpenSettings \/ \E m \in Panels : LeaveSettings(m) \/ ShowPanel(m)
    BY <2>7, PanelSInv
  <2>8. CASE Reload
    BY <2>8, ReloadSInv
  <2> QED
    BY <1>1, <2>1, <2>2, <2>3, <2>4, <2>5, <2>6, <2>7, <2>8 DEF User
<1>2. CASE \E e \in ensuring : Redirect(e) \/ RedirectFails(e)
  BY <1>2, RedirectSInv, RedirectFailsSInv
<1>3. CASE \E q \in pending : Finish(q) \/ Fail(q)
  BY <1>3, FinishSInv, FailSInv
<1>4. CASE UNCHANGED shellVars
  <2>1. UNCHANGED screenVars /\ UNCHANGED tables /\ UNCHANGED <<orgs, target, pending>>
    BY <1>4 DEF shellVars
  <2>2. ScreenTypes' /\ SelectionMirrorsRoute' /\ RedirectStaysHome'
    BY <2>1, ShownKept DEF SInv, ShellTypes
  <2>3. TableTypes'
    BY <2>1 DEF SInv, ShellTypes, TableTypes, tables
  <2> QED
    BY <2>1, <2>2, <2>3 DEF SInv, ShellTypes, screenVars
<1> QED
  BY <1>1, <1>2, <1>3, <1>4 DEF ShellNext, PageAnswer, LateAnswer

(* Wherever the user is taken, by a handler or by an answer, every field   *)
(* of the page has its type, and the two properties below hold together.   *)
THEOREM ShellInvariance == ShellSpec => []SInv
  BY InitSInv, NextSInv, PTL DEF ShellSpec

(* The store's selection mirrors the URL, and the chat on screen has a tab *)
(* in the strip of its organisation (ChatShell's effects on the route).    *)
THEOREM SelectionIsTheRoute == ShellSpec => []SelectionMirrorsRoute
<1>1. SInv => SelectionMirrorsRoute
  BY DEF SInv
<1> QED
  BY <1>1, ShellInvariance, PTL

(* A call for a main chat that can still replace the URL is of the page    *)
(* that is on screen (the effect's cancelled flag).                        *)
THEOREM AnswersStayHome == ShellSpec => []RedirectStaysHome
<1>1. SInv => RedirectStaysHome
  BY DEF SInv
<1> QED
  BY <1>1, ShellInvariance, PTL
-----------------------------------------------------------------------------
(* Projects are shown where they belong: with the page also what Back out  *)
(* of settings and a closed tab lead to.                                   *)
Fits(p, o) == owner[p] = Scope(o) \/ p \in carried
Placed(r) == r.project # None => Fits(r.project, org)
ScopeInv == OwnScope /\ Placed(back) /\ Placed(selected)

(* The same of the state a step leads to.                                  *)
Lands(p, o) == p # None => owner'[p] = Scope(o) \/ p \in carried'

LEMMA LandsIsFits ==
    ASSUME NEW p, NEW o
    PROVE  Lands(p, o) <=> (p # None => Fits(p, o)')
  BY DEF Lands, Fits, Scope

(* No step takes a project out of its organisation.                        *)
LEMMA FitsStays ==
    ASSUME SInv, [ShellNext]_shellVars, NEW p \in Project, NEW o \in Org \cup {None}, Fits(p, o)
    PROVE  Lands(p, o)
<1>1. owner \in [Project -> Org \cup {None}] /\ Scope(o) # None
  BY ResolvedType, ShellAssumption DEF SInv, ShellTypes, TableTypes
<1>2. owner[p] # None => owner'[p] = owner[p]
  <2>1. CASE UNCHANGED owner
    BY <2>1
  <2>2. CASE \E q \in pending : Finish(q)
    <3>1. PICK q \in pending : Finish(q)
      BY <2>2
    <3>2. owner' = IF owner[Made(q).project] = None
                   THEN [owner EXCEPT ![Made(q).project] = q.scope] ELSE owner
      BY <3>1 DEF Finish
    <3> QED
      BY <1>1, <3>2
  <2>3. CASE \E q \in pending : Fail(q)
    <3>1. PICK q \in pending : Fail(q)
      BY <2>3
    <3>2. \/ UNCHANGED owner
          \/ Unused(owner) # {} /\ owner' = [owner EXCEPT ![NewId(owner)] = q.scope]
      BY <3>1 DEF Fail
    <3>3. Unused(owner) # {} => owner[NewId(owner)] = None
      BY DEF Unused, NewId
    <3> QED
      BY <1>1, <3>2, <3>3
  <2>4. \/ UNCHANGED owner \/ \E q \in pending : Finish(q) \/ Fail(q)
    BY DEF ShellNext, User, PageAnswer, LateAnswer, shellVars, tables, Switch, CreateOrg, Open,
       OpenFromHistory, OpenProject, NewChatIn, PickTarget, PressTab, CloseTab, LeaveSettings,
       ShowPanel, Reorder, NewChat, NewApp, Send, Back, OpenSettings, ManagePeople, Reload,
       Redirect, RedirectFails
  <2> QED
    BY <2>1, <2>2, <2>3, <2>4
<1>3. carried \subseteq carried'
  BY DEF ShellNext, User, PageAnswer, LateAnswer, shellVars, Switch, CreateOrg, Open,
     OpenFromHistory, OpenProject, NewChatIn, PickTarget, PressTab, CloseTab, LeaveSettings,
     ShowPanel, Reorder, NewChat, NewApp, Send, Back, OpenSettings, ManagePeople, Reload,
     Redirect, RedirectFails, Finish, Fail, Carries
<1> QED
  BY <1>1, <1>2, <1>3 DEF Fits, Lands

(* The tabs of a strip without one, or in another order, are its tabs.     *)
LEMMA PlaceAfter ==
    ASSUME NEW n \in Nat, NEW i \in 1..n, NEW k \in 1..((i - 1) + (n - i)), ~(k <= i - 1)
    PROVE  /\ k - (i - 1) \in 1..(n - i) /\ k + 1 \in 1..n
           /\ i + (k - (i - 1)) = k + 1
  OBVIOUS

LEMMA TabsLeft ==
    ASSUME NEW S, NEW q \in Seq(S), NEW i \in DOMAIN q, NEW k \in DOMAIN RemoveAt(q, i)
    PROVE  \E j \in DOMAIN q : RemoveAt(q, i)[k] = q[j]
<1> DEFINE a == SubSeq(q, 1, i - 1)
           b == SubSeq(q, i + 1, Len(q))
<1>1. i \in 1..Len(q) /\ Len(q) \in Nat
  OBVIOUS
<1>2. a \in Seq(S) /\ Len(a) = i - 1 /\ \A j \in 1..(i - 1) : a[j] = q[j]
  BY <1>1
<1>3. /\ b \in Seq(S) /\ Len(b) = Len(q) - i
      /\ \A j \in 1..(Len(q) - i) : b[j] = q[i + j]
  BY <1>1
<1>4. RemoveAt(q, i) = a \o b
  BY DEF RemoveAt
<1> HIDE DEF a, b
<1>5. k \in 1..(Len(a) + Len(b)) /\ (a \o b)[k] = IF k <= Len(a) THEN a[k] ELSE b[k - Len(a)]
  <2>1. /\ Len(a) \in Nat /\ Len(b) \in Nat /\ a \o b \in Seq(S)
        /\ Len(a \o b) = Len(a) + Len(b)
        /\ \A j \in 1..(Len(a) + Len(b)) :
              (a \o b)[j] = IF j <= Len(a) THEN a[j] ELSE b[j - Len(a)]
    BY <1>2, <1>3, Joined
  <2>2. k \in 1..Len(a \o b)
    BY <1>4, <2>1
  <2> QED
    BY <2>1, <2>2
<1>6. CASE k <= i - 1
  <2>1. k <= Len(a) /\ k \in 1..(i - 1) /\ k \in 1..Len(q)
    BY <1>1, <1>2, <1>3, <1>5, <1>6
  <2>2. RemoveAt(q, i)[k] = a[k] /\ a[k] = q[k]
    BY <1>2, <1>4, <1>5, <2>1
  <2> QED
    BY <2>1, <2>2
<1>7. CASE ~(k <= i - 1)
  <2> DEFINE l == k - Len(a)
  <2>1. Len(a) = i - 1 /\ k \in 1..((i - 1) + (Len(q) - i))
    <3>1. Len(a) = i - 1 /\ Len(b) = Len(q) - i
      BY <1>2, <1>3
    <3> QED
      BY <1>5, <3>1
  <2>2. l = k - (i - 1)
    BY <2>1
  <2>3. l \in 1..(Len(q) - i) /\ i + l = k + 1 /\ k + 1 \in 1..Len(q)
    <3> HIDE DEF l
    <3> QED
      BY <1>1, <1>7, <2>1, <2>2, PlaceAfter
  <2>4. b[l] = q[k + 1]
    <3> HIDE DEF l
    <3> QED
      BY <1>3, <2>3
  <2>5. RemoveAt(q, i)[k] = b[l]
    BY <1>4, <1>5, <1>7, <2>1
  <2> QED
    BY <2>3, <2>4, <2>5
<1> QED
  BY <1>6, <1>7

LEMMA TabsMoved ==
    ASSUME NEW S, NEW q \in Seq(S), NEW i \in 1..(Len(q) + 1), NEW x \in S,
           NEW k \in DOMAIN InsertAt(q, i, x)
    PROVE  InsertAt(q, i, x)[k] = x \/ \E j \in DOMAIN q : InsertAt(q, i, x)[k] = q[j]
<1> DEFINE a == SubSeq(q, 1, i - 1)
           b == SubSeq(q, i, Len(q))
<1>1. i \in Nat /\ Len(q) \in Nat /\ i \in 1..(Len(q) + 1)
  OBVIOUS
<1>2. a \in Seq(S) /\ Len(a) = i - 1 /\ \A j \in 1..(i - 1) : a[j] = q[j]
  BY <1>1
<1>3. /\ b \in Seq(S) /\ Len(b) = Len(q) - i + 1
      /\ \A j \in 1..(Len(q) - i + 1) : b[j] = q[i + j - 1]
  BY <1>1
<1>4. InsertAt(q, i, x) = (a \o <<x>>) \o b
  BY DEF InsertAt
<1> HIDE DEF a, b
<1> DEFINE u == a \o <<x>>
<1>5. /\ u \in Seq(S) /\ Len(u) = i
      /\ \A j \in 1..i : u[j] = IF j <= i - 1 THEN a[j] ELSE x
  BY <1>1, <1>2
<1> HIDE DEF u
<1>6. k \in 1..(Len(u) + Len(b)) /\ (u \o b)[k] = IF k <= Len(u) THEN u[k] ELSE b[k - Len(u)]
  BY <1>3, <1>4, <1>5, Joined DEF u
<1>7. InsertAt(q, i, x)[k] = IF k <= i THEN u[k] ELSE b[k - i]
  BY <1>4, <1>5, <1>6 DEF u
<1>8. CASE k <= i
  <2>1. u[k] = x \/ (k <= i - 1 /\ u[k] = q[k])
    BY <1>1, <1>2, <1>5, <1>6, <1>8
  <2>2. k <= i - 1 => k \in 1..Len(q)
    BY <1>1, <1>6
  <2> QED
    BY <1>7, <1>8, <2>1, <2>2
<1>9. CASE ~(k <= i)
  <2> DEFINE l == k - i
  <2>1. k \in Nat /\ k <= i + (Len(q) - i + 1) /\ k > i
    BY <1>1, <1>3, <1>5, <1>6, <1>9
  <2>2. l \in 1..(Len(q) - i + 1) /\ i + l - 1 = k - 1 /\ k - 1 \in 1..Len(q)
    BY <1>1, <2>1
  <2>3. b[l] = q[k - 1]
    <3> HIDE DEF l
    <3> QED
      BY <1>3, <2>2
  <2>4. InsertAt(q, i, x)[k] = b[l]
    BY <1>7, <1>9
  <2> QED
    BY <2>2, <2>3, <2>4
<1> QED
  BY <1>8, <1>9

(* What Stage makes of a store with the tabs there were.                   *)
LEMMA StageScope ==
    ASSUME SInv, ScopeInv, [ShellNext]_shellVars,
           NEW r \in Routes, NEW m \in Modes, NEW s \in Stores, Stage(r, m, s),
           \A o \in Org \cup {None} : \A k \in DOMAIN s.strips[o] :
               \E j \in DOMAIN strips[o] : s.strips[o][k] = strips[o][j],
           Lands(r.project, s.org), Lands(s.selected.project, s.org)
    PROVE  OwnScope' /\ Placed(selected)'
<1>1. /\ strips \in Strips /\ s.strips \in Strips /\ s.org \in Org \cup {None}
      /\ None \notin Project
  BY ShellAssumption DEF SInv, ShellTypes, ScreenTypes, Stores
<1>2. ASSUME NEW o \in Org \cup {None}, NEW k \in DOMAIN s.strips[o]
      PROVE  Lands(s.strips[o][k].project, o)
  <2>1. PICK j \in DOMAIN strips[o] : s.strips[o][k] = strips[o][j]
    OBVIOUS
  <2>2. o \in DOMAIN strips /\ strips[o] \in Seq(Page)
    BY <1>1 DEF Strips
  <2>3. strips[o][j] \in Page
    BY <2>1, <2>2
  <2>4. strips[o][j].project \in Project /\ Fits(strips[o][j].project, o)
    BY <2>2, <2>3, PageFields DEF ScopeInv, OwnScope, Fits
  <2> QED
    BY <2>1, <2>4, FitsStays
<1>3. ASSUME NEW o \in Org \cup {None}, NEW k \in DOMAIN Registered(s, r)[o]
      PROVE  Lands(Registered(s, r)[o][k].project, o)
  <2>1. CASE Registered(s, r)[o] = s.strips[o]
    BY <1>2, <1>3, <2>1
  <2>2. CASE Registered(s, r)[o] # s.strips[o]
    <3> DEFINE q == s.strips[o]
    <3>1. o = s.org /\ Registered(s, r)[o] = Append(q, r)
      BY <1>1, <2>2 DEF Registered, Strips
    <3>2. q \in Seq(Page)
      BY <1>1 DEF Strips
    <3>3. (k \in DOMAIN q /\ Append(q, r)[k] = q[k]) \/ Append(q, r)[k] = r
      <4>1. k \in DOMAIN Append(q, r)
        BY <1>3, <3>1
      <4> HIDE DEF q
      <4> QED
        BY <3>2, <4>1
    <3> QED
      BY <1>2, <3>1, <3>3
  <2> QED
    BY <2>1, <2>2
<1>4. strips' \in Strips /\ strips' \in {s.strips, Registered(s, r)}
  BY <1>1, RegisteredTypes DEF Stage
<1>5. ASSUME NEW o \in DOMAIN strips', NEW k \in DOMAIN strips'[o]
      PROVE  owner'[strips'[o][k].project] = Scope(o) \/ strips'[o][k].project \in carried'
  <2>1. o \in Org \cup {None} /\ strips'[o] \in Seq(Page)
    BY <1>4, <1>5 DEF Strips
  <2>2. strips'[o][k] \in Page
    BY <1>5, <2>1
  <2>3. strips'[o][k].project # None
    BY <1>1, <2>2, PageFields
  <2>4. Lands(strips'[o][k].project, o)
    BY <1>2, <1>3, <1>4, <1>5, <2>1
  <2> QED
    BY <2>3, <2>4 DEF Lands
<1>6. route' = r /\ org' = s.org
  BY DEF Stage
<1>7. OwnScope'
  <2>1. route'.project # None => owner'[route'.project] = Scope(org') \/ route'.project \in carried'
    BY <1>6 DEF Lands
  <2> QED
    BY <1>5, <2>1 DEF OwnScope, Scope
<1>8. Lands(selected'.project, org')
  <2>1. selected' = [project |-> r.project, chat |-> r.chat] \/ selected' = s.selected
    BY DEF Stage
  <2> QED
    BY <1>6, <2>1
<1> QED
  BY <1>7, <1>8 DEF Placed, Lands, Fits, Scope

(* What the screen shows and leads back to still fits.                     *)
LEMMA HereScope ==
    ASSUME SInv, ScopeInv, [ShellNext]_shellVars
    PROVE  Lands(back.project, org) /\ Lands(route.project, org) /\ Lands(selected.project, org)
<1>1. /\ org \in Org \cup {None} /\ back \in Routes /\ route \in Routes
      /\ selected.project \in Project \cup {None}
  BY DEF SInv, ShellTypes, ScreenTypes, Selection
<1>2. /\ back.project # None => Fits(back.project, org)
      /\ route.project # None => Fits(route.project, org)
      /\ selected.project # None => Fits(selected.project, org)
  BY DEF ScopeInv, Placed, OwnScope, Fits
<1>3. back.project \in Project \cup {None} /\ route.project \in Project \cup {None}
  BY <1>1, RouteFields
<1> QED
  BY <1>1, <1>2, <1>3, FitsStays DEF Lands

(* A move within the organisation owes where it leads.                     *)
LEMMA MoveScope ==
    ASSUME SInv, ScopeInv, [ShellNext]_shellVars,
           NEW r \in Routes, NEW m \in Modes, NEW s \in Stores, Stage(r, m, s),
           \A o \in Org \cup {None} : \A k \in DOMAIN s.strips[o] :
               \E j \in DOMAIN strips[o] : s.strips[o][k] = strips[o][j],
           s.org = org, s.selected.project \in {selected.project, None},
           Lands(r.project, org), back' \in {back, route, r}
    PROVE  ScopeInv'
<1>1. Lands(back.project, org) /\ Lands(route.project, org) /\ Lands(selected.project, org)
  BY HereScope
<1>2. Lands(s.selected.project, s.org)
  BY <1>1 DEF Lands
<1>3. OwnScope' /\ Placed(selected)'
  BY <1>2, StageScope
<1>4. org' = org
  BY DEF Stage
<1>5. Placed(back)'
  BY <1>1, <1>4 DEF Placed, Lands, Fits, Scope
<1> QED
  BY <1>3, <1>5 DEF ScopeInv

(* The same when the store is as it was.                                   *)
LEMMA PlainScope ==
    ASSUME SInv, ScopeInv, [ShellNext]_shellVars,
           NEW r \in Routes, NEW m \in Modes, Stage(r, m, Store),
           Lands(r.project, org), back' \in {back, route, r}
    PROVE  ScopeInv'
<1>1. /\ Store \in Stores /\ Store.org = org /\ Store.strips = strips
      /\ Store.selected = selected
  BY StoreTypes DEF SInv, ShellTypes
<1> QED
  BY <1>1, MoveScope

LEMMA InitScope == ShellInit => ScopeInv
<1> SUFFICES ASSUME ShellInit PROVE ScopeInv
  OBVIOUS
<1>1. strips = [o \in Org \cup {None} |-> <<>>] /\ route = Home /\ back = Home
      /\ selected = Nothing
  BY DEF ShellInit
<1>2. \A o \in DOMAIN strips : DOMAIN strips[o] = {}
  BY <1>1
<1> QED
  BY <1>1, <1>2 DEF ScopeInv, OwnScope, Placed, Home, Nothing

(* The organisation changes: home, or the page is taken along.             *)
LEMMA SwitchScope ==
    ASSUME SInv, ScopeInv, [ShellNext]_shellVars, NEW o \in Org, Switch(o) \/ CreateOrg(o)
    PROVE  ScopeInv'
<1> DEFINE s == [Store EXCEPT !.org = o, !.selected = Nothing]
<1>1. /\ ScreenTypes /\ route \in Routes /\ back \in Routes /\ mode \in Modes
  BY DEF SInv, ShellTypes, ScreenTypes
<1>2. s \in Stores /\ s.org = o /\ s.selected = Nothing /\ s.strips = strips
  <2>1. Nothing \in Selection
    BY DEF Nothing, Selection
  <2> QED
    BY <1>1, <2>1, StoreTypes DEF Stores
<1>3. Lands(s.selected.project, o) /\ Lands(Home.project, o) /\ Home.page # "settings"
  BY <1>2 DEF Lands, Nothing, Home
<1>4. Nothing.project = None
  BY DEF Nothing
<1> HIDE DEF s
<1>5. CASE Switch(o) /\ Leaves(o)
  <2>1. Stage(Home, mode, s) /\ Noted(Home)
    BY <1>5 DEF Switch, s
  <2>2. OwnScope' /\ Placed(selected)'
    BY <1>1, <1>2, <1>3, <2>1, Landmarks, StageScope
  <2>3. Placed(back)'
    BY <1>3, <2>1 DEF Noted, Placed, Home
  <2> QED
    BY <2>2, <2>3 DEF ScopeInv
<1>6. CASE Switch(o) /\ ~Leaves(o)
  <2>1. Stage(route, mode, s) /\ Noted(route) /\ o = org
    BY <1>6 DEF Switch, s, Leaves
  <2>2. back' \in {back, route} /\ Lands(route.project, org)
    BY <2>1, HereScope DEF Noted
  <2> QED
    BY <1>1, <1>2, <1>4, <2>1, <2>2, MoveScope
<1>7. CASE CreateOrg(o)
  <2>1. /\ Stage(route, mode, s) /\ back' = back
        /\ carried' = carried \cup ({route.project, back.project} \ {None})
    BY <1>7 DEF CreateOrg, s
  <2>2. Lands(route.project, o) /\ Lands(back.project, o)
    BY <2>1 DEF Lands
  <2>3. OwnScope' /\ Placed(selected)'
    BY <1>1, <1>2, <1>3, <2>1, <2>2, StageScope
  <2>4. Placed(back)'
    BY <2>1, <2>2 DEF Placed, Lands, Fits, Scope, Stage
  <2> QED
    BY <2>3, <2>4 DEF ScopeInv
<1> QED
  BY <1>5, <1>6, <1>7

(* GoTo moves within the organisation.                                     *)
LEMMA GoToScope ==
    ASSUME SInv, ScopeInv, [ShellNext]_shellVars, NEW r \in Routes, GoTo(r),
           Lands(r.project, org)
    PROVE  ScopeInv'
<1>1. mode \in Modes /\ Stage(r, mode, Store) /\ back' \in {back, r}
  BY DEF SInv, ShellTypes, ScreenTypes, GoTo, Noted
<1> QED
  BY <1>1, PlainScope

(* A project that is the organisation's own, or is carried over.           *)
LEMMA CarriedLands ==
    ASSUME SInv, [ShellNext]_shellVars, NEW r \in Routes,
           r.project \in Own \cup {None} \/ Carries(r)
    PROVE  Lands(r.project, org)
<1>1. org \in Org \cup {None} /\ r.project \in Project \cup {None}
  BY RouteFields DEF SInv, ShellTypes, ScreenTypes
<1>2. CASE r.project \in Own
  BY <1>1, <1>2, FitsStays DEF Own, Fits
<1>3. CASE r.project \in Project \ Own /\ Carries(r)
  BY <1>3 DEF Carries, Lands
<1>4. CASE r.project = None
  BY <1>4 DEF Lands
<1> QED
  BY <1>1, <1>2, <1>3, <1>4

LEMMA NavigationScope ==
    ASSUME SInv, ScopeInv, [ShellNext]_shellVars,
           \/ \E c \in Chat : Open(c) \/ OpenFromHistory(c)
           \/ \E p \in Project : OpenProject(p)
           \/ \E i \in DOMAIN Strip : PressTab(i)
           \/ ManagePeople
    PROVE  ScopeInv'
<1>1. CASE \E c \in Chat : Open(c) \/ OpenFromHistory(c)
  <2>1. PICK c \in Chat : Open(c) \/ OpenFromHistory(c)
    BY <1>1
  <2>2. rows[c] \in Project
    BY <2>1, ShellAssumption DEF Open, OpenFromHistory, Own, SInv, ShellTypes, TableTypes,
       ScreenTypes, Selection
  <2>3. \A w \in BOOLEAN : At(rows[c], c, w) \in Routes /\ At(rows[c], c, w).project = rows[c]
    BY <2>2, AtIsPage DEF At
  <2>4. CASE Open(c)
    <3>1. rows[c] \in Own \/ rows[c] = selected.project
      BY <2>4 DEF Open
    <3>2. Lands(rows[c], org)
      BY <2>3, <3>1, CarriedLands, HereScope
    <3> QED
      BY <2>3, <2>4, <3>2, GoToScope DEF Open
  <2>5. CASE OpenFromHistory(c)
    BY <2>3, <2>5, CarriedLands, GoToScope DEF OpenFromHistory
  <2> QED
    BY <2>1, <2>4, <2>5
<1>2. CASE \E p \in Project : OpenProject(p)
  <2>1. PICK p \in Project : OpenProject(p)
    BY <1>2
  <2>2. At(p, None, TRUE) \in Routes /\ At(p, None, TRUE).project = p /\ p \in Own
    BY <2>1, AtIsPage DEF OpenProject, At
  <2> QED
    BY <2>1, <2>2, CarriedLands, GoToScope DEF OpenProject
<1>3. CASE \E i \in DOMAIN Strip : PressTab(i)
  <2>1. PICK i \in DOMAIN Strip : PressTab(i)
    BY <1>3
  <2>2. Strip \in Seq(Page) /\ org \in Org \cup {None} /\ org \in DOMAIN strips
    BY DEF SInv, ShellTypes, ScreenTypes, Strip, Strips
  <2>3. Strip[i] \in Page
    BY <2>1, <2>2
  <2>4. Strip[i].project \in Project /\ Fits(Strip[i].project, org)
    BY <2>1, <2>2, <2>3, PageFields DEF ScopeInv, OwnScope, Fits, Strip
  <2> QED
    BY <2>1, <2>2, <2>3, <2>4, FitsStays, GoToScope DEF PressTab, Routes
<1>4. CASE ManagePeople
  <2>1. Lands(SettingsPage.project, org)
    BY DEF Lands, SettingsPage
  <2> QED
    BY <1>4, <2>1, Landmarks, GoToScope DEF ManagePeople
<1> QED
  BY <1>1, <1>2, <1>3, <1>4

LEMMA CloseTabScope ==
    ASSUME SInv, ScopeInv, [ShellNext]_shellVars, NEW i \in DOMAIN Strip, CloseTab(i)
    PROVE  ScopeInv'
<1> DEFINE rest == RemoveAt(Strip, i)
           s == [Store EXCEPT !.strips[org] = rest]
           next == CASE i <= Len(rest) -> rest[i]
                     [] i > Len(rest) /\ rest # <<>> -> Last(rest)
                     [] rest = <<>> /\ selected.project # None -> At(selected.project, None, FALSE)
                     [] OTHER -> Home
<1>1. /\ ScreenTypes /\ route \in Routes /\ mode \in Modes /\ org \in Org \cup {None}
      /\ strips \in Strips /\ selected \in Selection
  BY DEF SInv, ShellTypes, ScreenTypes
<1>2. Strip \in Seq(Page) /\ i \in 1..Len(Strip) /\ org \in DOMAIN strips
  BY <1>1 DEF Strip, Strips
<1>3. rest \in Seq(Page) /\ \A k \in DOMAIN rest : \E j \in DOMAIN Strip : rest[k] = Strip[j]
  BY <1>2, TabRemoved, TabsLeft
<1>4. /\ s \in Stores /\ s.org = org /\ s.selected = selected
      /\ s.strips = [strips EXCEPT ![org] = rest]
  <2>1. [strips EXCEPT ![org] = rest] \in Strips
    BY <1>1, <1>3 DEF Strips
  <2> HIDE DEF rest
  <2>2. s = [Store EXCEPT !.strips = [strips EXCEPT ![org] = rest]]
    BY <1>1, StoreTypes DEF Store
  <2> QED
    BY <1>1, <2>1, <2>2, StoreTypes DEF Stores
<1> HIDE DEF s
<1>5. \A o \in Org \cup {None} : \A k \in DOMAIN s.strips[o] :
          \E j \in DOMAIN strips[o] : s.strips[o][k] = strips[o][j]
  <2> HIDE DEF rest
  <2>1. s.strips[org] = rest /\ \A o \in (Org \cup {None}) \ {org} : s.strips[o] = strips[o]
    BY <1>1, <1>4 DEF Strips
  <2> QED
    BY <1>3, <2>1 DEF Strip
<1>6. CASE Strip[i].chat = selected.chat
  <2>1. Stage(next, mode, s) /\ back' \in {back, next}
    BY <1>6 DEF CloseTab, Noted, s
  <2> HIDE DEF rest
  <2>2. /\ i \in Nat /\ i >= 1 /\ Len(rest) \in Nat /\ DOMAIN rest = 1..Len(rest)
        /\ rest = <<>> <=> Len(rest) = 0
    BY <1>2, <1>3
  <2>3. \/ \E k \in DOMAIN rest : next = rest[k]
        \/ selected.project # None /\ next = At(selected.project, None, FALSE)
        \/ next = Home
    <3>1. CASE i <= Len(rest)
      <4>1. i \in DOMAIN rest
        BY <2>2, <3>1
      <4>2. ~(i > Len(rest)) /\ rest # <<>>
        BY <2>2, <3>1
      <4> QED
        BY <3>1, <4>1, <4>2
    <3>2. CASE ~(i <= Len(rest)) /\ rest # <<>>
      <4>1. i > Len(rest) /\ Len(rest) \in DOMAIN rest
        BY <2>2, <3>2
      <4>2. next = rest[Len(rest)]
        BY <3>2, <4>1 DEF Last
      <4> QED
        BY <4>1, <4>2
    <3>3. CASE rest = <<>>
      <4>1. i > Len(rest) /\ ~(i <= Len(rest))
        BY <2>2, <3>3
      <4> QED
        BY <3>3, <4>1
    <3> QED
      BY <3>1, <3>2, <3>3
  <2> HIDE DEF next
  <2>4. next \in Routes /\ Lands(next.project, org)
    <3>1. CASE \E k \in DOMAIN rest : next = rest[k]
      <4>1. PICK j \in DOMAIN Strip : next = Strip[j]
        BY <1>3, <3>1
      <4>2. Strip[j] \in Page
        BY <1>2
      <4>3. Strip[j].project \in Project /\ Fits(Strip[j].project, org)
        BY <1>2, <4>2, PageFields DEF ScopeInv, OwnScope, Fits, Strip
      <4> QED
        BY <1>1, <4>1, <4>2, <4>3, FitsStays DEF Routes
    <3>2. CASE selected.project # None /\ next = At(selected.project, None, FALSE)
      <4>1. selected.project \in Project
        BY <1>1, <3>2 DEF Selection
      <4>2. next \in Routes /\ next.project = selected.project
        BY <3>2, <4>1, AtIsPage DEF At
      <4> QED
        BY <4>2, HereScope
    <3>3. CASE next = Home
      BY <3>3, Landmarks DEF Home, Lands
    <3> QED
      BY <2>3, <3>1, <3>2, <3>3
  <2> QED
    BY <1>1, <1>4, <1>5, <2>1, <2>4, MoveScope
<1>7. CASE Strip[i].chat # selected.chat
  <2>1. Stage(route, mode, s) /\ back' = back
    BY <1>7 DEF CloseTab, s
  <2>2. Lands(route.project, org)
    BY HereScope
  <2> QED
    BY <1>1, <1>4, <1>5, <2>1, <2>2, MoveScope
<1> QED
  BY <1>6, <1>7

(* The organisation and what it shows stay, and no tab is new.             *)
LEMMA SameScope ==
    ASSUME SInv, ScopeInv, [ShellNext]_shellVars, UNCHANGED <<org, route, back, selected>>,
           strips' \in Strips,
           \A o \in Org \cup {None} : \A k \in DOMAIN strips'[o] :
               \E j \in DOMAIN strips[o] : strips'[o][k] = strips[o][j]
    PROVE  ScopeInv'
<1>1. /\ Lands(back.project, org) /\ Lands(route.project, org)
      /\ Lands(selected.project, org) /\ strips \in Strips
  BY HereScope DEF SInv, ShellTypes, ScreenTypes
<1>2. ASSUME NEW o \in DOMAIN strips', NEW k \in DOMAIN strips'[o]
      PROVE  owner'[strips'[o][k].project] = Scope(o) \/ strips'[o][k].project \in carried'
  <2>1. o \in Org \cup {None} /\ o \in DOMAIN strips /\ strips[o] \in Seq(Page)
    BY <1>1, <1>2 DEF Strips
  <2>2. PICK j \in DOMAIN strips[o] : strips'[o][k] = strips[o][j]
    BY <1>2, <2>1
  <2>3. strips[o][j] \in Page
    BY <2>1
  <2>4. strips[o][j].project \in Project /\ Fits(strips[o][j].project, o)
    BY <2>1, <2>3, PageFields DEF ScopeInv, OwnScope, Fits
  <2>5. strips[o][j].project # None
    BY <2>4, ShellAssumption
  <2> QED
    BY <2>1, <2>2, <2>4, <2>5, FitsStays DEF Lands
<1> QED
  BY <1>1, <1>2 DEF ScopeInv, OwnScope, Placed, Lands, Fits, Scope

LEMMA StillScope ==
    ASSUME SInv, ScopeInv, [ShellNext]_shellVars, UNCHANGED <<org, route, back, selected, strips>>
    PROVE  ScopeInv'
  BY SameScope DEF SInv, ShellTypes, ScreenTypes

LEMMA ReorderScope ==
    ASSUME SInv, ScopeInv, [ShellNext]_shellVars,
           NEW i \in DOMAIN Strip, NEW j \in DOMAIN Strip, Reorder(i, j)
    PROVE  ScopeInv'
<1> DEFINE rest == RemoveAt(Strip, i)
           x == Strip[i]
           q == InsertAt(rest, j, x)
<1>1. org \in Org \cup {None} /\ strips \in Strips
  BY DEF SInv, ShellTypes, ScreenTypes
<1>2. Strip \in Seq(Page) /\ i \in 1..Len(Strip) /\ j \in 1..Len(Strip) /\ x \in Page
  BY <1>1 DEF Strip, Strips
<1>3. /\ rest \in Seq(Page) /\ Len(rest) = Len(Strip) - 1
      /\ \A k \in DOMAIN rest : \E l \in DOMAIN Strip : rest[k] = Strip[l]
  BY <1>2, TabRemoved, TabsLeft
<1> HIDE DEF rest, x
<1>4. j \in 1..(Len(rest) + 1)
  BY <1>2, <1>3
<1>5. /\ q \in Seq(Page)
      /\ \A k \in DOMAIN q : q[k] = x \/ \E l \in DOMAIN rest : q[k] = rest[l]
  <2>1. q \in Seq(Page)
    BY <1>2, <1>3, <1>4, PageInserted
  <2>2. ASSUME NEW k \in DOMAIN InsertAt(rest, j, x)
        PROVE  \/ InsertAt(rest, j, x)[k] = x
               \/ \E l \in DOMAIN rest : InsertAt(rest, j, x)[k] = rest[l]
    <3>1. rest \in Seq(Page) /\ j \in 1..(Len(rest) + 1) /\ x \in Page
      BY <1>2, <1>3, <1>4
    <3> QED
      BY <3>1, TabsMoved
  <2> QED
    BY <2>1, <2>2
<1> HIDE DEF q
<1>6. strips' = [strips EXCEPT ![org] = q]
  BY DEF Reorder, q, x, rest, Strip
<1>7. /\ strips' \in Strips /\ strips'[org] = q
      /\ \A o \in (Org \cup {None}) \ {org} : strips'[o] = strips[o]
  BY <1>1, <1>5, <1>6 DEF Strips
<1>8. \A k \in DOMAIN q : \E l \in DOMAIN Strip : q[k] = Strip[l]
  BY <1>3, <1>5 DEF x
<1>9. \A o \in Org \cup {None} : \A k \in DOMAIN strips'[o] :
          \E l \in DOMAIN strips[o] : strips'[o][k] = strips[o][l]
  BY <1>7, <1>8 DEF Strip
<1>10. UNCHANGED <<org, route, back, selected>>
  BY DEF Reorder
<1> QED
  BY <1>7, <1>9, <1>10, SameScope

(* An answer leads to the project it is of, and takes it along if need be. *)
LEMMA FinishScope ==
    ASSUME SInv, ScopeInv, [ShellNext]_shellVars, NEW q \in pending, Finish(q)
    PROVE  ScopeInv'
<1> DEFINE r == Made(q)
<1>1. r \in Page /\ r \in Routes
  BY MadeType DEF Finish, Routes
<1>2. \/ UNCHANGED screenVars
      \/ /\ GoTo(r)
         /\ carried' = IF owner'[r.project] # Scope(org)
                       THEN carried \cup {r.project} ELSE carried
  BY DEF Finish
<1> HIDE DEF r
<1>3. CASE UNCHANGED screenVars
  BY <1>3, StillScope DEF screenVars
<1>4. CASE /\ GoTo(r)
           /\ carried' = IF owner'[r.project] # Scope(org)
                         THEN carried \cup {r.project} ELSE carried
  <2>1. Lands(r.project, org)
    BY <1>4 DEF Lands
  <2> QED
    BY <1>1, <1>4, <2>1, GoToScope
<1> QED
  BY <1>2, <1>3, <1>4

LEMMA HomeScope ==
    ASSUME SInv, ScopeInv, [ShellNext]_shellVars, GoTo(Home)
    PROVE  ScopeInv'
<1>1. Lands(Home.project, org)
  BY DEF Home, Lands
<1> QED
  BY <1>1, Landmarks, GoToScope

(* What is only asked for, what fails, and the answer that comes too late. *)
LEMMA AskScope ==
    ASSUME SInv, ScopeInv, [ShellNext]_shellVars,
           \/ NewApp \/ Send \/ NewChat
           \/ \E p \in Project : NewChatIn(p)
           \/ \E p \in Project \cup {None} : PickTarget(p)
           \/ \E q \in pending : Fail(q)
           \/ \E e \in ensuring : RedirectFails(e)
           \/ UNCHANGED shellVars
    PROVE  ScopeInv'
<1>1. UNCHANGED <<org, route, back, selected, strips>> \/ GoTo(Home)
  BY DEF NewApp, Send, NewChat, NewChatIn, PickTarget, Fail, RedirectFails, Begin, screenVars,
     shellVars
<1> QED
  BY <1>1, StillScope, HomeScope

(* A call that still moves the user is of the project that is open.        *)
LEMMA RedirectScope ==
    ASSUME SInv, ScopeInv, [ShellNext]_shellVars, NEW e \in ensuring, Redirect(e)
    PROVE  ScopeInv'
<1> DEFINE found == {c \in mains : rows[c] = e.project}
           chat == IF found # {} THEN CHOOSE x \in found : TRUE ELSE NewId(rows)
           s == [Store EXCEPT !.ensuring = @ \ {e}]
           r == At(e.project, chat, TRUE)
<1>1. /\ ScreenTypes /\ TableTypes /\ RedirectStaysHome /\ route \in Routes /\ mode \in Modes
      /\ ensuring \in SUBSET Calls /\ e.project \in Project
  BY DEF SInv, ShellTypes, ScreenTypes, Calls
<1>2. chat \in Chat
  <2>1. CASE found # {}
    BY <1>1, <2>1 DEF TableTypes
  <2>2. CASE found = {}
    <3>1. Unused(rows) # {}
      BY <2>2 DEF Redirect
    <3> QED
      BY <1>1, <2>2, <3>1, NewIdType DEF TableTypes
  <2> QED
    BY <2>1, <2>2
<1>3. \/ e.live /\ Stage(r, mode, s) /\ Noted(r)
      \/ Stage(route, mode, s) /\ back' = back
  BY DEF Redirect
<1>4. s \in Stores /\ s.org = org /\ s.strips = strips /\ s.selected = selected
  <2>1. s = [Store EXCEPT !.ensuring = ensuring \ {e}]
    BY DEF Store
  <2>2. ensuring \ {e} \in SUBSET Calls
    BY <1>1
  <2> QED
    BY <1>1, <2>1, <2>2, StoreTypes DEF Stores
<1>5. r \in Routes /\ r.project = e.project
  BY <1>1, <1>2, AtIsPage DEF At
<1> HIDE DEF r, s
<1>6. Lands(route.project, org)
  BY HereScope
<1>7. CASE e.live /\ Stage(r, mode, s) /\ Noted(r)
  <2>1. route.project = e.project
    BY <1>1, <1>7 DEF RedirectStaysHome, At
  <2> QED
    BY <1>1, <1>4, <1>5, <1>6, <1>7, <2>1, MoveScope DEF Noted
<1>8. CASE Stage(route, mode, s) /\ back' = back
  BY <1>1, <1>4, <1>6, <1>8, MoveScope
<1> QED
  BY <1>3, <1>7, <1>8

LEMMA PanelScope ==
    ASSUME SInv, ScopeInv, [ShellNext]_shellVars,
           \/ Back \/ OpenSettings
           \/ \E m \in Panels : LeaveSettings(m) \/ ShowPanel(m)
    PROVE  ScopeInv'
<1>1. /\ past \in Routes \cup {None} /\ back \in Routes /\ route \in Routes
      /\ mode \in Modes /\ "settings" \in Modes /\ Panels \subseteq Modes
  BY DEF SInv, ShellTypes, ScreenTypes, Modes, Panels
<1>2. Lands(route.project, org) /\ Lands(back.project, org)
  BY HereScope
<1>3. Lands(SettingsPage.project, org)
  BY DEF Lands, SettingsPage
<1>4. CASE Back
  <2>1. past \in Routes /\ Carries(past) /\ Stage(past, mode, Store) /\ back' \in {back, past}
    BY <1>1, <1>4 DEF Back, Noted
  <2> QED
    BY <1>1, <2>1, CarriedLands, PlainScope
<1>5. CASE OpenSettings
  <2>1. Stage(SettingsPage, "settings", Store) /\ back' = route
    BY <1>5 DEF OpenSettings
  <2> QED
    BY <1>1, <1>3, <2>1, Landmarks, PlainScope
<1>6. CASE \E m \in Panels : LeaveSettings(m)
  <2>1. \E m \in Modes : Stage(back, m, Store) /\ back' = back
    BY <1>1, <1>6 DEF LeaveSettings, Noted
  <2> QED
    BY <1>1, <1>2, <2>1, PlainScope
<1>7. CASE \E m \in Panels : ShowPanel(m)
  <2>1. \E m \in Modes : Stage(route, m, Store) /\ back' = back
    BY <1>1, <1>7 DEF ShowPanel
  <2> QED
    BY <1>1, <1>2, <2>1, PlainScope
<1> QED
  BY <1>4, <1>5, <1>6, <1>7

LEMMA ReloadScope ==
    ASSUME SInv, ScopeInv, [ShellNext]_shellVars, Reload
    PROVE  ScopeInv'
<1> DEFINE s == [Store EXCEPT !.remount = TRUE, !.selected = Nothing]
           m == IF route.page = "settings" THEN "settings" ELSE "explorer"
<1>1. ScreenTypes /\ route \in Routes /\ m \in Modes
  BY DEF SInv, ShellTypes, ScreenTypes, Modes
<1>2. s \in Stores /\ s.org = org /\ s.strips = strips /\ s.selected.project = None
  <2>1. Nothing \in Selection /\ Nothing.project = None
    BY DEF Nothing, Selection
  <2> QED
    BY <1>1, <2>1, StoreTypes DEF Stores
<1>3. Stage(route, m, s) /\ back' \in {back, route}
  BY DEF Reload, Noted
<1>4. Lands(route.project, org)
  BY HereScope
<1> HIDE DEF m, s
<1> QED
  BY <1>1, <1>2, <1>3, <1>4, MoveScope
-----------------------------------------------------------------------------
LEMMA NextScope == SInv /\ ScopeInv /\ [ShellNext]_shellVars => ScopeInv'
<1> SUFFICES ASSUME SInv, ScopeInv, [ShellNext]_shellVars PROVE ScopeInv'
  OBVIOUS
<1>1. CASE User
  <2>1. CASE \E o \in Org : Switch(o) \/ CreateOrg(o)
    BY <2>1, SwitchScope
  <2>2. CASE \/ \E c \in Chat : Open(c) \/ OpenFromHistory(c)
             \/ \E p \in Project : OpenProject(p)
             \/ \E i \in DOMAIN Strip : PressTab(i)
             \/ ManagePeople
    BY <2>2, NavigationScope
  <2>3. CASE \E i \in DOMAIN Strip : CloseTab(i)
    BY <2>3, CloseTabScope
  <2>4. CASE \E i, j \in DOMAIN Strip : Reorder(i, j)
    BY <2>4, ReorderScope
  <2>5. CASE \/ NewApp \/ Send \/ NewChat \/ \E p \in Project : NewChatIn(p)
             \/ \E p \in Project \cup {None} : PickTarget(p)
    BY <2>5, AskScope
  <2>6. CASE Back \/ OpenSettings \/ \E m \in Panels : LeaveSettings(m) \/ ShowPanel(m)
    BY <2>6, PanelScope
  <2>7. CASE Reload
    BY <2>7, ReloadScope
  <2> QED
    BY <1>1, <2>1, <2>2, <2>3, <2>4, <2>5, <2>6, <2>7 DEF User
<1>2. CASE \E e \in ensuring : Redirect(e) \/ RedirectFails(e)
  BY <1>2, RedirectScope, AskScope
<1>3. CASE \E q \in pending : Finish(q) \/ Fail(q)
  BY <1>3, FinishScope, AskScope
<1>4. CASE UNCHANGED shellVars
  BY <1>4, AskScope
<1> QED
  BY <1>1, <1>2, <1>3, <1>4 DEF ShellNext, PageAnswer, LateAnswer

(* A tab of an organisation, and the page that is open in it, show one of  *)
(* its projects, unless the project was carried over (switchScope and what *)
(* leads around it; chatTabsByOrg).                                        *)
THEOREM PagesStayInScope == ShellSpec => []OwnScope
<1>1. ScopeInv => OwnScope
  BY DEF ScopeInv
<1> QED
  BY <1>1, InitScope, NextScope, ShellInvariance, PTL DEF ShellSpec
-----------------------------------------------------------------------------

(* A nonempty set of positions has a greatest one, and it is Max.          *)
LEMMA MaxIsGreatest ==
    ASSUME NEW n \in Nat, NEW S \in SUBSET (1..n), S # {}
    PROVE  Max(S) \in S /\ \A x \in S : x <= Max(S)
<1> DEFINE T == {n - x : x \in S}
<1>1. T \subseteq Nat /\ T # {}
  <2>1. PICK y \in S : TRUE
    OBVIOUS
  <2>2. n - y \in T
    BY <2>1
  <2>3. \A x \in S : n - x \in Nat
    OBVIOUS
  <2> QED BY <2>2, <2>3
<1>2. IsWellFoundedOn(OpToRel(<, Nat), Nat)
  BY NatLessThanWellFounded
<1>3. PICK t \in T : \A u \in T : ~(<<u, t>> \in OpToRel(<, Nat))
  BY <1>1, <1>2, WFMin, Zenon
<1>4. PICK m \in S : t = n - m
  BY <1>3
<1>5. \A x \in S : x <= m
  <2> TAKE x \in S
  <2>1. n - x \in T /\ n - x \in Nat /\ t \in Nat
    BY <1>1, <1>3
  <2>2. ~(n - x < t)
    BY <2>1, <1>3 DEF OpToRel
  <2> QED BY <2>2, <1>4
<1> QED BY <1>4, <1>5 DEF Max

LEMMA LastIndexOfIsLast ==
    ASSUME NEW s \in Seq(Kid), NEW k
    PROVE  LET i == LastIndexOf(s, k) IN
           IF \E j \in 1..Len(s) : s[j] = k
           THEN i \in 1..Len(s) /\ s[i] = k /\ \A j \in (i + 1)..Len(s) : s[j] # k
           ELSE i = 0
<1> DEFINE S == {i \in 1..Len(s) : s[i] = k}
<1>1. Len(s) \in Nat /\ S \in SUBSET (1..Len(s))
  BY LenProperties
<1>2. LastIndexOf(s, k) = IF S # {} THEN Max(S) ELSE 0
  BY DEF LastIndexOf, SelectLastInSeq
<1>3. CASE S # {}
  <2> DEFINE m == Max(S)
  <2>1. m \in S /\ \A x \in S : x <= m
    BY <1>1, <1>3, MaxIsGreatest, Zenon
  <2>2. m \in 1..Len(s) /\ s[m] = k /\ \A j \in 1..Len(s) : s[j] = k => j <= m
    BY <2>1
  <2>3. LastIndexOf(s, k) = m
    BY <1>2, <1>3
  <2> HIDE DEF m, S
  <2>4. \A j \in (m + 1)..Len(s) : s[j] # k
    <3> TAKE j \in (m + 1)..Len(s)
    <3>1. j \in 1..Len(s) /\ ~(j <= m)
      BY <1>1, <2>2
    <3> QED BY <2>2, <3>1
  <2> QED BY <2>2, <2>3, <2>4
<1>4. CASE S = {}
  BY <1>2, <1>4
<1> QED BY <1>3, <1>4

States == {"unsent", "open", "dropped", "failed", "ended"}
Progress == {"idle", "posted", "working", "concluded", "released", "refused", "finished", "denied"}
VerdictOut == {"concluded", "released"}
Statuses == {"ready", "submitted", "streaming", "error"}
Speakers == (Prompt \cup {None}) \X (Kid \cup {None})
Turns == [role : {"user", "assistant"}, run : Prompt \cup {None}, shows : SUBSET Speakers]
Chats == [known : BOOLEAN, turns : Seq(Turns), status : Statuses]
Translators == [stack : Seq(Kid), terminalSeen : BOOLEAN]
Streams ==
    [state : States, chat : ChatId \cup {None},
     translator : Translators, kids : SUBSET Kid]

ChatTypes ==
    /\ queued \in [ChatId -> Prompt \cup {None}]
    /\ chats \in [ChatId -> Chats]
    /\ unsubRef \in Prompt \cup {None}
    /\ stream \in [Prompt -> Streams]
    /\ kernel \in [Prompt -> Progress]
    /\ typed \in Nat

UserAt(turns, i, p) == i \in 1..Len(turns) /\ turns[i].role = "user" /\ turns[i].run = p
AsksFor(turns, p) == \E i \in 1..Len(turns) : UserAt(turns, i, p)

(* p is the last prompt of these turns, at i.                              *)
LastAt(turns, i, p) ==
    UserAt(turns, i, p) /\ \A j \in (i + 1)..Len(turns) : turns[j].role # "user"
LastPrompt(turns, p) == \E i \in 1..Len(turns) : LastAt(turns, i, p)

(* Nothing of another run follows what r answers.                          *)
AnswersLast(turns, r) ==
    \A i, j \in 1..Len(turns) :
        i < j /\ turns[i].role = "assistant" /\ turns[j].role = "assistant" => turns[i].run # r

Told(turns) ==
    \A i \in 1..Len(turns) : \A who \in turns[i].shows : who = <<turns[i].run, None>>

(* No prompt is shown twice.                                               *)
Once(turns) ==
    \A p \in Prompt : \A i, j \in 1..Len(turns) :
        UserAt(turns, i, p) /\ UserAt(turns, j, p) => i = j

(* An earlier prompt than the one at i lost its stream.                    *)
FailedBefore(lost, turns, i) ==
    \E j \in 1..(i - 1) : turns[j].role = "user" /\ turns[j].run \in lost
FailedRuns == {p \in Prompt : stream[p].state = "failed"}

(* One stream is open, the one the pane is subscribed to.                  *)
SubscriptionInv == \A r \in Prompt : stream[r].state = "open" <=> r = unsubRef

(* A prompt not typed yet is nowhere, one not sent has no answer.          *)
FreshInv ==
    \A p \in Prompt :
        /\ p > typed => stream[p].state = "unsent" /\ \A c \in ChatId : ~AsksFor(chats[c].turns, p)
        /\ stream[p].state = "unsent" =>
              \A c \in ChatId : \A i \in 1..Len(chats[c].turns) :
                  chats[c].turns[i].role = "assistant" => chats[c].turns[i].run # p

(* Each prompt is shown by one chat, and one that was sent streams there.  *)
PlaceInv ==
    \A p \in Prompt : \A c \in ChatId : AsksFor(chats[c].turns, p) =>
        /\ \A d \in ChatId : AsksFor(chats[d].turns, p) => d = c
        /\ stream[p].state = "open" => stream[p].chat = c

(* The chat of an open stream shows its prompt, as the last one or before  *)
(* one that waits; until the verdict is in its composer is locked.         *)
OpenRun(r) ==
    LET c == stream[r].chat IN
    /\ c \in ChatId /\ AsksFor(chats[c].turns, r)
    /\ AnswersLast(chats[c].turns, r)
    /\ stream[r].kids \subseteq Range(stream[r].translator.stack)
    /\ kernel[r] \in {"posted", "working", "refused"} \cup VerdictOut
    /\ LastPrompt(chats[c].turns, r) \/ (queued[c] # None /\ kernel[r] \in VerdictOut)
    /\ IF kernel[r] \in VerdictOut
       THEN stream[r].translator.terminalSeen /\ (~Locked(c) \/ queued[c] # None)
       ELSE Locked(c)
OpenInv == \A r \in Prompt : stream[r].state = "open" => OpenRun(r)

(* What is queued is the last prompt of its chat, and not sent.            *)
QueuedIn(c) ==
    /\ stream[queued[c]].state = "unsent"
    /\ \E i \in 1..Len(chats[c].turns) :
          /\ LastAt(chats[c].turns, i, queued[c])
          /\ Locked(c) \/ FailedBefore(FailedRuns, chats[c].turns, i)
QueueInv == \A c \in ChatId : queued[c] # None => QueuedIn(c)

UnlockIsDue(c) ==
    \/ queued[c] # None
    \/ \E p \in Prompt :
          /\ LastPrompt(chats[c].turns, p)
          /\ stream[p].state \in {"open", "dropped"} \/ kernel[p] = "denied"
LockInv == \A c \in ChatId : Locked(c) => UnlockIsDue(c)

(* What no queue holds was sent, or stood behind a lost stream.            *)
PromptInv ==
    \A p \in Prompt : \A c \in ChatId : \A i \in 1..Len(chats[c].turns) :
        UserAt(chats[c].turns, i, p) =>
            \/ stream[p].state # "unsent" \/ queued[c] = p
            \/ FailedBefore(FailedRuns, chats[c].turns, i)

(* Every transcript says who said what, shows a prompt once, and is empty  *)
(* while not known.                                                        *)
TurnsInv ==
    \A c \in ChatId :
        /\ Told(chats[c].turns) /\ Once(chats[c].turns)
        /\ ~chats[c].known => chats[c].turns = <<>>

StoreInv ==
    /\ ChatTypes /\ SubscriptionInv /\ FreshInv /\ PlaceInv /\ OpenInv
    /\ QueueInv /\ LockInv /\ PromptInv /\ TurnsInv

PaneInv ==
    /\ view \in ChatId \cup {None} /\ session \in ChatId \cup {None}
    /\ session # None => session = view /\ queued[session] = None
-----------------------------------------------------------------------------
Kept(old, new) ==
    Len(old) <= Len(new) /\ \A i \in 1..Len(old) : SameTurn(old[i], new[i])

(* What frames of r make of the turns of a chat.                           *)
Answered(old, new, r) ==
    /\ Kept(old, new)
    /\ \A i \in (Len(old) + 1)..Len(new) : new[i].role = "assistant" /\ new[i].run = r

(* Answers are not prompts: where the prompts are does not change.         *)
LEMMA AnswersKeepPrompts ==
    ASSUME NEW old \in Seq(Turns), NEW new \in Seq(Turns), NEW r, Answered(old, new, r)
    PROVE  /\ \A i, p : UserAt(new, i, p) <=> UserAt(old, i, p)
           /\ \A i, p : LastAt(new, i, p) <=> LastAt(old, i, p)
           /\ \A p : AsksFor(new, p) <=> AsksFor(old, p)
           /\ \A p : LastPrompt(new, p) <=> LastPrompt(old, p)
           /\ \A f : \A i \in 1..Len(old) : FailedBefore(f, new, i) <=> FailedBefore(f, old, i)
           /\ Once(old) => Once(new)
<1>1. Len(old) \in Nat /\ Len(new) \in Nat /\ Len(old) <= Len(new)
  BY LenProperties DEF Answered, Kept
<1>2. \A i \in 1..Len(old) : new[i].role = old[i].role /\ new[i].run = old[i].run
  BY DEF Answered, Kept, SameTurn
<1>3. \A i \in 1..Len(new) : new[i].role = "user" => i \in 1..Len(old)
  BY <1>1 DEF Answered
<1>4. \A i, p : UserAt(new, i, p) <=> UserAt(old, i, p)
  BY <1>1, <1>2, <1>3 DEF UserAt
<1>5. \A i, p : LastAt(new, i, p) <=> LastAt(old, i, p)
  <2> TAKE i, p
  <2>1. ASSUME UserAt(old, i, p)
        PROVE  (\A j \in (i + 1)..Len(new) : new[j].role # "user")
                  <=> (\A j \in (i + 1)..Len(old) : old[j].role # "user")
    <3>1. i \in 1..Len(old)
      BY <2>1 DEF UserAt
    <3>2. ASSUME \A j \in (i + 1)..Len(new) : new[j].role # "user",
                 NEW j \in (i + 1)..Len(old)
          PROVE  old[j].role # "user"
      <4>1. j \in (i + 1)..Len(new) /\ j \in 1..Len(old)
        BY <1>1, <3>1
      <4> QED BY <1>2, <3>2, <4>1
    <3>3. ASSUME \A j \in (i + 1)..Len(old) : old[j].role # "user",
                 NEW j \in (i + 1)..Len(new), new[j].role = "user"
          PROVE  FALSE
      <4>1. j \in 1..Len(new)
        BY <1>1, <3>1
      <4>2. j \in 1..Len(old)
        BY <1>3, <3>3, <4>1
      <4>3. j \in (i + 1)..Len(old)
        BY <1>1, <3>1, <4>2
      <4> QED BY <1>2, <3>3, <4>2, <4>3
    <3> QED BY <3>2, <3>3
  <2> QED BY <2>1, <1>4 DEF LastAt
<1>6. \A i, p : UserAt(old, i, p) => i \in 1..Len(old) /\ i \in 1..Len(new)
  BY <1>1 DEF UserAt
<1>7. \A p : AsksFor(new, p) <=> AsksFor(old, p)
  BY <1>4, <1>6 DEF AsksFor
<1>8. \A p : LastPrompt(new, p) <=> LastPrompt(old, p)
  BY <1>5, <1>6 DEF LastPrompt, LastAt
<1>9. \A f : \A i \in 1..Len(old) : FailedBefore(f, new, i) <=> FailedBefore(f, old, i)
  <2> TAKE f
  <2> TAKE i \in 1..Len(old)
  <2>1. \A j \in 1..(i - 1) : j \in 1..Len(old)
    BY <1>1
  <2> QED BY <2>1, <1>2 DEF FailedBefore
<1>10. Once(old) => Once(new)
  <2> SUFFICES ASSUME Once(old), NEW p \in Prompt, NEW i \in 1..Len(new), NEW j \in 1..Len(new),
                      UserAt(new, i, p), UserAt(new, j, p)
               PROVE  i = j
    BY DEF Once
  <2>1. UserAt(old, i, p) /\ UserAt(old, j, p)
    BY <1>4
  <2> QED BY <2>1, <1>6 DEF Once
<1> QED BY <1>4, <1>5, <1>7, <1>8, <1>9, <1>10

(* A prompt is the last one, wherever it was appended.                     *)
LEMMA PromptComesLast ==
    ASSUME NEW old \in Seq(Turns), NEW p \in Prompt
    PROVE  LET new == Append(old, Turn("user", p)) IN
           /\ new \in Seq(Turns) /\ Len(new) = Len(old) + 1 /\ new # <<>>
           /\ Kept(old, new) /\ LastAt(new, Len(old) + 1, p)
           /\ \A i \in 1..Len(old) : new[i] = old[i]
           /\ \A q : AsksFor(new, q) <=> AsksFor(old, q) \/ q = p
           /\ \A f : \A i \in 1..Len(new) : FailedBefore(f, new, i) <=> FailedBefore(f, old, i)
           /\ \A i \in 1..Len(new) : new[i].role = "assistant" => i \in 1..Len(old)
           /\ \A r : AnswersLast(old, r) => AnswersLast(new, r)
           /\ Told(old) => Told(new)
           /\ Once(old) /\ ~AsksFor(old, p) => Once(new)
           /\ \A i \in 1..Len(new) : \A q : UserAt(new, i, q) => UserAt(old, i, q) \/ q = p
<1> DEFINE t == Turn("user", p)
           new == Append(old, t)
<1>1. t \in Turns /\ t.role = "user" /\ t.run = p /\ t.shows = {}
  BY DEF Turn, Turns
<1> HIDE DEF t
<1>2. /\ new \in Seq(Turns) /\ Len(new) = Len(old) + 1 /\ Len(old) \in Nat
      /\ \A i \in 1..Len(old) : new[i] = old[i]
      /\ new[Len(old) + 1] = t
  BY <1>1, AppendProperties, LenProperties
<1> HIDE DEF new
<1>3. \A i \in 1..Len(new) : i \in 1..Len(old) \/ i = Len(old) + 1
  BY <1>2
<1>4. Kept(old, new)
  BY <1>2 DEF Kept, SameTurn
<1>5. LastAt(new, Len(old) + 1, p)
  BY <1>1, <1>2 DEF LastAt, UserAt
<1>6. \A q : AsksFor(new, q) <=> AsksFor(old, q) \/ q = p
  <2> TAKE q
  <2>1. \A i \in 1..Len(old) : i \in 1..Len(new)
    BY <1>2
  <2> QED BY <1>1, <1>2, <1>3, <1>5, <2>1 DEF AsksFor, UserAt, LastAt
<1>7. \A f : \A i \in 1..Len(new) : FailedBefore(f, new, i) <=> FailedBefore(f, old, i)
  <2> TAKE f
  <2> TAKE i \in 1..Len(new)
  <2>1. \A j \in 1..(i - 1) : j \in 1..Len(old)
    BY <1>2
  <2> QED BY <2>1, <1>2 DEF FailedBefore
<1>8. \A i \in 1..Len(new) : new[i].role = "assistant" => i \in 1..Len(old)
  BY <1>1, <1>2, <1>3
<1>9. \A r : AnswersLast(old, r) => AnswersLast(new, r)
  BY <1>2, <1>8 DEF AnswersLast
<1>10. Told(old) => Told(new)
  BY <1>1, <1>2, <1>3 DEF Told
<1>11. new # <<>>
  BY <1>2
<1>12. \A i \in 1..Len(new) : \A q : UserAt(new, i, q) => UserAt(old, i, q) \/ q = p
  BY <1>1, <1>2, <1>3 DEF UserAt
<1>13. Once(old) /\ ~AsksFor(old, p) => Once(new)
  <2> SUFFICES ASSUME Once(old), ~AsksFor(old, p), NEW q \in Prompt,
                      NEW i \in 1..Len(new), NEW j \in 1..Len(new),
                      UserAt(new, i, q), UserAt(new, j, q)
               PROVE  i = j
    BY DEF Once
  <2>1. CASE q = p
    <3>1. ~(i \in 1..Len(old)) /\ ~(j \in 1..Len(old))
      BY <2>1, <1>2 DEF AsksFor, UserAt
    <3> QED BY <3>1, <1>3
  <2>2. CASE q # p
    <3>1. UserAt(old, i, q) /\ UserAt(old, j, q)
      BY <2>2, <1>12
    <3>2. i \in 1..Len(old) /\ j \in 1..Len(old)
      BY <3>1 DEF UserAt
    <3> QED BY <3>1, <3>2 DEF Once
  <2> QED BY <2>1, <2>2
<1> QED BY <1>2, <1>4, <1>5, <1>6, <1>7, <1>8, <1>9, <1>10, <1>11, <1>12, <1>13 DEF new, t

(* A part goes to the turn of its own run: the run's turn is there or is   *)
(* appended, and it is the trailing one.                                   *)
LEMMA PartGoesToItsRun ==
    ASSUME NEW old \in Seq(Turns), NEW r \in Prompt, NEW who \in SUBSET {<<r, None>>},
           AnswersLast(old, r), Told(old)
    PROVE  LET new == WithPart(EnsureAssistant(old, r), who) IN
           /\ new \in Seq(Turns) /\ Answered(old, new, r)
           /\ AnswersLast(new, r) /\ Told(new)
<1> DEFINE mid == EnsureAssistant(old, r)
           Mine(i) == mid[i].role = "assistant" /\ mid[i].run = r
<1>1. Len(old) \in Nat /\ \A i \in 1..Len(old) : old[i] \in Turns
  BY LenProperties, ElementOfSeq
<1>2. /\ mid \in Seq(Turns) /\ Answered(old, mid, r) /\ AnswersLast(mid, r) /\ Told(mid)
      /\ \E i \in 1..Len(mid) : Mine(i)
  <2>1. CASE \E i \in 1..Len(old) : old[i].role = "assistant" /\ old[i].run = r
    <3>1. mid = old
      BY <2>1 DEF EnsureAssistant
    <3>2. Answered(old, old, r)
      BY <1>1 DEF Answered, Kept, SameTurn
    <3> HIDE DEF mid
    <3> QED BY <3>1, <3>2, <2>1
  <2>2. CASE ~\E i \in 1..Len(old) : old[i].role = "assistant" /\ old[i].run = r
    <3> DEFINE t == Turn("assistant", r)
    <3>1. t \in Turns /\ t.role = "assistant" /\ t.run = r /\ t.shows = {}
      BY DEF Turn, Turns
    <3>2. mid = Append(old, t)
      BY <2>2 DEF EnsureAssistant
    <3> HIDE DEF t, mid
    <3>3. /\ mid \in Seq(Turns) /\ Len(mid) = Len(old) + 1 /\ mid[Len(old) + 1] = t
          /\ \A i \in 1..Len(old) : mid[i] = old[i]
      BY <3>1, <3>2, AppendProperties
    <3>4. Answered(old, mid, r)
      BY <1>1, <3>1, <3>3 DEF Answered, Kept, SameTurn
    <3>5. AnswersLast(mid, r)
      BY <1>1, <2>2, <3>3 DEF AnswersLast
    <3>6. Told(mid)
      BY <1>1, <3>1, <3>3 DEF Told
    <3>7. Len(old) + 1 \in 1..Len(mid)
      BY <1>1, <3>3
    <3> QED BY <3>1, <3>3, <3>4, <3>5, <3>6, <3>7
  <2> QED BY <2>1, <2>2
<1> HIDE DEF mid
<1>3. PICK m \in 1..Len(mid) : Mine(m)
  BY <1>2
<1>4. /\ Len(mid) \in Nat /\ \A i \in 1..Len(mid) : mid[i] \in Turns
      /\ mid \in [1..Len(mid) -> Turns]
  BY <1>2, LenProperties, ElementOfSeq
<1> DEFINE S == {i \in 1..Len(mid) : mid[i].role = "assistant"}
<1>5. Max(S) = m
  <2>1. S \in SUBSET (1..Len(mid)) /\ m \in S
    BY <1>3
  <2>2. Max(S) \in S /\ \A x \in S : x <= Max(S)
    BY <1>4, <2>1, MaxIsGreatest, Zenon
  <2>3. ~(m < Max(S))
    BY <1>2, <1>3, <2>1, <2>2 DEF AnswersLast
  <2>4. Max(S) \in 1..Len(mid) /\ m <= Max(S)
    <3>1. S \subseteq 1..Len(mid)
      BY <2>1
    <3> HIDE DEF S
    <3> QED BY <2>1, <2>2, <3>1
  <2> HIDE DEF S
  <2> QED BY <1>4, <2>3, <2>4
<1> DEFINE new == WithPart(mid, who)
<1>6. new = [mid EXCEPT ![m].shows = @ \cup who]
  <2>1. SelectLastInSeq(mid, LAMBDA turn : turn.role = "assistant") = Max(S)
    BY <1>3 DEF SelectLastInSeq
  <2> HIDE DEF S
  <2> QED BY <2>1, <1>5 DEF WithPart
<1>7. /\ new \in Seq(Turns) /\ Len(new) = Len(mid)
      /\ \A i \in 1..Len(mid) : /\ new[i].role = mid[i].role /\ new[i].run = mid[i].run
                                /\ new[i].shows = IF i = m THEN mid[i].shows \cup who ELSE mid[i].shows
  <2> HIDE DEF new
  <2>1. mid[m] \in Turns /\ who \in SUBSET Speakers
    BY <1>4 DEF Speakers
  <2>2. mid[m].shows \cup who \in SUBSET Speakers
    BY <2>1 DEF Turns
  <2>3. [mid[m] EXCEPT !.shows = @ \cup who] \in Turns
    BY <2>1, <2>2 DEF Turns
  <2>4. \A i \in 1..Len(mid) : new[i] = IF i = m THEN [mid[m] EXCEPT !.shows = @ \cup who] ELSE mid[i]
    BY <1>4, <1>6
  <2>5. new \in [1..Len(mid) -> Turns]
    BY <1>4, <1>6, <2>3
  <2>6. new \in Seq(Turns) /\ Len(new) = Len(mid)
    BY <1>4, <2>5, LenProperties, SeqDef
  <2> QED BY <2>1, <2>4, <2>6 DEF Turns
<1> HIDE DEF new
<1>8. Answered(old, new, r)
  <2>1. /\ Len(old) <= Len(mid)
        /\ \A i \in 1..Len(old) : old[i].role = mid[i].role /\ old[i].run = mid[i].run
        /\ \A i \in (Len(old) + 1)..Len(mid) : mid[i].role = "assistant" /\ mid[i].run = r
    BY <1>2 DEF Answered, Kept, SameTurn
  <2>2. \A i \in 1..Len(old) : i \in 1..Len(mid)
    BY <1>1, <1>4, <2>1
  <2>3. \A i \in (Len(old) + 1)..Len(mid) : i \in 1..Len(mid)
    BY <1>1, <1>4
  <2>4. Kept(old, new)
    BY <1>7, <2>1, <2>2 DEF Kept, SameTurn
  <2> QED BY <1>7, <2>1, <2>3, <2>4 DEF Answered
<1>9. AnswersLast(new, r)
  BY <1>2, <1>7 DEF AnswersLast
<1>10. Told(new)
  <2> SUFFICES ASSUME NEW i \in 1..Len(new), NEW x \in new[i].shows
               PROVE  x = <<new[i].run, None>>
    BY DEF Told
  <2>1. x \in mid[i].shows \/ (i = m /\ x \in who)
    BY <1>7
  <2>2. CASE x \in mid[i].shows
    BY <2>2, <1>2, <1>7 DEF Told
  <2>3. CASE i = m /\ x \in who
    BY <2>3, <1>3, <1>7
  <2> QED BY <2>1, <2>2, <2>3
<1> QED BY <1>7, <1>8, <1>9, <1>10 DEF new, mid

-----------------------------------------------------------------------------
EventTypes == {"nothing", "start", "progress", "message", "complete", "error"}
EventOf(ev, r) == ev.type \in EventTypes /\ ev.shows \in SUBSET {<<r, None>>}

InOrder(chat, r) ==
    /\ chat \in Chats /\ AnswersLast(chat.turns, r) /\ Told(chat.turns)
    /\ ~chat.known => chat.turns = <<>>

(* An event of r leaves a chat in order and its prompts where they are.    *)
LEMMA AppliedInOrder ==
    ASSUME NEW r \in Prompt, NEW chat, InOrder(chat, r), NEW ev, EventOf(ev, r)
    PROVE  LET new == ApplyFrame(chat, ev, r) IN
           /\ InOrder(new, r) /\ Answered(chat.turns, new.turns, r)
           /\ new.status = StatusAfter(ev.type, chat.status)
<1> DEFINE new == ApplyFrame(chat, ev, r)
           turns == IF Tells(ev) THEN WithPart(EnsureAssistant(chat.turns, r), ev.shows)
                    ELSE chat.turns
<1>1. /\ chat.turns \in Seq(Turns) /\ chat.status \in Statuses /\ chat.known \in BOOLEAN
      /\ AnswersLast(chat.turns, r) /\ Told(chat.turns) /\ Len(chat.turns) \in Nat
      /\ ~chat.known => chat.turns = <<>>
  BY LenProperties DEF InOrder, Chats
<1>2. /\ turns \in Seq(Turns) /\ Answered(chat.turns, turns, r)
      /\ AnswersLast(turns, r) /\ Told(turns)
  <2>1. CASE Tells(ev)
    <3>1. ev.shows \in SUBSET {<<r, None>>}
      BY DEF EventOf
    <3>2. turns = WithPart(EnsureAssistant(chat.turns, r), ev.shows)
      BY <2>1
    <3> HIDE DEF turns
    <3> QED BY <1>1, <3>1, <3>2, PartGoesToItsRun
  <2>2. CASE ~Tells(ev)
    <3>1. turns = chat.turns
      BY <2>2
    <3>2. Answered(chat.turns, chat.turns, r)
      BY <1>1 DEF Answered, Kept, SameTurn
    <3> HIDE DEF turns
    <3> QED BY <1>1, <3>1, <3>2
  <2> QED BY <2>1, <2>2
<1>3. /\ new = [known |-> chat.known \/ Tells(ev), turns |-> turns,
                status |-> StatusAfter(ev.type, chat.status)]
      /\ ~Tells(ev) => turns = chat.turns
  BY DEF ApplyFrame
<1>4. StatusAfter(ev.type, chat.status) \in Statuses
  BY <1>1 DEF StatusAfter, EventOf, EventTypes, Statuses
<1>5. (chat.known \/ Tells(ev)) \in BOOLEAN
  BY <1>1 DEF Tells
<1> HIDE DEF turns, new
<1>6. new \in Chats
  BY <1>2, <1>3, <1>4, <1>5 DEF Chats
<1>7. new.turns = turns /\ new.status = StatusAfter(ev.type, chat.status)
  BY <1>3
<1>8. new.known = (chat.known \/ Tells(ev))
  BY <1>3, Zenon
<1>9. ~new.known => new.turns = <<>>
  BY <1>1, <1>3, <1>7, <1>8
<1> QED BY <1>2, <1>6, <1>7, <1>9 DEF InOrder, new

(* What each frame becomes.                                                *)
LEMMA Translated ==
    ASSUME NEW t \in Translators, NEW r \in Prompt
    PROVE  /\ Translate(t, Started) = Event("start", {}, TRUE) /\ Advance(t, Started) = t
           /\ \A kid : /\ Translate(t, ChildStarted(kid)) = Event("progress", {}, TRUE)
                       /\ Translate(t, ChildSettled(kid)) = Event("progress", {}, TRUE)
                       /\ Advance(t, ChildStarted(kid)) = [t EXCEPT !.stack = Append(t.stack, kid)]
                       /\ Advance(t, ChildSettled(kid)) = [t EXCEPT !.stack = Without(t.stack, kid)]
           /\ \A cause : /\ Translate(t, Terminal(cause)) = Completion(cause)
                         /\ Advance(t, Terminal(cause)) = [t EXCEPT !.terminalSeen = TRUE]
                         /\ Translate(t, SettledWith(cause)) =
                               IF t.terminalSeen THEN NoEvent ELSE Completion(cause)
BY DEF Translate, Advance, Started, ChildStarted, ChildSettled, Terminal, SettledWith

(* Text and tools of a sub-run never show at the top level: one is open    *)
(* only while the stack is not empty.                                      *)
LEMMA SpokenTranslated ==
    ASSUME NEW t \in Translators, NEW r \in Prompt, NEW kids \in SUBSET Kid,
           kids \subseteq Range(t.stack), NEW who \in {None} \cup kids,
           NEW kind \in {"stream_chunk", "final_text", "tool"}
    PROVE  LET ev == Translate(t, Says(kind, <<r, who>>)) IN
           /\ EventOf(ev, r) /\ ev.type \in {"nothing", "progress", "message"}
           /\ Advance(t, Says(kind, <<r, who>>)) = t
<1> DEFINE wireFrame == Says(kind, <<r, who>>)
<1>1. wireFrame.event = kind /\ wireFrame.by = <<r, who>>
  BY DEF Says
<1>2. ~Inside(t) => who = None
  BY DEF Inside, Range
<1> HIDE DEF wireFrame
<1>3. CASE kind = "stream_chunk"
  <2>1. Translate(t, wireFrame) = IF Inside(t) THEN NoEvent ELSE Event("progress", {<<r, who>>}, FALSE)
    BY <1>1, <1>3 DEF Translate
  <2>2. Advance(t, wireFrame) = t
    BY <1>1, <1>3 DEF Advance
  <2> QED BY <1>2, <2>1, <2>2 DEF EventOf, Event, NoEvent, EventTypes, wireFrame
<1>4. CASE kind = "final_text"
  <2>1. Translate(t, wireFrame) = IF Inside(t) THEN NoEvent ELSE Event("message", {<<r, who>>}, FALSE)
    BY <1>1, <1>4 DEF Translate
  <2>2. Advance(t, wireFrame) = t
    BY <1>1, <1>4 DEF Advance
  <2> QED BY <1>2, <2>1, <2>2 DEF EventOf, Event, NoEvent, EventTypes, wireFrame
<1>5. CASE kind = "tool"
  <2>1. Translate(t, wireFrame) = Event("progress", {<<r, who>>}, Inside(t))
    BY <1>1, <1>5 DEF Translate
  <2>2. Advance(t, wireFrame) = t
    BY <1>1, <1>5 DEF Advance
  <2> QED BY <1>2, <2>1, <2>2 DEF EventOf, Event, EventTypes, wireFrame
<1> QED BY <1>3, <1>4, <1>5

(* Settling a child takes no other child off the stack.                    *)
LEMMA WithoutKeepsOthers ==
    ASSUME NEW s \in Seq(Kid), NEW kid \in Kid
    PROVE  Without(s, kid) \in Seq(Kid) /\ Range(s) \ {kid} \subseteq Range(Without(s, kid))
<1> DEFINE i == LastIndexOf(s, kid)
           n == Len(s)
<1>1. n \in Nat /\ (i = 0 \/ (i \in 1..n /\ s[i] = kid)) /\ DOMAIN s = 1..n
  BY LastIndexOfIsLast, LenProperties
<1> HIDE DEF i
<1>2. CASE i = 0
  <2>1. Without(s, kid) = s
    BY <1>2 DEF Without, i
  <2> QED BY <2>1
<1>3. CASE i # 0
  <2> DEFINE before == SubSeq(s, 1, i - 1)
             after == SubSeq(s, i + 1, n)
             new == before \o after
  <2>1. Without(s, kid) = new
    BY <1>3 DEF Without, RemoveAt, i
  <2>2. i \in 1..n /\ s[i] = kid
    BY <1>1, <1>3
  <2>3. /\ before \in Seq(Kid) /\ Len(before) = i - 1
        /\ \A j \in 1..(i - 1) : before[j] = s[j]
    <3>1. 1 \in 1..(Len(s) + 1) /\ i - 1 \in 0..Len(s)
      BY <1>1, <2>2
    <3>2. \A j \in 1..(i - 1) : s[j] \in Kid
      BY <1>1, <2>2, ElementOfSeq
    <3> QED BY <1>1, <2>2, <3>1, <3>2, SubSeqProperties
  <2>4. /\ after \in Seq(Kid) /\ Len(after) = n - i
        /\ \A j \in 1..(n - i) : after[j] = s[i + j]
    <3>1. i + 1 \in 1..(Len(s) + 1) /\ n \in 0..Len(s)
      BY <1>1, <2>2
    <3>2. /\ after \in Seq(Kid)
          /\ Len(after) = IF i + 1 <= n THEN n - (i + 1) + 1 ELSE 0
          /\ \A j \in 1..(n - (i + 1) + 1) : after[j] = s[i + 1 + j - 1]
      BY <3>1, SubSeqProperties
    <3>3. i \in Nat /\ n \in Nat /\ i <= n
      BY <1>1, <2>2
    <3>4. Len(after) = n - i
      <4>1. CASE i + 1 <= n
        BY <1>1, <3>2, <3>3, <4>1
      <4>2. CASE ~(i + 1 <= n)
        <5>1. n = i
          <6> HIDE DEF n
          <6> QED BY <3>3, <4>2
        <5> QED BY <1>1, <3>2, <3>3, <4>2, <5>1
      <4> QED BY <4>1, <4>2
    <3>5. ASSUME NEW j \in 1..(n - i) PROVE after[j] = s[i + j]
      <4>1. j \in 1..(n - (i + 1) + 1) /\ i + 1 + j - 1 = i + j
        BY <1>1, <3>3
      <4>2. after[j] = s[i + 1 + j - 1]
        BY <3>2, <4>1
      <4> QED BY <4>1, <4>2
    <3> QED BY <3>2, <3>4, <3>5
  <2> HIDE DEF before, after
  <2>5. /\ new \in Seq(Kid) /\ Len(new) = n - 1 /\ DOMAIN new = 1..(n - 1)
        /\ \A j \in 1..(n - 1) : new[j] = IF j <= i - 1 THEN before[j] ELSE after[j - (i - 1)]
    <3>1. Len(before) + Len(after) = n - 1
      BY <1>1, <2>2, <2>3, <2>4
    <3>2. /\ new \in Seq(Kid) /\ Len(new) = n - 1
          /\ \A j \in 1..(n - 1) :
                new[j] = IF j <= Len(before) THEN before[j] ELSE after[j - Len(before)]
      BY <2>3, <2>4, <3>1, ConcatProperties, SMTT(30)
    <3> HIDE DEF new
    <3> QED BY <2>3, <3>2, LenProperties
  <2> HIDE DEF new
  <2>6. \A j \in 1..n : j # i => s[j] \in Range(new)
    <3> TAKE j \in 1..n
    <3>1. ASSUME j < i
          PROVE  j \in DOMAIN new /\ new[j] = s[j]
      BY <1>1, <2>2, <2>3, <2>5, <3>1
    <3>2. ASSUME j > i
          PROVE  j - 1 \in DOMAIN new /\ new[j - 1] = s[j]
      <4>1. j - 1 \in 1..(n - 1) /\ ~(j - 1 <= i - 1) /\ (j - 1) - (i - 1) = j - i
            /\ j - i \in 1..(n - i) /\ i + (j - i) = j
        BY <1>1, <2>2, <3>2
      <4> QED BY <4>1, <2>4, <2>5
    <3> QED BY <1>1, <2>2, <3>1, <3>2 DEF Range
  <2> QED BY <1>1, <2>1, <2>2, <2>5, <2>6 DEF Range
<1> QED BY <1>2, <1>3

-----------------------------------------------------------------------------
TurnsKept == \A c \in ChatId : Kept(chats[c].turns, chats'[c].turns)

LEMMA KeptIsReflexive ==
    ASSUME NEW turns \in Seq(Turns)
    PROVE  Kept(turns, turns)
BY LenProperties DEF Kept, SameTurn

LEMMA FailedBeforeGrows ==
    ASSUME NEW f, NEW g, f \subseteq g, NEW turns, NEW i, FailedBefore(f, turns, i)
    PROVE  FailedBefore(g, turns, i)
BY DEF FailedBefore

LEMMA ChatFacts ==
    ASSUME ChatTypes, NEW c \in ChatId
    PROVE  /\ chats[c] \in Chats /\ chats[c].turns \in Seq(Turns)
           /\ Len(chats[c].turns) \in Nat /\ chats[c].status \in Statuses
BY LenProperties DEF ChatTypes, Chats

(* An open run that waits for its verdict asked the last prompt, so        *)
(* nothing is queued behind it.                                            *)
LEMMA NothingBehindARun ==
    ASSUME StoreInv, NEW r \in Prompt, stream[r].state = "open", kernel[r] \notin VerdictOut
    PROVE  queued[stream[r].chat] = None
<1> DEFINE c == stream[r].chat
           q == queued[c]
<1>1. c \in ChatId /\ LastPrompt(chats[c].turns, r)
  BY DEF StoreInv, OpenInv, OpenRun
<1> SUFFICES ASSUME q # None PROVE FALSE
  OBVIOUS
<1>2. stream[q].state = "unsent" /\ LastPrompt(chats[c].turns, q)
  BY <1>1 DEF StoreInv, QueueInv, QueuedIn, LastPrompt
<1>3. Len(chats[c].turns) \in Nat
  BY <1>1, ChatFacts DEF StoreInv
<1>4. q = r
  <2> DEFINE t == chats[c].turns
  <2>1. PICK i \in 1..Len(t) : LastAt(t, i, r)
    BY <1>1 DEF LastPrompt
  <2>2. PICK j \in 1..Len(t) : LastAt(t, j, q)
    BY <1>2 DEF LastPrompt
  <2>3. /\ t[i].role = "user" /\ t[i].run = r /\ t[j].role = "user" /\ t[j].run = q
        /\ \A l \in (i + 1)..Len(t) : t[l].role # "user"
        /\ \A l \in (j + 1)..Len(t) : t[l].role # "user"
    BY <2>1, <2>2 DEF LastAt, UserAt
  <2>4. Len(t) \in Nat /\ i \in 1..Len(t) /\ j \in 1..Len(t)
    BY <1>3, <2>1, <2>2
  <2> HIDE DEF t, q
  <2>5. ~(i < j) /\ ~(j < i)
    <3>1. /\ i < j => j \in (i + 1)..Len(t)
          /\ j < i => i \in (j + 1)..Len(t)
      BY <2>4
    <3> QED
      BY <2>3, <3>1
  <2> QED
    BY <2>3, <2>4, <2>5
<1> QED BY <1>2, <1>4

LEMMA StreamAdvances ==
    ASSUME NEW x \in Streams, NEW t \in Translators, NEW kids \in SUBSET Kid
    PROVE  [x EXCEPT !.translator = t, !.kids = kids] \in Streams
BY DEF Streams

(* Frames of an open run are read.                                         *)
FrameRead(r, chat, t, kids, k) ==
    /\ stream' = [stream EXCEPT ![r].translator = t, ![r].kids = kids]
    /\ chats' = [chats EXCEPT ![stream[r].chat] = chat]
    /\ kernel' = [kernel EXCEPT ![r] = k]
    /\ UNCHANGED <<queued, unsubRef, typed>>

(* The composer of its chat is locked until the verdict.                   *)
LocksUntilVerdict(chat, t, k) ==
    IF k \in VerdictOut THEN t.terminalSeen /\ chat.status \notin Locking
    ELSE chat.status \in Locking

LEMMA ReadOn ==
    ASSUME StoreInv, NEW r \in Prompt, stream[r].state = "open", kernel[r] \notin VerdictOut,
           NEW chat, InOrder(chat, r), Answered(chats[stream[r].chat].turns, chat.turns, r),
           NEW t \in Translators, NEW kids \in SUBSET Kid, kids \subseteq Range(t.stack),
           NEW k \in {"working", "refused"} \cup VerdictOut,
           LocksUntilVerdict(chat, t, k), FrameRead(r, chat, t, kids, k)
    PROVE  StoreInv' /\ TurnsKept
<1> DEFINE c == stream[r].chat
<1>1. ChatTypes /\ c \in ChatId /\ OpenRun(r) /\ queued[c] = None
  BY NothingBehindARun DEF StoreInv, OpenInv, OpenRun
<1>2. /\ \A d \in ChatId : chats'[d] = IF d = c THEN chat ELSE chats[d]
      /\ \A q \in Prompt : /\ stream'[q].state = stream[q].state /\ stream'[q].chat = stream[q].chat
                           /\ q # r => stream'[q] = stream[q] /\ kernel'[q] = kernel[q]
      /\ stream'[r].translator = t /\ stream'[r].kids = kids /\ kernel'[r] = k
      /\ \A d \in ChatId : queued'[d] = queued[d]
      /\ typed' = typed /\ unsubRef' = unsubRef /\ FailedRuns' = FailedRuns
  BY <1>1 DEF ChatTypes, Streams, FailedRuns, FrameRead
<1>0. \A q \in Prompt : stream'[q].state = stream[q].state
  BY <1>2
<1>3. ChatTypes'
  <2>1. chat \in Chats
    BY DEF InOrder
  <2>2. k \in Progress
    BY DEF Progress, VerdictOut
  <2>3. [stream[r] EXCEPT !.translator = t, !.kids = kids] \in Streams
    <3>1. stream[r] \in Streams
      BY <1>1 DEF ChatTypes
    <3> QED BY <3>1, StreamAdvances
  <2>4. stream' = [stream EXCEPT ![r] = [stream[r] EXCEPT !.translator = t, !.kids = kids]]
    BY <1>1 DEF ChatTypes, Streams, FrameRead
  <2> QED BY <1>1, <2>1, <2>2, <2>3, <2>4 DEF ChatTypes, FrameRead
<1>4. /\ chat.turns \in Seq(Turns) /\ chats[c].turns \in Seq(Turns)
      /\ AnswersLast(chat.turns, r) /\ Told(chat.turns)
      /\ ~chat.known => chat.turns = <<>>
      /\ Answered(chats[c].turns, chat.turns, r)
  BY <1>1, ChatFacts DEF InOrder, Chats
<1>5. \A d \in ChatId :
        /\ \A i, p : UserAt(chats'[d].turns, i, p) <=> UserAt(chats[d].turns, i, p)
        /\ \A i, p : LastAt(chats'[d].turns, i, p) <=> LastAt(chats[d].turns, i, p)
        /\ \A p : AsksFor(chats'[d].turns, p) <=> AsksFor(chats[d].turns, p)
        /\ \A p : LastPrompt(chats'[d].turns, p) <=> LastPrompt(chats[d].turns, p)
        /\ \A f : \A i \in 1..Len(chats[d].turns) :
              FailedBefore(f, chats'[d].turns, i) <=> FailedBefore(f, chats[d].turns, i)
        /\ Once(chats[d].turns) => Once(chats'[d].turns)
  BY <1>2, <1>4, AnswersKeepPrompts
<1>6. \A d \in ChatId : Locked(d)' <=> IF d = c THEN chat.status \in Locking ELSE Locked(d)
  BY <1>2 DEF Locked
<1>7. SubscriptionInv'
  BY <1>0, <1>2 DEF StoreInv, SubscriptionInv
<1>8. FreshInv'
  <2> SUFFICES ASSUME NEW p \in Prompt
               PROVE  /\ p > typed => stream'[p].state = "unsent"
                                        /\ \A d \in ChatId : ~AsksFor(chats'[d].turns, p)
                      /\ stream'[p].state = "unsent" =>
                            \A d \in ChatId : \A i \in 1..Len(chats'[d].turns) :
                              chats'[d].turns[i].role = "assistant" => chats'[d].turns[i].run # p
    BY <1>2 DEF FreshInv
  <2>1. p > typed => stream'[p].state = "unsent" /\ \A d \in ChatId : ~AsksFor(chats'[d].turns, p)
    BY <1>2, <1>5 DEF StoreInv, FreshInv
  <2>2. ASSUME stream[p].state = "unsent", NEW d \in ChatId, NEW i \in 1..Len(chats'[d].turns),
               chats'[d].turns[i].role = "assistant"
        PROVE  chats'[d].turns[i].run # p
    <3>1. p # r /\ \A j \in 1..Len(chats[d].turns) :
                     chats[d].turns[j].role = "assistant" => chats[d].turns[j].run # p
      BY <2>2 DEF StoreInv, FreshInv
    <3>2. CASE d # c
      BY <3>1, <3>2, <2>2, <1>2
    <3>3. CASE d = c
      <4>1. Len(chats[c].turns) \in Nat /\ Len(chat.turns) \in Nat
        BY <1>4, LenProperties
      <4>2. /\ \A j \in 1..Len(chats[c].turns) : /\ chat.turns[j].role = chats[c].turns[j].role
                                                  /\ chat.turns[j].run = chats[c].turns[j].run
            /\ \A j \in (Len(chats[c].turns) + 1)..Len(chat.turns) : chat.turns[j].run = r
        BY <1>4 DEF Answered, Kept, SameTurn
      <4>3. chats'[d].turns = chat.turns
        BY <1>2, <3>3
      <4>4. CASE i \in 1..Len(chats[c].turns)
        BY <4>2, <4>3, <4>4, <3>1, <3>3, <2>2
      <4>5. CASE i \in (Len(chats[c].turns) + 1)..Len(chat.turns)
        BY <4>2, <4>3, <4>5, <3>1
      <4> QED BY <4>1, <4>3, <4>4, <4>5
    <3> QED BY <3>2, <3>3
  <2> QED BY <2>1, <2>2, <1>2
<1>9. PlaceInv'
  <2> SUFFICES ASSUME NEW p \in Prompt, NEW d \in ChatId, AsksFor(chats'[d].turns, p)
               PROVE  /\ \A e \in ChatId : AsksFor(chats'[e].turns, p) => e = d
                      /\ stream'[p].state = "open" => stream'[p].chat = d
    BY DEF PlaceInv
  <2>1. AsksFor(chats[d].turns, p)
    BY <1>5
  <2>2. /\ \A e \in ChatId : AsksFor(chats[e].turns, p) => e = d
        /\ stream[p].state = "open" => stream[p].chat = d
    BY <2>1 DEF StoreInv, PlaceInv
  <2> QED BY <2>2, <1>2, <1>5
<1>10. OpenInv'
  <2> SUFFICES ASSUME NEW q \in Prompt, stream'[q].state = "open"
               PROVE  OpenRun(q)'
    BY DEF OpenInv
  <2>1. q = r
    <3>1. stream[q].state = "open"
      BY <1>0
    <3> QED BY <3>1 DEF StoreInv, SubscriptionInv
  <2>2. AsksFor(chats'[c].turns, r) /\ AnswersLast(chats'[c].turns, r) /\ stream'[r].chat = c
    BY <1>1, <1>2, <1>4, <1>5 DEF OpenRun
  <2>3. LastPrompt(chats'[c].turns, r)
    BY <1>1, <1>5 DEF OpenRun
  <2>4. chats'[c].status = chat.status
    BY <1>1, <1>2
  <2>5. /\ stream'[r].kids \subseteq Range(stream'[r].translator.stack)
        /\ kernel'[r] \in {"posted", "working", "refused"} \cup VerdictOut
    BY <1>2
  <2>6. IF kernel'[r] \in VerdictOut
        THEN stream'[r].translator.terminalSeen /\ chats'[c].status \notin Locking
        ELSE chats'[c].status \in Locking
    BY <2>4, <1>2 DEF LocksUntilVerdict
  <2> HIDE DEF c
  <2> QED BY <2>1, <2>2, <2>3, <2>5, <2>6, <1>1 DEF OpenRun, Locked
<1>11. QueueInv'
  <2> SUFFICES ASSUME NEW d \in ChatId, queued'[d] # None
               PROVE  QueuedIn(d)'
    BY DEF QueueInv
  <2>1. d # c /\ QueuedIn(d) /\ queued[d] \in Prompt
    BY <1>1, <1>2 DEF StoreInv, QueueInv, ChatTypes
  <2>2. PICK i \in 1..Len(chats[d].turns) :
           /\ LastAt(chats[d].turns, i, queued[d])
           /\ Locked(d) \/ FailedBefore(FailedRuns, chats[d].turns, i)
    BY <2>1 DEF QueuedIn
  <2>3. chats'[d] = chats[d] /\ queued'[d] = queued[d]
    BY <2>1, <1>2
  <2>4. Locked(d)' <=> Locked(d)
    BY <2>1, <1>6
  <2>5. stream'[queued'[d]].state = "unsent"
    BY <2>1, <2>3, <1>0 DEF QueuedIn
  <2> QED BY <2>2, <2>3, <2>4, <2>5, <1>2 DEF QueuedIn
<1>12. LockInv'
  <2> SUFFICES ASSUME NEW d \in ChatId, Locked(d)'
               PROVE  UnlockIsDue(d)'
    BY DEF LockInv
  <2>1. CASE d = c
    BY <2>1, <1>1, <1>2, <1>5 DEF UnlockIsDue, OpenRun
  <2>2. CASE d # c
    <3>1. UnlockIsDue(d)
      BY <2>2, <1>6 DEF StoreInv, LockInv
    <3>2. kernel[r] # "denied"
      BY <1>1 DEF OpenRun
    <3> QED BY <3>1, <3>2, <1>2, <1>5 DEF UnlockIsDue
  <2> QED BY <2>1, <2>2
<1>13. PromptInv'
  <2> SUFFICES ASSUME NEW p \in Prompt, NEW d \in ChatId, NEW i \in 1..Len(chats'[d].turns),
                      UserAt(chats'[d].turns, i, p)
               PROVE  \/ stream'[p].state # "unsent" \/ queued'[d] = p
                      \/ FailedBefore(FailedRuns', chats'[d].turns, i)
    BY DEF PromptInv
  <2>1. UserAt(chats[d].turns, i, p)
    BY <1>5
  <2>2. i \in 1..Len(chats[d].turns)
    BY <2>1 DEF UserAt
  <2>3. \/ stream[p].state # "unsent" \/ queued[d] = p
        \/ FailedBefore(FailedRuns, chats[d].turns, i)
    BY <2>1, <2>2 DEF StoreInv, PromptInv
  <2>4. FailedRuns' = FailedRuns /\ queued'[d] = queued[d]
    BY <1>2
  <2>5. FailedBefore(FailedRuns, chats'[d].turns, i) <=> FailedBefore(FailedRuns, chats[d].turns, i)
    BY <2>2, <1>5
  <2> QED BY <2>3, <2>4, <2>5, <1>0
<1>14. TurnsInv'
  BY <1>2, <1>4, <1>5 DEF StoreInv, TurnsInv
<1>15. TurnsKept
  BY <1>1, <1>2, <1>4, KeptIsReflexive, ChatFacts DEF TurnsKept, Answered
<1> QED BY <1>3, <1>7, <1>8, <1>9, <1>10, <1>11, <1>12, <1>13, <1>14, <1>15 DEF StoreInv

(* The stream of a run is over.  That may unlock its chat; a prompt queued *)
(* there has it locked, or stood behind a lost stream.                     *)
LEMMA StreamEnds ==
    ASSUME StoreInv, NEW r \in Prompt, stream[r].state = "open",
           NEW chat, InOrder(chat, r), Answered(chats[stream[r].chat].turns, chat.turns, r),
           NEW st \in {"dropped", "failed", "ended"}, NEW k \in Progress,
           chat.status \in Locking =>
              queued[stream[r].chat] # None \/ k = "denied" \/ st = "dropped",
           queued[stream[r].chat] # None /\ st # "failed" =>
              chat.status = chats[stream[r].chat].status,
           stream' = Over(stream, r, st), unsubRef' = None,
           chats' = [chats EXCEPT ![stream[r].chat] = chat],
           kernel' = [kernel EXCEPT ![r] = k],
           UNCHANGED <<queued, typed>>
    PROVE  StoreInv' /\ TurnsKept
<1> DEFINE c == stream[r].chat
<1>1. ChatTypes /\ c \in ChatId /\ OpenRun(r) /\ r = unsubRef
  BY DEF StoreInv, OpenInv, OpenRun, SubscriptionInv
<1>2. /\ \A d \in ChatId : chats'[d] = IF d = c THEN chat ELSE chats[d]
      /\ \A q \in Prompt : q # r => stream'[q] = stream[q] /\ kernel'[q] = kernel[q]
      /\ stream'[r].state = st /\ kernel'[r] = k
      /\ \A d \in ChatId : queued'[d] = queued[d]
      /\ typed' = typed /\ unsubRef' = None
  BY <1>1 DEF ChatTypes, Over, Reading
<1>3. FailedRuns \subseteq FailedRuns' /\ (st = "failed" => r \in FailedRuns')
  BY <1>2 DEF FailedRuns
<1>4. \A q \in Prompt : (stream'[q].state = "unsent" <=> stream[q].state = "unsent")
                          /\ stream'[q].state # "open"
  BY <1>1, <1>2 DEF StoreInv, SubscriptionInv
<1>5. ChatTypes'
  <2>1. chat \in Chats
    BY DEF InOrder
  <2>2. NewTranslator \in Translators
    <3>1. <<>> \in Seq(Kid)
      BY EmptySeq
    <3> QED BY <3>1 DEF NewTranslator, Translators
  <2>3. Reading(st, None) \in Streams
    BY <2>2 DEF Reading, Streams, States
  <2> QED BY <1>1, <2>1, <2>3 DEF ChatTypes, Over
<1>6. /\ chat.turns \in Seq(Turns) /\ chats[c].turns \in Seq(Turns)
      /\ Told(chat.turns)
      /\ ~chat.known => chat.turns = <<>>
      /\ Answered(chats[c].turns, chat.turns, r)
  BY <1>1, ChatFacts DEF InOrder, Chats
<1>7. \A d \in ChatId :
        /\ \A i, p : UserAt(chats'[d].turns, i, p) <=> UserAt(chats[d].turns, i, p)
        /\ \A i, p : LastAt(chats'[d].turns, i, p) <=> LastAt(chats[d].turns, i, p)
        /\ \A p : AsksFor(chats'[d].turns, p) <=> AsksFor(chats[d].turns, p)
        /\ \A p : LastPrompt(chats'[d].turns, p) <=> LastPrompt(chats[d].turns, p)
        /\ \A f : \A i \in 1..Len(chats[d].turns) :
              FailedBefore(f, chats'[d].turns, i) <=> FailedBefore(f, chats[d].turns, i)
        /\ Once(chats[d].turns) => Once(chats'[d].turns)
  BY <1>2, <1>6, AnswersKeepPrompts
<1>8. \A d \in ChatId : Locked(d)' <=> IF d = c THEN chat.status \in Locking ELSE Locked(d)
  <2> TAKE d \in ChatId
  <2>1. CASE d = c
    BY <2>1, <1>2 DEF Locked
  <2>2. CASE d # c
    BY <2>2, <1>2 DEF Locked
  <2> QED BY <2>1, <2>2
<1>9. SubscriptionInv'
  <2>1. None \notin Prompt
    BY ChatAssumption
  <2> QED BY <2>1, <1>2, <1>4 DEF SubscriptionInv
<1>10. FreshInv'
  <2> SUFFICES ASSUME NEW p \in Prompt
               PROVE  /\ p > typed => stream'[p].state = "unsent"
                                        /\ \A d \in ChatId : ~AsksFor(chats'[d].turns, p)
                      /\ stream'[p].state = "unsent" =>
                            \A d \in ChatId : \A i \in 1..Len(chats'[d].turns) :
                              chats'[d].turns[i].role = "assistant" => chats'[d].turns[i].run # p
    BY <1>2 DEF FreshInv
  <2>1. p > typed => stream'[p].state = "unsent" /\ \A d \in ChatId : ~AsksFor(chats'[d].turns, p)
    BY <1>4, <1>7 DEF StoreInv, FreshInv
  <2>2. ASSUME stream[p].state = "unsent", NEW d \in ChatId, NEW i \in 1..Len(chats'[d].turns),
               chats'[d].turns[i].role = "assistant"
        PROVE  chats'[d].turns[i].run # p
    <3>1. p # r /\ \A j \in 1..Len(chats[d].turns) :
                     chats[d].turns[j].role = "assistant" => chats[d].turns[j].run # p
      BY <2>2 DEF StoreInv, FreshInv
    <3>2. CASE d # c
      BY <3>1, <3>2, <2>2, <1>2
    <3>3. CASE d = c
      <4>1. Len(chats[c].turns) \in Nat /\ Len(chat.turns) \in Nat
        BY <1>6, LenProperties
      <4>2. /\ \A j \in 1..Len(chats[c].turns) : /\ chat.turns[j].role = chats[c].turns[j].role
                                                  /\ chat.turns[j].run = chats[c].turns[j].run
            /\ \A j \in (Len(chats[c].turns) + 1)..Len(chat.turns) : chat.turns[j].run = r
        BY <1>6 DEF Answered, Kept, SameTurn
      <4>3. chats'[d] = chat /\ i \in 1..Len(chat.turns) /\ chat.turns[i].role = "assistant"
        BY <3>3, <2>2, <1>2
      <4>4. i \in 1..Len(chats[c].turns) \/ i \in (Len(chats[c].turns) + 1)..Len(chat.turns)
        BY <4>1, <4>3
      <4> QED BY <4>2, <4>3, <4>4, <3>1, <3>3
    <3> QED BY <3>2, <3>3
  <2> QED BY <2>1, <2>2, <1>4
<1>11. PlaceInv'
  <2> SUFFICES ASSUME NEW p \in Prompt, NEW d \in ChatId, AsksFor(chats'[d].turns, p)
               PROVE  /\ \A e \in ChatId : AsksFor(chats'[e].turns, p) => e = d
                      /\ stream'[p].state = "open" => stream'[p].chat = d
    BY DEF PlaceInv
  <2>1. AsksFor(chats[d].turns, p)
    BY <1>7
  <2>2. \A e \in ChatId : AsksFor(chats[e].turns, p) => e = d
    BY <2>1 DEF StoreInv, PlaceInv
  <2> QED BY <2>2, <1>4, <1>7
<1>12. OpenInv'
  BY <1>4 DEF OpenInv
<1>13. QueueInv'
  <2> SUFFICES ASSUME NEW d \in ChatId, queued'[d] # None
               PROVE  QueuedIn(d)'
    BY DEF QueueInv
  <2>1. QueuedIn(d) /\ queued[d] \in Prompt /\ queued'[d] = queued[d]
    BY <1>1, <1>2 DEF StoreInv, QueueInv, ChatTypes
  <2>2. PICK i \in 1..Len(chats[d].turns) :
           /\ LastAt(chats[d].turns, i, queued[d])
           /\ Locked(d) \/ FailedBefore(FailedRuns, chats[d].turns, i)
    BY <2>1 DEF QueuedIn
  <2>3. stream'[queued'[d]].state = "unsent" /\ LastAt(chats'[d].turns, i, queued'[d])
        /\ i \in 1..Len(chats'[d].turns)
    <3>1. LastAt(chats'[d].turns, i, queued'[d])
      BY <2>1, <2>2, <1>7
    <3> QED BY <3>1, <2>1, <1>4 DEF QueuedIn, LastAt, UserAt
  <2>4. Locked(d)' \/ FailedBefore(FailedRuns', chats'[d].turns, i)
    <3>1. CASE FailedBefore(FailedRuns, chats[d].turns, i)
      <4>1. FailedBefore(FailedRuns', chats[d].turns, i)
        BY <3>1, <1>3, FailedBeforeGrows
      <4> QED BY <4>1, <1>7
    <3>2. CASE Locked(d) /\ (d # c \/ st # "failed")
      BY <3>2, <2>1, <1>2 DEF Locked
    <3>3. CASE d = c /\ st = "failed"
      <4>1. PICK j \in 1..Len(chats[c].turns) : UserAt(chats[c].turns, j, r)
        BY <1>1 DEF OpenRun, AsksFor
      <4>2. queued[d] # r
        BY <2>1 DEF QueuedIn
      <4>3. Len(chats[c].turns) \in Nat
        BY <1>6, LenProperties
      <4>4. j \in 1..(i - 1)
        <5>1. j # i /\ ~(j \in (i + 1)..Len(chats[c].turns))
          BY <4>1, <4>2, <2>2, <3>3 DEF LastAt, UserAt
        <5> QED BY <5>1, <4>3, <3>3
      <4>5. FailedBefore(FailedRuns', chats[d].turns, i)
        BY <4>1, <4>4, <3>3, <1>3 DEF FailedBefore, UserAt
      <4> QED BY <4>5, <1>7
    <3> QED BY <2>2, <3>1, <3>2, <3>3
  <2> QED BY <2>3, <2>4 DEF QueuedIn
<1>14. LockInv'
  <2> SUFFICES ASSUME NEW d \in ChatId, Locked(d)'
               PROVE  UnlockIsDue(d)'
    BY DEF LockInv
  <2>1. CASE d = c
    <3>1. queued[c] # None \/ (LastPrompt(chats[c].turns, r) /\ (k = "denied" \/ st = "dropped"))
      BY <2>1, <1>1, <1>8 DEF OpenRun
    <3> QED BY <3>1, <2>1, <1>2, <1>7 DEF UnlockIsDue
  <2>2. CASE d # c
    <3>1. UnlockIsDue(d)
      BY <2>2, <1>8 DEF StoreInv, LockInv
    <3>2. CASE queued[d] # None
      BY <3>2, <1>2 DEF UnlockIsDue
    <3>3. ASSUME NEW p \in Prompt, LastPrompt(chats[d].turns, p),
                 stream[p].state \in {"open", "dropped"} \/ kernel[p] = "denied"
          PROVE  UnlockIsDue(d)'
      <4>1. AsksFor(chats[d].turns, p) /\ AsksFor(chats[c].turns, r)
        BY <3>3, <1>1 DEF LastPrompt, LastAt, AsksFor, OpenRun
      <4>2. p # r
        BY <4>1, <2>2, <1>1 DEF StoreInv, PlaceInv
      <4> QED BY <4>2, <3>3, <1>2, <1>7 DEF UnlockIsDue
    <3> QED BY <3>1, <3>2, <3>3 DEF UnlockIsDue
  <2> QED BY <2>1, <2>2
<1>15. PromptInv'
  <2> SUFFICES ASSUME NEW p \in Prompt, NEW d \in ChatId, NEW i \in 1..Len(chats'[d].turns),
                      UserAt(chats'[d].turns, i, p)
               PROVE  \/ stream'[p].state # "unsent" \/ queued'[d] = p
                      \/ FailedBefore(FailedRuns', chats'[d].turns, i)
    BY DEF PromptInv
  <2>1. UserAt(chats[d].turns, i, p)
    BY <1>7
  <2>2. i \in 1..Len(chats[d].turns)
    BY <2>1 DEF UserAt
  <2>3. \/ stream[p].state # "unsent" \/ queued[d] = p
        \/ FailedBefore(FailedRuns, chats[d].turns, i)
    BY <2>1, <2>2 DEF StoreInv, PromptInv
  <2>4. FailedBefore(FailedRuns, chats[d].turns, i) => FailedBefore(FailedRuns', chats[d].turns, i)
    BY <1>3, FailedBeforeGrows
  <2>5. queued'[d] = queued[d] /\ (stream'[p].state = "unsent" <=> stream[p].state = "unsent")
    BY <1>2, <1>4
  <2> QED BY <2>2, <2>3, <2>4, <2>5, <1>7
<1>16. TurnsInv'
  BY <1>2, <1>6, <1>7 DEF StoreInv, TurnsInv
<1>17. TurnsKept
  BY <1>1, <1>2, <1>6, KeptIsReflexive, ChatFacts DEF TurnsKept, Answered
<1> QED BY <1>5, <1>9, <1>10, <1>11, <1>12, <1>13, <1>14, <1>15, <1>16, <1>17 DEF StoreInv

LEMMA LocksAfter ==
    ASSUME ChatTypes, NEW c \in ChatId, NEW chat, chats' = [chats EXCEPT ![c] = chat]
    PROVE  /\ \A d \in ChatId : chats'[d] = IF d = c THEN chat ELSE chats[d]
           /\ \A d \in ChatId : d # c => (Locked(d)' <=> Locked(d))
BY DEF ChatTypes, Locked

(* What SendPrompt does to the streams: the one before is dropped, if any. *)
LEMMA StreamsAfterSend ==
    ASSUME ChatTypes, SubscriptionInv, NEW c \in ChatId, NEW s \in ChatId, NEW p \in Prompt,
           stream[p].state = "unsent", SendPrompt(c, s, p)
    PROVE  /\ stream' \in [Prompt -> Streams] /\ kernel' \in [Prompt -> Progress]
           /\ unsubRef' = p
           /\ stream'[p] = Reading("open", c) /\ kernel'[p] = "posted"
           /\ \A q \in Prompt : q # p =>
                 /\ kernel'[q] = kernel[q]
                 /\ stream[q].state # "open" => stream'[q] = stream[q]
                 /\ stream[q].state = "open" => stream'[q].state = "dropped"
           /\ FailedRuns' = FailedRuns
<1>1. stream \in [Prompt -> Streams] /\ kernel \in [Prompt -> Progress] /\ None \notin Prompt
  BY ChatAssumption DEF ChatTypes
<1>2. NewTranslator \in Translators
  <2>1. <<>> \in Seq(Kid)
    BY EmptySeq
  <2> QED BY <2>1 DEF NewTranslator, Translators
<1> DEFINE mid == Unsubscribed(stream)
<1>3. /\ mid \in [Prompt -> Streams]
      /\ \A q \in Prompt : IF stream[q].state = "open" THEN mid[q].state = "dropped"
                           ELSE mid[q] = stream[q]
  <2>1. CASE unsubRef = None
    BY <2>1, <1>1 DEF SubscriptionInv, Unsubscribed
  <2>2. CASE unsubRef # None
    <3>1. unsubRef \in Prompt
      BY <2>2 DEF ChatTypes
    <3>2. Reading("dropped", None) \in Streams
      BY <1>1, <1>2, <3>1 DEF Reading, Streams, States
    <3>3. mid = [stream EXCEPT ![unsubRef] = Reading("dropped", None)]
      BY <2>2 DEF Unsubscribed, Over
    <3> HIDE DEF mid
    <3> QED BY <1>1, <3>1, <3>2, <3>3 DEF SubscriptionInv, Reading
  <2> QED BY <2>1, <2>2
<1>4. Reading("open", c) \in Streams
  BY <1>2 DEF Reading, Streams, States
<1>5. /\ unsubRef' = p /\ stream' = [mid EXCEPT ![p] = Reading("open", c)]
      /\ kernel' = [kernel EXCEPT ![p] = "posted"]
  BY DEF SendPrompt
<1> HIDE DEF mid
<1>6. stream' \in [Prompt -> Streams] /\ kernel' \in [Prompt -> Progress]
  BY <1>1, <1>3, <1>4, <1>5 DEF Progress
<1>7. stream'[p] = Reading("open", c) /\ kernel'[p] = "posted"
  BY <1>1, <1>3, <1>5
<1>8. \A q \in Prompt : q # p =>
         /\ kernel'[q] = kernel[q]
         /\ stream[q].state # "open" => stream'[q] = stream[q]
         /\ stream[q].state = "open" => stream'[q].state = "dropped"
  BY <1>1, <1>3, <1>5
<1>9. \A q \in Prompt : stream'[q].state = "failed" <=> stream[q].state = "failed"
  BY <1>7, <1>8 DEF Reading
<1>10. FailedRuns' = FailedRuns
  BY <1>9 DEF FailedRuns
<1> QED BY <1>5, <1>6, <1>7, <1>8, <1>10

(* A prompt is sent to its chat, where it is the last one.                 *)
LEMMA SendKeepsInv ==
    ASSUME StoreInv, NEW c \in ChatId, NEW s \in ChatId, NEW p \in Prompt,
           stream[p].state = "unsent", SendPrompt(c, s, p),
           NEW chat \in Chats, chat.status = "submitted", chat.known,
           chats' = [chats EXCEPT ![c] = chat],
           LastPrompt(chat.turns, p), Told(chat.turns), Once(chat.turns),
           Kept(chats[c].turns, chat.turns),
           \A q : AsksFor(chat.turns, q) <=> AsksFor(chats[c].turns, q) \/ q = p,
           \A i \in 1..Len(chat.turns) : \A q : UserAt(chat.turns, i, q) =>
              UserAt(chats[c].turns, i, q) \/ q = p,
           \A i \in 1..Len(chats[c].turns) : FailedBefore(FailedRuns, chats[c].turns, i) =>
              FailedBefore(FailedRuns, chat.turns, i),
           \A i \in 1..Len(chat.turns) : chat.turns[i].role = "assistant" =>
              i \in 1..Len(chats[c].turns) /\ chats[c].turns[i] = chat.turns[i],
           \A d \in ChatId : d # c => ~AsksFor(chats[d].turns, p),
           queued' \in [ChatId -> Prompt \cup {None}], queued'[c] = None,
           \A d \in ChatId : d # c => queued'[d] = queued[d],
           queued[c] \in {None, p},
           typed' \in Nat, typed <= typed', p <= typed'
    PROVE  StoreInv' /\ TurnsKept
<1>1. ChatTypes /\ SubscriptionInv /\ None \notin Prompt
  BY ChatAssumption DEF StoreInv
<1>2. /\ stream' \in [Prompt -> Streams] /\ kernel' \in [Prompt -> Progress]
      /\ unsubRef' = p
      /\ stream'[p] = Reading("open", c) /\ kernel'[p] = "posted"
      /\ \A q \in Prompt : q # p =>
            /\ kernel'[q] = kernel[q]
            /\ stream[q].state # "open" => stream'[q] = stream[q]
            /\ stream[q].state = "open" => stream'[q].state = "dropped"
      /\ FailedRuns' = FailedRuns
  BY <1>1, StreamsAfterSend
<1>3. /\ \A d \in ChatId : chats'[d] = IF d = c THEN chat ELSE chats[d]
      /\ \A d \in ChatId : d # c => (Locked(d)' <=> Locked(d))
  BY <1>1, LocksAfter
<1>4. /\ stream'[p].state = "open" /\ stream'[p].chat = c /\ stream'[p].kids = {}
      /\ \A q \in Prompt : q # p => stream'[q].state # "open"
      /\ \A q \in Prompt : stream'[q].state = "unsent" => q # p /\ stream[q].state = "unsent"
  BY <1>2 DEF Reading
<1>5. ChatTypes'
  BY <1>1, <1>2 DEF ChatTypes
<1>6. SubscriptionInv'
  BY <1>2, <1>4 DEF SubscriptionInv
<1>7. \A d \in ChatId : \A q : AsksFor(chats'[d].turns, q) <=> AsksFor(chats[d].turns, q) \/ (d = c /\ q = p)
  BY <1>3
<1>8. FreshInv'
  <2> SUFFICES ASSUME NEW q \in Prompt
               PROVE  /\ q > typed' => stream'[q].state = "unsent"
                                         /\ \A d \in ChatId : ~AsksFor(chats'[d].turns, q)
                      /\ stream'[q].state = "unsent" =>
                            \A d \in ChatId : \A i \in 1..Len(chats'[d].turns) :
                              chats'[d].turns[i].role = "assistant" => chats'[d].turns[i].run # q
    BY DEF FreshInv
  <2>1. ASSUME q > typed'
        PROVE  stream'[q].state = "unsent" /\ \A d \in ChatId : ~AsksFor(chats'[d].turns, q)
    <3>1. q # p /\ q > typed
      BY <2>1, <1>1, ChatAssumption DEF ChatTypes, Prompt
    <3>2. stream[q].state = "unsent" /\ \A d \in ChatId : ~AsksFor(chats[d].turns, q)
      BY <3>1 DEF StoreInv, FreshInv
    <3> QED BY <3>1, <3>2, <1>2, <1>7
  <2>2. ASSUME stream'[q].state = "unsent", NEW d \in ChatId, NEW i \in 1..Len(chats'[d].turns),
               chats'[d].turns[i].role = "assistant"
        PROVE  chats'[d].turns[i].run # q
    <3>1. \A j \in 1..Len(chats[d].turns) :
             chats[d].turns[j].role = "assistant" => chats[d].turns[j].run # q
      BY <2>2, <1>4 DEF StoreInv, FreshInv
    <3>2. CASE d # c
      BY <3>1, <3>2, <2>2, <1>3
    <3>3. CASE d = c
      BY <3>1, <3>3, <2>2, <1>3
    <3> QED BY <3>2, <3>3
  <2> QED BY <2>1, <2>2
<1>9. PlaceInv'
  <2> SUFFICES ASSUME NEW q \in Prompt, NEW d \in ChatId, AsksFor(chats'[d].turns, q)
               PROVE  /\ \A e \in ChatId : AsksFor(chats'[e].turns, q) => e = d
                      /\ stream'[q].state = "open" => stream'[q].chat = d
    BY DEF PlaceInv
  <2>1. CASE q = p
    <3>1. d = c /\ \A e \in ChatId : AsksFor(chats'[e].turns, p) => e = c
      BY <2>1, <1>7
    <3> QED BY <3>1, <2>1, <1>4
  <2>2. CASE q # p
    <3>1. AsksFor(chats[d].turns, q)
      BY <2>2, <1>7
    <3>2. \A e \in ChatId : AsksFor(chats[e].turns, q) => e = d
      BY <3>1 DEF StoreInv, PlaceInv
    <3> QED BY <3>2, <2>2, <1>4, <1>7
  <2> QED BY <2>1, <2>2
<1>10. OpenInv'
  <2> SUFFICES OpenRun(p)'
    BY <1>4 DEF OpenInv
  <2>1. AnswersLast(chat.turns, p)
    <3>1. \A i \in 1..Len(chat.turns) : chat.turns[i].role = "assistant" => chat.turns[i].run # p
      BY DEF StoreInv, FreshInv
    <3> QED BY <3>1 DEF AnswersLast
  <2>2. AsksFor(chat.turns, p)
    OBVIOUS
  <2>3. chats'[c] = chat /\ chat.status \in Locking
    BY <1>3 DEF Locking
  <2> QED BY <2>1, <2>2, <2>3, <1>2, <1>4 DEF OpenRun, Locked, VerdictOut
<1>11. QueueInv'
  <2> SUFFICES ASSUME NEW d \in ChatId, queued'[d] # None
               PROVE  QueuedIn(d)'
    BY DEF QueueInv
  <2>1. d # c /\ queued'[d] = queued[d] /\ QueuedIn(d) /\ queued[d] \in Prompt
    BY <1>1 DEF StoreInv, QueueInv, ChatTypes
  <2>2. PICK i \in 1..Len(chats[d].turns) :
           /\ LastAt(chats[d].turns, i, queued[d])
           /\ Locked(d) \/ FailedBefore(FailedRuns, chats[d].turns, i)
    BY <2>1 DEF QueuedIn
  <2>3. AsksFor(chats[d].turns, queued[d])
    BY <2>2 DEF AsksFor, LastAt
  <2>4. stream'[queued'[d]].state = "unsent"
    BY <2>1, <2>3, <1>2 DEF QueuedIn
  <2>5. chats'[d] = chats[d] /\ (Locked(d)' <=> Locked(d))
    BY <2>1, <1>3
  <2> QED BY <2>1, <2>2, <2>4, <2>5, <1>2 DEF QueuedIn
<1>12. LockInv'
  <2> SUFFICES ASSUME NEW d \in ChatId, Locked(d)'
               PROVE  UnlockIsDue(d)'
    BY DEF LockInv
  <2>1. CASE d = c
    <3>1. LastPrompt(chats'[c].turns, p) /\ stream'[p].state \in {"open", "dropped"}
      BY <1>3, <1>4
    <3> QED BY <3>1, <2>1 DEF UnlockIsDue
  <2>2. CASE d # c
    <3>1. UnlockIsDue(d) /\ chats'[d] = chats[d] /\ queued'[d] = queued[d]
      BY <2>2, <1>3 DEF StoreInv, LockInv
    <3>2. ASSUME NEW q \in Prompt, LastPrompt(chats[d].turns, q),
                 stream[q].state \in {"open", "dropped"} \/ kernel[q] = "denied"
          PROVE  stream'[q].state \in {"open", "dropped"} \/ kernel'[q] = "denied"
      BY <3>2, <1>2, <1>4
    <3> QED BY <3>1, <3>2 DEF UnlockIsDue
  <2> QED BY <2>1, <2>2
<1>13. PromptInv'
  <2> SUFFICES ASSUME NEW q \in Prompt, NEW d \in ChatId, NEW i \in 1..Len(chats'[d].turns),
                      UserAt(chats'[d].turns, i, q)
               PROVE  \/ stream'[q].state # "unsent" \/ queued'[d] = q
                      \/ FailedBefore(FailedRuns', chats'[d].turns, i)
    BY DEF PromptInv
  <2>1. CASE q = p
    BY <2>1, <1>4
  <2>2. CASE q # p
    <3>1. UserAt(chats[d].turns, i, q)
      BY <2>2, <1>3
    <3>2. i \in 1..Len(chats[d].turns)
      BY <3>1 DEF UserAt
    <3>3. \/ stream[q].state # "unsent" \/ queued[d] = q
          \/ FailedBefore(FailedRuns, chats[d].turns, i)
      BY <3>1, <3>2 DEF StoreInv, PromptInv
    <3>4. stream'[q].state = "unsent" => stream[q].state = "unsent"
      BY <1>4
    <3>5. queued[d] = q => queued'[d] = q
      BY <2>2, <1>1
    <3>6. FailedBefore(FailedRuns, chats[d].turns, i) => FailedBefore(FailedRuns', chats'[d].turns, i)
      BY <3>2, <1>2, <1>3
    <3> QED BY <3>3, <3>4, <3>5, <3>6
  <2> QED BY <2>1, <2>2
<1>14. TurnsInv'
  BY <1>3 DEF StoreInv, TurnsInv
<1>15. TurnsKept
  BY <1>1, <1>3, KeptIsReflexive, ChatFacts DEF TurnsKept
<1> QED BY <1>5, <1>6, <1>8, <1>9, <1>10, <1>11, <1>12, <1>13, <1>14, <1>15 DEF StoreInv

(* A prompt is queued in a chat whose composer is unlocked: what may still *)
(* be read there has its verdict.                                          *)
LEMMA QueueKeepsInv ==
    ASSUME StoreInv, NEW c \in ChatId, NEW p \in Prompt, p = typed + 1, ~Locked(c),
           chats' = [chats EXCEPT ![c] = WithPrompt(@, p)],
           queued' = [queued EXCEPT ![c] = p], typed' = p, NothingSent
    PROVE  StoreInv' /\ TurnsKept
<1> DEFINE old == chats[c].turns
           chat == WithPrompt(chats[c], p)
           new == Append(old, Turn("user", p))
<1>1. ChatTypes /\ None \notin Prompt /\ typed \in Nat /\ old \in Seq(Turns) /\ Len(old) \in Nat
  BY ChatAssumption, ChatFacts DEF StoreInv, ChatTypes
<1>2. stream[p].state = "unsent" /\ \A d \in ChatId : ~AsksFor(chats[d].turns, p)
  BY <1>1 DEF StoreInv, FreshInv
<1>3. /\ new \in Seq(Turns) /\ Len(new) = Len(old) + 1 /\ new # <<>>
      /\ Kept(old, new) /\ LastAt(new, Len(old) + 1, p)
      /\ \A i \in 1..Len(old) : new[i] = old[i]
      /\ \A q : AsksFor(new, q) <=> AsksFor(old, q) \/ q = p
      /\ \A f : \A i \in 1..Len(new) : FailedBefore(f, new, i) <=> FailedBefore(f, old, i)
      /\ \A i \in 1..Len(new) : new[i].role = "assistant" => i \in 1..Len(old)
      /\ \A r : AnswersLast(old, r) => AnswersLast(new, r)
      /\ Told(old) => Told(new)
      /\ Once(old) => Once(new)
      /\ \A i \in 1..Len(new) : \A q : UserAt(new, i, q) => UserAt(old, i, q) \/ q = p
  BY <1>1, <1>2, PromptComesLast, ZenonT(30)
<1>4. chat.turns = new /\ chat.status = "submitted" /\ chat.known
  BY DEF WithPrompt
<1>5. chat \in Chats
  BY <1>3 DEF WithPrompt, Chats, Statuses
<1> HIDE DEF chat, new
<1>6. /\ \A d \in ChatId : chats'[d] = IF d = c THEN chat ELSE chats[d]
      /\ \A d \in ChatId : d # c => (Locked(d)' <=> Locked(d))
      /\ Locked(c)'
  <2>1. chats' = [chats EXCEPT ![c] = chat]
    BY <1>1 DEF chat
  <2>2. /\ \A d \in ChatId : chats'[d] = IF d = c THEN chat ELSE chats[d]
        /\ \A d \in ChatId : d # c => (Locked(d)' <=> Locked(d))
    BY <1>1, <2>1, LocksAfter
  <2> QED BY <2>2, <1>4 DEF Locked, Locking
<1>7. /\ \A d \in ChatId : queued'[d] = IF d = c THEN p ELSE queued[d]
      /\ stream' = stream /\ kernel' = kernel /\ unsubRef' = unsubRef /\ typed' = p
      /\ FailedRuns' = FailedRuns
  BY <1>1 DEF ChatTypes, NothingSent, kernelVars, FailedRuns
<1>8. ChatTypes'
  <2>1. chats' \in [ChatId -> Chats]
    BY <1>1, <1>5 DEF ChatTypes, chat
  <2> QED BY <1>1, <1>7, <2>1 DEF ChatTypes
<1>9. SubscriptionInv'
  BY <1>7 DEF StoreInv, SubscriptionInv
<1>10. \A d \in ChatId : \A q : AsksFor(chats'[d].turns, q) <=> AsksFor(chats[d].turns, q) \/ (d = c /\ q = p)
  BY <1>3, <1>4, <1>6
<1>11. FreshInv'
  <2> SUFFICES ASSUME NEW q \in Prompt
               PROVE  /\ q > p => stream[q].state = "unsent"
                                    /\ \A d \in ChatId : ~AsksFor(chats'[d].turns, q)
                      /\ stream[q].state = "unsent" =>
                            \A d \in ChatId : \A i \in 1..Len(chats'[d].turns) :
                              chats'[d].turns[i].role = "assistant" => chats'[d].turns[i].run # q
    BY <1>7 DEF FreshInv
  <2>1. ASSUME q > p
        PROVE  stream[q].state = "unsent" /\ \A d \in ChatId : ~AsksFor(chats'[d].turns, q)
    <3>1. q # p /\ q > typed
      BY <2>1, <1>1, ChatAssumption DEF Prompt
    <3> QED BY <3>1, <1>10 DEF StoreInv, FreshInv
  <2>2. ASSUME stream[q].state = "unsent", NEW d \in ChatId, NEW i \in 1..Len(chats'[d].turns),
               chats'[d].turns[i].role = "assistant"
        PROVE  chats'[d].turns[i].run # q
    <3>1. \A j \in 1..Len(chats[d].turns) :
             chats[d].turns[j].role = "assistant" => chats[d].turns[j].run # q
      BY <2>2 DEF StoreInv, FreshInv
    <3>2. CASE d # c
      BY <3>1, <3>2, <2>2, <1>6
    <3>3. CASE d = c
      <4>1. chats'[d].turns = new
        BY <3>3, <1>4, <1>6
      <4>2. i \in 1..Len(old) /\ new[i] = old[i]
        BY <4>1, <2>2, <1>3
      <4> QED BY <4>1, <4>2, <3>1, <3>3, <2>2
    <3> QED BY <3>2, <3>3
  <2> QED BY <2>1, <2>2
<1>12. PlaceInv'
  <2> SUFFICES ASSUME NEW q \in Prompt, NEW d \in ChatId, AsksFor(chats'[d].turns, q)
               PROVE  /\ \A e \in ChatId : AsksFor(chats'[e].turns, q) => e = d
                      /\ stream[q].state = "open" => stream[q].chat = d
    BY <1>7 DEF PlaceInv
  <2>1. CASE q = p
    BY <2>1, <1>2, <1>10
  <2>2. CASE q # p
    <3>1. AsksFor(chats[d].turns, q)
      BY <2>2, <1>10
    <3>2. /\ \A e \in ChatId : AsksFor(chats[e].turns, q) => e = d
          /\ stream[q].state = "open" => stream[q].chat = d
      BY <3>1 DEF StoreInv, PlaceInv
    <3> QED BY <3>2, <2>2, <1>10
  <2> QED BY <2>1, <2>2
<1>13. OpenInv'
  <2> SUFFICES ASSUME NEW r \in Prompt, stream[r].state = "open"
               PROVE  OpenRun(r)'
    BY <1>7 DEF OpenInv
  <2> DEFINE d == stream[r].chat
  <2>1. OpenRun(r) /\ d \in ChatId
    BY DEF StoreInv, OpenInv, OpenRun
  <2>2. CASE d # c
    <3>1. chats'[d] = chats[d] /\ queued'[d] = queued[d] /\ (Locked(d)' <=> Locked(d))
      BY <2>1, <2>2, <1>6, <1>7
    <3> QED BY <2>1, <3>1, <1>7 DEF OpenRun, Locked
  <2>3. CASE d = c
    <3>1. kernel[r] \in VerdictOut /\ stream[r].translator.terminalSeen
      BY <2>1, <2>3 DEF OpenRun
    <3>2. chats'[c].turns = new /\ queued'[c] # None
      BY <1>1, <1>4, <1>6, <1>7
    <3>3. AsksFor(new, r) /\ AnswersLast(new, r) /\ stream[r].kids \subseteq Range(stream[r].translator.stack)
      BY <2>1, <2>3, <1>3 DEF OpenRun
    <3> QED BY <2>1, <2>3, <3>1, <3>2, <3>3, <1>7 DEF OpenRun
  <2> QED BY <2>2, <2>3
<1>14. QueueInv'
  <2> SUFFICES ASSUME NEW d \in ChatId, queued'[d] # None
               PROVE  QueuedIn(d)'
    BY DEF QueueInv
  <2>1. CASE d = c
    <3>1. LastAt(chats'[c].turns, Len(old) + 1, p) /\ Len(old) + 1 \in 1..Len(chats'[c].turns)
      BY <1>1, <1>3, <1>4, <1>6
    <3> QED BY <2>1, <3>1, <1>2, <1>6, <1>7 DEF QueuedIn
  <2>2. CASE d # c
    <3>1. queued'[d] = queued[d] /\ QueuedIn(d) /\ chats'[d] = chats[d] /\ (Locked(d)' <=> Locked(d))
      BY <2>2, <1>6, <1>7 DEF StoreInv, QueueInv
    <3> QED BY <3>1, <1>7 DEF QueuedIn
  <2> QED BY <2>1, <2>2
<1>15. LockInv'
  <2> SUFFICES ASSUME NEW d \in ChatId, Locked(d)'
               PROVE  UnlockIsDue(d)'
    BY DEF LockInv
  <2>1. CASE d = c
    BY <2>1, <1>1, <1>7 DEF UnlockIsDue
  <2>2. CASE d # c
    <3>1. UnlockIsDue(d) /\ chats'[d] = chats[d] /\ queued'[d] = queued[d]
      BY <2>2, <1>6, <1>7 DEF StoreInv, LockInv
    <3> QED BY <3>1, <1>7 DEF UnlockIsDue
  <2> QED BY <2>1, <2>2
<1>16. PromptInv'
  <2> SUFFICES ASSUME NEW q \in Prompt, NEW d \in ChatId, NEW i \in 1..Len(chats'[d].turns),
                      UserAt(chats'[d].turns, i, q)
               PROVE  \/ stream[q].state # "unsent" \/ queued'[d] = q
                      \/ FailedBefore(FailedRuns, chats'[d].turns, i)
    BY <1>7 DEF PromptInv
  <2>1. CASE d # c
    <3>1. chats'[d] = chats[d] /\ queued'[d] = queued[d]
      BY <2>1, <1>6, <1>7
    <3> QED BY <3>1 DEF StoreInv, PromptInv
  <2>2. CASE d = c /\ q = p
    BY <2>2, <1>7
  <2>3. CASE d = c /\ q # p
    <3>1. UserAt(old, i, q) /\ chats'[d].turns = new
      BY <2>3, <1>3, <1>4, <1>6
    <3>2. i \in 1..Len(old)
      BY <3>1 DEF UserAt
    <3>3. \/ stream[q].state # "unsent" \/ queued[c] = q
          \/ FailedBefore(FailedRuns, old, i)
      BY <3>1, <3>2 DEF StoreInv, PromptInv
    <3>4. ASSUME queued[c] = q
          PROVE  FailedBefore(FailedRuns, old, i)
      <4>1. QueuedIn(c)
        BY <3>4, <1>1 DEF StoreInv, QueueInv
      <4>2. PICK j \in 1..Len(old) : LastAt(old, j, q) /\ FailedBefore(FailedRuns, old, j)
        BY <4>1, <3>4 DEF QueuedIn
      <4>3. Once(old)
        BY DEF StoreInv, TurnsInv
      <4>4. i = j
        BY <4>2, <4>3, <3>1, <3>2 DEF Once, LastAt
      <4> QED BY <4>2, <4>4
    <3> QED BY <3>1, <3>3, <3>4, <1>3
  <2> QED BY <2>1, <2>2, <2>3
<1>17. TurnsInv'
  BY <1>3, <1>4, <1>6 DEF StoreInv, TurnsInv
<1>18. TurnsKept
  BY <1>1, <1>3, <1>4, <1>6, KeptIsReflexive, ChatFacts DEF TurnsKept
<1> QED BY <1>8, <1>9, <1>11, <1>12, <1>13, <1>14, <1>15, <1>16, <1>17, <1>18 DEF StoreInv

(* Steps of the pane that leave the store and the streams alone.           *)
LEMMA StoreUnchanged ==
    ASSUME StoreInv, UNCHANGED <<queued, chats, unsubRef, stream, kernel, typed>>
    PROVE  StoreInv' /\ TurnsKept
<1>1. ChatTypes' /\ SubscriptionInv' /\ FreshInv'
  BY DEF StoreInv, ChatTypes, SubscriptionInv, FreshInv
<1>2. \A d \in ChatId : Locked(d)' <=> Locked(d)
  BY DEF Locked
<1>3. FailedRuns' = FailedRuns
  BY DEF FailedRuns
<1>4. PlaceInv' /\ TurnsInv' /\ PromptInv'
  BY <1>3 DEF StoreInv, PlaceInv, TurnsInv, PromptInv
<1>5. OpenInv'
  BY DEF StoreInv, OpenInv, OpenRun, Locked
<1>6. QueueInv'
  BY <1>2, <1>3 DEF StoreInv, QueueInv, QueuedIn
<1>7. LockInv'
  BY <1>2 DEF StoreInv, LockInv, UnlockIsDue
<1>8. TurnsKept
  BY ChatFacts, KeptIsReflexive DEF StoreInv, TurnsKept
<1> QED BY <1>1, <1>4, <1>5, <1>6, <1>7, <1>8 DEF StoreInv

(* The kernel goes on with a run nobody reads, or with one whose verdict   *)
(* is out, which says nothing.                                             *)
LEMMA KernelGoesOn ==
    ASSUME StoreInv, NEW r \in Prompt, kernel[r] # "denied",
           stream[r].state # "open" \/ kernel[r] \in VerdictOut,
           NEW k \in Progress, kernel' = [kernel EXCEPT ![r] = k],
           stream[r].state = "open" => k \in VerdictOut,
           UNCHANGED <<queued, chats, unsubRef, stream, typed>>
    PROVE  StoreInv' /\ TurnsKept
<1>1. ChatTypes' /\ SubscriptionInv' /\ FreshInv'
  BY DEF StoreInv, ChatTypes, SubscriptionInv, FreshInv
<1>2. \A d \in ChatId : Locked(d)' <=> Locked(d)
  BY DEF Locked
<1>3. FailedRuns' = FailedRuns /\ \A q \in Prompt : q # r => kernel'[q] = kernel[q]
  BY DEF FailedRuns, StoreInv, ChatTypes
<1>4. PlaceInv' /\ TurnsInv' /\ PromptInv'
  BY <1>3 DEF StoreInv, PlaceInv, TurnsInv, PromptInv
<1>5. OpenInv'
  <2> SUFFICES ASSUME NEW q \in Prompt, stream[q].state = "open"
               PROVE  OpenRun(q)'
    BY DEF OpenInv
  <2>1. OpenRun(q)
    BY DEF StoreInv, OpenInv
  <2>2. \/ kernel'[q] = kernel[q]
        \/ kernel[q] \in VerdictOut /\ kernel'[q] \in VerdictOut
    BY <1>3 DEF StoreInv, ChatTypes
  <2> QED BY <2>1, <2>2 DEF OpenRun, Locked
<1>6. QueueInv'
  BY <1>2, <1>3 DEF StoreInv, QueueInv, QueuedIn
<1>7. LockInv'
  <2> SUFFICES ASSUME NEW d \in ChatId, Locked(d)
               PROVE  UnlockIsDue(d)'
    BY <1>2 DEF LockInv
  <2>1. UnlockIsDue(d)
    BY DEF StoreInv, LockInv
  <2>2. \A p \in Prompt : kernel[p] = "denied" => kernel'[p] = "denied"
    BY <1>3
  <2> QED BY <2>1, <2>2 DEF UnlockIsDue
<1>8. TurnsKept
  BY ChatFacts, KeptIsReflexive DEF StoreInv, TurnsKept
<1> QED BY <1>1, <1>4, <1>5, <1>6, <1>7, <1>8 DEF StoreInv

(* The subscription is dropped; chats that wait for nothing may unlock.    *)
LEMMA DropKeepsInv ==
    ASSUME StoreInv, stream' = Unsubscribed(stream), unsubRef' = None,
           UNCHANGED <<queued, kernel, typed>>,
           chats' \in [ChatId -> Chats],
           \A d \in ChatId :
              /\ chats'[d].turns = chats[d].turns /\ chats'[d].known = chats[d].known
              /\ \/ chats'[d].status = chats[d].status
                 \/ chats'[d].status = "ready" /\ queued[d] = None
    PROVE  StoreInv' /\ TurnsKept
<1>1. ChatTypes /\ None \notin Prompt /\ stream \in [Prompt -> Streams]
  BY ChatAssumption DEF StoreInv, ChatTypes
<1>2. /\ stream' \in [Prompt -> Streams]
      /\ \A q \in Prompt : IF stream[q].state = "open" THEN stream'[q].state = "dropped"
                           ELSE stream'[q] = stream[q]
  <2>1. CASE unsubRef = None
    BY <2>1, <1>1 DEF StoreInv, SubscriptionInv, Unsubscribed
  <2>2. CASE unsubRef # None
    <3>1. unsubRef \in Prompt
      BY <2>2, <1>1 DEF ChatTypes
    <3>2. NewTranslator \in Translators
      <4>1. <<>> \in Seq(Kid)
        BY EmptySeq
      <4> QED BY <4>1 DEF NewTranslator, Translators
    <3>3. Reading("dropped", None) \in Streams
      BY <1>1, <3>1, <3>2 DEF Reading, Streams, States
    <3>4. stream' = [stream EXCEPT ![unsubRef] = Reading("dropped", None)]
      BY <2>2 DEF Unsubscribed, Over
    <3> QED BY <1>1, <3>1, <3>3, <3>4 DEF StoreInv, SubscriptionInv, Reading
  <2> QED BY <2>1, <2>2
<1>3. /\ \A q \in Prompt : stream'[q].state # "open"
      /\ \A q \in Prompt : stream'[q].state = "unsent" <=> stream[q].state = "unsent"
      /\ \A q \in Prompt : stream'[q].state = "failed" <=> stream[q].state = "failed"
  BY <1>2
<1>4. FailedRuns' = FailedRuns
  BY <1>3 DEF FailedRuns
<1>5. \A d \in ChatId : (Locked(d)' => Locked(d)) /\ (queued[d] # None /\ Locked(d) => Locked(d)')
  BY DEF Locked, Locking
<1>6. ChatTypes' /\ SubscriptionInv' /\ OpenInv'
  BY <1>1, <1>2, <1>3 DEF ChatTypes, SubscriptionInv, OpenInv
<1>7. FreshInv' /\ PlaceInv' /\ TurnsInv'
  BY <1>3 DEF StoreInv, FreshInv, PlaceInv, TurnsInv
<1>8. QueueInv'
  <2> SUFFICES ASSUME NEW d \in ChatId, queued[d] # None
               PROVE  QueuedIn(d)'
    BY DEF QueueInv
  <2>1. QueuedIn(d) /\ queued[d] \in Prompt
    BY <1>1 DEF StoreInv, QueueInv, ChatTypes
  <2> QED BY <2>1, <1>3, <1>4, <1>5 DEF QueuedIn
<1>9. LockInv'
  <2> SUFFICES ASSUME NEW d \in ChatId, Locked(d)'
               PROVE  UnlockIsDue(d)'
    BY DEF LockInv
  <2>1. UnlockIsDue(d)
    BY <1>5 DEF StoreInv, LockInv
  <2>2. \A p \in Prompt : stream[p].state \in {"open", "dropped"} => stream'[p].state = "dropped"
    BY <1>2
  <2> QED BY <2>1, <2>2 DEF UnlockIsDue
<1>10. PromptInv'
  BY <1>3, <1>4 DEF StoreInv, PromptInv
<1>11. TurnsKept
  BY <1>1, ChatFacts, KeptIsReflexive DEF TurnsKept
<1> QED BY <1>6, <1>7, <1>8, <1>9, <1>10, <1>11 DEF StoreInv

LEMMA RowsHaveNoPrompt ==
    ASSUME NEW c, NEW lines \in {Rows(c), <<>>}
    PROVE  /\ lines \in Seq(Turns) /\ Told(lines) /\ Once(lines)
           /\ \A i \in 1..Len(lines) : lines[i].run = None
<1>1. CASE lines = <<>>
  <2>1. lines \in Seq(Turns) /\ Len(lines) = 0
    BY <1>1, EmptySeq
  <2> QED BY <2>1 DEF Told, Once, UserAt
<1>2. CASE lines # <<>>
  <2> DEFINE a == Turn("user", None)
             b == Turn("assistant", None)
  <2>1. a \in Turns /\ b \in Turns /\ a.run = None /\ b.run = None /\ a.shows = {} /\ b.shows = {}
    BY DEF Turn, Turns
  <2>2. lines = <<a, b>>
    BY <1>2 DEF Rows
  <2> HIDE DEF a, b
  <2>3. /\ lines \in Seq(Turns) /\ Len(lines) = 2
        /\ \A i \in 1..Len(lines) : lines[i].run = None /\ lines[i].shows = {}
    BY <2>1, <2>2
  <2>4. Told(lines)
    BY <2>3 DEF Told
  <2>5. Once(lines)
    BY <2>3, ChatAssumption DEF Once, UserAt
  <2> QED BY <2>3, <2>4, <2>5
<1> QED BY <1>1, <1>2

(* The durable transcript arrives in a chat that shows nothing yet.        *)
LEMMA HistoryKeepsInv ==
    ASSUME StoreInv, NEW c \in ChatId, chats[c].turns = <<>>, NEW lines \in {Rows(c), <<>>},
           chats' = [chats EXCEPT ![c] = [chats[c] EXCEPT !.known = TRUE, !.turns = lines]],
           UNCHANGED <<queued, unsubRef, stream, kernel, typed>>
    PROVE  StoreInv' /\ TurnsKept
<1> DEFINE chat == [chats[c] EXCEPT !.known = TRUE, !.turns = lines]
<1>1. /\ ChatTypes /\ None \notin Prompt /\ Len(chats[c].turns) = 0
      /\ lines \in Seq(Turns) /\ Told(lines) /\ Once(lines)
      /\ \A i \in 1..Len(lines) : lines[i].run = None
  <2>1. Len(chats[c].turns) = 0
    BY EmptySeq
  <2> QED BY <2>1, RowsHaveNoPrompt, ChatAssumption, ZenonT(30) DEF StoreInv
<1>2. chat \in Chats /\ chat.turns = lines /\ chat.status = chats[c].status /\ chat.known
  BY <1>1, ChatFacts DEF Chats
<1> HIDE DEF chat
<1>3. chats' = [chats EXCEPT ![c] = chat]
  BY DEF chat
<1>4. /\ \A d \in ChatId : chats'[d] = IF d = c THEN chat ELSE chats[d]
      /\ \A d \in ChatId : Locked(d)' <=> Locked(d)
      /\ FailedRuns' = FailedRuns
  <2>1. /\ \A d \in ChatId : chats'[d] = IF d = c THEN chat ELSE chats[d]
        /\ \A d \in ChatId : d # c => (Locked(d)' <=> Locked(d))
    BY <1>1, <1>3, LocksAfter
  <2>2. Locked(c)' <=> Locked(c)
    BY <1>2, <2>1 DEF Locked
  <2> QED BY <2>1, <2>2 DEF FailedRuns
<1>5. \A q \in Prompt : ~AsksFor(chats[c].turns, q) /\ ~AsksFor(chats'[c].turns, q)
  <2> TAKE q \in Prompt
  <2>1. ~AsksFor(chats[c].turns, q)
    BY <1>1 DEF AsksFor, UserAt
  <2>2. chats'[c].turns = lines
    BY <1>2, <1>4
  <2> QED BY <2>1, <2>2, <1>1 DEF AsksFor, UserAt
<1>6. ChatTypes'
  BY <1>1, <1>2, <1>3 DEF ChatTypes
<1>7. SubscriptionInv'
  BY DEF StoreInv, SubscriptionInv
<1>8. FreshInv'
  <2>1. \A d \in ChatId : \A q \in Prompt : AsksFor(chats'[d].turns, q) => AsksFor(chats[d].turns, q)
    BY <1>4, <1>5
  <2> SUFFICES ASSUME NEW p \in Prompt, stream[p].state = "unsent",
                      NEW d \in ChatId, NEW i \in 1..Len(chats'[d].turns),
                      chats'[d].turns[i].role = "assistant"
               PROVE  chats'[d].turns[i].run # p
    BY <2>1 DEF StoreInv, FreshInv
  <2>2. CASE d = c
    BY <2>2, <1>1, <1>2, <1>4
  <2>3. CASE d # c
    BY <2>3, <1>4 DEF StoreInv, FreshInv
  <2> QED BY <2>2, <2>3
<1>9. PlaceInv'
  <2>1. \A d \in ChatId : \A q \in Prompt : AsksFor(chats'[d].turns, q) => AsksFor(chats[d].turns, q)
    BY <1>4, <1>5
  <2> QED BY <2>1 DEF StoreInv, PlaceInv
<1>10. OpenInv'
  <2> SUFFICES ASSUME NEW r \in Prompt, stream[r].state = "open"
               PROVE  OpenRun(r)'
    BY DEF OpenInv
  <2> DEFINE d == stream[r].chat
  <2>1. OpenRun(r) /\ d \in ChatId /\ AsksFor(chats[d].turns, r)
    BY DEF StoreInv, OpenInv, OpenRun
  <2>2. d # c
    BY <2>1, <1>5
  <2>3. chats'[d] = chats[d] /\ (Locked(d)' <=> Locked(d))
    BY <2>1, <2>2, <1>4
  <2> QED BY <2>1, <2>3 DEF OpenRun, Locked
<1>11. QueueInv'
  <2> SUFFICES ASSUME NEW d \in ChatId, queued[d] # None
               PROVE  QueuedIn(d)'
    BY DEF QueueInv
  <2>1. QueuedIn(d)
    BY DEF StoreInv, QueueInv
  <2>2. d # c
    BY <2>1, <1>1 DEF QueuedIn
  <2> QED BY <2>1, <2>2, <1>4 DEF QueuedIn
<1>12. LockInv'
  <2> SUFFICES ASSUME NEW d \in ChatId, Locked(d)
               PROVE  UnlockIsDue(d)'
    BY <1>4 DEF LockInv
  <2>1. UnlockIsDue(d)
    BY DEF StoreInv, LockInv
  <2>2. CASE d = c
    <3>1. \A q \in Prompt : ~LastPrompt(chats[c].turns, q)
      BY <1>1 DEF LastPrompt
    <3> QED BY <2>1, <2>2, <3>1 DEF UnlockIsDue
  <2>3. CASE d # c
    BY <2>1, <2>3, <1>4 DEF UnlockIsDue
  <2> QED BY <2>2, <2>3
<1>13. PromptInv'
  <2> SUFFICES ASSUME NEW q \in Prompt, NEW d \in ChatId, NEW i \in 1..Len(chats'[d].turns),
                      UserAt(chats'[d].turns, i, q)
               PROVE  \/ stream[q].state # "unsent" \/ queued[d] = q
                      \/ FailedBefore(FailedRuns, chats'[d].turns, i)
    BY <1>4 DEF PromptInv
  <2>1. d # c
    BY <1>5 DEF AsksFor
  <2>2. chats'[d] = chats[d]
    BY <2>1, <1>4
  <2> QED BY <2>2 DEF StoreInv, PromptInv
<1>14. TurnsInv'
  BY <1>1, <1>2, <1>4 DEF StoreInv, TurnsInv
<1>15. TurnsKept
  <2>1. Kept(chats[c].turns, lines)
    BY <1>1, LenProperties DEF Kept
  <2> QED BY <2>1, <1>1, <1>2, <1>4, ChatFacts, KeptIsReflexive DEF TurnsKept
<1> QED BY <1>6, <1>7, <1>8, <1>9, <1>10, <1>11, <1>12, <1>13, <1>14, <1>15 DEF StoreInv

-----------------------------------------------------------------------------
(* A chat that nothing populated shows nothing, waits for nothing and has  *)
(* its composer unlocked.                                                  *)
LEMMA UnknownIsIdle ==
    ASSUME StoreInv, NEW c \in ChatId, ~chats[c].known
    PROVE  chats[c].turns = <<>> /\ queued[c] = None /\ ~Locked(c)
<1>1. chats[c].turns = <<>> /\ Len(chats[c].turns) = 0
  <2>1. chats[c].turns = <<>>
    BY DEF StoreInv, TurnsInv
  <2> QED BY <2>1, EmptySeq
<1>2. queued[c] = None
  BY <1>1 DEF StoreInv, QueueInv, QueuedIn
<1>3. ~Locked(c)
  BY <1>1, <1>2 DEF StoreInv, LockInv, UnlockIsDue, LastPrompt
<1> QED BY <1>1, <1>2, <1>3

(* The prompt queued in c is sent.                                         *)
LEMMA FlushKeepsInv ==
    ASSUME StoreInv, NEW c \in ChatId, NEW s \in ChatId \cup {None},
           Flush(queued, chats, c, s), typed' = typed
    PROVE  /\ StoreInv' /\ TurnsKept /\ (s # None => queued'[c] = None)
           /\ \A d \in ChatId : d # c => queued'[d] = queued[d]
<1>1. ChatTypes /\ typed \in Nat
  BY DEF StoreInv, ChatTypes
<1>2. CASE s # None /\ queued[c] # None
  <2> DEFINE p == queued[c]
             chat == [chats[c] EXCEPT !.status = "submitted"]
  <2>1. p \in Prompt /\ stream[p].state = "unsent" /\ LastPrompt(chats[c].turns, p)
    BY <1>1, <1>2 DEF StoreInv, QueueInv, QueuedIn, ChatTypes, LastPrompt
  <2>2. /\ SendPrompt(c, s, p) /\ chats' = [chats EXCEPT ![c] = chat]
        /\ queued' = [queued EXCEPT ![c] = None] /\ s \in ChatId
    BY <1>1, <1>2 DEF Flush, ChatTypes
  <2>3. AsksFor(chats[c].turns, p) /\ chats[c].turns # <<>>
    <3>1. AsksFor(chats[c].turns, p)
      BY <2>1 DEF LastPrompt, LastAt, AsksFor
    <3> QED BY <3>1, EmptySeq DEF AsksFor, UserAt
  <2>4. chat \in Chats /\ chat.turns = chats[c].turns /\ chat.status = "submitted" /\ chat.known
    <3>1. chats[c].known
      BY <2>3 DEF StoreInv, TurnsInv
    <3>2. chats[c] \in Chats
      BY <1>1, ChatFacts
    <3> QED BY <3>1, <3>2 DEF Chats, Statuses
  <2>5. \A d \in ChatId : d # c => ~AsksFor(chats[d].turns, p)
    BY <2>1, <2>3 DEF StoreInv, PlaceInv
  <2>6. p <= typed /\ p \in Nat
    BY <1>1, <2>1, <2>3, ChatAssumption DEF StoreInv, FreshInv, Prompt
  <2>7. Told(chats[c].turns) /\ Once(chats[c].turns) /\ Kept(chats[c].turns, chats[c].turns)
    BY <1>1, ChatFacts, KeptIsReflexive DEF StoreInv, TurnsInv
  <2>8. \A q : AsksFor(chats[c].turns, q) <=> AsksFor(chats[c].turns, q) \/ q = p
    BY <2>3
  <2>9. /\ queued' \in [ChatId -> Prompt \cup {None}] /\ queued'[c] = None
        /\ \A d \in ChatId : d # c => queued'[d] = queued[d]
    BY <1>1, <2>2 DEF ChatTypes
  <2> HIDE DEF chat, p
  <2>10. StoreInv' /\ TurnsKept
    <3>1. queued[c] \in {None, p}
      BY DEF p
    <3>2. typed' \in Nat /\ typed <= typed' /\ p <= typed'
      BY <1>1, <2>6
    <3> QED BY <2>1, <2>2, <2>4, <2>5, <2>7, <2>8, <2>9, <3>1, <3>2, SendKeepsInv
  <2> QED BY <2>9, <2>10
<1>3. CASE ~(s # None /\ queued[c] # None)
  <2>1. UNCHANGED <<queued, chats, unsubRef, stream, kernel, typed>>
    BY <1>3 DEF Flush, NothingSent, kernelVars
  <2> QED BY <1>3, <2>1, StoreUnchanged
<1> QED BY <1>2, <1>3

(* A prompt just typed is sent.                                            *)
LEMMA SubmittedKeepsInv ==
    ASSUME StoreInv, NEW c \in ChatId, NEW s \in ChatId, NEW p \in Prompt, p = typed + 1,
           SendPrompt(c, s, p), chats' = [chats EXCEPT ![c] = WithPrompt(@, p)],
           queued' = queued, queued[c] = None, typed' = p
    PROVE  StoreInv' /\ TurnsKept
<1> DEFINE old == chats[c].turns
           new == Append(old, Turn("user", p))
           chat == WithPrompt(chats[c], p)
<1>1. ChatTypes /\ typed \in Nat /\ old \in Seq(Turns)
  BY ChatFacts DEF StoreInv, ChatTypes
<1>2. stream[p].state = "unsent" /\ \A d \in ChatId : ~AsksFor(chats[d].turns, p)
  BY <1>1 DEF StoreInv, FreshInv
<1>3. /\ new \in Seq(Turns) /\ Len(new) = Len(old) + 1
      /\ Kept(old, new) /\ LastAt(new, Len(old) + 1, p)
      /\ \A i \in 1..Len(old) : new[i] = old[i]
      /\ \A q : AsksFor(new, q) <=> AsksFor(old, q) \/ q = p
      /\ \A f : \A i \in 1..Len(new) : FailedBefore(f, new, i) <=> FailedBefore(f, old, i)
      /\ \A i \in 1..Len(new) : new[i].role = "assistant" => i \in 1..Len(old)
      /\ Told(old) => Told(new)
      /\ Once(old) => Once(new)
      /\ \A i \in 1..Len(new) : \A q : UserAt(new, i, q) => UserAt(old, i, q) \/ q = p
  BY <1>1, <1>2, PromptComesLast, ZenonT(30)
<1>4. chat.turns = new /\ chat.status = "submitted" /\ chat.known
  BY DEF WithPrompt
<1>5. chat \in Chats
  BY <1>3 DEF WithPrompt, Chats, Statuses
<1>6. chats' = [chats EXCEPT ![c] = chat]
  BY <1>1 DEF ChatTypes
<1> HIDE DEF chat, new
<1>7. Told(old) /\ Once(old) /\ Len(old) \in Nat
  BY <1>1, LenProperties DEF StoreInv, TurnsInv
<1>8. LastPrompt(new, p)
  BY <1>3, <1>7 DEF LastPrompt
<1>9. \A i \in 1..Len(old) : i \in 1..Len(new)
  BY <1>3, <1>7
<1>10. p \in Nat /\ typed <= p
  BY <1>1
<1>11. /\ LastPrompt(chat.turns, p) /\ Told(chat.turns) /\ Once(chat.turns)
       /\ Kept(chats[c].turns, chat.turns)
       /\ \A q : AsksFor(chat.turns, q) <=> AsksFor(chats[c].turns, q) \/ q = p
       /\ \A i \in 1..Len(chat.turns) : \A q : UserAt(chat.turns, i, q) =>
             UserAt(chats[c].turns, i, q) \/ q = p
  BY <1>3, <1>4, <1>7, <1>8
<1>12. \A i \in 1..Len(chats[c].turns) : FailedBefore(FailedRuns, chats[c].turns, i) =>
          FailedBefore(FailedRuns, chat.turns, i)
  BY <1>3, <1>4, <1>9
<1>13. \A i \in 1..Len(chat.turns) : chat.turns[i].role = "assistant" =>
          i \in 1..Len(chats[c].turns) /\ chats[c].turns[i] = chat.turns[i]
  BY <1>3, <1>4
<1>14. /\ queued' \in [ChatId -> Prompt \cup {None}] /\ queued'[c] = None
       /\ \A d \in ChatId : d # c => queued'[d] = queued[d]
  BY <1>1 DEF ChatTypes
<1>15. /\ typed' \in Nat /\ typed <= typed' /\ p <= typed'
       /\ queued[c] \in {None, p}
       /\ \A d \in ChatId : d # c => ~AsksFor(chats[d].turns, p)
  BY <1>2, <1>10
<1> HIDE DEF old
<1> QED BY <1>2, <1>4, <1>5, <1>6, <1>11, <1>12, <1>13, <1>14, <1>15, SendKeepsInv, Zenon

(* What the reader of an open run knows of it.                             *)
LEMMA ReaderFacts ==
    ASSUME StoreInv, NEW r \in Prompt, stream[r].state = "open"
    PROVE  LET c == stream[r].chat t == stream[r].translator IN
           /\ ChatTypes /\ OpenRun(r) /\ c \in ChatId /\ InOrder(chats[c], r)
           /\ t \in Translators /\ stream[r].kids \in SUBSET Kid
           /\ Reader(r) = [translator |-> t, chat |-> chats[c]]
           /\ kernel[r] \notin VerdictOut => Locked(c) /\ queued[c] = None
<1>1. ChatTypes /\ OpenRun(r) /\ stream[r].chat \in ChatId
  BY DEF StoreInv, OpenInv, OpenRun
<1>2. stream[r] \in Streams /\ chats[stream[r].chat] \in Chats
  BY <1>1, ChatFacts DEF ChatTypes
<1>3. InOrder(chats[stream[r].chat], r)
  BY <1>1, <1>2 DEF StoreInv, TurnsInv, InOrder, OpenRun
<1>4. kernel[r] \notin VerdictOut => Locked(stream[r].chat) /\ queued[stream[r].chat] = None
  BY <1>1, NothingBehindARun DEF OpenRun
<1> QED BY <1>1, <1>2, <1>3, <1>4 DEF Streams, Reader

LEMMA AnsweredOnAndOn ==
    ASSUME NEW a \in Seq(Turns), NEW b \in Seq(Turns), NEW d \in Seq(Turns), NEW r,
           Answered(a, b, r), Answered(b, d, r)
    PROVE  Answered(a, d, r)
<1>1. Len(a) \in Nat /\ Len(b) \in Nat /\ Len(d) \in Nat
  BY LenProperties
<1>2. /\ Len(a) <= Len(b) /\ Len(b) <= Len(d)
      /\ \A i \in 1..Len(a) : a[i].role = b[i].role /\ a[i].run = b[i].run
      /\ \A i \in 1..Len(b) : b[i].role = d[i].role /\ b[i].run = d[i].run
      /\ \A i \in (Len(a) + 1)..Len(b) : b[i].role = "assistant" /\ b[i].run = r
      /\ \A i \in (Len(b) + 1)..Len(d) : d[i].role = "assistant" /\ d[i].run = r
  BY DEF Answered, Kept, SameTurn
<1>3. \A i \in 1..Len(a) : i \in 1..Len(b)
  BY <1>1, <1>2
<1>4. \A i \in (Len(a) + 1)..Len(d) : i \in (Len(a) + 1)..Len(b) \/ i \in (Len(b) + 1)..Len(d)
  BY <1>1
<1>5. \A i \in (Len(a) + 1)..Len(b) : i \in 1..Len(b)
  BY <1>1
<1>6. Kept(a, d)
  BY <1>1, <1>2, <1>3 DEF Kept, SameTurn
<1>7. ASSUME NEW i \in (Len(a) + 1)..Len(d)
      PROVE  d[i].role = "assistant" /\ d[i].run = r
  BY <1>2, <1>4, <1>5
<1> QED BY <1>6, <1>7 DEF Answered

(* Taking a frame: what comes out of the translator goes into the chat.    *)
LEMMA TakenInOrder ==
    ASSUME NEW r \in Prompt, NEW to, to.translator \in Translators, InOrder(to.chat, r),
           NEW wireFrame, EventOf(Translate(to.translator, wireFrame), r)
    PROVE  LET new == Take(to, wireFrame, r) IN
           /\ InOrder(new.chat, r) /\ Answered(to.chat.turns, new.chat.turns, r)
           /\ new.chat.status = StatusAfter(Translate(to.translator, wireFrame).type, to.chat.status)
           /\ new.translator = Advance(to.translator, wireFrame)
BY AppliedInOrder DEF Take

LEMMA CompletionIsEvent ==
    ASSUME NEW r, NEW cause
    PROVE  /\ EventOf(Completion(cause), r) /\ EventOf(NoEvent, r)
           /\ EventOf(Event("start", {}, TRUE), r) /\ EventOf(Event("progress", {}, TRUE), r)
           /\ Completion(cause).type = IF cause = "error" THEN "error" ELSE "complete"
           /\ NoEvent.type = "nothing"
           /\ Event("start", {}, TRUE).type = "start" /\ Event("progress", {}, TRUE).type = "progress"
BY DEF EventOf, EventTypes, Completion, NoEvent, Event

LEMMA StatusIs ==
    ASSUME NEW s
    PROVE  /\ StatusAfter("start", s) = "streaming" /\ StatusAfter("progress", s) = "streaming"
           /\ StatusAfter("complete", s) = "ready" /\ StatusAfter("error", s) = "error"
           /\ StatusAfter("nothing", s) = s /\ StatusAfter("message", s) = s
BY DEF StatusAfter

(* The frames but the ones somebody says, and the events they become.      *)
LEMMA StartBecomesEvent ==
    ASSUME NEW t \in Translators, NEW r \in Prompt
    PROVE  /\ EventOf(Translate(t, Started), r) /\ Translate(t, Started).type = "start"
           /\ Advance(t, Started) = t
BY Translated, CompletionIsEvent

LEMMA KidsBecomeEvents ==
    ASSUME NEW t \in Translators, NEW r \in Prompt, NEW kid
    PROVE  /\ EventOf(Translate(t, ChildStarted(kid)), r)
           /\ Translate(t, ChildStarted(kid)).type = "progress"
           /\ Advance(t, ChildStarted(kid)) = [t EXCEPT !.stack = Append(t.stack, kid)]
           /\ EventOf(Translate(t, ChildSettled(kid)), r)
           /\ Translate(t, ChildSettled(kid)).type = "progress"
           /\ Advance(t, ChildSettled(kid)) = [t EXCEPT !.stack = Without(t.stack, kid)]
<1>1. /\ Translate(t, ChildStarted(kid)) = Event("progress", {}, TRUE)
      /\ Translate(t, ChildSettled(kid)) = Event("progress", {}, TRUE)
      /\ Advance(t, ChildStarted(kid)) = [t EXCEPT !.stack = Append(t.stack, kid)]
      /\ Advance(t, ChildSettled(kid)) = [t EXCEPT !.stack = Without(t.stack, kid)]
  BY Translated
<1>2. EventOf(Event("progress", {}, TRUE), r) /\ Event("progress", {}, TRUE).type = "progress"
  BY CompletionIsEvent
<1> QED BY <1>1, <1>2

LEMMA VerdictsBecomeEvents ==
    ASSUME NEW t \in Translators, NEW r \in Prompt, NEW cause
    PROVE  /\ EventOf(Translate(t, Terminal(cause)), r)
           /\ Translate(t, Terminal(cause)).type = IF cause = "error" THEN "error" ELSE "complete"
           /\ Advance(t, Terminal(cause)) = [t EXCEPT !.terminalSeen = TRUE]
           /\ EventOf(Translate(t, SettledWith(cause)), r)
           /\ t.terminalSeen => Translate(t, SettledWith(cause)).type = "nothing"
<1>1. /\ Translate(t, Terminal(cause)) = Completion(cause)
      /\ Translate(t, SettledWith(cause)) = IF t.terminalSeen THEN NoEvent ELSE Completion(cause)
      /\ Advance(t, Terminal(cause)) = [t EXCEPT !.terminalSeen = TRUE]
  BY Translated
<1>2. /\ EventOf(Completion(cause), r) /\ EventOf(NoEvent, r) /\ NoEvent.type = "nothing"
      /\ Completion(cause).type = IF cause = "error" THEN "error" ELSE "complete"
  BY CompletionIsEvent
<1>3. EventOf(Translate(t, SettledWith(cause)), r)
  <2>1. CASE t.terminalSeen
    BY <2>1, <1>1, <1>2
  <2>2. CASE ~t.terminalSeen
    BY <2>2, <1>1, <1>2
  <2> QED BY <2>1, <2>2
<1> QED BY <1>1, <1>2, <1>3

-----------------------------------------------------------------------------
ChatInvariant == StoreInv /\ PaneInv

(* The kernel's steps leave the pane and its queue alone.                  *)
LEMMA PaneStays ==
    ASSUME PaneInv, UNCHANGED <<view, session, queued>>
    PROVE  PaneInv'
BY DEF PaneInv

LEMMA OpenChatKeeps ==
    ASSUME ChatInvariant, NEW c \in ChatId, OpenChat(c)
    PROVE  ChatInvariant' /\ TurnsKept
<1>1. /\ StoreInv /\ session \in ChatId \cup {None} /\ view' = c /\ session' = None
      /\ Flush(queued, chats, c, session) /\ typed' = typed
  BY DEF ChatInvariant, PaneInv, OpenChat, Show
<1>2. StoreInv' /\ TurnsKept
  BY <1>1, FlushKeepsInv
<1>3. PaneInv'
  BY <1>1 DEF PaneInv
<1> QED BY <1>2, <1>3 DEF ChatInvariant

LEMMA SessionReadyKeeps ==
    ASSUME ChatInvariant, SessionReady
    PROVE  ChatInvariant' /\ TurnsKept
<1>1. /\ StoreInv /\ view \in ChatId /\ view # None /\ view' = view /\ session' = view
      /\ Flush(queued, chats, view, view) /\ typed' = typed
  BY DEF ChatInvariant, PaneInv, SessionReady
<1>2. StoreInv' /\ TurnsKept /\ queued'[view] = None
  BY <1>1, FlushKeepsInv
<1>3. PaneInv'
  BY <1>1, <1>2 DEF PaneInv
<1> QED BY <1>2, <1>3 DEF ChatInvariant

LEMMA SubmitKeeps ==
    ASSUME ChatInvariant, Submit
    PROVE  ChatInvariant' /\ TurnsKept
<1> DEFINE p == typed + 1
<1>1. /\ StoreInv /\ PaneInv /\ view \in ChatId /\ ~Locked(view) /\ p \in Prompt /\ typed' = p
      /\ chats' = [chats EXCEPT ![view] = WithPrompt(@, p)] /\ UNCHANGED <<view, session>>
  BY DEF ChatInvariant, PaneInv, Submit, viewVars
<1>2. CASE session # None /\ SendPrompt(view, session, p) /\ queued' = queued
  <2>1. session = view /\ queued[view] = None
    BY <1>1, <1>2 DEF PaneInv
  <2>2. StoreInv' /\ TurnsKept
    BY <1>1, <1>2, <2>1, SubmittedKeepsInv
  <2>3. PaneInv'
    BY <1>1, <1>2, PaneStays
  <2> QED BY <2>2, <2>3 DEF ChatInvariant
<1>3. CASE session = None /\ NothingSent /\ queued' = [queued EXCEPT ![view] = p]
  <2>1. StoreInv' /\ TurnsKept
    BY <1>1, <1>3, QueueKeepsInv
  <2>2. PaneInv'
    BY <1>1, <1>3 DEF PaneInv
  <2> QED BY <2>1, <2>2 DEF ChatInvariant
<1> QED BY <1>2, <1>3 DEF Submit

LEMMA SubmitToNewKeeps ==
    ASSUME ChatInvariant, NEW c \in ChatId, SubmitToNew(c)
    PROVE  ChatInvariant' /\ TurnsKept
<1> DEFINE p == typed + 1
           all == [chats EXCEPT ![c] = WithPrompt(@, p)]
           queue == [queued EXCEPT ![c] = p]
<1>1. /\ StoreInv /\ PaneInv /\ ChatTypes /\ session \in ChatId \cup {None}
      /\ p \in Prompt /\ None \notin Prompt /\ typed' = p /\ ~chats[c].known
      /\ view' = c /\ session' = None /\ Flush(queue, all, c, session)
  BY ChatAssumption DEF ChatInvariant, StoreInv, PaneInv, SubmitToNew, Show
<1>2. queued[c] = None /\ ~Locked(c)
  BY <1>1, UnknownIsIdle
<1>3. PaneInv'
  BY <1>1 DEF PaneInv
<1>4. queue[c] = p
  BY <1>1 DEF ChatTypes
<1>5. CASE session # None
  <2>1. /\ SendPrompt(c, session, p) /\ queued' = [queue EXCEPT ![c] = None]
        /\ chats' = [all EXCEPT ![c].status = "submitted"]
    BY <1>1, <1>4, <1>5 DEF Flush
  <2>2. queued' = queued
    BY <1>1, <1>2, <2>1 DEF ChatTypes
  <2>3. chats' = all
    <3> DEFINE chat == WithPrompt(chats[c], p)
    <3>1. chat.status = "submitted" /\ chat = [field \in DOMAIN chat |-> chat[field]]
      BY DEF WithPrompt
    <3> HIDE DEF chat
    <3>2. [chat EXCEPT !.status = "submitted"] = chat
      BY <3>1
    <3>3. all = [chats EXCEPT ![c] = chat]
      BY DEF chat
    <3> HIDE DEF all
    <3>4. [all EXCEPT ![c].status = "submitted"] = all
      BY <1>1, <3>2, <3>3 DEF ChatTypes
    <3> QED BY <2>1, <3>4
  <2>4. StoreInv' /\ TurnsKept
    BY <1>1, <1>2, <1>5, <2>1, <2>2, <2>3, SubmittedKeepsInv
  <2> QED BY <1>3, <2>4 DEF ChatInvariant
<1>6. CASE session = None
  <2>1. NothingSent /\ queued' = queue /\ chats' = all
    BY <1>1, <1>6 DEF Flush
  <2>2. StoreInv' /\ TurnsKept
    BY <1>1, <1>2, <2>1, QueueKeepsInv
  <2> QED BY <1>3, <2>2 DEF ChatInvariant
<1> QED BY <1>5, <1>6

LEMMA StopKeeps ==
    ASSUME ChatInvariant, Stop
    PROVE  ChatInvariant' /\ TurnsKept
<1>1. /\ StoreInv /\ PaneInv /\ ChatTypes /\ view \in ChatId
      /\ stream' = Unsubscribed(stream) /\ unsubRef' = None
      /\ UNCHANGED <<queued, kernel, typed>> /\ UNCHANGED <<view, session, queued>>
      /\ chats' = IF session = None THEN chats ELSE [chats EXCEPT ![view].status = "ready"]
  BY DEF ChatInvariant, StoreInv, PaneInv, Stop, viewVars, kernelVars
<1>2. session # None => queued[view] = None
  BY <1>1 DEF PaneInv
<1>3. chats' \in [ChatId -> Chats]
  <2>1. chats[view] \in Chats
    BY <1>1, ChatFacts
  <2>2. [chats[view] EXCEPT !.status = "ready"] \in Chats
    BY <2>1 DEF Chats, Statuses
  <2> QED BY <1>1, <2>2 DEF ChatTypes
<1>4. \A d \in ChatId :
        /\ chats'[d].turns = chats[d].turns /\ chats'[d].known = chats[d].known
        /\ \/ chats'[d].status = chats[d].status
           \/ chats'[d].status = "ready" /\ queued[d] = None
  <2> TAKE d \in ChatId
  <2>1. chats[d] \in Chats
    BY <1>1, ChatFacts
  <2> QED BY <1>1, <1>2, <2>1 DEF ChatTypes, Chats
<1>5. StoreInv' /\ TurnsKept
  BY <1>1, <1>3, <1>4, DropKeepsInv
<1> QED BY <1>1, <1>5, PaneStays DEF ChatInvariant

LEMMA SettingsKeeps ==
    ASSUME ChatInvariant, Settings
    PROVE  ChatInvariant' /\ TurnsKept
<1>1. /\ StoreInv /\ ChatTypes /\ view' = None /\ session' = None
      /\ stream' = Unsubscribed(stream) /\ unsubRef' = None
      /\ UNCHANGED <<queued, chats, kernel, typed>>
  BY DEF ChatInvariant, StoreInv, Settings, storeVars, kernelVars
<1>2. StoreInv' /\ TurnsKept
  BY <1>1, DropKeepsInv DEF ChatTypes
<1>3. PaneInv'
  BY <1>1 DEF PaneInv
<1> QED BY <1>2, <1>3 DEF ChatInvariant

LEMMA HistoryLoadsKeeps ==
    ASSUME ChatInvariant, NEW c \in ChatId, HistoryLoads(c)
    PROVE  ChatInvariant' /\ TurnsKept
<1>1. /\ StoreInv /\ PaneInv /\ ChatTypes
      /\ UNCHANGED <<view, session, queued>> /\ UNCHANGED <<queued, unsubRef, stream, kernel, typed>>
  BY DEF ChatInvariant, StoreInv, HistoryLoads, viewVars, kernelVars
<1>2. PICK lines \in {Rows(c), <<>>} : chats' = [chats EXCEPT ![c] = Hydrated(chats[c], lines)]
  BY DEF HistoryLoads
<1>3. CASE chats[c].turns = <<>>
  <2>1. Hydrated(chats[c], lines) = [chats[c] EXCEPT !.known = TRUE, !.turns = lines]
    BY <1>3 DEF Hydrated
  <2>2. StoreInv' /\ TurnsKept
    BY <1>1, <1>2, <1>3, <2>1, HistoryKeepsInv
  <2> QED BY <1>1, <2>2, PaneStays DEF ChatInvariant
<1>4. CASE chats[c].turns # <<>>
  <2>1. chats' = chats
    BY <1>1, <1>2, <1>4 DEF Hydrated, ChatTypes
  <2>2. StoreInv' /\ TurnsKept
    BY <1>1, <2>1, StoreUnchanged
  <2> QED BY <1>1, <2>2, PaneStays DEF ChatInvariant
<1> QED BY <1>3, <1>4

LEMMA GoHomeKeeps ==
    ASSUME ChatInvariant, GoHome
    PROVE  ChatInvariant' /\ TurnsKept
<1>1. /\ StoreInv /\ UNCHANGED <<queued, chats, unsubRef, stream, kernel, typed>>
      /\ view' = None /\ session' = None
  BY DEF ChatInvariant, GoHome, storeVars, kernelVars
<1>2. StoreInv' /\ TurnsKept
  BY <1>1, StoreUnchanged
<1>3. PaneInv'
  BY <1>1 DEF PaneInv
<1> QED BY <1>2, <1>3 DEF ChatInvariant

-----------------------------------------------------------------------------
AfterFrame(r, to, kids, k) ==
    /\ Receive(r, to, kids) /\ kernel' = [kernel EXCEPT ![r] = k]
    /\ UNCHANGED Browser

(* A step of run r reads a frame or, when nobody reads, moves the kernel.  *)
LEMMA FrameKeepsInv ==
    ASSUME ChatInvariant, NEW r \in Prompt, stream[r].state = "open", kernel[r] \notin VerdictOut,
           NEW to, to.translator \in Translators, InOrder(to.chat, r),
           Answered(chats[stream[r].chat].turns, to.chat.turns, r),
           NEW kids \in SUBSET Kid, kids \subseteq Range(to.translator.stack),
           NEW k \in {"working", "refused"} \cup VerdictOut,
           IF k \in VerdictOut THEN to.translator.terminalSeen /\ to.chat.status \notin Locking
           ELSE to.chat.status \in Locking,
           AfterFrame(r, to, kids, k)
    PROVE  ChatInvariant' /\ TurnsKept
<1>1. FrameRead(r, to.chat, to.translator, kids, k) /\ UNCHANGED <<view, session, queued>>
  BY DEF AfterFrame, Receive, FrameRead, Browser, viewVars
<1>2. LocksUntilVerdict(to.chat, to.translator, k)
  BY DEF LocksUntilVerdict
<1>3. StoreInv' /\ TurnsKept
  BY <1>1, <1>2, ReadOn DEF ChatInvariant
<1> QED BY <1>1, <1>3, PaneStays DEF ChatInvariant

LEMMA UnreadKeepsInv ==
    ASSUME ChatInvariant, NEW r \in Prompt, kernel[r] # "denied",
           stream[r].state # "open" \/ kernel[r] \in VerdictOut,
           NEW k \in Progress, kernel' = [kernel EXCEPT ![r] = k],
           stream[r].state = "open" => k \in VerdictOut,
           UNCHANGED <<stream, chats, Browser>>
    PROVE  ChatInvariant' /\ TurnsKept
<1>1. StoreInv' /\ TurnsKept
  BY KernelGoesOn DEF ChatInvariant, Browser, viewVars
<1>2. PaneInv'
  BY PaneStays DEF ChatInvariant, Browser, viewVars
<1> QED BY <1>1, <1>2 DEF ChatInvariant

LEMMA AdmitKeeps ==
    ASSUME ChatInvariant, NEW r \in Prompt, Admit(r)
    PROVE  ChatInvariant' /\ TurnsKept
<1>1. kernel[r] = "posted" /\ kernel' = [kernel EXCEPT ![r] = "working"] /\ UNCHANGED Browser
  BY DEF Admit, Kernel!Admit, Kernel!Moves
<1>2. CASE stream[r].state = "open"
  <2> DEFINE t == stream[r].translator
             to == Take(Reader(r), Started, r)
  <2>1. /\ InOrder(chats[stream[r].chat], r) /\ t \in Translators
        /\ stream[r].kids \in SUBSET Kid /\ stream[r].kids \subseteq Range(t.stack)
        /\ Reader(r).translator = t /\ Reader(r).chat = chats[stream[r].chat]
    BY <1>2, ReaderFacts DEF ChatInvariant, OpenRun
  <2>2. /\ EventOf(Translate(t, Started), r) /\ Translate(t, Started).type = "start"
        /\ Advance(t, Started) = t
    BY <2>1, StartBecomesEvent
  <2>3. /\ InOrder(to.chat, r) /\ Answered(chats[stream[r].chat].turns, to.chat.turns, r)
        /\ to.chat.status = StatusAfter("start", Reader(r).chat.status) /\ to.translator = t
    BY <2>1, <2>2, TakenInOrder
  <2>5. to.chat.status = "streaming"
    BY <2>3, StatusIs
  <2>4. AfterFrame(r, to, stream[r].kids, "working")
    BY <1>1, <1>2 DEF Admit, Deliver, AfterFrame
  <2> HIDE DEF t, to
  <2> QED BY <1>1, <1>2, <2>1, <2>3, <2>4, <2>5, FrameKeepsInv DEF Locking, VerdictOut
<1>3. CASE stream[r].state # "open"
  <2>1. UNCHANGED <<stream, chats, Browser>>
    BY <1>1, <1>3 DEF Admit, Deliver
  <2> QED BY <1>1, <1>3, <2>1, UnreadKeepsInv DEF Progress
<1> QED BY <1>2, <1>3

(* The terminal of a refusal unlocks, and the start behind it locks again. *)
LEMMA RefuseKeeps ==
    ASSUME ChatInvariant, NEW r \in Prompt, Refuse(r)
    PROVE  ChatInvariant' /\ TurnsKept
<1>1. kernel[r] = "posted" /\ kernel' = [kernel EXCEPT ![r] = "refused"] /\ UNCHANGED Browser
  BY DEF Refuse, Kernel!Refuse, Kernel!Moves
<1>2. CASE stream[r].state = "open"
  <2> DEFINE t == stream[r].translator
             old == chats[stream[r].chat]
             mid == Take(Reader(r), Terminal("error"), r)
             to == Take(mid, Started, r)
  <2>1. /\ InOrder(old, r) /\ t \in Translators
        /\ Reader(r).translator = t /\ Reader(r).chat = old
    BY <1>2, ReaderFacts DEF ChatInvariant, OpenRun
  <2>2. /\ Advance(t, Terminal("error")) = [t EXCEPT !.terminalSeen = TRUE]
        /\ EventOf(Translate(t, Terminal("error")), r)
    BY <2>1, VerdictsBecomeEvents
  <2>3. /\ InOrder(mid.chat, r) /\ Answered(old.turns, mid.chat.turns, r)
        /\ mid.translator = [t EXCEPT !.terminalSeen = TRUE]
    BY <2>1, <2>2, TakenInOrder
  <2>4. mid.translator \in Translators
    BY <2>1, <2>3 DEF Translators
  <2>5. /\ Advance(mid.translator, Started) = mid.translator
        /\ EventOf(Translate(mid.translator, Started), r)
        /\ Translate(mid.translator, Started).type = "start"
    <3> HIDE DEF mid
    <3> QED BY <2>4, StartBecomesEvent
  <2> HIDE DEF mid
  <2>6. /\ InOrder(to.chat, r) /\ Answered(mid.chat.turns, to.chat.turns, r)
        /\ to.chat.status = StatusAfter("start", mid.chat.status)
        /\ to.translator = mid.translator
    BY <2>3, <2>4, <2>5, TakenInOrder
  <2>11. to.chat.status = "streaming"
    BY <2>6, StatusIs
  <2>7. AfterFrame(r, to, {}, "refused")
    BY <1>1, <1>2 DEF Refuse, AfterFrame, mid
  <2> HIDE DEF t, to, old
  <2>8. old.turns \in Seq(Turns) /\ mid.chat.turns \in Seq(Turns) /\ to.chat.turns \in Seq(Turns)
    BY <2>1, <2>3, <2>6 DEF InOrder, Chats
  <2>9. Answered(old.turns, to.chat.turns, r)
    BY <2>3, <2>6, <2>8, AnsweredOnAndOn
  <2>10. Answered(chats[stream[r].chat].turns, to.chat.turns, r)
    BY <2>9 DEF old
  <2> QED BY <1>1, <1>2, <2>4, <2>6, <2>7, <2>10, <2>11, FrameKeepsInv DEF Locking, VerdictOut
<1>3. CASE stream[r].state # "open"
  <2>1. UNCHANGED <<stream, chats, Browser>>
    BY <1>1, <1>3 DEF Refuse
  <2> QED BY <1>1, <1>3, <2>1, UnreadKeepsInv DEF Progress
<1> QED BY <1>2, <1>3

LEMMA WorkingStays ==
    ASSUME ChatInvariant, NEW r \in Prompt, kernel[r] = "working", UNCHANGED kernelVars
    PROVE  kernel' = [kernel EXCEPT ![r] = "working"]
BY DEF ChatInvariant, StoreInv, ChatTypes, kernelVars

LEMMA SpeakKeeps ==
    ASSUME ChatInvariant, NEW r \in Prompt, NEW kind \in {"stream_chunk", "final_text", "tool"},
           NEW who \in {None} \cup Kid, Speak(r, kind, who)
    PROVE  ChatInvariant' /\ TurnsKept
<1> DEFINE t == stream[r].translator
           wireFrame == Says(kind, <<r, who>>)
           to == Take(Reader(r), wireFrame, r)
<1>1. /\ kernel[r] = "working" /\ stream[r].state = "open" /\ who \in {None} \cup stream[r].kids
      /\ kernel' = [kernel EXCEPT ![r] = "working"] /\ UNCHANGED Browser
      /\ Receive(r, to, stream[r].kids)
  BY WorkingStays DEF Speak, Live, Deliver
<1>2. /\ InOrder(chats[stream[r].chat], r) /\ t \in Translators
      /\ stream[r].kids \in SUBSET Kid /\ stream[r].kids \subseteq Range(t.stack)
      /\ Reader(r).translator = t /\ Reader(r).chat = chats[stream[r].chat]
      /\ chats[stream[r].chat].status \in Locking
  BY <1>1, ReaderFacts DEF ChatInvariant, OpenRun, Locked, VerdictOut
<1>3. /\ EventOf(Translate(t, wireFrame), r) /\ Translate(t, wireFrame).type \in {"nothing", "progress", "message"}
      /\ Advance(t, wireFrame) = t
  BY <1>1, <1>2, SpokenTranslated
<1> HIDE DEF wireFrame
<1>4. /\ InOrder(to.chat, r) /\ Answered(chats[stream[r].chat].turns, to.chat.turns, r)
      /\ to.chat.status = StatusAfter(Translate(t, wireFrame).type, chats[stream[r].chat].status)
      /\ to.translator = t
  BY <1>2, <1>3, TakenInOrder
<1>5. to.chat.status \in Locking
  BY <1>2, <1>3, <1>4 DEF StatusAfter, Locking
<1>6. AfterFrame(r, to, stream[r].kids, "working")
  BY <1>1 DEF AfterFrame
<1> HIDE DEF t, to
<1> QED BY <1>1, <1>2, <1>4, <1>5, <1>6, FrameKeepsInv DEF VerdictOut

(* The children on the translator's stack are the ones that are open.      *)
LEMMA OpenKidKeeps ==
    ASSUME ChatInvariant, NEW r \in Prompt, NEW kid \in Kid, OpenKid(r, kid)
    PROVE  ChatInvariant' /\ TurnsKept
<1> DEFINE t == stream[r].translator
           wireFrame == ChildStarted(kid)
           to == Take(Reader(r), wireFrame, r)
<1>1. /\ kernel[r] = "working" /\ stream[r].state = "open"
      /\ kernel' = [kernel EXCEPT ![r] = "working"] /\ UNCHANGED Browser
      /\ Receive(r, to, stream[r].kids \cup {kid})
  BY WorkingStays DEF OpenKid, Live
<1>2. /\ InOrder(chats[stream[r].chat], r) /\ t \in Translators
      /\ stream[r].kids \in SUBSET Kid /\ stream[r].kids \subseteq Range(t.stack)
      /\ Reader(r).translator = t /\ Reader(r).chat = chats[stream[r].chat]
  BY <1>1, ReaderFacts DEF ChatInvariant, OpenRun
<1>3. /\ EventOf(Translate(t, wireFrame), r) /\ Translate(t, wireFrame).type = "progress"
      /\ Advance(t, wireFrame) = [t EXCEPT !.stack = Append(t.stack, kid)]
  <2> HIDE DEF t
  <2> QED BY <1>2, KidsBecomeEvents DEF wireFrame
<1> HIDE DEF wireFrame
<1>4. /\ InOrder(to.chat, r) /\ Answered(chats[stream[r].chat].turns, to.chat.turns, r)
      /\ to.chat.status = "streaming"
      /\ to.translator = [t EXCEPT !.stack = Append(t.stack, kid)]
  BY <1>2, <1>3, TakenInOrder DEF StatusAfter
<1>5. AfterFrame(r, to, stream[r].kids \cup {kid}, "working")
  BY <1>1 DEF AfterFrame
<1> HIDE DEF t, to
<1>6. t.stack \in Seq(Kid)
  BY <1>2 DEF Translators
<1>7. Append(t.stack, kid) \in Seq(Kid) /\ Range(t.stack) \cup {kid} \subseteq Range(Append(t.stack, kid))
  <2> DEFINE new == Append(t.stack, kid)
  <2>1. /\ new \in Seq(Kid) /\ Len(new) = Len(t.stack) + 1 /\ new[Len(t.stack) + 1] = kid
        /\ \A i \in 1..Len(t.stack) : new[i] = t.stack[i]
        /\ DOMAIN t.stack = 1..Len(t.stack) /\ DOMAIN new = 1..Len(new) /\ Len(t.stack) \in Nat
    BY <1>6, AppendProperties, LenProperties
  <2> HIDE DEF new
  <2>2. Len(t.stack) + 1 \in DOMAIN new /\ \A i \in DOMAIN t.stack : i \in DOMAIN new
    BY <2>1
  <2>3. Range(t.stack) \cup {kid} \subseteq Range(new)
    BY <2>1, <2>2 DEF Range
  <2> QED BY <2>1, <2>3 DEF new
<1>8. to.translator \in Translators /\ to.translator.stack = Append(t.stack, kid)
  BY <1>2, <1>4, <1>7 DEF Translators
<1>9. stream[r].kids \cup {kid} \in SUBSET Kid /\ stream[r].kids \cup {kid} \subseteq Range(to.translator.stack)
  BY <1>2, <1>7, <1>8
<1> QED BY <1>1, <1>4, <1>5, <1>8, <1>9, FrameKeepsInv DEF Locking, VerdictOut

LEMMA CloseKidKeeps ==
    ASSUME ChatInvariant, NEW r \in Prompt, NEW kid \in Kid, CloseKid(r, kid)
    PROVE  ChatInvariant' /\ TurnsKept
<1> DEFINE t == stream[r].translator
           wireFrame == ChildSettled(kid)
           to == Take(Reader(r), wireFrame, r)
<1>1. /\ kernel[r] = "working" /\ stream[r].state = "open"
      /\ kernel' = [kernel EXCEPT ![r] = "working"] /\ UNCHANGED Browser
      /\ Receive(r, to, stream[r].kids \ {kid})
  BY WorkingStays DEF CloseKid, Live
<1>2. /\ InOrder(chats[stream[r].chat], r) /\ t \in Translators
      /\ stream[r].kids \in SUBSET Kid /\ stream[r].kids \subseteq Range(t.stack)
      /\ Reader(r).translator = t /\ Reader(r).chat = chats[stream[r].chat]
  BY <1>1, ReaderFacts DEF ChatInvariant, OpenRun
<1>3. /\ EventOf(Translate(t, wireFrame), r) /\ Translate(t, wireFrame).type = "progress"
      /\ Advance(t, wireFrame) = [t EXCEPT !.stack = Without(t.stack, kid)]
  <2> HIDE DEF t
  <2> QED BY <1>2, KidsBecomeEvents DEF wireFrame
<1> HIDE DEF wireFrame
<1>4. /\ InOrder(to.chat, r) /\ Answered(chats[stream[r].chat].turns, to.chat.turns, r)
      /\ to.chat.status = "streaming"
      /\ to.translator = [t EXCEPT !.stack = Without(t.stack, kid)]
  BY <1>2, <1>3, TakenInOrder DEF StatusAfter
<1>5. AfterFrame(r, to, stream[r].kids \ {kid}, "working")
  BY <1>1 DEF AfterFrame
<1> HIDE DEF t, to
<1>6. Without(t.stack, kid) \in Seq(Kid) /\ Range(t.stack) \ {kid} \subseteq Range(Without(t.stack, kid))
  BY <1>2, WithoutKeepsOthers DEF Translators
<1>7. to.translator \in Translators /\ to.translator.stack = Without(t.stack, kid)
  BY <1>2, <1>4, <1>6 DEF Translators
<1>8. stream[r].kids \ {kid} \in SUBSET Kid /\ stream[r].kids \ {kid} \subseteq Range(to.translator.stack)
  BY <1>2, <1>6, <1>7
<1> QED BY <1>1, <1>4, <1>5, <1>7, <1>8, FrameKeepsInv DEF Locking, VerdictOut

(* The verdict, and with it the release when there was no workspace.       *)
LEMMA VerdictKeeps ==
    ASSUME ChatInvariant, NEW r \in Prompt, NEW cause \in {"done", "error"}, NEW k \in VerdictOut,
           kernel[r] = "working", kernel' = [kernel EXCEPT ![r] = k],
           Deliver(r, Terminal(cause)), UNCHANGED Browser
    PROVE  ChatInvariant' /\ TurnsKept
<1>1. kernel[r] \notin VerdictOut
  BY DEF VerdictOut
<1>2. CASE stream[r].state = "open"
  <2> DEFINE t == stream[r].translator
             wireFrame == Terminal(cause)
             to == Take(Reader(r), wireFrame, r)
  <2>1. /\ InOrder(chats[stream[r].chat], r) /\ t \in Translators
        /\ stream[r].kids \in SUBSET Kid /\ stream[r].kids \subseteq Range(t.stack)
        /\ Reader(r).translator = t /\ Reader(r).chat = chats[stream[r].chat]
    BY <1>2, ReaderFacts DEF ChatInvariant, OpenRun
  <2>2. /\ EventOf(Translate(t, wireFrame), r) /\ Translate(t, wireFrame).type \in {"error", "complete"}
        /\ Advance(t, wireFrame) = [t EXCEPT !.terminalSeen = TRUE]
    <3> HIDE DEF t
    <3> QED BY <2>1, VerdictsBecomeEvents DEF wireFrame
  <2>3. AfterFrame(r, to, stream[r].kids, k)
    BY <1>2 DEF Deliver, AfterFrame
  <2> HIDE DEF wireFrame
  <2>4. /\ InOrder(to.chat, r) /\ Answered(chats[stream[r].chat].turns, to.chat.turns, r)
        /\ to.chat.status \in {"error", "ready"}
        /\ to.translator = [t EXCEPT !.terminalSeen = TRUE]
    BY <2>1, <2>2, TakenInOrder DEF StatusAfter
  <2> HIDE DEF t, to
  <2>5. /\ to.translator \in Translators /\ to.translator.terminalSeen
        /\ to.translator.stack = t.stack
    BY <2>1, <2>4 DEF Translators
  <2> QED BY <1>1, <1>2, <2>1, <2>3, <2>4, <2>5, FrameKeepsInv DEF Locking
<1>3. CASE stream[r].state # "open"
  <2>1. UNCHANGED <<stream, chats, Browser>>
    BY <1>3 DEF Deliver
  <2> QED BY <1>1, <1>3, <2>1, UnreadKeepsInv DEF Progress, VerdictOut
<1> QED BY <1>2, <1>3

LEMMA ConcludeKeeps ==
    ASSUME ChatInvariant, NEW r \in Prompt, NEW cause \in {"done", "error"}, Conclude(r, cause)
    PROVE  ChatInvariant' /\ TurnsKept
BY VerdictKeeps DEF Conclude, Kernel!Conclude, Kernel!Moves, VerdictOut

LEMMA NoWorkspaceKeeps ==
    ASSUME ChatInvariant, NEW r \in Prompt, NoWorkspace(r)
    PROVE  ChatInvariant' /\ TurnsKept
BY VerdictKeeps DEF NoWorkspace, Kernel!Fail, Kernel!Moves, VerdictOut

LEMMA ReleaseKeeps ==
    ASSUME ChatInvariant, NEW r \in Prompt, Release(r)
    PROVE  ChatInvariant' /\ TurnsKept
BY UnreadKeepsInv DEF Release, Kernel!Release, Kernel!Moves, VerdictOut, Progress

(* After a verdict settled says nothing; a refused run leaves its chat as  *)
(* the start behind the terminal made it.                                  *)
LEMMA FinishRunKeeps ==
    ASSUME ChatInvariant, NEW r \in Prompt, FinishRun(r)
    PROVE  ChatInvariant' /\ TurnsKept
<1> DEFINE k == IF kernel[r] = "refused" THEN "denied" ELSE "finished"
<1>1. /\ kernel[r] \in {"released", "refused"} /\ kernel' = [kernel EXCEPT ![r] = k]
      /\ UNCHANGED <<queued, typed>> /\ UNCHANGED <<view, session, queued>>
      /\ k \in Progress /\ StoreInv
  BY DEF FinishRun, Kernel!Answer, Kernel!Moves, ChatInvariant, StoreInv, ChatTypes, viewVars, Progress
<1>2. CASE stream[r].state = "open"
  <2> DEFINE c == stream[r].chat
             t == stream[r].translator
             wireFrame == SettledWith("done")
             chat == Take(Reader(r), wireFrame, r).chat
  <2>1. /\ InOrder(chats[c], r) /\ t \in Translators /\ OpenRun(r)
        /\ Reader(r).translator = t /\ Reader(r).chat = chats[c]
        /\ kernel[r] \notin VerdictOut => queued[c] = None
    BY <1>1, <1>2, ReaderFacts
  <2>2. /\ EventOf(Translate(t, wireFrame), r)
        /\ t.terminalSeen => Translate(t, wireFrame).type = "nothing"
    <3> HIDE DEF t
    <3> QED BY <2>1, VerdictsBecomeEvents DEF wireFrame
  <2>3. stream' = Over(stream, r, "ended") /\ unsubRef' = None /\ chats' = [chats EXCEPT ![c] = chat]
    BY <1>2 DEF FinishRun, Ended
  <2>4. /\ InOrder(chat, r) /\ Answered(chats[c].turns, chat.turns, r)
        /\ chat.status = StatusAfter(Translate(t, wireFrame).type, chats[c].status)
    BY <2>1, <2>2, TakenInOrder
  <2>5. kernel[r] \in VerdictOut => chat.status = chats[c].status
    <3>1. kernel[r] \in VerdictOut => t.terminalSeen
      BY <2>1 DEF OpenRun
    <3> QED BY <2>2, <2>4, <3>1, StatusIs
  <2>6. chat.status \in Locking => queued[c] # None \/ k = "denied"
    BY <1>1, <2>1, <2>5 DEF OpenRun, Locked
  <2>7. queued[c] # None => chat.status = chats[c].status
    BY <1>1, <2>1, <2>5
  <2> HIDE DEF chat, k
  <2>8. StoreInv' /\ TurnsKept
    BY <1>1, <1>2, <2>3, <2>4, <2>6, <2>7, StreamEnds
  <2> QED BY <1>1, <2>8, PaneStays DEF ChatInvariant
<1>3. CASE stream[r].state # "open"
  <2>1. UNCHANGED <<stream, chats, Browser>>
    BY <1>1, <1>3 DEF FinishRun, Browser, viewVars
  <2> HIDE DEF k
  <2> QED BY <1>1, <1>3, <2>1, UnreadKeepsInv
<1> QED BY <1>2, <1>3

LEMMA BreakKeeps ==
    ASSUME ChatInvariant, NEW r \in Prompt, Break(r)
    PROVE  ChatInvariant' /\ TurnsKept
<1> DEFINE c == stream[r].chat
           chat == ApplyFrame(chats[c], Completion("error"), r)
<1>1. /\ StoreInv /\ stream[r].state = "open"
      /\ UNCHANGED <<queued, typed>> /\ UNCHANGED <<view, session, queued>>
      /\ kernel[r] \in Progress /\ kernel' = [kernel EXCEPT ![r] = kernel[r]]
  BY DEF Break, Lost, Ended, ChatInvariant, StoreInv, ChatTypes, viewVars, kernelVars
<1>2. InOrder(chats[c], r) /\ OpenRun(r)
  BY <1>1, ReaderFacts
<1>3. /\ InOrder(chat, r) /\ Answered(chats[c].turns, chat.turns, r)
      /\ chat.status = "error"
  <2>1. EventOf(Completion("error"), r) /\ Completion("error").type = "error"
    BY CompletionIsEvent
  <2>2. StatusAfter("error", chats[c].status) = "error"
    BY StatusIs
  <2> QED BY <1>2, <2>1, <2>2, AppliedInOrder
<1>4. CASE Lost(r)
  <2>1. /\ stream' = Over(stream, r, "failed") /\ unsubRef' = None
        /\ chats' = [chats EXCEPT ![c] = chat]
    BY <1>4 DEF Lost, Ended
  <2> HIDE DEF chat
  <2>2. StoreInv' /\ TurnsKept
    BY <1>1, <1>3, <2>1, StreamEnds DEF Locking
  <2> QED BY <1>1, <2>2, PaneStays DEF ChatInvariant
<1>5. CASE Ended(r, "dropped", chats[c])
  <2>1. /\ stream' = Over(stream, r, "dropped") /\ unsubRef' = None
        /\ chats' = [chats EXCEPT ![c] = chats[c]]
    BY <1>5 DEF Ended
  <2>2. Answered(chats[c].turns, chats[c].turns, r)
    <3>1. chats[c].turns \in Seq(Turns) /\ Len(chats[c].turns) \in Nat
      BY <1>1, <1>2, ChatFacts DEF StoreInv, OpenRun
    <3> QED BY <3>1, KeptIsReflexive DEF Answered
  <2>3. StoreInv' /\ TurnsKept
    BY <1>1, <1>2, <2>1, <2>2, StreamEnds
  <2> QED BY <1>1, <2>3, PaneStays DEF ChatInvariant
<1> QED BY <1>4, <1>5 DEF Break
-----------------------------------------------------------------------------
LEMMA ChatInitIsInOrder == ChatInit => ChatInvariant
<1> SUFFICES ASSUME ChatInit PROVE ChatInvariant
  OBVIOUS
<1>1. /\ view = None /\ session = None /\ unsubRef = None /\ typed = 0
      /\ \A c \in ChatId : queued[c] = None
      /\ \A c \in ChatId : chats[c].turns = <<>> /\ chats[c].status = "ready"
      /\ \A r \in Prompt : stream[r].state = "unsent"
  BY DEF ChatInit, Reading
<1>2. None \notin Prompt /\ Len(<<>>) = 0 /\ <<>> \in Seq(Turns)
  BY ChatAssumption, EmptySeq
<1>3. ChatTypes
  <2>1. chats \in [ChatId -> Chats]
    BY <1>2 DEF ChatInit, Chats, Statuses
  <2>2. NewTranslator \in Translators
    <3>1. <<>> \in Seq(Kid)
      BY EmptySeq
    <3> QED BY <3>1 DEF NewTranslator, Translators
  <2>3. stream \in [Prompt -> Streams]
    BY <2>2 DEF ChatInit, Reading, Streams, States
  <2> QED BY <1>1, <2>1, <2>3 DEF ChatTypes, ChatInit, Progress
<1>4. \A c \in ChatId : ~Locked(c)
  BY <1>1 DEF Locked, Locking
<1>5. \A c \in ChatId : Told(chats[c].turns) /\ Once(chats[c].turns)
  BY <1>1, <1>2 DEF Told, Once, UserAt
<1>6. \A c \in ChatId : \A p : ~AsksFor(chats[c].turns, p)
  BY <1>1, <1>2 DEF AsksFor, UserAt
<1>7. SubscriptionInv /\ OpenInv /\ QueueInv /\ LockInv /\ PlaceInv
  BY <1>1, <1>2, <1>4, <1>6 DEF SubscriptionInv, OpenInv, QueueInv, LockInv, PlaceInv
<1>8. FreshInv
  BY <1>1, <1>2, <1>6 DEF FreshInv
<1>9. PromptInv
  BY <1>1 DEF PromptInv
<1>10. TurnsInv
  BY <1>1, <1>5 DEF TurnsInv
<1>11. PaneInv
  BY <1>1 DEF PaneInv
<1> QED BY <1>3, <1>7, <1>8, <1>9, <1>10, <1>11 DEF ChatInvariant, StoreInv

(* Every step keeps the invariant, and every turn that was shown.          *)
LEMMA ChatStepKeeps == ChatInvariant /\ [ChatNext]_chatVars => ChatInvariant' /\ TurnsKept
<1> SUFFICES ASSUME ChatInvariant, [ChatNext]_chatVars
             PROVE  ChatInvariant' /\ TurnsKept
  OBVIOUS
<1>1. ASSUME NEW c \in ChatId, OpenChat(c) \/ SubmitToNew(c) \/ HistoryLoads(c)
      PROVE  ChatInvariant' /\ TurnsKept
  BY <1>1, OpenChatKeeps, SubmitToNewKeeps, HistoryLoadsKeeps
<1>2. CASE GoHome
  BY <1>2, GoHomeKeeps
<1>3. CASE SessionReady
  BY <1>3, SessionReadyKeeps
<1>4. CASE Submit
  BY <1>4, SubmitKeeps
<1>5. CASE Stop
  BY <1>5, StopKeeps
<1>6. CASE Settings
  BY <1>6, SettingsKeeps
<1>7. ASSUME NEW r \in Prompt, \/ Admit(r) \/ Refuse(r) \/ NoWorkspace(r) \/ Release(r)
                             \/ FinishRun(r) \/ Break(r)
      PROVE  ChatInvariant' /\ TurnsKept
  BY <1>7, AdmitKeeps, RefuseKeeps, NoWorkspaceKeeps, ReleaseKeeps, FinishRunKeeps, BreakKeeps
<1>8. ASSUME NEW r \in Prompt, NEW cause \in {"done", "error"}, Conclude(r, cause)
      PROVE  ChatInvariant' /\ TurnsKept
  BY <1>8, ConcludeKeeps
<1>9. ASSUME NEW r \in Prompt, NEW kind \in {"stream_chunk", "final_text", "tool"},
             NEW who \in {None} \cup Kid, Speak(r, kind, who)
      PROVE  ChatInvariant' /\ TurnsKept
  BY <1>9, SpeakKeeps
<1>10. ASSUME NEW r \in Prompt, NEW kid \in Kid, OpenKid(r, kid) \/ CloseKid(r, kid)
       PROVE  ChatInvariant' /\ TurnsKept
  BY <1>10, OpenKidKeeps, CloseKidKeeps
<1>11. CASE UNCHANGED chatVars
  <2>1. /\ UNCHANGED <<queued, chats, unsubRef, stream, kernel, typed>>
        /\ UNCHANGED <<view, session, queued>>
    BY <1>11 DEF chatVars, viewVars, storeVars, kernelVars
  <2>2. StoreInv' /\ TurnsKept
    BY <2>1, StoreUnchanged DEF ChatInvariant
  <2> QED BY <2>1, <2>2, PaneStays DEF ChatInvariant
<1> QED BY <1>1, <1>2, <1>3, <1>4, <1>5, <1>6, <1>7, <1>8, <1>9, <1>10, <1>11 DEF ChatNext

LEMMA ChatInvariantHolds == ChatSpec => []ChatInvariant
<1>1. ChatInvariant /\ [ChatNext]_chatVars => ChatInvariant'
  BY ChatStepKeeps
<1> QED BY <1>1, ChatInitIsInOrder, PTL DEF ChatSpec

(* The store holds chats, streams and kernel states of the right shapes,   *)
(* whatever frames arrive (useChat.ts, chatStore.ts, streamReducer.ts).    *)
THEOREM ChatIsTyped == ChatSpec => []ChatTypes
<1>1. ChatInvariant => ChatTypes
  BY DEF ChatInvariant, StoreInv
<1> QED BY <1>1, ChatInvariantHolds, PTL

(* A turn holds only what its own run's main agent said and did, whatever  *)
(* chat is open and however sub-runs nest (kernelTranslator.ts:117,        *)
(* streamReducer.ts).                                                      *)
THEOREM SaidWhereItBelongs == ChatSpec => []SaidWhereShown
<1>1. ChatInvariant => SaidWhereShown
  BY DEF ChatInvariant, StoreInv, TurnsInv, Told, SaidWhereShown
<1> QED BY <1>1, ChatInvariantHolds, PTL

(* No step takes back or reorders a turn of any chat (chatStore.ts,        *)
(* useChatHistory.ts).                                                     *)
THEOREM TranscriptsOnlyGrow == ChatSpec => ShownIsKept
<1>1. ChatInvariant /\ [ChatNext]_chatVars =>
        (chats' # chats => \A c \in ChatId :
          LET old == chats[c].turns new == chats'[c].turns IN
          /\ Len(old) <= Len(new)
          /\ \A i \in 1..Len(old) : SameTurn(old[i], new[i]))
  BY ChatStepKeeps DEF TurnsKept, Kept
<1> QED BY <1>1, ChatInvariantHolds, PTL DEF ChatSpec, ShownIsKept

(* A prompt that a chat shows was sent, waits in the chat's queue, or had  *)
(* a prompt before it whose stream broke off (useChat.ts:196).             *)
THEOREM PromptsAreNotSwallowed == ChatSpec => []QueuedOrSent
<1>1. ASSUME ChatInvariant PROVE QueuedOrSent
  <2> SUFFICES ASSUME NEW c \in ChatId, NEW i \in 1..Len(chats[c].turns),
                      chats[c].turns[i].role = "user", chats[c].turns[i].run # None
               PROVE  LET turns == chats[c].turns IN
                      \/ stream[turns[i].run].state # "unsent" \/ queued[c] = turns[i].run
                      \/ \E j \in 1..(i - 1) :
                             /\ turns[j].role = "user" /\ turns[j].run # None
                             /\ stream[turns[j].run].state = "failed"
    BY DEF QueuedOrSent, Settled
  <2> DEFINE turns == chats[c].turns
  <2>1. turns[i].run \in Prompt
    <3>1. turns \in Seq(Turns)
      BY <1>1, ChatFacts DEF ChatInvariant, StoreInv
    <3>2. turns[i] \in Turns
      BY <3>1, ElementOfSeq
    <3> QED BY <3>2 DEF Turns
  <2>2. UserAt(turns, i, turns[i].run)
    BY DEF UserAt
  <2>3. \/ stream[turns[i].run].state # "unsent" \/ queued[c] = turns[i].run
        \/ FailedBefore(FailedRuns, turns, i)
    BY <1>1, <2>1, <2>2 DEF ChatInvariant, StoreInv, PromptInv
  <2>4. \A p \in FailedRuns : p # None /\ stream[p].state = "failed"
    BY ChatAssumption DEF FailedRuns
  <2> QED BY <2>3, <2>4 DEF FailedBefore
<1>2. ChatInvariant => QueuedOrSent
  BY <1>1
<1> QED BY <1>2, ChatInvariantHolds, PTL

(* What unlocks a locked composer is under way, unless the stream was      *)
(* dropped or the kernel refused the run (useChat.ts, http.ts:508).        *)
THEOREM LocksAreReleased == ChatSpec => []LockedIsBusy
<1>1. ASSUME ChatInvariant PROVE LockedIsBusy
  <2> SUFFICES ASSUME NEW c \in ChatId, Locked(c), queued[c] = None
               PROVE  \/ stream[LastRun(c)].state \in {"open", "dropped"}
                      \/ kernel[LastRun(c)] = "denied"
    BY DEF LockedIsBusy
  <2> DEFINE turns == chats[c].turns
             S == {i \in 1..Len(turns) : turns[i].role = "user"}
  <2>1. PICK p \in Prompt : /\ LastPrompt(turns, p)
                            /\ stream[p].state \in {"open", "dropped"} \/ kernel[p] = "denied"
    BY <1>1 DEF ChatInvariant, StoreInv, LockInv, UnlockIsDue
  <2>2. PICK m \in 1..Len(turns) : LastAt(turns, m, p)
    BY <2>1 DEF LastPrompt
  <2>3. turns[m].role = "user" /\ turns[m].run = p /\ \A j \in (m + 1)..Len(turns) : turns[j].role # "user"
    BY <2>2 DEF LastAt, UserAt
  <2>4. Len(turns) \in Nat
    BY <1>1, ChatFacts DEF ChatInvariant, StoreInv
  <2>5. Max(S) = m
    <3>1. S \in SUBSET (1..Len(turns)) /\ m \in S
      BY <2>3
    <3>2. Max(S) \in S /\ \A x \in S : x <= Max(S)
      BY <2>4, <3>1, MaxIsGreatest, Zenon
    <3>3. Max(S) \in 1..Len(turns) /\ m <= Max(S) /\ ~(Max(S) \in (m + 1)..Len(turns))
      BY <3>1, <3>2, <2>3
    <3> HIDE DEF S
    <3> QED BY <2>4, <3>3
  <2>6. LastRun(c) = p
    <3>1. SelectLastInSeq(turns, LAMBDA turn : turn.role = "user") = Max(S)
      BY <2>3 DEF SelectLastInSeq
    <3> HIDE DEF S
    <3> QED BY <3>1, <2>3, <2>5 DEF LastRun
  <2> QED BY <2>1, <2>6
<1>2. ChatInvariant => LockedIsBusy
  BY <1>1
<1> QED BY <1>2, ChatInvariantHolds, PTL
-----------------------------------------------------------------------------
(* To the kernel the browser is a client: a prompt not sent is unknown to  *)
(* it, and one that was sent is never unsent again.                        *)
SentInv == \A p \in Prompt : stream[p].state = "unsent" => kernel[p] = "idle"

SentStays == \A p \in Prompt : stream'[p].state = "unsent" => stream[p].state = "unsent"

ServiceStep == Kernel!Next \/ UNCHANGED Kernel!serviceVars

(* What is read of a stream, or that it is not, does not unsend it.        *)
LEMMA ReadingKeepsSent ==
    ASSUME ChatTypes, NEW r \in Prompt, NEW to, NEW kids, Receive(r, to, kids)
    PROVE  SentStays
<1>1. /\ stream \in [Prompt -> Streams]
      /\ stream' = [stream EXCEPT ![r].translator = to.translator, ![r].kids = kids]
  BY DEF Receive, ChatTypes
<1>2. \A p \in Prompt : stream'[p].state = stream[p].state
  BY <1>1 DEF Streams
<1> QED BY <1>2 DEF SentStays

LEMMA EndingKeepsSent ==
    ASSUME ChatTypes, NEW r \in Prompt, NEW st, st # "unsent"
    PROVE  /\ DOMAIN Over(stream, r, st) = Prompt
           /\ \A p \in Prompt :
                 Over(stream, r, st)[p].state = "unsent" => stream[p].state = "unsent"
<1>1. stream \in [Prompt -> Streams]
  BY DEF ChatTypes
<1> QED BY <1>1 DEF Over, Reading

LEMMA DroppingKeepsSent ==
    ASSUME ChatTypes
    PROVE  /\ DOMAIN Unsubscribed(stream) = Prompt
           /\ \A p \in Prompt :
                 Unsubscribed(stream)[p].state = "unsent" => stream[p].state = "unsent"
<1>1. CASE unsubRef = None
  BY <1>1 DEF Unsubscribed, ChatTypes
<1>2. CASE unsubRef # None
  <2>1. unsubRef \in Prompt /\ Unsubscribed(stream) = Over(stream, unsubRef, "dropped")
    BY <1>2 DEF Unsubscribed, ChatTypes
  <2> QED BY <2>1, EndingKeepsSent
<1> QED BY <1>1, <1>2

LEMMA DeliveryKeepsSent ==
    ASSUME ChatTypes, NEW r \in Prompt, NEW wireFrame, Deliver(r, wireFrame)
    PROVE  SentStays
<1>1. CASE stream[r].state = "open"
  BY <1>1, ReadingKeepsSent DEF Deliver
<1>2. CASE UNCHANGED stream
  BY <1>2 DEF SentStays
<1> QED BY <1>1, <1>2 DEF Deliver

(* A step the kernel does not see.                                         *)
LEMMA UnseenStep ==
    ASSUME SentInv, SentStays, UNCHANGED kernelVars
    PROVE  SentInv' /\ ServiceStep
<1>1. SentInv'
  BY DEF SentInv, SentStays, kernelVars
<1>2. UNCHANGED Kernel!serviceVars
  BY DEF kernelVars, Kernel!serviceVars
<1> QED BY <1>1, <1>2 DEF ServiceStep

(* A step of the kernel with a message it has.                             *)
LEMMA ServedStep ==
    ASSUME ChatTypes, SentInv, SentStays, NEW r \in Prompt, Kernel!Serve(r), UNCHANGED sentTo
    PROVE  SentInv' /\ ServiceStep
<1>1. kernel[r] # "idle" /\ \A p \in Prompt : p # r => kernel'[p] = kernel[p]
  BY DEF ChatTypes, Kernel!Serve, Kernel!Admit, Kernel!Refuse, Kernel!Conclude,
         Kernel!Release, Kernel!Fail, Kernel!Answer, Kernel!Moves
<1>2. SentInv'
  BY <1>1 DEF SentInv, SentStays
<1>3. Kernel!Next
  BY DEF Kernel!Next
<1> QED BY <1>2, <1>3 DEF ServiceStep

(* A prompt that was not sent is posted to the session it is sent to.      *)
LEMMA SendingPosts ==
    ASSUME ChatTypes, SentInv, NEW c, NEW s \in ChatId, NEW p \in Prompt,
           stream[p].state = "unsent", SendPrompt(c, s, p)
    PROVE  SentInv' /\ ServiceStep
<1> DEFINE mid == Unsubscribed(stream)
<1>1. /\ DOMAIN mid = Prompt
      /\ \A q \in Prompt : mid[q].state = "unsent" => stream[q].state = "unsent"
  BY DroppingKeepsSent
<1>2. /\ stream' = [mid EXCEPT ![p] = Reading("open", c)]
      /\ sentTo' = [sentTo EXCEPT ![p] = s]
      /\ kernel' = [kernel EXCEPT ![p] = "posted"] /\ lock' = lock
      /\ kernel[p] = "idle" /\ kernel \in [Prompt -> Progress]
  BY DEF SendPrompt, SentInv, ChatTypes
<1> HIDE DEF mid
<1>3. /\ stream'[p].state = "open"
      /\ \A q \in Prompt : q # p => stream'[q] = mid[q] /\ kernel'[q] = kernel[q]
  BY <1>1, <1>2 DEF Reading
<1>4. SentInv'
  BY <1>1, <1>3 DEF SentInv
<1>5. Kernel!Post(p, s)
  BY <1>2 DEF Kernel!Post, Kernel!Moves
<1>6. Kernel!Next
  BY <1>5 DEF Kernel!Next
<1> QED BY <1>4, <1>6 DEF ServiceStep

LEMMA NothingSentUnseen ==
    ASSUME SentInv, NothingSent
    PROVE  SentInv' /\ ServiceStep
<1>1. SentStays /\ UNCHANGED kernelVars
  BY DEF NothingSent, SentStays
<1> QED BY <1>1, UnseenStep

(* What the queue effect sends is in the queue, and so not sent.           *)
LEMMA FlushPosts ==
    ASSUME ChatTypes, SentInv, NEW queue, NEW all, NEW c, NEW s \in ChatId \cup {None},
           queue[c] # None => queue[c] \in Prompt /\ stream[queue[c]].state = "unsent",
           Flush(queue, all, c, s)
    PROVE  SentInv' /\ ServiceStep
<1>1. CASE s # None /\ queue[c] # None
  <2>1. SendPrompt(c, s, queue[c]) /\ s \in ChatId
    BY <1>1 DEF Flush
  <2> QED BY <1>1, <2>1, SendingPosts
<1>2. CASE ~(s # None /\ queue[c] # None)
  BY <1>2, NothingSentUnseen DEF Flush
<1> QED BY <1>1, <1>2

LEMMA QueuedIsUnsent ==
    ASSUME StoreInv, NEW c \in ChatId, queued[c] # None
    PROVE  queued[c] \in Prompt /\ stream[queued[c]].state = "unsent"
BY DEF StoreInv, QueueInv, QueuedIn, ChatTypes

(* What is typed next was not sent.                                        *)
LEMMA NextIsUnsent ==
    ASSUME StoreInv, typed + 1 \in Prompt
    PROVE  stream[typed + 1].state = "unsent"
BY DEF StoreInv, FreshInv, ChatTypes

LEMMA PaneIsClient ==
    ASSUME ChatInvariant, SentInv,
           \/ \E c \in ChatId : OpenChat(c) \/ SubmitToNew(c) \/ HistoryLoads(c)
           \/ GoHome \/ SessionReady \/ Submit \/ Stop \/ Settings
    PROVE  SentInv' /\ ServiceStep
<1>1. StoreInv /\ ChatTypes /\ session \in ChatId \cup {None} /\ view \in ChatId \cup {None}
      /\ None \notin ChatId /\ None \notin Prompt
  BY ChatAssumption DEF ChatInvariant, StoreInv, PaneInv
<1>2. ASSUME NEW c \in ChatId, OpenChat(c)
      PROVE  SentInv' /\ ServiceStep
  <2>1. Flush(queued, chats, c, session)
    BY <1>2 DEF OpenChat, Show
  <2> QED BY <1>1, <2>1, QueuedIsUnsent, FlushPosts
<1>3. ASSUME NEW c \in ChatId, SubmitToNew(c)
      PROVE  SentInv' /\ ServiceStep
  <2> DEFINE p == typed + 1
             all == [chats EXCEPT ![c] = WithPrompt(@, p)]
             queue == [queued EXCEPT ![c] = p]
  <2>1. Flush(queue, all, c, session) /\ p \in Prompt
    BY <1>3 DEF SubmitToNew, Show
  <2>2. queue[c] = p /\ stream[p].state = "unsent"
    BY <1>1, <2>1, NextIsUnsent DEF ChatTypes
  <2> HIDE DEF p, all, queue
  <2> QED BY <1>1, <2>1, <2>2, FlushPosts
<1>4. CASE SessionReady
  <2>1. Flush(queued, chats, view, view) /\ view \in ChatId
    BY <1>1, <1>4 DEF SessionReady
  <2> QED BY <1>1, <2>1, QueuedIsUnsent, FlushPosts
<1>5. CASE Submit
  <2>1. typed + 1 \in Prompt /\ stream[typed + 1].state = "unsent"
    BY <1>1, <1>5, NextIsUnsent DEF Submit
  <2>2. CASE session # None /\ SendPrompt(view, session, typed + 1)
    <3>1. session \in ChatId
      BY <1>1, <2>2
    <3> QED BY <1>1, <2>1, <2>2, <3>1, SendingPosts
  <2>3. CASE NothingSent
    BY <2>3, NothingSentUnseen
  <2> QED BY <1>5, <2>2, <2>3 DEF Submit
<1>6. ASSUME stream' = Unsubscribed(stream), UNCHANGED kernelVars
      PROVE  SentInv' /\ ServiceStep
  <2>1. SentStays
    BY <1>1, <1>6, DroppingKeepsSent DEF SentStays
  <2> QED BY <1>6, <2>1, UnseenStep
<1>7. ASSUME UNCHANGED <<stream, kernelVars>>
      PROVE  SentInv' /\ ServiceStep
  <2>1. SentStays
    BY <1>7 DEF SentStays
  <2> QED BY <1>7, <2>1, UnseenStep
<1>8. CASE Stop \/ Settings
  BY <1>6, <1>8 DEF Stop, Settings
<1>9. CASE GoHome \/ \E c \in ChatId : HistoryLoads(c)
  BY <1>7, <1>9 DEF GoHome, HistoryLoads
<1> QED BY <1>2, <1>3, <1>4, <1>5, <1>8, <1>9

LEMMA KernelServes ==
    ASSUME ChatInvariant, SentInv, NEW r \in Prompt,
           \/ Admit(r) \/ Refuse(r) \/ NoWorkspace(r) \/ Release(r) \/ FinishRun(r)
           \/ \E cause \in {"done", "error"} : Conclude(r, cause)
    PROVE  SentInv' /\ ServiceStep
<1>1. ChatTypes
  BY DEF ChatInvariant, StoreInv
<1>2. ASSUME Kernel!Serve(r), SentStays
      PROVE  SentInv' /\ ServiceStep
  <2>1. UNCHANGED sentTo
    BY DEF Admit, Refuse, NoWorkspace, Release, FinishRun, Conclude, Browser
  <2> QED BY <1>1, <1>2, <2>1, ServedStep
<1>3. CASE UNCHANGED stream
  <2>1. SentStays
    BY <1>3 DEF SentStays
  <2>2. Kernel!Serve(r)
    BY DEF Admit, Refuse, NoWorkspace, Release, FinishRun, Conclude, Kernel!Serve
  <2> QED BY <1>2, <2>1, <2>2
<1>4. CASE Admit(r) \/ NoWorkspace(r) \/ \E cause \in {"done", "error"} : Conclude(r, cause)
  <2>1. SentStays
    BY <1>1, <1>4, DeliveryKeepsSent DEF Admit, NoWorkspace, Conclude
  <2>2. Kernel!Serve(r)
    BY <1>4 DEF Admit, NoWorkspace, Conclude, Kernel!Serve
  <2> QED BY <1>2, <2>1, <2>2
<1>5. CASE Refuse(r) /\ ~UNCHANGED stream
  <2>1. SentStays
    BY <1>1, <1>5, ReadingKeepsSent DEF Refuse
  <2>2. Kernel!Serve(r)
    BY <1>5 DEF Refuse, Kernel!Serve
  <2> QED BY <1>2, <2>1, <2>2
<1>6. CASE FinishRun(r) /\ ~UNCHANGED stream
  <2>1. stream' = Over(stream, r, "ended")
    BY <1>6 DEF FinishRun, Ended
  <2>2. SentStays
    BY <1>1, <2>1, EndingKeepsSent DEF SentStays
  <2>3. Kernel!Serve(r)
    BY <1>6 DEF FinishRun, Kernel!Serve
  <2> QED BY <1>2, <2>2, <2>3
<1>7. CASE Release(r)
  BY <1>3, <1>7 DEF Release
<1> QED BY <1>3, <1>4, <1>5, <1>6, <1>7

(* Frames between the start and the verdict, and a stream that breaks.     *)
LEMMA KernelDoesNotSee ==
    ASSUME ChatInvariant, SentInv, NEW r \in Prompt,
           \/ \E kind \in {"stream_chunk", "final_text", "tool"}, who \in {None} \cup Kid :
                 Speak(r, kind, who)
           \/ \E kid \in Kid : OpenKid(r, kid) \/ CloseKid(r, kid)
           \/ Break(r)
    PROVE  SentInv' /\ ServiceStep
<1>1. ChatTypes
  BY DEF ChatInvariant, StoreInv
<1>2. UNCHANGED kernelVars
  BY DEF Speak, OpenKid, CloseKid, Break
<1>3. CASE Break(r)
  <2>1. PICK st \in {"failed", "dropped"} : stream' = Over(stream, r, st)
    BY <1>3 DEF Break, Lost, Ended
  <2>2. SentStays
    BY <1>1, <2>1, EndingKeepsSent DEF SentStays
  <2> QED BY <1>2, <2>2, UnseenStep
<1>4. CASE \E kid \in Kid : OpenKid(r, kid) \/ CloseKid(r, kid)
  <2>1. SentStays
    BY <1>1, <1>4, ReadingKeepsSent DEF OpenKid, CloseKid
  <2> QED BY <1>2, <2>1, UnseenStep
<1>5. ASSUME NEW kind, NEW who, Speak(r, kind, who)
      PROVE  SentInv' /\ ServiceStep
  <2>1. SentStays
    BY <1>1, <1>5, DeliveryKeepsSent DEF Speak
  <2> QED BY <1>2, <2>1, UnseenStep
<1> QED BY <1>3, <1>4, <1>5

LEMMA ChatStepIsClient ==
    ChatInvariant /\ SentInv /\ [ChatNext]_chatVars => SentInv' /\ ServiceStep
<1> SUFFICES ASSUME ChatInvariant, SentInv, [ChatNext]_chatVars
             PROVE  SentInv' /\ ServiceStep
  OBVIOUS
<1>1. CASE UNCHANGED chatVars
  <2>1. SentStays /\ UNCHANGED kernelVars
    BY <1>1 DEF chatVars, SentStays
  <2> QED BY <2>1, UnseenStep
<1>2. CASE \/ \E c \in ChatId : OpenChat(c) \/ SubmitToNew(c) \/ HistoryLoads(c)
           \/ GoHome \/ SessionReady \/ Submit \/ Stop \/ Settings
  BY <1>2, PaneIsClient
<1>3. ASSUME NEW r \in Prompt,
             \/ Admit(r) \/ Refuse(r) \/ NoWorkspace(r) \/ Release(r) \/ FinishRun(r)
             \/ \E cause \in {"done", "error"} : Conclude(r, cause)
      PROVE  SentInv' /\ ServiceStep
  BY <1>3, KernelServes
<1>4. ASSUME NEW r \in Prompt,
             \/ \E kind \in {"stream_chunk", "final_text", "tool"}, who \in {None} \cup Kid :
                   Speak(r, kind, who)
             \/ \E kid \in Kid : OpenKid(r, kid) \/ CloseKid(r, kid)
             \/ Break(r)
      PROVE  SentInv' /\ ServiceStep
  BY <1>4, KernelDoesNotSee
<1> QED BY <1>1, <1>2, <1>3, <1>4 DEF ChatNext

(* The browser is a client of the service that RunLifecycle is proved to   *)
(* be: it posts a prompt once, to one session, whatever the user does and  *)
(* however streams end (useChat.ts, useChatRun.ts, http.ts:484-532).       *)
THEOREM BrowserUsesService == ChatSpec => UsesService
<1>1. ChatInit => SentInv /\ Kernel!Init
  BY DEF ChatInit, SentInv, Reading, Kernel!Init
<1>2. ChatInvariant /\ SentInv /\ [ChatNext]_chatVars => SentInv' /\ [Kernel!Next]_Kernel!serviceVars
  BY ChatStepIsClient DEF ServiceStep
<1> QED BY <1>1, <1>2, ChatInvariantHolds, PTL DEF ChatSpec, UsesService, Kernel!Spec
-----------------------------------------------------------------------------
UrlsOf(s) == {Url(s, u) : u \in Server \cup {"app"}}

PreviewTypes ==
    /\ registry \in [Session -> [live : Server \cup {None}, kept : BOOLEAN]]
    /\ wire \in [Session -> Seq(Session \X (Server \cup {"app"}))]
    /\ bus \in [Session -> (Session \X (Server \cup {"app"})) \cup {None}]
    /\ DOMAIN pane = {"session", "url"} /\ pane.session \in Session \cup {None}

(* Every url on the way to a session's pane is that session's, and the     *)
(* only calls under way are those of the session that is shown.            *)
UrlsInv ==
    /\ \A s \in Session : \A i \in 1..Len(wire[s]) : wire[s][i] \in UrlsOf(s)
    /\ \A s \in Session : bus[s] \in UrlsOf(s) \cup {None}
    /\ \A a \in asks : /\ DOMAIN a = {"session", "at", "answer"}
                       /\ a.session = pane.session /\ a.session \in Session
                       /\ a.answer \in UrlsOf(a.session) \cup {None}

PreviewInv == PreviewTypes /\ UrlsInv /\ PaneShowsItsSession

LEMMA UrlIsOfItsSession ==
    ASSUME NEW s \in Session, NEW u \in UrlsOf(s)
    PROVE  u[1] = s /\ u \in Session \X (Server \cup {"app"})
BY DEF UrlsOf, Url

(* The pane hears of one session only: what the bus has for it stays what  *)
(* it shows.                                                               *)
LEMMA PaneFollowsBus ==
    ASSUME PreviewInv, pane.session \in Session \cup {None},
           NEW s \in Session, NEW u \in UrlsOf(s),
           bus' = [bus EXCEPT ![s] = u],
           pane' = IF pane.session = s THEN [pane EXCEPT !.url = u] ELSE pane
    PROVE  /\ PaneShowsItsSession' /\ pane'.session = pane.session
           /\ DOMAIN pane' = {"session", "url"}
           /\ \A d \in Session : bus'[d] \in UrlsOf(d) \cup {None}
           /\ bus' \in [Session -> (Session \X (Server \cup {"app"})) \cup {None}]
<1>1. /\ bus \in [Session -> (Session \X (Server \cup {"app"})) \cup {None}]
      /\ DOMAIN pane = {"session", "url"} /\ None \notin Session
      /\ u[1] = s /\ u \in Session \X (Server \cup {"app"})
  BY PaneAssumption, UrlIsOfItsSession DEF PreviewInv, PreviewTypes
<1>2. \A d \in Session : bus'[d] \in UrlsOf(d) \cup {None}
  BY <1>1 DEF PreviewInv, UrlsInv
<1>3. CASE pane.session = s
  <2>1. pane'.session = s /\ pane'.url = u /\ DOMAIN pane' = {"session", "url"}
    BY <1>1, <1>3
  <2> QED BY <1>1, <1>2, <1>3, <2>1 DEF PaneShowsItsSession
<1>4. CASE pane.session # s
  <2>1. pane' = pane /\ \A d \in Session : d # s => bus'[d] = bus[d]
    BY <1>1, <1>4
  <2> QED BY <1>1, <1>2, <1>4, <2>1 DEF PaneShowsItsSession, PreviewInv
<1> QED BY <1>3, <1>4

LEMMA PaneStepKeeps == PreviewInv /\ [PaneNext]_paneVars => PreviewInv'
<1> SUFFICES ASSUME PreviewInv, [PaneNext]_paneVars PROVE PreviewInv'
  OBVIOUS
<1> DEFINE Pairs == Session \X (Server \cup {"app"})
<1>1. /\ PreviewTypes /\ UrlsInv /\ PaneShowsItsSession /\ None \notin Session
      /\ \A s \in Session : UrlsOf(s) \subseteq Pairs /\ \A v \in Server \cup {"app"} : Url(s, v) \in UrlsOf(s)
      /\ \A s \in Session : wire[s] \in Seq(Pairs) /\ Len(wire[s]) \in Nat
  BY PaneAssumption, UrlIsOfItsSession, LenProperties DEF PreviewInv, PreviewTypes, UrlsOf
<1>2. ASSUME NEW s \in Session, NEW v \in Server \cup {"app"}, wire' = [wire EXCEPT ![s] = Append(@, Url(s, v))],
             registry' \in [Session -> [live : Server \cup {None}, kept : BOOLEAN]],
             UNCHANGED <<bus, pane, asks>>
      PROVE  PreviewInv'
  <2>1. Append(wire[s], Url(s, v)) \in Seq(Pairs)
    BY <1>1, AppendProperties
  <2>2. wire' \in [Session -> Seq(Pairs)]
    BY <1>1, <1>2, <2>1 DEF PreviewTypes
  <2>3. \A d \in Session : \A i \in 1..Len(wire'[d]) : wire'[d][i] \in UrlsOf(d)
    <3> TAKE d \in Session
    <3>1. CASE d # s
      BY <3>1, <1>1, <1>2 DEF PreviewTypes, UrlsInv
    <3>2. CASE d = s
      <4>1. wire'[s] = Append(wire[s], Url(s, v)) /\ Url(s, v) \in UrlsOf(s)
        BY <1>1, <1>2 DEF PreviewTypes
      <4>2. \A i \in 1..Len(wire[s]) : wire[s][i] \in UrlsOf(s)
        BY <1>1 DEF UrlsInv
      <4>3. Url(s, v) \in Pairs
        BY <1>1
      <4> HIDE DEF Pairs
      <4> QED BY <1>1, <3>2, <4>1, <4>2, <4>3, AppendProperties
    <3> QED BY <3>1, <3>2
  <2> QED BY <1>1, <1>2, <2>2, <2>3 DEF PreviewInv, PreviewTypes, UrlsInv, PaneShowsItsSession
<1>3. ASSUME NEW s \in Session, NEW v \in Server, SurfaceLive(s, v)
      PROVE  PreviewInv'
  <2>1. registry' \in [Session -> [live : Server \cup {None}, kept : BOOLEAN]]
    BY <1>1, <1>3 DEF SurfaceLive, PreviewTypes
  <2> QED BY <1>2, <1>3, <2>1 DEF SurfaceLive
<1>4. ASSUME NEW s \in Session, SurfaceSnapshot(s)
      PROVE  PreviewInv'
  <2>1. registry' \in [Session -> [live : Server \cup {None}, kept : BOOLEAN]]
    BY <1>1, <1>4 DEF SurfaceSnapshot, PreviewTypes
  <2> QED BY <1>2, <1>4, <2>1 DEF SurfaceSnapshot
<1>5. ASSUME NEW s \in Session, ClearPreview(s)
      PROVE  PreviewInv'
  <2>1. registry' \in [Session -> [live : Server \cup {None}, kept : BOOLEAN]]
    BY <1>1, <1>5 DEF ClearPreview, Empty, PreviewTypes
  <2> QED BY <1>1, <1>5, <2>1 DEF ClearPreview, PreviewInv, PreviewTypes, UrlsInv, PaneShowsItsSession
<1>6. ASSUME NEW s \in Session, NEW rest \in Seq(Pairs), wire' = [wire EXCEPT ![s] = rest],
             \A i \in 1..Len(rest) : rest[i] \in UrlsOf(s)
      PROVE  /\ wire' \in [Session -> Seq(Pairs)]
             /\ \A d \in Session : \A i \in 1..Len(wire'[d]) : wire'[d][i] \in UrlsOf(d)
  BY <1>1, <1>6 DEF PreviewTypes, UrlsInv
<1>7. ASSUME NEW s \in Session, FrameArrives(s)
      PROVE  PreviewInv'
  <2> DEFINE u == Head(wire[s])
             rest == Tail(wire[s])
  <2>1. wire[s] \in Seq(Pairs) /\ wire[s] # <<>>
    BY <1>1, <1>7 DEF FrameArrives
  <2>2. /\ rest \in Seq(Pairs) /\ Len(rest) = Len(wire[s]) - 1
        /\ \A i \in 1..Len(rest) : rest[i] = wire[s][i + 1]
        /\ Len(wire[s]) >= 1 /\ u = wire[s][1]
    BY <2>1, <1>1, HeadTailProperties, EmptySeq
  <2>3. u \in UrlsOf(s) /\ \A i \in 1..Len(rest) : rest[i] \in UrlsOf(s)
    <3>1. \A i \in 1..Len(rest) : i + 1 \in 1..Len(wire[s])
      BY <1>1, <2>2
    <3>2. 1 \in 1..Len(wire[s]) /\ \A i \in 1..Len(wire[s]) : wire[s][i] \in UrlsOf(s)
      BY <1>1, <2>2 DEF UrlsInv
    <3> HIDE DEF u, rest
    <3> QED BY <2>2, <3>1, <3>2
  <2>4. /\ bus' = [bus EXCEPT ![s] = u]
        /\ pane' = IF pane.session = s THEN [pane EXCEPT !.url = u] ELSE pane
        /\ wire' = [wire EXCEPT ![s] = rest] /\ UNCHANGED <<registry, asks>>
    BY <1>1, <1>7 DEF FrameArrives, PreviewTypes
  <2> HIDE DEF u, rest
  <2>5. /\ wire' \in [Session -> Seq(Pairs)]
        /\ \A d \in Session : \A i \in 1..Len(wire'[d]) : wire'[d][i] \in UrlsOf(d)
    BY <1>6, <2>2, <2>3, <2>4
  <2>6. /\ PaneShowsItsSession' /\ pane'.session = pane.session /\ DOMAIN pane' = {"session", "url"}
        /\ \A d \in Session : bus'[d] \in UrlsOf(d) \cup {None}
        /\ bus' \in [Session -> Pairs \cup {None}]
    BY <1>1, <2>3, <2>4, PaneFollowsBus DEF PreviewTypes
  <2> QED BY <1>1, <2>4, <2>5, <2>6 DEF PreviewInv, PreviewTypes, UrlsInv
<1>8. ASSUME NEW s \in Session, StreamDrops(s)
      PROVE  PreviewInv'
  <2>1. <<>> \in Seq(Pairs) /\ Len(<<>>) = 0
    BY EmptySeq
  <2>2. /\ wire' \in [Session -> Seq(Pairs)]
        /\ \A d \in Session : \A i \in 1..Len(wire'[d]) : wire'[d][i] \in UrlsOf(d)
    <3> DEFINE rest == <<>>
    <3>1. /\ rest \in Seq(Pairs) /\ wire' = [wire EXCEPT ![s] = rest]
          /\ \A i \in 1..Len(rest) : rest[i] \in UrlsOf(s)
      BY <1>8, <2>1 DEF StreamDrops
    <3> HIDE DEF rest, Pairs
    <3> QED BY <1>6, <3>1
  <2> QED BY <1>1, <1>8, <2>2 DEF StreamDrops, PreviewInv, PreviewTypes, UrlsInv, PaneShowsItsSession
<1>9. ASSUME NEW s \in Session \cup {None}, ShowSession(s)
      PROVE  PreviewInv'
  <2>1. pane' = [session |-> s, url |-> IF s = None THEN None ELSE bus[s]] /\ asks' = Ask(s)
        /\ UNCHANGED <<registry, wire, bus>>
    BY <1>9 DEF ShowSession, Forget
  <2>2. \A a \in asks' : /\ DOMAIN a = {"session", "at", "answer"}
                         /\ a.session = s /\ s \in Session /\ a.answer = None
    BY <2>1 DEF Ask
  <2>3. PaneShowsItsSession'
    <3>1. s \in Session => bus[s] = None \/ bus[s][1] = s
      BY <1>1, UrlIsOfItsSession DEF UrlsInv
    <3> QED BY <1>1, <2>1, <3>1 DEF PaneShowsItsSession
  <2> QED BY <1>1, <2>1, <2>2, <2>3 DEF PreviewInv, PreviewTypes, UrlsInv
<1>10. ASSUME NEW a \in asks, AnswerAsk(a)
       PROVE  PreviewInv'
  <2> DEFINE b == [a EXCEPT !.at = "answered", !.answer = Restored(a.session)]
  <2>1. asks' = (asks \ {a}) \cup {b} /\ UNCHANGED <<registry, wire, bus, pane>>
    BY <1>10 DEF AnswerAsk
  <2>2. DOMAIN b = {"session", "at", "answer"} /\ b.session = a.session /\ b.answer = Restored(a.session)
    BY <1>1 DEF UrlsInv
  <2>3. a.session \in Session /\ Restored(a.session) \in UrlsOf(a.session) \cup {None}
    <3>1. a.session \in Session
      BY <1>1 DEF UrlsInv
    <3>2. registry[a.session].live \in Server \cup {None}
      BY <1>1, <3>1 DEF PreviewTypes
    <3> QED BY <1>1, <3>1, <3>2 DEF Restored
  <2> HIDE DEF b
  <2> QED BY <1>1, <2>1, <2>2, <2>3 DEF PreviewInv, PreviewTypes, UrlsInv, PaneShowsItsSession
<1>11. ASSUME NEW a \in asks, AskArrives(a)
       PROVE  PreviewInv'
  <2>1. asks' = asks \ {a} /\ UNCHANGED <<registry, wire>>
        /\ a.session = pane.session /\ a.session \in Session /\ a.answer \in UrlsOf(a.session) \cup {None}
    BY <1>1, <1>11 DEF AskArrives, UrlsInv
  <2>2. CASE a.answer = None
    BY <1>1, <1>11, <2>1, <2>2 DEF AskArrives, PreviewInv, PreviewTypes, UrlsInv, PaneShowsItsSession
  <2>3. CASE a.answer # None
    <3>1. bus' = [bus EXCEPT ![a.session] = a.answer] /\ pane' = [pane EXCEPT !.url = a.answer]
      BY <1>11, <2>3 DEF AskArrives
    <3>2. /\ PaneShowsItsSession' /\ pane'.session = pane.session /\ DOMAIN pane' = {"session", "url"}
          /\ \A d \in Session : bus'[d] \in UrlsOf(d) \cup {None}
          /\ bus' \in [Session -> Pairs \cup {None}]
      BY <1>1, <2>1, <2>3, <3>1, PaneFollowsBus DEF PreviewTypes
    <3> QED BY <1>1, <2>1, <3>2 DEF PreviewInv, PreviewTypes, UrlsInv
  <2> QED BY <2>2, <2>3
<1>12. ASSUME NEW a \in asks, AskFails(a)
       PROVE  PreviewInv'
  BY <1>1, <1>12 DEF AskFails, PreviewInv, PreviewTypes, UrlsInv, PaneShowsItsSession
<1>13. ASSUME ReloadPage
       PROVE  PreviewInv'
  <2>1. /\ wire' = [s \in Session |-> <<>>] /\ bus' = [s \in Session |-> None] /\ asks' = {}
        /\ pane' = [session |-> None, url |-> None] /\ registry' = registry
    BY <1>13 DEF ReloadPage
  <2>2. <<>> \in Seq(Pairs) /\ Len(<<>>) = 0
    BY EmptySeq
  <2>3. PreviewTypes' /\ PaneShowsItsSession'
    BY <1>1, <2>1, <2>2 DEF PreviewTypes, PaneShowsItsSession
  <2>4. UrlsInv'
    BY <2>1, <2>2 DEF UrlsInv
  <2> QED BY <2>3, <2>4 DEF PreviewInv
<1>14. CASE UNCHANGED paneVars
  BY <1>1, <1>14 DEF paneVars, PreviewInv, PreviewTypes, UrlsInv, PaneShowsItsSession
<1> QED BY <1>3, <1>4, <1>5, <1>7, <1>8, <1>9, <1>10, <1>11, <1>12, <1>13, <1>14 DEF PaneNext

LEMMA PaneStarts == PaneInit => PreviewInv
<1> SUFFICES ASSUME PaneInit PROVE PreviewInv
  OBVIOUS
<1>1. /\ wire = [s \in Session |-> <<>>] /\ bus = [s \in Session |-> None] /\ asks = {}
      /\ pane = [session |-> None, url |-> None] /\ registry = [s \in Session |-> Empty]
  BY DEF PaneInit
<1>2. <<>> \in Seq(Session \X (Server \cup {"app"})) /\ Len(<<>>) = 0
  BY EmptySeq
<1>3. PreviewTypes /\ PaneShowsItsSession
  BY <1>1, <1>2 DEF PreviewTypes, PaneShowsItsSession, Empty
<1>4. UrlsInv
  BY <1>1, <1>2 DEF UrlsInv
<1> QED BY <1>3, <1>4 DEF PreviewInv

-----------------------------------------------------------------------------
(* While the channel is not lost and nothing was missed, a write that the  *)
(* reader does not know of has a notice on its way: without one, what a    *)
(* read brings and what is shown after it is the file.                     *)
ReaderInv ==
    /\ notices \in Nat /\ channel \in {"opening", "open", "closed"}
    /\ \A r \in reading : r.at \in {"asked", "served"}
    /\ DOMAIN saving = {"text", "at"}
    /\ missed \/ saving.at # "landed" \/ disk = saving.text
    /\ \/ channel = "closed" \/ missed \/ notices > 0
       \/ /\ \A r \in reading : r.at = "served" => r.text = disk
          /\ reading # {} \/ failed \/ shown = disk

LEMMA ReaderStepKeeps == ReaderInv /\ [ReaderNext]_readerVars => ReaderInv'
<1> SUFFICES ASSUME ReaderInv, [ReaderNext]_readerVars PROVE ReaderInv'
  OBVIOUS
<1>1. CASE AgentWrites
  <2>1. /\ missed' <=> (missed \/ channel = "opening" \/ saving.at = "landed")
        /\ notices' = IF channel = "open" THEN notices + 1 ELSE notices
        /\ UNCHANGED <<channel, reading, failed, saving>>
    BY <1>1 DEF AgentWrites, Write
  <2> QED BY <2>1 DEF ReaderInv
<1>2. CASE ChannelOpens
  BY <1>2 DEF ReaderInv, ChannelOpens
<1>3. CASE ChannelBreaks
  BY <1>3 DEF ReaderInv, ChannelBreaks
<1>4. CASE NoticeArrives
  BY <1>4 DEF ReaderInv, NoticeArrives, Restart, Read
<1>5. ASSUME NEW r \in reading, ServeRead(r)
      PROVE  ReaderInv'
  <2> DEFINE b == [text |-> disk, at |-> "served"]
  <2>2. /\ reading' = (reading \ {r}) \cup {b} /\ b.at = "served" /\ b.text = disk
        /\ UNCHANGED <<disk, channel, notices, failed, saving, missed>>
    BY <1>5 DEF ServeRead
  <2> HIDE DEF b
  <2>1. /\ \A q \in reading' : q \in reading \/ (q.at = "served" /\ q.text = disk)
        /\ reading' # {}
        /\ UNCHANGED <<disk, channel, notices, failed, saving, missed>>
    BY <2>2
  <2> QED BY <2>1 DEF ReaderInv
<1>6. ASSUME NEW r \in reading, ReadArrives(r)
      PROVE  ReaderInv'
  BY <1>6 DEF ReaderInv, ReadArrives
<1>7. ASSUME NEW r \in reading, ReadFails(r)
      PROVE  ReaderInv'
  BY <1>7 DEF ReaderInv, ReadFails
<1>8. CASE EnterEdit
  BY <1>8 DEF ReaderInv, EnterEdit
<1>9. CASE Type
  BY <1>9 DEF ReaderInv, Type
<1>10. CASE CancelEdit
  BY <1>10 DEF ReaderInv, CancelEdit
<1>11. CASE Save
  BY <1>11 DEF ReaderInv, Save
<1>12. CASE SaveLands
  <2>1. /\ saving'.at = "landed" /\ saving'.text = saving.text /\ DOMAIN saving' = {"text", "at"}
        /\ disk' = saving.text
        /\ missed' <=> (missed \/ channel = "opening" \/ saving.at = "landed")
        /\ notices' = IF channel = "open" THEN notices + 1 ELSE notices
        /\ UNCHANGED <<channel, reading, failed>>
    BY <1>12 DEF ReaderInv, SaveLands, Write
  <2> QED BY <2>1 DEF ReaderInv
<1>13. CASE SaveSucceeds
  BY <1>13 DEF ReaderInv, SaveSucceeds, NotSaving
<1>14. CASE SaveFails
  BY <1>14 DEF ReaderInv, SaveFails, NotSaving
<1>15. CASE UNCHANGED readerVars
  BY <1>15 DEF ReaderInv, readerVars
<1> QED BY <1>1, <1>2, <1>3, <1>4, <1>5, <1>6, <1>7, <1>8, <1>9, <1>10, <1>11, <1>12, <1>13,
           <1>14, <1>15 DEF ReaderNext

LEMMA ReaderStarts == ReaderInit => ReaderInv
BY DEF ReaderInit, ReaderInv, Read, NotSaving
-----------------------------------------------------------------------------
(* The iframe in the page is that of the app last committed, and a send    *)
(* that holds its window was started for that app.                         *)
FrameRecord == [app |-> frame.app, place |-> frame.place, loaded |-> frame.loaded, got |-> frame.got]
SendFields == {"app", "attempt", "here"}

WindowInv ==
    /\ frame = FrameRecord /\ frame.loaded \in BOOLEAN
    /\ frame.place = "none" => frame = NoFrame
    /\ frame # NoFrame => frame.app = seen.app
    /\ \A s \in sends : /\ DOMAIN s = SendFields /\ s.here \in BOOLEAN
                        /\ s.here => frame # NoFrame /\ s.app = frame.app

AppInv == WindowInv /\ InitReachesItsApp

LEMMA MountStepKeeps == AppInv /\ [MountNext]_mountVars => AppInv'
<1> SUFFICES ASSUME AppInv, [MountNext]_mountVars PROVE AppInv'
  OBVIOUS
<1>1. WindowInv /\ InitReachesItsApp
  BY DEF AppInv
<1>2. ASSUME UNCHANGED <<seen, frame, sends>>
      PROVE  AppInv'
  BY <1>1, <1>2 DEF AppInv, WindowInv, InitReachesItsApp, FrameRecord, SendFields
<1>3. ASSUME NEW n, SendInit(n), UNCHANGED seen,
             frame' = frame \/ (frame # NoFrame /\ frame' = [frame EXCEPT !.loaded = TRUE])
      PROVE  AppInv'
  <2>1. /\ frame' = FrameRecord' /\ frame'.loaded \in BOOLEAN /\ frame'.app = frame.app
        /\ frame'.got = frame.got /\ frame'.place = frame.place
        /\ frame # NoFrame => frame' # NoFrame
        /\ frame = NoFrame => frame' = NoFrame
    <3>1. CASE frame' = frame
      BY <3>1, <1>1 DEF WindowInv, FrameRecord
    <3>2. CASE frame # NoFrame /\ frame' = [frame EXCEPT !.loaded = TRUE]
      <4>1. /\ frame' = FrameRecord' /\ frame'.loaded = TRUE /\ frame'.app = frame.app
            /\ frame'.got = frame.got /\ frame'.place = frame.place
        BY <3>2, <1>1 DEF WindowInv, FrameRecord
      <4>2. frame' # NoFrame
        BY <4>1 DEF NoFrame
      <4> QED BY <3>2, <4>1, <4>2
    <3> QED BY <1>3, <3>1, <3>2
  <2>4. /\ frame'.place = "none" => frame' = NoFrame
        /\ frame' # NoFrame => frame'.app = seen'.app
        /\ InitReachesItsApp'
    BY <1>1, <1>3, <2>1 DEF WindowInv, InitReachesItsApp
  <2>5. \A s \in sends : /\ DOMAIN s = SendFields /\ s.here \in BOOLEAN
                         /\ s.here => frame' # NoFrame /\ s.app = frame'.app
    BY <1>1, <2>1 DEF WindowInv
  <2>2. CASE sends' = sends
    BY <2>1, <2>2, <2>4, <2>5 DEF AppInv, WindowInv
  <2>3. CASE frame # NoFrame /\ sends' = sends \cup {[app |-> seen.app, attempt |-> n, here |-> TRUE]}
    <3> DEFINE new == [app |-> seen.app, attempt |-> n, here |-> TRUE]
    <3>1. DOMAIN new = SendFields /\ new.here = TRUE /\ new.app = seen.app
      BY DEF SendFields
    <3>2. frame' # NoFrame /\ frame'.app = seen.app
      BY <1>1, <2>1, <2>3 DEF WindowInv
    <3> HIDE DEF new
    <3>3. \A s \in sends' : /\ DOMAIN s = SendFields /\ s.here \in BOOLEAN
                            /\ s.here => frame' # NoFrame /\ s.app = frame'.app
      BY <2>3, <2>5, <3>1, <3>2 DEF new
    <3> QED BY <2>1, <2>4, <3>3 DEF AppInv, WindowInv
  <2> QED BY <1>3, <2>2, <2>3 DEF SendInit
<1>4. CASE Commit
  <2>1. seen' = mount
    BY <1>4 DEF Commit
  <2>2. CASE Place(mount) = frame.place /\ (frame # NoFrame => mount.app = frame.app)
    BY <1>1, <1>4, <2>1, <2>2 DEF Commit, AppInv, WindowInv, InitReachesItsApp, FrameRecord, SendFields
  <2>3. CASE ~(Place(mount) = frame.place /\ (frame # NoFrame => mount.app = frame.app))
    <3>1. /\ frame' = IF Place(mount) = "none" THEN NoFrame
                      ELSE [NoFrame EXCEPT !.app = mount.app, !.place = Place(mount)]
          /\ sends' = {[s EXCEPT !.here = FALSE] : s \in sends}
      BY <1>4, <2>3 DEF Commit
    <3>2. \A s \in sends' : DOMAIN s = SendFields /\ s.here = FALSE
      <4> SUFFICES ASSUME NEW s \in sends
                   PROVE  LET t == [s EXCEPT !.here = FALSE] IN DOMAIN t = SendFields /\ t.here = FALSE
        BY <3>1
      <4>1. DOMAIN s = SendFields
        BY <1>1 DEF WindowInv
      <4> QED BY <4>1 DEF SendFields
    <3>3. /\ frame' = FrameRecord' /\ frame'.loaded = FALSE /\ frame'.got = None
          /\ frame' # NoFrame => frame'.app = mount.app
          /\ frame'.place = "none" => frame' = NoFrame
      BY <3>1 DEF FrameRecord, NoFrame
    <3> QED BY <2>1, <3>2, <3>3 DEF AppInv, WindowInv, InitReachesItsApp
  <2> QED BY <2>2, <2>3
<1>5. CASE ReloadApp \/ \E a \in App : SwitchApp(a)
  BY <1>2, <1>5 DEF ReloadApp, SwitchApp, StartLoad
<1>6. CASE LoadProceeds
  BY <1>2, <1>6 DEF LoadProceeds, ResolveNothing, ResolveBaked, ResolveTo, ResolveMaterialized,
                    Attach, AttachSignedOut, PollAgain, PollReady, AttachThrows
<1>7. CASE FrameLoads
  <2>1. frame # NoFrame /\ frame' = [frame EXCEPT !.loaded = TRUE] /\ seen' = seen
    BY <1>7 DEF FrameLoads
  <2>2. CASE seen.status = "iframe-loading"
    BY <1>3, <1>7, <2>1, <2>2 DEF FrameLoads
  <2>3. CASE seen.status # "iframe-loading"
    <3>1. sends' = sends
      BY <1>7, <2>3 DEF FrameLoads
    <3>2. /\ frame' = FrameRecord' /\ frame'.loaded \in BOOLEAN /\ frame'.app = frame.app
          /\ frame'.got = frame.got /\ frame'.place = frame.place /\ frame' # NoFrame
      BY <1>1, <2>1 DEF WindowInv, FrameRecord, NoFrame
    <3> QED BY <1>1, <2>1, <3>1, <3>2 DEF AppInv, WindowInv, InitReachesItsApp, SendFields
  <2> QED BY <2>2, <2>3
<1>8. CASE AppAnswers
  BY <1>2, <1>8 DEF AppAnswers
<1>9. CASE AckTimesOut
  <2>1. UNCHANGED <<seen, frame>>
    BY <1>9 DEF AckTimesOut
  <2>2. CASE timer + 1 >= MAX_INIT_ATTEMPTS
    BY <1>2, <1>9, <2>1, <2>2 DEF AckTimesOut
  <2>3. CASE ~(timer + 1 >= MAX_INIT_ATTEMPTS)
    <3>1. SendInit(timer + 1)
      BY <1>9, <2>3 DEF AckTimesOut
    <3> QED BY <1>3, <2>1, <3>1
  <2> QED BY <2>2, <2>3
<1>10. ASSUME NEW s \in sends, InitPosted(s)
       PROVE  AppInv'
  <2>1. /\ sends' = sends \ {s} /\ seen' = seen
        /\ frame' = IF s.here /\ frame.loaded THEN [frame EXCEPT !.got = s.app] ELSE frame
    BY <1>10 DEF InitPosted, Reaches
  <2>2. CASE ~(s.here /\ frame.loaded)
    BY <1>1, <2>1, <2>2 DEF AppInv, WindowInv, InitReachesItsApp, FrameRecord, SendFields
  <2>3. CASE s.here /\ frame.loaded
    <3>1. frame # NoFrame /\ s.app = frame.app
      BY <1>1, <2>3 DEF WindowInv
    <3>2. /\ frame' = FrameRecord' /\ frame'.loaded /\ frame'.app = frame.app
          /\ frame'.got = frame.app /\ frame'.place = frame.place /\ frame' # NoFrame
      BY <1>1, <2>1, <2>3, <3>1 DEF WindowInv, FrameRecord, NoFrame
    <3> QED BY <1>1, <2>1, <2>3, <3>1, <3>2 DEF AppInv, WindowInv, InitReachesItsApp, SendFields
  <2> QED BY <2>2, <2>3
<1>11. ASSUME NEW s \in sends, InitSignedOut(s)
       PROVE  AppInv'
  BY <1>1, <1>11 DEF InitSignedOut, AppInv, WindowInv, InitReachesItsApp, FrameRecord, SendFields
<1>12. ASSUME NEW a \in acks, AckArrives(a)
       PROVE  AppInv'
  BY <1>2, <1>12 DEF AckArrives
<1>13. CASE UNCHANGED mountVars
  BY <1>2, <1>13 DEF mountVars
<1> QED BY <1>4, <1>5, <1>6, <1>7, <1>8, <1>9, <1>10, <1>11, <1>12, <1>13 DEF MountNext

LEMMA MountStarts == MountInit => AppInv
BY DEF MountInit, AppInv, WindowInv, InitReachesItsApp, NoFrame, Initial, FrameRecord
-----------------------------------------------------------------------------
CanvasInvariant == PreviewInv /\ ReaderInv /\ AppInv

(* The surfaces share no state: a step of one leaves the others alone.     *)
LEMMA CanvasInvariantHolds == CanvasSpec => []CanvasInvariant
<1>1. CanvasInit => CanvasInvariant
  BY PaneStarts, ReaderStarts, MountStarts DEF CanvasInit, CanvasInvariant
<1>2. CanvasInvariant /\ [CanvasNext]_canvasVars => CanvasInvariant'
  <2> SUFFICES ASSUME CanvasInvariant, [CanvasNext]_canvasVars PROVE CanvasInvariant'
    OBVIOUS
  <2>1. [PaneNext]_paneVars /\ [ReaderNext]_readerVars /\ [MountNext]_mountVars
    BY DEF CanvasNext, canvasVars, On
  <2> QED BY <2>1, PaneStepKeeps, ReaderStepKeeps, MountStepKeeps DEF CanvasInvariant
<1> QED BY <1>1, <1>2, PTL DEF CanvasSpec

(* The pane shows the url of its own session, whatever answers and frames  *)
(* of others come in (KernelPreviewPane.tsx).                              *)
THEOREM PaneFollowsItsSession == CanvasSpec => []PaneShowsItsSession
<1>1. CanvasInvariant => PaneShowsItsSession
  BY DEF CanvasInvariant, PreviewInv
<1> QED BY <1>1, CanvasInvariantHolds, PTL

(* A reader that lost nothing shows the file once all is in, however       *)
(* reads, notices and saves overtook each other (useFileContent.ts).       *)
THEOREM ReaderCatchesUp == CanvasSpec => []ReaderShowsTheFile
<1>1. CanvasInvariant => ReaderShowsTheFile
  BY DEF CanvasInvariant, ReaderInv, ReaderShowsTheFile
<1> QED BY <1>1, CanvasInvariantHolds, PTL

(* The user's token never goes to another app's iframe                     *)
(* (useChildAppMount.ts).                                                  *)
THEOREM TokenReachesItsApp == CanvasSpec => []InitReachesItsApp
<1>1. CanvasInvariant => InitReachesItsApp
  BY DEF CanvasInvariant, AppInv
<1> QED BY <1>1, CanvasInvariantHolds, PTL
=============================================================================
