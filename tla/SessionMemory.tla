--------------------------- MODULE SessionMemory ---------------------------
(***************************************************************************)
(* What a session remembers (src/src/server/sessionMemory.ts and the two   *)
(* places where the /message route of server/http.ts uses it): one JSON    *)
(* file holds the latest turns of every session of every owner.  A message *)
(* recalls its session's turns when it starts, and once it is settled, and *)
(* after the session's lock is free again, reads the whole file, adds its  *)
(* turn and writes the whole file back.  Nothing keeps two updates apart.  *)
(***************************************************************************)
EXTENDS Naturals, Sequences, SequencesExt

CONSTANTS
    Message,    \* messages, each sent once; also the name of the turn it adds
    From,       \* From[m]: the owner and session of message m
    MAX_TURNS   \* turns kept per session, 6 in the code

ASSUME MessageAssumption == \A m \in Message : DOMAIN From[m] = {"owner", "session"}
ASSUME TurnsAssumption == MAX_TURNS \in Nat \ {0}

VARIABLES
    stage,      \* stage[m]: how far m's route is
    recalled,   \* recalled[m]: the turns put in front of m's prompt
    copy,       \* copy[m]: the store m's update is going to write
    file,       \* the memory file: what its text is, and the store it parses to
    told,       \* history: told[k], the turns of k whose update went through
    disturbed   \* history: two updates overlapped, one was cut short, or one
                \* could not read the file

vars == <<stage, recalled, copy, file, told, disturbed>>

key_NoOwner(m) == From[m].session

(* `${ownerId}:${sessionId}`, as a pair: an owner id is a uuid, which has  *)
(* no colon.                                                               *)
key(m) == <<From[m].owner, From[m].session>>

Keys == {key(m) : m \in Message}

(* A file that is missing, torn or not JSON is an empty store.             *)
Unreadable == [k \in Keys |-> <<>>]
NoFile == [text |-> "none", store |-> Unreadable]
Garbage == [text |-> "garbage", store |-> Unreadable]

Init ==
    /\ stage = [m \in Message |-> "new"]
    /\ recalled = [m \in Message |-> <<>>]
    /\ copy = [m \in Message |-> Unreadable]
    /\ file = NoFile
    /\ told = [k \in {<<From[m].owner, From[m].session>> : m \in Message} |-> <<>>]
    /\ disturbed = FALSE
-----------------------------------------------------------------------------
At(m, from, to) == stage[m] = from /\ stage' = [stage EXCEPT ![m] = to]
Updating == {m \in Message : stage[m] \in {"merged", "writing"}}

(* readStore: what the file parses to; a read that fails is an empty store,*)
(* though the file is intact.                                              *)
Read == {file.store, Unreadable}

(* getSessionMemory, before the run starts.                                *)
Recall(m) ==
    /\ At(m, "new", "running")
    /\ \E store \in Read : recalled' = [recalled EXCEPT ![m] = store[key(m)]]
    /\ UNCHANGED <<copy, file, told, disturbed>>

LastTurns_Oldest(turns) == IF Len(turns) > MAX_TURNS THEN SubSeq(turns, 1, MAX_TURNS) ELSE turns

LastTurns(turns) ==
    IF Len(turns) > MAX_TURNS
    THEN SubSeq(turns, Len(turns) - MAX_TURNS + 1, Len(turns)) ELSE turns

(* The run is settled: updateSessionMemory reads the file and adds a turn. *)
(* What a failed read did not see is gone when the store is written back.  *)
Merge(m) ==
    /\ At(m, "running", "merged")
    /\ \E store \in Read :
          /\ copy' = [copy EXCEPT ![m] = [store EXCEPT ![key(m)] = LastTurns(Append(@, m))]]
          /\ disturbed' = (disturbed \/ Updating # {} \/ store # file.store)
    /\ UNCHANGED <<recalled, file, told>>

(* writeFile opens the file, which empties it ...                          *)
Truncate(m) ==
    /\ At(m, "merged", "writing")
    /\ file' = NoFile
    /\ UNCHANGED <<recalled, copy, told, disturbed>>

(* ... and then writes from its start.  If another update has written      *)
(* since, a shorter text leaves the tail of the longer one behind it.      *)
Write(m) ==
    /\ At(m, "writing", "answered")
    /\ \/ file' = [text |-> "store", store |-> copy[m]]
       \/ file.text # "none" /\ file' = Garbage
    /\ told' = [told EXCEPT ![<<From[m].owner, From[m].session>>] = Append(@, m)]
    /\ UNCHANGED <<recalled, copy, disturbed>>

(* mkdir, open or write fails: the route swallows it and goes on.          *)
Fail(m) ==
    /\ m \in Updating
    /\ stage' = [stage EXCEPT ![m] = "answered"]
    /\ disturbed' = TRUE
    /\ UNCHANGED <<recalled, copy, file, told>>

(* The server dies and starts again: the file stays as it is.              *)
Crash ==
    /\ \E m \in Message : stage[m] \in {"running", "merged", "writing"}
    /\ stage' = [m \in Message |-> IF stage[m] = "new" THEN "new" ELSE "answered"]
    /\ disturbed' = (disturbed \/ Updating # {})
    /\ UNCHANGED <<recalled, copy, file, told>>

Next ==
    \/ \E m \in Message : Recall(m) \/ Merge(m) \/ Truncate(m) \/ Write(m) \/ Fail(m)
    \/ Crash

Spec == Init /\ [][Next]_vars
-----------------------------------------------------------------------------
Store == [Keys -> Seq(Message)]

TypeOK ==
    /\ stage \in [Message -> {"new", "running", "merged", "writing", "answered"}]
    /\ recalled \in [Message -> Seq(Message)]
    /\ copy \in [Message -> Store]
    /\ file \in [text : {"none", "garbage", "store"}, store : Store]
    /\ file.text # "store" => file.store = Unreadable
    /\ disturbed \in BOOLEAN
    /\ \A k \in Keys : Len(file.store[k]) <= MAX_TURNS

(* What a message recalls are turns of its own owner and session that went *)
(* through, in the order they did: whatever overlaps, tears or crashes, a  *)
(* conversation is never put together out of order, with a turn twice or   *)
(* from somebody else's ("owner-scoped", README.md:254).                   *)
ConversationInOrder ==
    \A m \in Message :
        LET turns == recalled[m]
            past  == told[<<From[m].owner, From[m].session>>]
        IN \A i \in DOMAIN turns : \E a \in DOMAIN past :
            /\ past[a] = turns[i]
            /\ \A j \in i+1..Len(turns) : \E b \in a+1..Len(past) : past[b] = turns[j]

(* As long as updates come one after the other, each reads the file and    *)
(* none is cut short, it holds exactly the latest turns of every session,  *)
(* however messages of several owners take turns and wherever a crash      *)
(* falls between them ("remembers the latest turns for a `sessionId`",     *)
(* README.md:254).                                                         *)
RemembersLatest ==
    (~disturbed /\ Updating = {}) =>
        \A k \in DOMAIN told :
            /\ IsSuffix(file.store[k], told[k])
            /\ Len(file.store[k]) = IF Len(told[k]) < MAX_TURNS THEN Len(told[k]) ELSE MAX_TURNS
=============================================================================
