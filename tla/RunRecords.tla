----------------------------- MODULE RunRecords -----------------------------
(***************************************************************************)
(* What the /message route leaves in the database: the run's row and its   *)
(* numbered events (src/src/server/db/runStore.ts), the transcript         *)
(* (messageStore.ts) and the session's row with its message tally          *)
(* (sessionStore.ts), written by server/db/persistence.ts around a run.    *)
(*                                                                         *)
(* Only the run row, its completion and the assistant's message are        *)
(* awaited.  Everything else is fired and forgotten, so its queries land   *)
(* whenever they like, also after the route answered.  Every query may     *)
(* fail, and every failure is swallowed.  The tables are the environment.  *)
(* Every run here has a chat: without one no message is stored or counted. *)
(***************************************************************************)
EXTENDS Naturals, Sequences, FiniteSets

CONSTANTS
    Run,        \* persisted messages, each sent once
    Session,
    SessionOf,  \* SessionOf[r]: the session r is sent to
    MaxEvents,  \* bound: MaxEvents[r], the events r's sink sees
    None

ASSUME RunAssumption == SessionOf \in [Run -> Session] /\ MaxEvents \in [Run -> Nat]
ASSUME NoneAssumption == None \notin Nat \cup {"open", "closed"}

VARIABLES
    phase,      \* stage[r]: how far r's route is
    row,        \* table runs: row[r], "open" while its status is running,
                \* "closed" with any other, None if there is none
    counter,    \* seqCounters[r], 0 when absent
    emitted,    \* emitted[r]: how many events the sink has seen
    appending,  \* appending[r]: the event inserts under way, [n, seq]
    events,     \* table run_events: events[r], its rows [n, seq]
    cut,        \* history: cut[r], the events seen when the counter was dropped
    linking,    \* linking[r]: where ensureSession is
    bumping,    \* bumping[r]: where bumpSession is, with the row and tally it read
    tallies,    \* table opencode_sessions: tallies[s], message_count of each row of s
    sending,    \* the runs whose user message is on its way
    transcript, \* table chat_messages: <<role, run>> in the order they landed
    tainted     \* history: the sessions where a query failed, or a message
                \* began before the writes of another had landed

recordVars == <<phase, row, counter, emitted, appending, events, cut, linking, bumping,
                tallies, sending, transcript, tainted>>
runVars == <<phase, row>>
eventVars == <<counter, emitted, appending, events, cut>>
sessionVars == <<linking, bumping, tallies>>
chatVars == <<sending, transcript>>

Phases == {"new", "creating", "running", "completing", "recording", "answered"}
NoBump == [at |-> "no", line |-> 0, count |-> 0]

(* r still owes the session's row or transcript a write.                   *)
Busy(r) ==
    \/ phase[r] \notin {"new", "answered"}
    \/ linking[r] # "no" \/ bumping[r].at # "no" \/ r \in sending

RecordsInit ==
    /\ phase = [r \in Run |-> "new"]
    /\ row = [r \in Run |-> None]
    /\ counter = [r \in Run |-> 0]
    /\ emitted = [r \in Run |-> 0]
    /\ appending = [r \in Run |-> {}]
    /\ events = [r \in Run |-> {}]
    /\ cut = [r \in Run |-> None]
    /\ linking = [r \in Run |-> "no"]
    /\ bumping = [r \in Run |-> NoBump]
    /\ tallies = [s \in Session |-> <<>>]
    /\ sending = {}
    /\ transcript = <<>>
    /\ tainted = {}
-----------------------------------------------------------------------------
Moves(r, from, to) == phase[r] = from /\ phase' = [phase EXCEPT ![r] = to]

TaintIf(condition, r) ==
    tainted' = IF condition THEN tainted \cup {SessionOf[r]} ELSE tainted

(* The route enters createRunPersistence: createRun is awaited.            *)
Begin(r) ==
    /\ Moves(r, "new", "creating")
    /\ TaintIf(\E q \in Run : SessionOf[q] = SessionOf[r] /\ Busy(q), r)
    /\ UNCHANGED <<row, eventVars, sessionVars, chatVars>>

(* createRun inserted its row, or threw.  The session's and the user's     *)
(* rows are sent off and the run starts.                                   *)
Created(r) ==
    /\ Moves(r, "creating", "running")
    /\ \/ row' = [row EXCEPT ![r] = "open"]
       \/ UNCHANGED row
    /\ linking' = [linking EXCEPT ![r] = "lookup"]
    /\ sending' = sending \cup {r}
    /\ UNCHANGED <<eventVars, bumping, tallies, transcript, tainted>>

UserStored(r) ==
    /\ r \in sending
    /\ sending' = sending \ {r}
    /\ transcript' = Append(transcript, <<"user", r>>)
    /\ UNCHANGED <<runVars, eventVars, sessionVars, tainted>>

UserLost(r) ==
    /\ r \in sending
    /\ sending' = sending \ {r}
    /\ TaintIf(TRUE, r)
    /\ UNCHANGED <<runVars, eventVars, sessionVars, transcript>>

LookUp(s) == IF tallies[s] = <<>> THEN "insert" ELSE "no"

(* ensureSession's select: without a row it inserts one, with a row it     *)
(* only touches the time stamp.  Its error is not looked at: a select that *)
(* fails reads as no row, and a second row may follow.                     *)
LookedUp(r) ==
    /\ linking[r] = "lookup"
    /\ \/ /\ linking' = [linking EXCEPT ![r] = LookUp(SessionOf[r])]
          /\ UNCHANGED tainted
       \/ /\ linking' = [linking EXCEPT ![r] = "insert"]
          /\ TaintIf(TRUE, r)
    /\ UNCHANGED <<runVars, eventVars, bumping, tallies, chatVars>>

Linked(r) ==
    /\ linking[r] = "insert"
    /\ linking' = [linking EXCEPT ![r] = "no"]
    /\ tallies' = [tallies EXCEPT ![SessionOf[r]] = Append(@, 0)]
    /\ UNCHANGED <<runVars, eventVars, bumping, chatVars, tainted>>

LinkFailed(r) ==
    /\ linking[r] # "no"
    /\ linking' = [linking EXCEPT ![r] = "no"]
    /\ TaintIf(TRUE, r)
    /\ UNCHANGED <<runVars, eventVars, bumping, tallies, chatVars>>

NextSeq_RowsSoFar(r) == Cardinality(events[r]) + 1
NextSeq(r) == counter[r] + 1

(* The sink sees an event: its number is drawn at once, its insert lands   *)
(* later.  A tool that outlives its run emits after the route answered.    *)
Emit(r) ==
    /\ phase[r] \notin {"new", "creating"}
    /\ emitted[r] < MaxEvents[r]
    /\ emitted' = [emitted EXCEPT ![r] = @ + 1]
    /\ counter' = [counter EXCEPT ![r] = NextSeq(r)]
    /\ appending' = [appending EXCEPT ![r] = @ \cup {[n |-> emitted[r] + 1, seq |-> NextSeq(r)]}]
    /\ UNCHANGED <<runVars, events, cut, sessionVars, chatVars, tainted>>

(* An insert lands, in any order.  One that fails, or that the foreign key *)
(* refuses for want of a run row, stays under way for good: nothing waits  *)
(* for it.                                                                 *)
Appended(r, e) ==
    /\ row[r] # None
    /\ appending' = [appending EXCEPT ![r] = @ \ {e}]
    /\ events' = [events EXCEPT ![r] = @ \cup {e}]
    /\ UNCHANGED <<runVars, counter, emitted, cut, sessionVars, chatVars, tainted>>

(* The RunResult is there; settle awaits completeRun.                      *)
Settle(r) ==
    /\ Moves(r, "running", "completing")
    /\ UNCHANGED <<row, eventVars, sessionVars, chatVars, tainted>>

(* completeRun updates the row, if there is one, and drops the counter.    *)
Completed(r) ==
    /\ Moves(r, "completing", "recording")
    /\ row' = [row EXCEPT ![r] = IF @ = None THEN None ELSE "closed"]
    /\ counter' = [counter EXCEPT ![r] = 0]
    /\ cut' = [cut EXCEPT ![r] = emitted[r]]
    /\ UNCHANGED <<emitted, appending, events, sessionVars, chatVars, tainted>>

CompleteFailed(r) ==
    /\ Moves(r, "completing", "recording")
    /\ UNCHANGED <<row, eventVars, sessionVars, chatVars, tainted>>

(* The assistant's message is stored (or not), the bump is sent off, and   *)
(* the route answers: the session's row and the user's message, which      *)
(* nothing awaited, may still be on their way.                             *)
Answer(r) ==
    /\ Moves(r, "recording", "answered")
    /\ bumping' = [bumping EXCEPT ![r] = [NoBump EXCEPT !.at = "read"]]
    /\ \/ transcript' = Append(transcript, <<"assistant", r>>) /\ UNCHANGED tainted
       \/ UNCHANGED transcript /\ TaintIf(TRUE, r)
    /\ UNCHANGED <<row, eventVars, linking, tallies, sending>>

(* bumpSession reads the tally of one row of the session, or finds none    *)
(* and leaves it at that ...                                               *)
BumpRead(r) ==
    LET rows == tallies[SessionOf[r]] IN
    /\ bumping[r].at = "read"
    /\ \/ /\ rows = <<>>
          /\ bumping' = [bumping EXCEPT ![r] = NoBump]
       \/ \E i \in 1..Len(rows) :
            bumping' = [bumping EXCEPT ![r] = [at |-> "write", line |-> i, count |-> rows[i]]]
    /\ UNCHANGED <<runVars, eventVars, linking, tallies, chatVars, tainted>>

Bumped_One(count) == count + 1
Bumped(count) == count + 2

(* ... and writes it back, two messages up.                                *)
BumpWritten(r) ==
    /\ bumping[r].at = "write"
    /\ bumping' = [bumping EXCEPT ![r] = NoBump]
    /\ tallies' = [tallies EXCEPT ![SessionOf[r]][bumping[r].line] = Bumped(bumping[r].count)]
    /\ UNCHANGED <<runVars, eventVars, linking, chatVars, tainted>>

BumpFailed(r) ==
    /\ bumping[r].at # "no"
    /\ bumping' = [bumping EXCEPT ![r] = NoBump]
    /\ TaintIf(TRUE, r)
    /\ UNCHANGED <<runVars, eventVars, linking, tallies, chatVars>>

RecordsNext == \E r \in Run :
    \/ Begin(r) \/ Created(r)
    \/ UserStored(r) \/ UserLost(r)
    \/ LookedUp(r) \/ Linked(r) \/ LinkFailed(r)
    \/ Emit(r) \/ \E e \in appending[r] : Appended(r, e)
    \/ Settle(r) \/ Completed(r) \/ CompleteFailed(r) \/ Answer(r)
    \/ BumpRead(r) \/ BumpWritten(r) \/ BumpFailed(r)

RecordsSpec == RecordsInit /\ [][RecordsNext]_recordVars
-----------------------------------------------------------------------------
Numbered(r) == [n : 1..MaxEvents[r], seq : 1..MaxEvents[r]]

RecordsTypeOK ==
    /\ phase \in [Run -> Phases]
    /\ row \in [Run -> {"open", "closed", None}]
    /\ \A r \in Run :
        /\ counter[r] <= emitted[r] /\ emitted[r] \in 0..MaxEvents[r]
        /\ appending[r] \cup events[r] \subseteq Numbered(r)
        /\ cut[r] \in 0..MaxEvents[r] \cup {None}
    /\ linking \in [Run -> {"no", "lookup", "insert"}]
    /\ bumping \in [Run -> [at : {"no", "read", "write"}, line : Nat, count : Nat]]
    /\ tallies \in [Session -> Seq(Nat)]
    /\ sending \subseteq Run
    /\ tainted \subseteq Session
    /\ \A r \in Run : bumping[r].at = "write" => bumping[r].line \in DOMAIN tallies[SessionOf[r]]

(* Replaying a run's events by seq gives them in the order they were       *)
(* emitted, in whatever order their inserts landed and whichever failed    *)
(* ("ordering is by seq, not await order", runStore.ts:75), up to those    *)
(* that come after the run is completed, where the numbers start again.    *)
ReplayInOrder ==
    \A r \in Run : \A e, f \in events[r] :
        (cut[r] = None \/ (e.n <= cut[r] /\ f.n <= cut[r])) =>
            (e.n < f.n <=> e.seq < f.seq)

(* Where each message of a session begins when the writes of the one       *)
(* before have landed, and no query fails, the session has one row however *)
(* the writes of one message overtake each other, every answer has its     *)
(* question in the transcript, and no other message stands between them.   *)
(* The row counts the transcript, or all of it but two messages: the bump  *)
(* of a first message may come before the insert of the row it looks for   *)
(* and be skipped.                                                         *)
TallyCountsTranscript ==
    \A s \in Session :
        LET mine == {i \in DOMAIN transcript : SessionOf[transcript[i][2]] = s}
            n == Cardinality(mine)
        IN (s \notin tainted /\ \A r \in Run : SessionOf[r] = s => ~Busy(r)) =>
            /\ tallies[s] \in (IF n = 0 THEN {<<>>} ELSE {<<n>>, <<n - 2>>})
            /\ \A i \in mine : transcript[i][1] = "assistant" =>
                \E j \in mine : transcript[j] = <<"user", transcript[i][2]>>
            /\ \A i, j, k \in mine :
                i < j /\ j < k /\ transcript[i][2] = transcript[k][2] =>
                    transcript[j][2] = transcript[i][2]
=============================================================================
