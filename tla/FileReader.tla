------------------------------ MODULE FileReader ------------------------------
(***************************************************************************)
(* One file open in the canvas: features/canvas/hooks/useFileContent.ts    *)
(* and its screen, over core/files.ts, on a file that the agent writes     *)
(* too.  Texts are numbered as they are written; 0 is the empty text.      *)
(***************************************************************************)
EXTENDS Naturals

CONSTANTS MaxTexts,     \* texts that are ever written
          MaxNotices    \* notices on their way at once

ASSUME ReaderAssumption == MaxTexts \in Nat \ {0} /\ MaxNotices \in Nat

VARIABLES
    disk,       \* the file in the sandbox
    texts,      \* texts written so far
    channel,    \* the stream of file_changed events: "opening", "open", "closed"
    notices,    \* file_changed events on their way
    reading,    \* GET /file calls under way, with the text once it is read
    shown,      \* content
    loading,    \* no read has come in yet
    failed,     \* error: the last read failed
    editing,
    draft,      \* editContent
    saving,     \* the POST /files under way: its text, and whether it landed
    missed      \* history: a write before the channel was open, or between
                \* a save and its answer

readerVars ==
    <<disk, texts, channel, notices, reading, shown, loading, failed,
      editing, draft, saving, missed>>
-----------------------------------------------------------------------------
NotSaving == [text |-> 0, at |-> "none"]
Read == [text |-> 0, at |-> "asked"]

Restart_NotAborted(calls) == calls \cup {Read}

(* A new read effect aborts the read of the one before.                    *)
Restart(calls) == {Read}
(* The reader is mounted on a path, reads it and subscribes.               *)
ReaderInit ==
    /\ disk = 1 /\ texts = 1
    /\ channel = "opening"
    /\ notices = 0
    /\ reading = {Read}
    /\ shown = 0 /\ loading = TRUE /\ failed = FALSE
    /\ editing = FALSE /\ draft = 0 /\ saving = NotSaving
    /\ missed = FALSE

Write(t) ==
    /\ notices < MaxNotices
    /\ disk' = t
    /\ notices' = IF channel = "open" THEN notices + 1 ELSE notices
    /\ missed' = (missed \/ channel = "opening" \/ saving.at = "landed")

AgentWrites ==
    /\ texts < MaxTexts
    /\ texts' = texts + 1 /\ Write(texts + 1)
    /\ UNCHANGED <<loading, channel, reading, shown, failed, editing, draft, saving>>

(* subscribeFileChanges gets its stream, which tells of later writes only. *)
ChannelOpens ==
    /\ channel = "opening"
    /\ channel' = "open"
    /\ UNCHANGED <<disk, texts, notices, reading, shown,
                   failed, editing, draft, saving, missed, loading>>

(* The stream cannot be opened, or breaks: no more live refresh.           *)
ChannelBreaks ==
    /\ channel # "closed"
    /\ channel' = "closed" /\ notices' = 0
    /\ UNCHANGED <<disk, texts, reading, shown,
                   failed, editing, draft, saving, missed, loading>>

(* file_changed for this path: the revision moves and the read runs again. *)
NoticeArrives ==
    /\ notices > 0
    /\ notices' = notices - 1
    /\ reading' = Restart(reading)
    /\ failed' = FALSE
    /\ UNCHANGED <<disk, texts, channel, shown,
                   editing, draft, saving, missed, loading>>

ServeRead(r) ==
    /\ r.at = "asked"
    /\ reading' = (reading \ {r}) \cup {[text |-> disk, at |-> "served"]}
    /\ UNCHANGED <<disk, texts, channel, notices, shown,
                   failed, editing, draft, saving, missed, loading>>

ReadArrives(r) ==
    /\ r.at = "served"
    /\ reading' = reading \ {r}
    /\ shown' = r.text /\ loading' = FALSE
    /\ UNCHANGED <<disk, texts, channel, notices,
                   failed, editing, draft, saving, missed>>

ReadFails(r) ==
    /\ reading' = reading \ {r}
    /\ shown' = 0 /\ loading' = FALSE /\ failed' = TRUE
    /\ UNCHANGED <<disk, texts, channel, notices, editing, draft, saving, missed>>
-----------------------------------------------------------------------------
(* Edit starts from what is shown; the toolbar offers Cancel and Save only *)
(* while no save is under way, the text can be changed at any time.        *)
EnterEdit ==
    /\ ~editing
    /\ editing' = TRUE /\ draft' = shown
    /\ UNCHANGED <<disk, texts, channel, notices, reading, shown, failed, saving, missed, loading>>

Type ==
    /\ editing /\ ~loading /\ ~failed /\ texts < MaxTexts
    /\ texts' = texts + 1 /\ draft' = texts + 1
    /\ UNCHANGED <<disk, channel, notices, reading,
                   shown, failed, editing, saving, missed, loading>>

CancelEdit ==
    /\ editing /\ saving = NotSaving
    /\ editing' = FALSE
    /\ UNCHANGED <<disk, texts, channel, notices, reading, shown, failed, draft, saving, missed, loading>>

Save ==
    /\ editing /\ saving = NotSaving
    /\ saving' = [text |-> draft, at |-> "sent"]
    /\ UNCHANGED <<disk, texts, channel, notices, reading,
                   shown, failed, editing, draft, missed, loading>>

SaveLands ==
    /\ saving.at = "sent"
    /\ saving' = [saving EXCEPT !.at = "landed"]
    /\ Write(saving.text)
    /\ UNCHANGED <<loading, texts, channel, reading, shown, failed, editing, draft>>

(* writeFiles answers ok: the saved text is shown and the editor closes.   *)
SaveSucceeds ==
    /\ saving.at = "landed"
    /\ saving' = NotSaving
    /\ shown' = saving.text /\ editing' = FALSE
    /\ UNCHANGED <<disk, texts, channel, notices, reading, failed, draft, missed, loading>>

(* It is refused, or its answer is lost: the editor stays with the error.  *)
SaveFails ==
    /\ saving # NotSaving
    /\ saving' = NotSaving
    /\ UNCHANGED <<disk, texts, channel, notices, reading,
                   shown, failed, editing, draft, missed, loading>>

ReaderNext ==
    \/ AgentWrites \/ ChannelOpens \/ ChannelBreaks \/ NoticeArrives
    \/ \E r \in reading : ServeRead(r) \/ ReadArrives(r) \/ ReadFails(r)
    \/ EnterEdit \/ Type \/ CancelEdit
    \/ Save \/ SaveLands \/ SaveSucceeds \/ SaveFails
-----------------------------------------------------------------------------
(* Once all that is under way has come in, the reader shows the file as it *)
(* is, whoever wrote it and however reads, notices and saves overtook each *)
(* other.  Out are a reader without its channel, a read that failed, and   *)
(* what the code misses: a write before the channel opened, and a write    *)
(* between a save and its answer, which setContent puts back after it.     *)
ReaderShowsTheFile ==
    \/ channel # "open" \/ failed \/ missed
    \/ notices > 0 \/ reading # {} \/ saving # NotSaving
    \/ shown = disk
=============================================================================
