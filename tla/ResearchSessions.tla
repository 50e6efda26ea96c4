--------------------------- MODULE ResearchSessions ---------------------------
(***************************************************************************)
(* handlers/research.py: research sessions, their transcripts and captures *)
(* in several servers that share SQLite, the vault and the marker file.    *)
(*                                                                         *)
(* Only the server that started a session has it in _active_sessions; any  *)
(* server that finds its row can end it.  The notes of a session are in a  *)
(* folder named after its name and the day, here one day; names that give  *)
(* one folder are one name (captures have another folder).  RedisClient has*)
(* no get, set, delete or lpush, so what the handler asks of Redis always  *)
(* raises, is caught, and does nothing.                                    *)
(***************************************************************************)
EXTENDS Naturals, FiniteSets

CONSTANTS Servers, Sessions, Names,
          Transcripts, Captures, \* what can be stored, each once
          Nothing                \* None, none of the above

\* The folder of a session is not that of captures without one.
ASSUME ResearchAssumption ==
    /\ Names \cap Sessions = {}
    /\ Nothing \notin Names \cup Sessions \cup (Names \X Nat) \cup (Sessions \X Nat)

VARIABLES name,   \* Sessions -> its name, or Nothing before it is started
          active, \* Servers -> the keys of _active_sessions
          held,   \* Sessions -> the items in its entry of _active_sessions
          rows,   \* the sessions with a row in SQLite, whose status nothing reads
          texts,  \* vault: Names -> the items of the transcript note
          noted,  \* vault: capture -> where its note was reported to be
          marker, \* research_session_active: the session in it
          ending, \* Servers -> the session it ends and what it does next
          told,   \* history: Sessions -> transcripts reported stored while it
                  \* was in memory, and not lost with a server since
          stale   \* history: a server died, or the marker was not removed

researchVars == <<name, active, held, rows, texts, noted, marker, ending, told, stale>>

NotEnding == [id |-> Nothing, step |-> "none"]

ResearchInit ==
    /\ name = [i \in Sessions |-> Nothing]
    /\ active = [s \in Servers |-> {}]
    /\ held = [i \in Sessions |-> {}]
    /\ rows = {}
    /\ texts = [n \in Names |-> {}]
    /\ noted = [x \in Captures |-> Nothing]
    /\ marker = Nothing
    /\ ending = [s \in Servers |-> NotEnding]
    /\ told = [i \in Sessions |-> {}]
    /\ stale = FALSE

Free(s) == ending[s] = NotEnding
IsActive(i) == \E s \in Servers : i \in active[s]

----------------------------------------------------------------------------
(* session_start                                                           *)

\* upsert returns False, and the marker file is not written, without a word.
StartSession(s, i, n) ==
    /\ Free(s)
    /\ name[i] = Nothing
    /\ name' = [name EXCEPT ![i] = n]
    /\ active' = [active EXCEPT ![s] = @ \cup {i}]
    /\ rows' \in {rows, rows \cup {i}}
    /\ marker' \in {marker, i}
    /\ UNCHANGED <<held, texts, noted, ending, told, stale>>

----------------------------------------------------------------------------
(* transcript_store, capture_store                                         *)

\* The row of an item, which is its own, is reported stored in any case.  Only
\* a session that is active here gets the item; elsewhere there is nothing else.
StoreTranscript(s, i, x) ==
    /\ Free(s)
    /\ i \in active[s]
    /\ \A j \in Sessions : x \notin told[j]
    /\ held' = [held EXCEPT ![i] = @ \cup {x}]
    /\ told' = [told EXCEPT ![i] = @ \cup {x}]
    /\ UNCHANGED <<name, active, rows, texts, noted, marker, ending, stale>>

\* Where the note of a capture goes: its number is that of the session's
\* captures, this one included.  A session that is not active here has a folder
\* named after its id, where every number is 1.
NoteOf(s, i) ==
    IF i \in active[s] THEN <<name[i], Cardinality(held[i] \cap Captures) + 1>>
    ELSE <<i, 1>>

\* The note may not be written, and the answer has no path then.
StoreCapture(s, i, x) ==
    /\ Free(s)
    /\ noted[x] = Nothing /\ \A j \in Sessions : x \notin held[j]
    /\ name[i] # Nothing
    /\ held' = [held EXCEPT ![i] = IF i \in active[s] THEN @ \cup {x} ELSE @]
    /\ noted' \in {noted, [noted EXCEPT ![x] = NoteOf(s, i)]}
    /\ UNCHANGED <<name, active, rows, texts, marker, ending, told, stale>>

----------------------------------------------------------------------------
(* session_end                                                             *)

IsAt(s, step) == ending[s].step = step
ServerGoes(s, step) == ending' = [ending EXCEPT ![s].step = step]

\* What is ended is in memory or has a row; otherwise it is not found.  The note
\* of the session itself, which nothing reads, is the first that is written.
EndSession(s, i) ==
    /\ Free(s)
    /\ i \in active[s] \cup rows
    /\ ending' = [ending EXCEPT ![s] = [id |-> i, step |-> "transcript"]]
    /\ UNCHANGED <<name, active, held, rows, texts, noted, marker, told, stale>>

\* The transcripts that this server has.
Known(s) == IF ending[s].id \in active[s] THEN held[ending[s].id] \cap Transcripts ELSE {}

\* Mutant: the note is written without transcripts too.
WriteAnyTranscript(s) ==
    /\ IsAt(s, "transcript")
    /\ texts' = [texts EXCEPT ![name[ending[s].id]] = Known(s)]
    /\ ServerGoes(s, "leave")
    /\ UNCHANGED <<name, active, held, rows, noted, marker, told, stale>>

WriteTranscript(s) ==
    /\ IsAt(s, "transcript")
    /\ texts' = IF Known(s) = {} THEN texts
                ELSE [texts EXCEPT ![name[ending[s].id]] = Known(s)]
    /\ ServerGoes(s, "leave")
    /\ UNCHANGED <<name, active, held, rows, noted, marker, told, stale>>

\* What the transcript note is while it is written: the old one, or empty.
Partial(s) ==
    IF IsAt(s, "transcript") /\ Known(s) # {}
    THEN {texts, [texts EXCEPT ![name[ending[s].id]] = {}]} ELSE {texts}

\* The transcript note or the one of the insights cannot be written: the handler
\* raises, and the session stays as it is.
WriteFails(s) ==
    /\ ~Free(s)
    /\ texts' \in Partial(s)
    /\ ending' = [ending EXCEPT ![s] = NotEnding]
    /\ UNCHANGED <<name, active, held, rows, noted, marker, told, stale>>

\* The marker goes, whichever session is in it, or it cannot be removed.
RemoveMarker ==
    \/ marker' = Nothing /\ UNCHANGED stale
    \/ UNCHANGED marker /\ stale' = TRUE

\* Mutant: a session without a row has left before the marker is removed.
LeaveSessionByRow(s) ==
    LET i == ending[s].id
    IN  /\ IsAt(s, "leave")
        /\ active' = [active EXCEPT ![s] = @ \ {i}]
        /\ held' = [held EXCEPT ![i] = IF i \in active[s] THEN {} ELSE @]
        /\ IF i \notin rows THEN UNCHANGED <<marker, stale>> ELSE RemoveMarker
        /\ ending' = [ending EXCEPT ![s] = NotEnding]
        /\ UNCHANGED <<name, rows, texts, noted, told>>

\* The insights are written and the row is updated, if there is one; then the
\* session leaves _active_sessions.
LeaveSession(s) ==
    LET i == ending[s].id
    IN  /\ IsAt(s, "leave")
        /\ active' = [active EXCEPT ![s] = @ \ {i}]
        /\ held' = [held EXCEPT ![i] = IF i \in active[s] THEN {} ELSE @]
        /\ RemoveMarker
        /\ ending' = [ending EXCEPT ![s] = NotEnding]
        /\ UNCHANGED <<name, rows, texts, noted, told>>

\* A server dies, in the middle of an end or not, and another takes its place.
RestartServer(s) ==
    /\ active' = [active EXCEPT ![s] = {}]
    /\ held' = [i \in Sessions |-> IF i \in active[s] THEN {} ELSE held[i]]
    /\ told' = [i \in Sessions |-> IF i \in active[s] THEN told[i] \ held[i] ELSE told[i]]
    /\ texts' \in Partial(s)
    /\ ending' = [ending EXCEPT ![s] = NotEnding]
    /\ stale' = TRUE
    /\ UNCHANGED <<name, rows, noted, marker>>

ResearchNext ==
    \E s \in Servers :
        \/ \E i \in Sessions :
              \/ \E n \in Names : StartSession(s, i, n)
              \/ \E x \in Transcripts : StoreTranscript(s, i, x)
              \/ \E x \in Captures : StoreCapture(s, i, x)
              \/ EndSession(s, i)
        \/ WriteTranscript(s) \/ WriteFails(s) \/ LeaveSession(s) \/ RestartServer(s)

ResearchSpec == ResearchInit /\ [][ResearchNext]_researchVars

----------------------------------------------------------------------------
(* Properties                                                              *)

\* No other session of the day has its name, and so its folder.
Alone(i) == \A j \in Sessions \ {i} : name[j] # name[i]

\* "End a research session and generate summary": what a session was told is
\* not lost by ending it.  A transcript is in the memory of its server or in the
\* transcript note, however often, by whichever server and with whatever
\* failures the session is ended, and no capture's note overwrites another's.
NothingIsLost ==
    \A i \in Sessions :
        name[i] # Nothing /\ Alone(i) =>
            /\ told[i] \subseteq held[i] \cup texts[name[i]]
            /\ \A x, y \in Captures :
                  x # y /\ noted[x] # Nothing /\ noted[x][1] = name[i] => noted[x] # noted[y]

\* The hooks find a session in the marker file only while it is active,
\* although every end removes the marker of whatever session is in it.
MarkerIsOpen == marker # Nothing /\ ~stale => IsActive(marker)

\* Ending a research session loses nothing that it was told, and the marker file
\* names a session that is active.
SessionsAreKept == NothingIsLost /\ MarkerIsOpen
=============================================================================
