----------------------------- MODULE VaultNotes -----------------------------
(***************************************************************************)
(* vault_manager.py: notes that several processes write and read, and that *)
(* their owner edits with other programs, Obsidian for one.  A write reads *)
(* the note that is there to keep its "created", and a search reads one    *)
(* note after the other; both are cut between two looks at the disk.       *)
(*                                                                         *)
(* A note is absent, torn (opened for writing and empty), whole, or        *)
(* foreign: its front matter is YAML that the readers cannot use, as the   *)
(* text between two rules is, and reading it raises.  Every note matches   *)
(* what is searched for, unless it is torn.                                *)
(***************************************************************************)
EXTENDS Naturals

CONSTANTS Writers, Readers, Paths, MaxStamp, NoPath

ASSUME VaultAssumption == NoPath \notin Paths

VARIABLES
    note,           \* the state of each file
    created,        \* its "created", 0 if it has none
    stamps,         \* the stamps that writes have taken
    writing, path,  \* the step a writer is at, and its note
    stamp,          \* the "created" it will write
    listed, found,  \* a search: the paths it has still to read, what it has found
    phase,          \* "idle", "next", "read"; "done" or "failed" at the end
    reading,        \* the path it is about to read
    born, broken,   \* history: the first "created" of a note; a write was disturbed
    steady,         \* history: notes that were there, whole, all through a search
    pardoned        \* history: a search has met a foreign note, or a removal

vaultVars == <<note, created, stamps, writing, path, stamp, listed, found, phase, reading,
               born, broken, steady, pardoned>>
vaultFiles == <<note, created>>
writer == <<stamps, writing, path, stamp>>
search == <<listed, found, phase, reading>>

VaultInit ==
    /\ note = [p \in Paths |-> "absent"] /\ created = [p \in Paths |-> 0] /\ stamps = 0
    /\ writing = [w \in Writers |-> "idle"] /\ path = [w \in Writers |-> NoPath]
    /\ stamp = [w \in Writers |-> 0]
    /\ listed = [r \in Readers |-> {}] /\ found = listed
    /\ phase = [r \in Readers |-> "idle"] /\ reading = [r \in Readers |-> NoPath]
    /\ born = [p \in Paths |-> 0] /\ broken = {}
    /\ steady = listed /\ pardoned = {}

Exists(p) == note[p] # "absent"
WriterGoes(w, s) == writing' = [writing EXCEPT ![w] = s]
WriterLeaves(w) ==
    /\ WriterGoes(w, "idle") /\ path' = [path EXCEPT ![w] = NoPath]
    /\ stamp' = [stamp EXCEPT ![w] = 0]
AtWork(p) == \E w \in Writers : path[w] = p
Unsteady(p) == steady' = [r \in Readers |-> steady[r] \ {p}]
Searching == {r \in Readers : phase[r] \in {"next", "read"}}
-----------------------------------------------------------------------------
(* write_note, write_daily_note, delete_note.                              *)

Write(w, p) ==
    /\ writing[w] = "idle" /\ WriterGoes(w, "look") /\ path' = [path EXCEPT ![w] = p]
    /\ broken' = IF AtWork(p) THEN broken \cup {p} ELSE broken
    /\ UNCHANGED <<vaultFiles, stamps, stamp, search, born, steady, pardoned>>

\* A daily note that exists is only read.
WriteDaily(w, p) == ~Exists(p) /\ Write(w, p)

Look(w) ==
    /\ writing[w] = "look"
    /\ IF Exists(path[w])
       THEN WriterGoes(w, "read") /\ UNCHANGED <<stamps, stamp>>
       ELSE /\ stamps < MaxStamp /\ stamps' = stamps + 1
            /\ stamp' = [stamp EXCEPT ![w] = stamps'] /\ WriterGoes(w, "open")
    /\ UNCHANGED <<vaultFiles, path, search, born, broken, steady, pardoned>>

\* Mutant: every write makes a new "created".
OwnStamp(p, now) == IF Exists(p) THEN now ELSE 0

\* The "created" of the note that is there, now if it has none; no "created" at all if
\* the note has gone since the look.
KeptStamp(p, now) ==
    CASE ~Exists(p) -> 0
      [] note[p] = "whole" /\ created[p] # 0 -> created[p]
      [] OTHER -> now

ReadExisting(w) ==
    /\ writing[w] = "read"
    /\ IF note[path[w]] = "foreign"
       THEN WriterLeaves(w) /\ UNCHANGED stamps
       ELSE /\ stamps < MaxStamp /\ stamps' = stamps + 1
            /\ stamp' = [stamp EXCEPT ![w] = KeptStamp(path[w], stamps')]
            /\ WriterGoes(w, "open") /\ UNCHANGED path
    /\ UNCHANGED <<vaultFiles, search, born, broken, steady, pardoned>>

OpenNote(w) ==
    /\ writing[w] = "open" /\ WriterGoes(w, "fill")
    /\ note' = [note EXCEPT ![path[w]] = "torn"] /\ Unsteady(path[w])
    /\ UNCHANGED <<created, stamps, path, stamp, search, born, broken, pardoned>>

Fill(w) ==
    /\ writing[w] = "fill" /\ WriterLeaves(w)
    /\ note' = [note EXCEPT ![path[w]] = "whole"]
    /\ created' = [created EXCEPT ![path[w]] = stamp[w]]
    /\ born' = [born EXCEPT ![path[w]] = IF @ = 0 THEN stamp[w] ELSE @]
    /\ UNCHANGED <<stamps, search, broken, steady, pardoned>>

\* A writer dies; what it has opened stays empty.
WriterDies(w) ==
    /\ writing[w] # "idle" /\ WriterLeaves(w)
    /\ broken' = IF writing[w] = "fill" THEN broken \cup {path[w]} ELSE broken
    /\ UNCHANGED <<vaultFiles, stamps, search, born, steady, pardoned>>

\* What a writer has open goes with the note.
DeleteNote(p) ==
    /\ writing' = [w \in Writers |-> IF writing[w] = "fill" /\ path[w] = p THEN "idle" ELSE writing[w]]
    /\ path' = [w \in Writers |-> IF writing'[w] = "idle" THEN NoPath ELSE path[w]]
    /\ stamp' = [w \in Writers |-> IF writing'[w] = "idle" THEN 0 ELSE stamp[w]]
    /\ Exists(p) /\ note' = [note EXCEPT ![p] = "absent"]
    /\ created' = [created EXCEPT ![p] = 0] /\ born' = [born EXCEPT ![p] = 0]
    /\ broken' = IF AtWork(p) THEN broken \cup {p} ELSE broken \ {p}
    /\ Unsteady(p) /\ pardoned' = pardoned \cup Searching
    /\ UNCHANGED <<stamps, search>>

\* The owner edits a note so that it cannot be read, and repairs it.
EditByHand(p) ==
    /\ note[p] = "whole" /\ note' = [note EXCEPT ![p] = "foreign"]
    /\ Unsteady(p) /\ pardoned' = pardoned \cup Searching
    /\ UNCHANGED <<created, writer, search, born, broken>>
Repair(p) ==
    /\ note[p] = "foreign" /\ note' = [note EXCEPT ![p] = "whole"]
    /\ UNCHANGED <<created, writer, search, born, broken, steady, pardoned>>
-----------------------------------------------------------------------------
(* search_notes, and with it get_by_tag, get_backlinks, get_recent_notes,  *)
(* get_stats and export_graph_data, which all read every note.             *)

Enter(r, s) == phase' = [phase EXCEPT ![r] = s]

Search(r) ==
    /\ phase[r] = "idle" /\ Enter(r, "next")
    /\ listed' = [listed EXCEPT ![r] = {p \in Paths : Exists(p)}]
    /\ found' = [found EXCEPT ![r] = {}]
    /\ steady' = [steady EXCEPT ![r] = {p \in Paths : note[p] = "whole"}]
    /\ pardoned' = IF \E p \in Paths : note[p] = "foreign" THEN pardoned \cup {r}
                  ELSE pardoned \ {r}
    /\ UNCHANGED <<vaultFiles, writer, reading, born, broken>>

\* Mutant: a note that has gone ends the search.
NextOrEnd(r, p) ==
    /\ phase[r] = "next" /\ p \in listed[r]
    /\ IF Exists(p)
       THEN /\ reading' = [reading EXCEPT ![r] = p] /\ Enter(r, "read")
            /\ listed' = [listed EXCEPT ![r] = @ \ {p}]
       ELSE listed' = [listed EXCEPT ![r] = {}] /\ UNCHANGED <<reading, phase>>
    /\ UNCHANGED <<vaultFiles, writer, found, born, broken, steady, pardoned>>

\* A note that has gone is passed over.
NextNote(r, p) ==
    /\ phase[r] = "next" /\ p \in listed[r]
    /\ IF Exists(p) THEN reading' = [reading EXCEPT ![r] = p] /\ Enter(r, "read")
                    ELSE UNCHANGED <<reading, phase>>
    /\ listed' = [listed EXCEPT ![r] = @ \ {p}]
    /\ UNCHANGED <<vaultFiles, writer, found, born, broken, steady, pardoned>>

\* One that goes now, or cannot be read, ends the search with an error.
ReadNote(r) ==
    /\ phase[r] = "read" /\ reading' = [reading EXCEPT ![r] = NoPath]
    /\ IF note[reading[r]] \in {"absent", "foreign"}
       THEN Enter(r, "failed") /\ UNCHANGED found
       ELSE /\ Enter(r, "next")
            /\ found' = [found EXCEPT ![r] =
                           IF note[reading[r]] = "whole" THEN @ \cup {reading[r]} ELSE @]
    /\ UNCHANGED <<vaultFiles, writer, listed, born, broken, steady, pardoned>>

SearchEnds(r) ==
    /\ phase[r] = "next" /\ listed[r] = {} /\ Enter(r, "done")
    /\ UNCHANGED <<vaultFiles, writer, listed, found, reading, born, broken, steady, pardoned>>

\* The caller takes the answer.
Answered(r) ==
    /\ phase[r] \in {"done", "failed"} /\ Enter(r, "idle")
    /\ listed' = [listed EXCEPT ![r] = {}] /\ found' = [found EXCEPT ![r] = {}]
    /\ steady' = [steady EXCEPT ![r] = {}] /\ pardoned' = pardoned \ {r}
    /\ UNCHANGED <<vaultFiles, writer, reading, born, broken>>

VaultNext ==
    \/ \E p \in Paths : DeleteNote(p) \/ EditByHand(p) \/ Repair(p)
    \/ \E w \in Writers :
         \/ \E p \in Paths : Write(w, p) \/ WriteDaily(w, p)
         \/ Look(w) \/ ReadExisting(w) \/ OpenNote(w) \/ Fill(w) \/ WriterDies(w)
    \/ \E r \in Readers :
         \/ Search(r) \/ ReadNote(r) \/ SearchEnds(r) \/ Answered(r)
         \/ \E p \in Paths : NextNote(r, p)

VaultSpec == VaultInit /\ [][VaultNext]_vaultVars
-----------------------------------------------------------------------------
\* A note keeps the "created" of its first write through all later ones, until it is
\* deleted, unless two writes of it overlapped, or a delete and a write, or a writer died
\* with the file open.
CreatedIsKept ==
    \A p \in Paths \ broken : note[p] = "whole" => created[p] = born[p]

\* A search finds every note that was there, whole, all the time it ran, or it ends with
\* an error; it does so only if there was a note it cannot read or one was deleted.
SearchesAreComplete ==
    \A r \in Readers :
        /\ phase[r] = "done" => steady[r] \subseteq found[r]
        /\ phase[r] = "failed" => r \in pardoned
=============================================================================
