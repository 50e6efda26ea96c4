----------------------------- MODULE LocalBackup -----------------------------
(***************************************************************************)
(* backup_manager.py: BackupManager over LocalBackupStrategy.              *)
(*                                                                         *)
(* A backup copies the database and the vault into a directory of its own, *)
(* writes a manifest, packs the directory into a tar file, removes it,     *)
(* applies the retention policy and verifies the result.  All of that      *)
(* lives on disk; the process can die between any two steps, and a step    *)
(* can fail.  A directory with nothing in it stands for no directory.      *)
(*                                                                         *)
(* Backup ids are times, so ids are numbers in the order they were made.   *)
(* The database is a version and, beside it, the version its write-ahead   *)
(* log brings it to (sqlite_index.py sets journal_mode=WAL).  Nobody       *)
(* writes while a backup is restored.                                      *)
(***************************************************************************)
EXTENDS Naturals, FiniteSets

CONSTANTS MaxId,        \* bound: backups made
          MaxVersion,   \* bound: transactions on the database
          Notes,        \* notes of the vault
          MaxBackups,   \* BackupConfig.max_backups
          Compress,     \* the values of BackupConfig.compress a process may start with
          VerifyIntegrity, \* BackupConfig.verify_integrity
          NoTar, Torn   \* the state of a tar file that has no contents

Ids == 1 .. MaxId

\* The contents of a backup; version 0 is no database.
Contents == [sqlite : 0 .. MaxVersion, vault : SUBSET Notes, manifest : BOOLEAN]
Nothing == [sqlite |-> 0, vault |-> {}, manifest |-> FALSE]

ASSUME BackupAssumption ==
    /\ MaxId \in Nat /\ MaxVersion \in Nat /\ MaxBackups \in Nat
    /\ Compress \subseteq BOOLEAN /\ VerifyIntegrity \in BOOLEAN
    /\ NoTar # Torn /\ NoTar \notin Contents /\ Torn \notin Contents

VARIABLES db, wal,   \* the database: the version in the file and in its log (0: none)
          vault,     \* the notes in the vault
          version,   \* transactions so far
          made,      \* backups begun so far
          dirs,      \* Ids -> what the directory of the backup holds
          tars,      \* Ids -> the tar file of the backup
          old,       \* ids older than retention_days
          pc,        \* the step the manager is at
          cur,       \* the backup it works on
          doomed,    \* the backups it has yet to delete
          acked,     \* history: backups reported successful and not deleted since
          copied,    \* Ids -> what the backup copied, BackupMetadata.file_hashes
          packing,      \* history: backups the process died packing
          restored   \* history: the backup restored last, 0 after a write

sources == <<db, wal, vault, version>>
disk == <<dirs, tars>>
takes == <<copied, packing>>
backupVars == <<db, wal, vault, version, made, dirs, tars, old, pc, cur, doomed,
          acked, copied, packing, restored>>

BackupInit ==
    /\ db = 0 /\ wal = 0 /\ vault = {} /\ version = 0
    /\ made = 0
    /\ dirs = [b \in Ids |-> Nothing]
    /\ tars = [b \in Ids |-> NoTar]
    /\ old = {}
    /\ pc = "idle" /\ cur = 0 /\ doomed = {}
    /\ acked = {}
    /\ copied = [b \in Ids |-> Nothing]
    /\ packing = {}
    /\ restored = 0

Restoring == pc \in {"restore sqlite", "restore vault"}

----------------------------------------------------------------------------
(* The sources                                                             *)

Commit ==
    /\ ~Restoring
    /\ version < MaxVersion
    /\ version' = version + 1
    /\ IF db # 0 THEN wal' = version + 1 /\ UNCHANGED db
                 ELSE db' = version + 1 /\ UNCHANGED wal
    /\ restored' = 0
    /\ UNCHANGED <<vault, made, disk, old, pc, cur, doomed, acked, takes>>

Checkpoint ==
    /\ ~Restoring
    /\ wal # 0
    /\ db' = wal
    /\ wal' = 0
    /\ restored' = 0
    /\ UNCHANGED <<vault, version, made, disk, old, pc, cur, doomed, acked, takes>>

WriteVault ==
    /\ ~Restoring
    /\ \E n \in Notes : vault' \in {vault \cup {n}, vault \ {n}}
    /\ vault' # vault
    /\ restored' = 0
    /\ UNCHANGED <<db, wal, version, made, disk, old, pc, cur, doomed, acked, takes>>

\* A backup is older than retention_days when the clock says so; no newer one is.
GrowsOld(b) ==
    /\ pc = "idle"
    /\ b <= made /\ b \notin old
    /\ \A a \in Ids : a < b => a \in old
    /\ old' = old \cup {b}
    /\ UNCHANGED <<sources, made, disk, pc, cur, doomed, acked, takes, restored>>

----------------------------------------------------------------------------
(* What is on disk                                                         *)

\* _get_all_backups: a directory and a tar file are listed each, when their
\* manifest can be read.
Listed ==
    {e \in Ids \X {"dir", "tar"} :
        IF e[2] = "dir" THEN dirs[e[1]].manifest
        ELSE tars[e[1]] \in Contents /\ tars[e[1]].manifest}

ListedIds == {e[1] : e \in Listed}

\* _enforce_retention_policy goes from the newest to the oldest and deletes
\* what is old, and anything while more than max_backups are listed.
Victims ==
    {b \in ListedIds : \/ Cardinality({e \in Listed : e[1] > b}) + MaxBackups < Cardinality(Listed)
                       \/ b \in old}

\* Extracting a tar file over a directory replaces the files it has.
Extracted(tar, dir) ==
    [sqlite |-> IF tar.sqlite = 0 THEN dir.sqlite ELSE tar.sqlite,
     vault |-> dir.vault \cup tar.vault,
     manifest |-> dir.manifest \/ tar.manifest]

\* Mutant: a directory is taken for what the tar file would be extracted to.
ImageOnce(b) ==
    IF tars[b] = NoTar \/ dirs[b] # Nothing THEN dirs[b] ELSE Extracted(tars[b], dirs[b])

\* What restore works from: the tar file if there is one.
Image(b) == IF tars[b] = NoTar THEN dirs[b] ELSE Extracted(tars[b], dirs[b])

Restorable(b) == tars[b] # Torn /\ Image(b).manifest

\* What may be left when the removal of a directory was not finished.
PartsOf(c) ==
    [sqlite : {0, c.sqlite}, vault : SUBSET c.vault, manifest : {FALSE, c.manifest}]

\* verify_backup: a tar file is read through; a directory is compared with the
\* hashes in its manifest, and what was not copied has none.
VerifyOK(b) ==
    IF tars[b] # NoTar THEN tars[b] # Torn
    ELSE /\ dirs[b].manifest
         /\ copied[b].sqlite \in {0, dirs[b].sqlite}
         /\ dirs[b].vault = copied[b].vault

----------------------------------------------------------------------------
(* BackupManager.backup                                                    *)

Return == pc' = "idle" /\ cur' = 0 /\ doomed' = {}

BeginBackup ==
    /\ pc = "idle"
    /\ made < MaxId
    /\ made' = made + 1
    /\ cur' = made + 1
    /\ pc' = "copy sqlite"
    /\ UNCHANGED <<sources, disk, old, doomed, acked, takes, restored>>

\* Only the file of the database is copied, and only when there is one.
CopySqlite ==
    /\ pc = "copy sqlite"
    /\ dirs' = [dirs EXCEPT ![cur].sqlite = db]
    /\ copied' = [copied EXCEPT ![cur].sqlite = db]
    /\ UNCHANGED packing
    /\ pc' = "copy vault"
    /\ UNCHANGED <<sources, made, tars, old, cur, doomed, acked, restored>>

CopyVault ==
    /\ pc = "copy vault"
    /\ dirs' = [dirs EXCEPT ![cur].vault = vault]
    /\ copied' = [copied EXCEPT ![cur].vault = vault]
    /\ UNCHANGED packing
    /\ pc' = "manifest"
    /\ UNCHANGED <<sources, made, tars, old, cur, doomed, acked, restored>>

WriteManifest ==
    /\ pc = "manifest"
    /\ dirs' = [dirs EXCEPT ![cur].manifest = TRUE]
    /\ \E compress \in Compress : pc' = IF compress THEN "open tar" ELSE "list"
    /\ UNCHANGED <<sources, made, tars, old, cur, doomed, acked, takes, restored>>

OpenTar ==
    /\ pc = "open tar"
    /\ tars' = [tars EXCEPT ![cur] = Torn]
    /\ pc' = "close tar"
    /\ UNCHANGED <<sources, made, dirs, old, cur, doomed, acked, takes, restored>>

CloseTar ==
    /\ pc = "close tar"
    /\ tars' = [tars EXCEPT ![cur] = dirs[cur]]
    /\ pc' = "remove dir"
    /\ UNCHANGED <<sources, made, dirs, old, cur, doomed, acked, takes, restored>>

RemoveDir ==
    /\ pc = "remove dir"
    /\ dirs' = [dirs EXCEPT ![cur] = Nothing]
    /\ pc' = "list"
    /\ UNCHANGED <<sources, made, tars, old, cur, doomed, acked, takes, restored>>

\* A copy fails: the exception is caught and backup returns False.
CopyFails ==
    /\ pc \in {"copy sqlite", "copy vault", "manifest"}
    /\ Return
    /\ UNCHANGED <<sources, made, disk, old, acked, takes, restored>>

\* Mutant: the tar file that could not be written is left.
PackFailsLeaving ==
    /\ pc \in {"close tar", "remove dir"}
    /\ Return
    /\ UNCHANGED <<sources, made, disk, old, acked, takes, restored>>

\* Packing fails, or removing what was packed: the tar file is removed.
PackFails ==
    /\ pc \in {"close tar", "remove dir"}
    /\ \E left \in IF pc = "remove dir" THEN PartsOf(dirs[cur]) ELSE {dirs[cur]} :
           dirs' = [dirs EXCEPT ![cur] = left]
    /\ tars' = [tars EXCEPT ![cur] = NoTar]
    /\ Return
    /\ UNCHANGED <<sources, made, old, acked, takes, restored>>

\* The policy decides on one listing; what it decides on is deleted after.
Retention ==
    /\ pc = "list"
    /\ doomed' = Victims
    /\ acked' = acked \ Victims
    /\ pc' = "delete"
    /\ UNCHANGED <<sources, made, disk, old, cur, takes, restored>>

\* delete_backup of the newest of them; a failure is logged and ignored.
Delete ==
    /\ pc = "delete"
    /\ \E b \in doomed :
        /\ \A a \in doomed : a <= b
        /\ \/ /\ dirs' = [dirs EXCEPT ![b] = Nothing]
              /\ tars' = [tars EXCEPT ![b] = NoTar]
           \/ /\ \E left \in PartsOf(dirs[b]) : dirs' = [dirs EXCEPT ![b] = left]
              /\ UNCHANGED tars
        /\ doomed' = doomed \ {b}
    /\ UNCHANGED <<sources, made, old, pc, cur, acked, takes, restored>>

\* Nothing is left to delete: a backup is verified, and reported.
Finish ==
    /\ pc = "delete"
    /\ doomed = {}
    /\ acked' = IF cur # 0 /\ (VerifyIntegrity => VerifyOK(cur)) THEN acked \cup {cur} ELSE acked
    /\ Return
    /\ UNCHANGED <<sources, made, disk, old, takes, restored>>

----------------------------------------------------------------------------
(* The other operations                                                    *)

\* BackupManager.delete_backup
BeginDelete(b) ==
    /\ pc = "idle"
    /\ dirs[b] # Nothing \/ tars[b] # NoTar
    /\ doomed' = {b}
    /\ acked' = acked \ {b}
    /\ pc' = "delete"
    /\ UNCHANGED <<sources, made, disk, old, cur, takes, restored>>

\* Mutant: the tar file is extracted only if there is no directory.
BeginRestoreOnce(b) ==
    /\ pc = "idle"
    /\ Restorable(b)
    /\ dirs' = [dirs EXCEPT ![b] = IF @ = Nothing THEN Image(b) ELSE @]
    /\ cur' = b
    /\ pc' = "restore sqlite"
    /\ restored' = 0
    /\ UNCHANGED <<sources, made, tars, old, doomed, acked, takes>>

\* restore: the tar file is extracted into the directory, which stays.
\* Without a readable manifest nothing is restored.
BeginRestore(b) ==
    /\ pc = "idle"
    /\ Restorable(b)
    /\ dirs' = [dirs EXCEPT ![b] = Image(b)]
    /\ cur' = b
    /\ pc' = "restore sqlite"
    /\ restored' = 0
    /\ UNCHANGED <<sources, made, tars, old, doomed, acked, takes>>

\* The file is overwritten; a log that lies beside it stays.
RestoreSqlite ==
    /\ pc = "restore sqlite"
    /\ db' = IF dirs[cur].sqlite = 0 THEN db ELSE dirs[cur].sqlite
    /\ pc' = "restore vault"
    /\ UNCHANGED <<wal, vault, version, made, disk, old, cur, doomed, acked, takes, restored>>

\* copytree over what is there.
RestoreVault ==
    /\ pc = "restore vault"
    /\ vault' = vault \cup dirs[cur].vault
    /\ restored' = cur
    /\ Return
    /\ UNCHANGED <<db, wal, version, made, disk, old, acked, takes>>

RestoreFails ==
    /\ Restoring
    /\ Return
    /\ UNCHANGED <<sources, made, disk, old, acked, takes, restored>>

\* The process dies, perhaps while a directory is being removed, filled or
\* unpacked.
BackupCrash ==
    /\ pc # "idle"
    /\ \/ UNCHANGED dirs
       \/ /\ \/ pc \in {"copy vault", "remove dir"}
             \/ pc = "restore sqlite" /\ tars[cur] # NoTar
          /\ \E left \in PartsOf(dirs[cur]) : dirs' = [dirs EXCEPT ![cur] = left]
       \/ /\ pc = "delete"
          /\ \E b \in doomed : \E left \in PartsOf(dirs[b]) :
                /\ \A a \in doomed : a <= b
                /\ dirs' = [dirs EXCEPT ![b] = left]
    /\ packing' = IF pc = "close tar" THEN packing \cup {cur} ELSE packing
    /\ Return
    /\ UNCHANGED <<sources, made, tars, old, acked, copied, restored>>

BackupNext ==
    \/ Commit \/ Checkpoint \/ WriteVault
    \/ \E b \in Ids : GrowsOld(b) \/ BeginDelete(b) \/ BeginRestore(b)
    \/ BeginBackup \/ CopySqlite \/ CopyVault \/ WriteManifest
    \/ OpenTar \/ CloseTar \/ RemoveDir \/ CopyFails \/ PackFails
    \/ Retention \/ Delete \/ Finish
    \/ RestoreSqlite \/ RestoreVault \/ RestoreFails
    \/ BackupCrash

BackupSpec == BackupInit /\ [][BackupNext]_backupVars

----------------------------------------------------------------------------
(* Properties                                                              *)

\* A backup that was reported successful can be restored, with all it had
\* copied, until it is deleted: wherever the process dies and whatever fails,
\* in this backup, in a later one or in a restore.
AckedIsRestorable ==
    \A b \in acked : /\ Restorable(b)
                     /\ Image(b).vault = copied[b].vault
                     /\ Image(b).sqlite = copied[b].sqlite

\* After such a backup was restored, and until something is written, the
\* sources have everything it copied, also when an earlier restore of it was
\* cut short.
RestoredHasAll ==
    restored \in acked => /\ copied[restored].vault \subseteq vault
                          /\ copied[restored].sqlite \in {0, db}

\* restore_latest, "Restore from latest backup", restores something as long as
\* there is a backup that was reported successful: no failure leaves a newer
\* one in its way, unless the process died while it was packing that one.
LatestIsRestorable ==
    pc = "idle" /\ acked # {} =>
        \E b \in ListedIds : (\A a \in ListedIds : a <= b) /\ (Restorable(b) \/ b \in packing)

\* A backup that was reported can be restored, in full, and so can the latest one
\* unless the process died packing it.
BackupsAreRestorable == AckedIsRestorable /\ RestoredHasAll /\ LatestIsRestorable

\* "Test retention policy preserves recent backups": the policy never deletes
\* a backup and keeps an older one.
RetentionKeepsRecent ==
    pc = "delete" /\ cur # 0 =>
        \A b \in doomed : \A a \in ListedIds \ doomed : b < a
=============================================================================
