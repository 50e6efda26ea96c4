--------------------------- MODULE EncryptedBackup ---------------------------
(***************************************************************************)
(* backup_manager.py: EncryptedBackupManager, used by one caller at a      *)
(* time.  Its backups are files named by the second they were made in,     *)
(* encrypted with one key that is kept in the system keyring.  rotate_key  *)
(* writes every file again, in place, with a new key, and stores the key   *)
(* when all are written; or it stores a new key and leaves the files.      *)
(*                                                                         *)
(* A new manager, after the process died or ended, takes its key from the  *)
(* keyring.  The nonces are NonceCounter's.                                *)
(***************************************************************************)
EXTENDS Naturals, FiniteSets

CONSTANTS MaxSecond,   \* bound: seconds
          MaxData,     \* bound: backups
          MaxKey       \* bound: keys

ASSUME EncryptedAssumption == MaxSecond \in Nat \ {0} /\ MaxData \in Nat /\ MaxKey \in Nat \ {0}

Seconds == 1 .. MaxSecond
TornFile == [key |-> 0, data |-> 0]

VARIABLES now,      \* the clock
          stored,   \* KEYRING_KEY_NAME
          key,      \* EncryptedBackupManager._key
          issued,   \* keys generated so far
          given,    \* data given to backup so far
          files,    \* the files there are: a function from some seconds to keys and data
          step,     \* what the manager is at
          sealed,   \* what it is about to write
          target,   \* the file it writes
          todo,     \* the files a rotation has not come to yet
          oldKey,   \* old_key of rotate_key
          refused,  \* history: the keyring raised when this manager stored its last key
          reported, \* history: the data of the backups that were reported
          lost      \* history: those whose file another backup of the second, or a
                    \* rotation that was not finished, has written over, or that a new
                    \* key was not meant for, or that a manager refused by the keyring left

encryptedVars == <<now, stored, key, issued, given, files, step, sealed, target, todo, oldKey,
                   refused, reported, lost>>
keys == <<stored, key, oldKey, refused>>

EncryptedInit ==
    /\ now = 1 /\ stored = 1 /\ key = 1 /\ issued = 1 /\ oldKey = 1 /\ refused = FALSE
    /\ given = 0 /\ files = <<>> /\ reported = <<>> /\ lost = {}
    /\ step = "idle" /\ sealed = TornFile /\ target = 1 /\ todo = {}

\* The clock goes, or is put right.
Tick ==
    /\ now' \in Seconds \ {now}
    /\ UNCHANGED <<keys, issued, given, files, step, sealed, target, todo, reported, lost>>

----------------------------------------------------------------------------
(* backup                                                                  *)

\* _encrypt.
Backup ==
    /\ step = "idle" /\ given < MaxData
    /\ given' = given + 1
    /\ sealed' = [key |-> key, data |-> given + 1]
    /\ step' = "open"
    /\ UNCHANGED <<now, keys, issued, files, target, todo, reported, lost>>

\* open(path, "wb"): the file is there, and empty.
Truncated(s) == [r \in DOMAIN files \cup {s} |-> IF r = s THEN TornFile ELSE files[r]]

\* The reported backups that are in the files ss.
DataAt(ss) == {d \in DOMAIN reported : reported[d] \in ss}

OpenBackup ==
    /\ step = "open" /\ step' = "write"
    /\ target' = now
    /\ files' = Truncated(now)
    /\ lost' = lost \cup DataAt({now})
    /\ UNCHANGED <<now, keys, issued, given, sealed, todo, reported>>

WriteBackup ==
    /\ step = "write" /\ step' = "idle"
    /\ files' = [files EXCEPT ![target] = sealed]
    /\ reported' = [d \in DOMAIN reported \cup {sealed.data} |->
                    IF d = sealed.data THEN target ELSE reported[d]]
    /\ UNCHANGED <<now, keys, issued, given, sealed, target, todo, lost>>

\* The file cannot be opened, or the disk is full and it stays torn: the exception goes to
\* the caller.
BackupFails ==
    /\ step \in {"open", "write"} /\ step' = "idle"
    /\ UNCHANGED <<now, keys, issued, given, files, sealed, target, todo, reported, lost>>

\* delete_backup
DeleteBackup(d) ==
    /\ step = "idle" /\ d \in DOMAIN reported /\ reported[d] \in DOMAIN files
    /\ files' = [s \in DOMAIN files \ {reported[d]} |-> files[s]]
    /\ reported' = [e \in {e \in DOMAIN reported : reported[e] # reported[d]} |-> reported[e]]
    /\ UNCHANGED <<now, keys, issued, given, step, sealed, target, todo, lost>>

----------------------------------------------------------------------------
(* rotate_key                                                              *)

Rewriting == step \in {"next file", "open again", "write again"}
Rotating == Rewriting \/ step = "store key"

\* With re_encrypt_existing, or without.
BeginRotation(reEncrypt) ==
    /\ step = "idle" /\ issued < MaxKey
    /\ issued' = issued + 1 /\ oldKey' = key
    /\ IF reEncrypt THEN step' = "next file" /\ todo' = DOMAIN files
       ELSE step' = "store key" /\ todo' = {}
    /\ UNCHANGED <<now, stored, key, refused, given, files, sealed, target, reported, lost>>

\* A file is decrypted with the old key, and the new key is put in its place for the
\* encryption.
NextFile ==
    /\ step = "next file" /\ step' = "open again"
    /\ \E s \in todo :
        /\ files[s].key = oldKey
        /\ sealed' = [key |-> issued, data |-> files[s].data]
        /\ target' = s
        /\ todo' = todo \ {s}
    /\ key' = issued
    /\ UNCHANGED <<now, stored, oldKey, refused, issued, given, files, reported, lost>>

OpenAgain ==
    /\ step = "open again" /\ step' = "write again"
    /\ files' = Truncated(target)
    /\ UNCHANGED <<now, keys, issued, given, sealed, target, todo, reported, lost>>

WriteAgain ==
    /\ step = "write again" /\ step' = "next file"
    /\ files' = [files EXCEPT ![target] = sealed]
    /\ UNCHANGED <<now, keys, issued, given, sealed, target, todo, reported, lost>>

\* The files that were opened or written with the new key.
Rewritten == DOMAIN files \ (todo \cup IF step = "open again" THEN {target} ELSE {})

\* The next thing that is done can raise where that is caught.
MayFail == Rewriting /\ (step = "next file" => todo # {})

\* Mutant: the rotation ends with the key it had come to.
RotationFailsAside ==
    /\ MayFail
    /\ lost' = lost \cup DataAt(Rewritten)
    /\ todo' = {} /\ step' = "idle"
    /\ UNCHANGED <<now, keys, issued, given, files, sealed, target, reported>>

\* A file that cannot be read, decrypted or written, or a keyring that gives no counter,
\* ends the rotation with the old key.
RotationFails ==
    /\ MayFail
    /\ key' = oldKey
    /\ lost' = lost \cup DataAt(Rewritten)
    /\ todo' = {} /\ step' = "idle"
    /\ UNCHANGED <<now, stored, oldKey, refused, issued, given, files, sealed, target, reported>>

\* Every file is written, or none is to be.
AllIsWritten == step = "store key" \/ (step = "next file" /\ todo = {})

\* Mutant: the new key stays in memory.
KeepKey ==
    /\ AllIsWritten /\ step' = "idle"
    /\ key' = issued /\ refused' = FALSE
    /\ lost' = lost \cup IF step = "store key" THEN DOMAIN reported ELSE {}
    /\ UNCHANGED <<now, stored, oldKey, issued, given, files, sealed, target, todo, reported>>

\* What was not encrypted again is given up.
StoreKey ==
    /\ AllIsWritten /\ step' = "idle"
    /\ stored' = issued /\ key' = issued /\ refused' = FALSE
    /\ lost' = lost \cup IF step = "store key" THEN DOMAIN reported ELSE {}
    /\ UNCHANGED <<now, oldKey, issued, given, files, sealed, target, todo, reported>>

\* The keyring raises, and nothing catches that: whether or not it has stored the key, the
\* manager goes on with the one it is at, which is the new one if it wrote a file with it.
StoreKeyFails ==
    /\ AllIsWritten /\ step' = "idle"
    /\ stored' \in {stored, issued} /\ refused' = TRUE
    /\ UNCHANGED <<now, key, oldKey, issued, given, files, sealed, target, todo, reported, lost>>

----------------------------------------------------------------------------

\* The process dies or ends; a new manager has the key that is in the keyring.
EncryptedRestart ==
    /\ LET opens == IF Rewriting THEN oldKey ELSE key
       IN  lost' = lost \cup IF refused /\ opens # stored THEN DOMAIN reported
                            ELSE IF Rewriting THEN DataAt(Rewritten) ELSE {}
    /\ step' = "idle" /\ todo' = {}
    /\ key' = stored /\ refused' = FALSE
    /\ UNCHANGED <<now, stored, oldKey, issued, given, files, sealed, target, reported>>

EncryptedNext ==
    \/ Tick \/ EncryptedRestart
    \/ Backup \/ OpenBackup \/ WriteBackup \/ BackupFails
    \/ \E d \in DOMAIN reported : DeleteBackup(d)
    \/ \E reEncrypt \in BOOLEAN : BeginRotation(reEncrypt)
    \/ NextFile \/ OpenAgain \/ WriteAgain
    \/ StoreKey \/ StoreKeyFails \/ RotationFails

EncryptedSpec == EncryptedInit /\ [][EncryptedNext]_encryptedVars

----------------------------------------------------------------------------
(* Properties                                                              *)

\* While no key is rotated, every backup that was reported and not deleted can be decrypted
\* by the manager there is and gives what was backed up.  A dying process or a full disk
\* spoils nothing but the file being written and, in a rotation, the files written before
\* it; a keyring that refuses a key spoils nothing as long as the manager is there.
ReportedIsReadable ==
    ~Rotating =>
        \A d \in DOMAIN reported \ lost :
            reported[d] \in DOMAIN files /\ files[reported[d]] = [key |-> key, data |-> d]

\* A manager that is not rotating encrypts with the key that is stored, so that the next
\* one can read it, however its last rotation ended, unless the keyring refused the key.
KeyIsStored == ~Rotating /\ ~refused => key = stored

\* Encrypted backups can be decrypted, and will be by the next manager.
BackupsReadable == ReportedIsReadable /\ KeyIsStored
=============================================================================
