---------------------------- MODULE MCDiskParts ----------------------------
(***************************************************************************)
(* Six parts of what is kept on the disk and in the keyring: the local and *)
(* the encrypted backups, the counter of their nonces, the plug-ins that   *)
(* are approved and loaded, the system controller with its action log, and *)
(* the notes of the vault.  They share nothing that matters here, so a     *)
(* behaviour is one of one part, while the others rest.                    *)
(*                                                                         *)
(* Two backups with room for one: the second makes the retention policy    *)
(* choose, and the first can be restored before and after it was made; two *)
(* versions of the database tell an old backup from a new one.  Three keys *)
(* are for two rotations, the second after the first has failed, and three *)
(* encrypted backups in three seconds for one that is made again in the    *)
(* same.  Two that encrypt at once store two counters more than it takes   *)
(* to come round.  Two processes approve, revoke and load a plug-in that   *)
(* is edited once; to load it twice takes its name twice.  Two old log     *)
(* files of one entry each, so that the fourth action drops one, and       *)
(* windows of two ticks.  A note is written by two processes while a third *)
(* searches.                                                               *)
(***************************************************************************)
EXTENDS PluginApproval, LocalBackup, EncryptedBackup, NonceCounter, SystemController, VaultNotes, TLC

VARIABLE part

MCInit ==
    /\ part \in {"backup", "encrypted", "nonce", "plugin", "controller", "vault"}
    /\ part # "controller" => level = "sandboxed"
    /\ BackupInit /\ EncryptedInit /\ NonceInit /\ Init /\ ControllerInit /\ VaultInit

MCNext ==
    \/ part = "backup" /\ BackupNext
       /\ UNCHANGED <<part, encryptedVars, nonceVars, vars, controllerVars, vaultVars>>
    \/ part = "encrypted" /\ EncryptedNext
       /\ UNCHANGED <<part, backupVars, nonceVars, vars, controllerVars, vaultVars>>
    \/ part = "nonce" /\ NonceNext
       /\ UNCHANGED <<part, backupVars, encryptedVars, vars, controllerVars, vaultVars>>
    \/ part = "plugin" /\ Next
       /\ UNCHANGED <<part, backupVars, encryptedVars, nonceVars, controllerVars, vaultVars>>
    \/ part = "controller" /\ ControllerNext
       /\ UNCHANGED <<part, backupVars, encryptedVars, nonceVars, vars, vaultVars>>
    \/ part = "vault" /\ VaultNext
       /\ UNCHANGED <<part, backupVars, encryptedVars, nonceVars, vars, controllerVars>>

MCSpec == MCInit /\ [][MCNext]_<<part, backupVars, encryptedVars, nonceVars, vars,
                                 controllerVars, vaultVars>>

Symmetry == Permutations(Writers)
=============================================================================
