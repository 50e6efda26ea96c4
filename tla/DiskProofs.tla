----------------------------- MODULE DiskProofs -----------------------------
(***************************************************************************)
(* Proofs about the parts that keep files.                                 *)
(*                                                                         *)
(* Nonces, for any number of threads and processes and any counter: while  *)
(* no store of the counter is overtaken, it is as far ahead of each use as *)
(* stores have come since, so that it comes again when it has come round.  *)
(*                                                                         *)
(* Encrypted backups, for any number of them, of keys and of seconds: what *)
(* was reported can be decrypted by the manager there is, with the key     *)
(* that is stored, wherever a rotation of the key has stopped, unless the  *)
(* keyring refused that key.                                               *)
(*                                                                         *)
(* Local backups, for any number of them and any retention policy: one     *)
(* that was reported is there in full until it is deleted, packed or in    *)
(* its directory, and what is newer is not in the way of restore_latest.   *)
(*                                                                         *)
(* Plug-ins, for any processes, plug-ins and texts: what is executed was   *)
(* approved.  The property speaks of the last step of a load only; that    *)
(* its text was approved goes back, through the verification, to the list  *)
(* that the load has read, and through the processes that wrote that list, *)
(* each from what it had read itself, to an approval.                      *)
(*                                                                         *)
(* System controller, for any limits and any files: the clicks and keys    *)
(* of one process stay within what its limiter says, and its log in order, *)
(* wherever a rotation ends.                                               *)
(***************************************************************************)
EXTENDS PluginApproval, LocalBackup, EncryptedBackup, NonceCounter, SystemController,
        FiniteSetTheorems, WellFoundedInduction, TLAPS

----------------------------------------------------------------------------
(* Nonces                                                                  *)

Counts == 0 .. Wrap - 1

NonceTyped ==
    /\ counter \in Counts /\ count \in [Encryptors -> Counts] /\ stores \in Nat
    /\ counting \in [Encryptors -> BOOLEAN]
    /\ overtaken \subseteq Nat /\ uses \subseteq [id : Nat, count : Counts]

\* The next store comes after all others.  While no store since has been overtaken, the
\* counter is as far ahead of a use as there are stores from it to the next.
Ahead(u) == stores + 1 - u.id
Undisturbed(u) == \A n \in overtaken : n <= u.id

NonceInv ==
    /\ NonceTyped
    /\ \A u \in uses : u.id <= stores
    /\ \A n \in overtaken : n <= stores
    /\ \A u \in uses : Undisturbed(u) /\ Ahead(u) < Wrap =>
          counter = u.count + Ahead(u) \/ counter = u.count + Ahead(u) - Wrap
    /\ NoncesUnique

LEMMA NextCounterFacts ==
    ASSUME NEW c \in Counts
    PROVE  NextCounter(c) \in Counts /\ NextCounter(c) = IF c + 1 = Wrap THEN 0 ELSE c + 1
<1>1. c \in Nat /\ Wrap \in Nat /\ c < Wrap /\ Wrap > 0
  BY NonceAssumption DEF Counts
<1>2. CASE c + 1 = Wrap
  <2>1. Wrap % Wrap = 0
    BY <1>1
  <2> QED
    BY <1>1, <1>2, <2>1 DEF Counts, NextCounter
<1>3. CASE c + 1 < Wrap
  <2>1. (c + 1) % Wrap = c + 1
    BY <1>1, <1>3
  <2> QED
    BY <1>1, <1>3, <2>1 DEF Counts, NextCounter
<1> QED
  BY <1>1, <1>2, <1>3

\* What is known of a use that is a step further behind.
LEMMA FurtherBehind ==
    ASSUME NEW c \in Counts, NEW k \in Counts, NEW a \in Nat, a >= 1, a < Wrap,
           c = k + a \/ c = k + a - Wrap
    PROVE  /\ c # k
           /\ a + 1 < Wrap => \/ NextCounter(c) = k + (a + 1)
                              \/ NextCounter(c) = k + (a + 1) - Wrap
<1>1. Wrap \in Nat /\ c \in Nat /\ k \in Nat /\ c < Wrap /\ k < Wrap
  BY NonceAssumption DEF Counts
<1>2. NextCounter(c) = IF c + 1 = Wrap THEN 0 ELSE c + 1
  BY NextCounterFacts
<1> QED
  BY <1>1, <1>2

LEMMA StoreKeepsNonces ==
    ASSUME NonceInv, NEW e \in Encryptors, StoreCounter(e)
    PROVE  NonceInv'
<1>1. /\ counter \in Counts /\ count \in [Encryptors -> Counts] /\ stores \in Nat
      /\ counting \in [Encryptors -> BOOLEAN]
      /\ overtaken \subseteq Nat /\ uses \subseteq [id : Nat, count : Counts]
      /\ Wrap \in Nat
  BY NonceAssumption DEF NonceInv, NonceTyped
<1>2. PICK w : w = [id |-> stores + 1, count |-> count[e]]
  OBVIOUS
<1>3. /\ counter' = NextCounter(count[e]) /\ stores' = stores + 1
      /\ overtaken' = overtaken \cup IF counter # count[e] THEN {stores + 1} ELSE {}
      /\ uses \subseteq uses' /\ uses' \subseteq uses \cup {w}
      /\ counting' = [counting EXCEPT ![e] = FALSE] /\ count' = count
  BY <1>2 DEF StoreCounter
<1>4. count[e] \in Counts /\ w.id = stores + 1 /\ w.count = count[e]
      /\ w \in [id : Nat, count : Counts]
  BY <1>1, <1>2
<1>5. NonceTyped'
  <2>1. counter' \in Counts
    BY <1>3, <1>4, NextCounterFacts
  <2> QED
    BY <1>1, <1>3, <1>4, <2>1 DEF NonceTyped
<1>6. ASSUME NEW u \in uses
      PROVE  /\ u.id \in Nat /\ u.count \in Counts /\ u.id <= stores
             /\ Ahead(u) = stores + 1 - u.id /\ Ahead(u) \in Nat /\ Ahead(u) >= 1
             /\ Ahead(u)' = Ahead(u) + 1
             /\ Undisturbed(u) /\ Ahead(u) < Wrap =>
                   counter = u.count + Ahead(u) \/ counter = u.count + Ahead(u) - Wrap
  <2>1. u.id \in Nat /\ u.count \in Counts /\ u.id <= stores
    BY <1>1 DEF NonceInv
  <2> QED
    BY <1>1, <1>3, <2>1 DEF NonceInv, Ahead
<1>7. /\ \A u \in uses' : u.id <= stores'
      /\ \A n \in overtaken' : n <= stores'
  <2>1. \A n \in overtaken : n \in Nat /\ n <= stores
    BY <1>1 DEF NonceInv
  <2> QED
    BY <1>1, <1>3, <1>4, <1>6, <2>1
<1>8. ASSUME NEW u \in uses', Undisturbed(u)', Ahead(u)' < Wrap
      PROVE  counter' = u.count + Ahead(u)' \/ counter' = u.count + Ahead(u)' - Wrap
  <2>1. CASE u \in uses
    <3>1. counter = count[e] /\ Undisturbed(u)
      BY <1>1, <1>3, <1>6, <1>8, <2>1 DEF Undisturbed
    <3>2. Ahead(u) < Wrap
      BY <1>1, <1>6, <1>8, <2>1
    <3>3. counter = u.count + Ahead(u) \/ counter = u.count + Ahead(u) - Wrap
      BY <1>6, <2>1, <3>1, <3>2
    <3> QED
      BY <1>1, <1>3, <1>6, <1>8, <2>1, <3>1, <3>2, <3>3, FurtherBehind
  <2>2. CASE u = w
    <3>1. Ahead(u)' = 1
      BY <1>1, <1>3, <1>4, <2>2 DEF Ahead
    <3> QED
      BY <1>1, <1>3, <1>4, <2>2, <3>1, NextCounterFacts DEF Counts
  <2> QED
    BY <1>3, <2>1, <2>2
<1>9. ASSUME NEW u \in uses', NEW v \in uses', u.id < v.id, u.count = v.count
      PROVE  \/ v.id - u.id >= Wrap
             \/ \E n \in overtaken' : u.id < n /\ n <= v.id
  <2>1. u \in uses
    BY <1>1, <1>3, <1>4, <1>6, <1>9
  <2>2. CASE v \in uses
    BY <1>3, <1>9, <2>1, <2>2 DEF NonceInv, NoncesUnique
  <2>3. CASE v = w /\ counter # count[e]
    BY <1>1, <1>3, <1>4, <1>6, <2>1, <2>3
  <2>4. CASE v = w /\ ~Undisturbed(u)
    <3>1. PICK n \in overtaken : ~(n <= u.id)
      BY <2>4 DEF Undisturbed
    <3>2. n \in Nat /\ n <= stores
      BY <1>1 DEF NonceInv
    <3> QED
      BY <1>1, <1>3, <1>4, <1>6, <2>1, <2>4, <3>1, <3>2
  <2>5. CASE v = w /\ counter = count[e] /\ Undisturbed(u)
    <3>1. v.id - u.id = Ahead(u) /\ counter = u.count
      BY <1>1, <1>4, <1>6, <1>9, <2>1, <2>5
    <3>2. Ahead(u) < Wrap => counter # u.count
      BY <1>1, <1>6, <2>1, <2>5, FurtherBehind
    <3> QED
      BY <1>1, <1>6, <2>1, <3>1, <3>2
  <2> QED
    BY <1>3, <2>2, <2>3, <2>4, <2>5
<1>10. NoncesUnique'
  BY <1>9 DEF NoncesUnique
<1> QED
  BY <1>5, <1>7, <1>8, <1>10 DEF NonceInv

LEMMA NoncesStay ==
    ASSUME NonceInv, [NonceNext]_nonceVars PROVE NonceInv'
<1>1. ASSUME UNCHANGED <<counter, stores, overtaken, uses>>, NonceTyped' PROVE NonceInv'
  BY <1>1 DEF NonceInv, NoncesUnique, Ahead, Undisturbed
<1>2. CASE UNCHANGED nonceVars
  BY <1>1, <1>2 DEF nonceVars, NonceInv, NonceTyped
<1>3. ASSUME NEW e \in Encryptors, GetCounter(e) PROVE NonceInv'
  BY <1>1, <1>3 DEF GetCounter, NonceInv, NonceTyped
<1>4. ASSUME NEW e \in Encryptors, GiveUpCounter(e) PROVE NonceInv'
  BY <1>1, <1>4 DEF GiveUpCounter, NonceInv, NonceTyped
<1> QED
  BY <1>2, <1>3, <1>4, StoreKeepsNonces DEF NonceNext

\* For any number of threads and processes and any size of the counter: two nonces have
\* the same counter only after Wrap stores, or an overtaken one between them.
THEOREM NoNonceTwice == NonceSpec => []NoncesUnique
<1>1. NonceInit => NonceInv
  BY NonceAssumption DEF NonceInit, NonceInv, NonceTyped, NoncesUnique, Counts
<1>2. NonceInv /\ [NonceNext]_nonceVars => NonceInv'
  BY NoncesStay
<1>3. NonceInv => NoncesUnique
  BY DEF NonceInv
<1> QED
  BY <1>1, <1>2, <1>3, PTL DEF NonceSpec

----------------------------------------------------------------------------
(* Encrypted backups                                                       *)

Sealed == [key : Nat, data : Nat]
Steps == {"idle", "open", "write", "next file", "open again", "write again", "store key"}

EncryptedTyped ==
    /\ now \in Nat /\ stored \in Nat /\ key \in Nat /\ oldKey \in Nat /\ issued \in Nat
    /\ refused \in BOOLEAN /\ given \in Nat
    /\ step \in Steps /\ sealed \in Sealed /\ target \in Nat
    /\ files \in [DOMAIN files -> Sealed] /\ DOMAIN files \subseteq Nat
    /\ todo \subseteq DOMAIN files /\ (~Rewriting => todo = {})
    /\ reported \in [DOMAIN reported -> Nat] /\ DOMAIN reported \subseteq Nat

\* The keys are those that fit what the manager is at.  It has changed its key for the new
\* one when a rotation has come to its first file, and has not when there is none.
KeysFit ==
    /\ ~Rotating /\ ~refused => key = stored
    /\ Rotating /\ ~refused => oldKey = stored
    /\ step = "store key" => key = oldKey
    /\ step = "next file" => key = issued \/ todo = DOMAIN files
    /\ step \in {"open", "write"} => sealed.key = key
    /\ step = "write" => target \in DOMAIN files /\ DataAt({target}) \subseteq lost
    /\ step \in {"open again", "write again"} =>
          /\ key = issued /\ sealed.key = issued
          /\ target \in DOMAIN files /\ target \notin todo

\* A file that a rotation has yet to come to has the old key, one that it has written has
\* the new one, and the one it is at is as it was until it is opened; what it held is what
\* is about to be written.
HeldInRotation(d, s) ==
    /\ s \in todo => files[s] = [key |-> oldKey, data |-> d]
    /\ s \notin todo /\ (step = "next file" \/ s # target) =>
          files[s] = [key |-> issued, data |-> d]
    /\ s = target /\ step # "next file" =>
          /\ sealed.data = d
          /\ step # "write again" => files[s] = [key |-> oldKey, data |-> d]

\* The backup d, which was reported, can be had.
Held(d) ==
    /\ reported[d] \in DOMAIN files
    /\ ~Rewriting => files[reported[d]] = [key |-> key, data |-> d]
    /\ Rewriting => HeldInRotation(d, reported[d])

AllHeld == \A d \in DOMAIN reported \ lost : Held(d)

EncryptedInv == EncryptedTyped /\ KeysFit /\ AllHeld

LEMMA EncryptedStart == EncryptedInit => EncryptedInv
<1> SUFFICES ASSUME EncryptedInit PROVE EncryptedInv
  OBVIOUS
<1>1. files = <<>> /\ reported = <<>> /\ DOMAIN files = {} /\ DOMAIN reported = {}
  BY DEF EncryptedInit
<1>2. files \in [DOMAIN files -> Sealed] /\ reported \in [DOMAIN reported -> Nat]
  BY <1>1
<1>3. EncryptedTyped
  BY <1>1, <1>2 DEF EncryptedInit, EncryptedTyped, Steps, Sealed, TornFile
<1>4. KeysFit
  BY DEF EncryptedInit, KeysFit, Rotating, Rewriting
<1> QED
  BY <1>1, <1>3, <1>4 DEF EncryptedInv, AllHeld

LEMMA EncryptedTypes ==
    ASSUME EncryptedTyped, EncryptedNext
    PROVE  EncryptedTyped'
<1> USE DEF EncryptedTyped, Steps, Sealed, keys, Rewriting
<1>1. CASE Tick
  <2>1. now' \in 1 .. MaxSecond /\ MaxSecond \in Nat
    BY ONLY <1>1, EncryptedAssumption DEF Tick, Seconds
  <2>2. now' \in Nat
    BY ONLY <2>1
  <2> QED
    BY <1>1, <2>2 DEF Tick
<1>2. CASE EncryptedRestart
  BY <1>2 DEF EncryptedRestart
<1>3. CASE Backup
  BY <1>3 DEF Backup
<1>4. CASE OpenBackup
  BY <1>4 DEF OpenBackup, Truncated, TornFile
<1>5. CASE WriteBackup
  BY <1>5 DEF WriteBackup
<1>6. CASE BackupFails
  BY <1>6 DEF BackupFails
<1>7. ASSUME NEW d \in DOMAIN reported, DeleteBackup(d) PROVE EncryptedTyped'
  BY <1>7 DEF DeleteBackup
<1>8. ASSUME NEW r \in BOOLEAN, BeginRotation(r) PROVE EncryptedTyped'
  <2>1. /\ issued' = issued + 1 /\ oldKey' = key
        /\ UNCHANGED <<now, stored, key, refused, given, files, sealed, target, reported>>
    BY ONLY <1>8 DEF BeginRotation
  <2>2. \/ step' = "next file" /\ todo' = DOMAIN files
        \/ step' = "store key" /\ todo' = {}
    BY ONLY <1>8 DEF BeginRotation
  <2>3. issued' \in Nat
    <3>1. issued \in Nat
      OBVIOUS
    <3> QED
      BY ONLY <2>1, <3>1
  <2> QED
    BY <2>1, <2>2, <2>3
<1>9. CASE NextFile
  <2>1. PICK s \in todo :
            /\ sealed' = [key |-> issued, data |-> files[s].data]
            /\ target' = s /\ todo' = todo \ {s} /\ files[s].key = oldKey
    BY <1>9 DEF NextFile
  <2>2. files[s].data \in Nat /\ s \in Nat
    BY <2>1
  <2>3. /\ step' = "open again" /\ key' = issued
        /\ UNCHANGED <<now, stored, oldKey, refused, issued, given, files, reported>>
    BY <1>9 DEF NextFile
  <2> QED
    BY <2>1, <2>2, <2>3
<1>10. CASE OpenAgain
  BY <1>10 DEF OpenAgain, Truncated, TornFile
<1>11. CASE WriteAgain
  BY <1>11 DEF WriteAgain
<1>12. CASE StoreKey
  BY <1>12 DEF StoreKey, AllIsWritten
<1>13. CASE StoreKeyFails
  BY <1>13 DEF StoreKeyFails, AllIsWritten
<1>14. CASE RotationFails
  BY <1>14 DEF RotationFails
<1> QED
  BY <1>1, <1>2, <1>3, <1>4, <1>5, <1>6, <1>7, <1>8, <1>9, <1>10, <1>11, <1>12, <1>13, <1>14
     DEF EncryptedNext

\* Backups, and what changes no file.
LEMMA BackupKeepsKeys ==
    ASSUME EncryptedTyped, KeysFit, AllHeld,
           \/ Tick \/ Backup \/ OpenBackup \/ WriteBackup \/ BackupFails
           \/ \E d \in DOMAIN reported : DeleteBackup(d)
    PROVE  KeysFit' /\ AllHeld'
<1> USE DEF Rewriting, Rotating, keys
<1>1. CASE Tick
  BY <1>1 DEF Tick, KeysFit, AllHeld, Held, HeldInRotation, DataAt
<1>2. CASE Backup
  BY <1>2 DEF Backup, KeysFit, AllHeld, Held
<1>3. CASE OpenBackup
  <2>1. /\ step = "open" /\ step' = "write" /\ target' = now
        /\ DOMAIN files' = DOMAIN files \cup {now}
        /\ \A r \in DOMAIN files \ {now} : files'[r] = files[r]
        /\ lost' = lost \cup DataAt({now})
        /\ UNCHANGED <<stored, key, oldKey, refused, issued, sealed, todo, reported>>
    BY <1>3 DEF OpenBackup, Truncated
  <2>2. KeysFit'
    BY <2>1 DEF KeysFit, DataAt
  <2>3. ASSUME NEW d \in DOMAIN reported' \ lost' PROVE Held(d)'
    <3>1. d \in DOMAIN reported \ lost /\ reported[d] # now /\ Held(d)
      BY <2>1, <2>3 DEF DataAt, AllHeld
    <3> QED
      BY <2>1, <3>1 DEF Held
  <2> QED
    BY <2>2, <2>3 DEF AllHeld
<1>4. CASE WriteBackup
  <2> DEFINE e == sealed.data
  <2>1. /\ step = "write" /\ step' = "idle" /\ files' = [files EXCEPT ![target] = sealed]
        /\ reported' = [d \in DOMAIN reported \cup {e} |-> IF d = e THEN target ELSE reported[d]]
        /\ UNCHANGED <<stored, key, oldKey, refused, issued, sealed, target, todo, lost>>
    BY <1>4 DEF WriteBackup
  <2>2. sealed = [key |-> key, data |-> e] /\ target \in DOMAIN files
    BY <2>1 DEF KeysFit, EncryptedTyped, Sealed
  <2>3. KeysFit'
    BY <2>1 DEF KeysFit
  <2>4. ASSUME NEW d \in DOMAIN reported' \ lost' PROVE Held(d)'
    <3>1. CASE d = e
      BY <2>1, <2>2, <3>1 DEF Held
    <3>2. CASE d # e
      <4>1. d \in DOMAIN reported \ lost /\ reported'[d] = reported[d] /\ Held(d)
        BY <2>1, <2>4, <3>2 DEF AllHeld
      <4>2. reported[d] # target
        BY <2>1, <4>1 DEF DataAt, KeysFit
      <4> QED
        BY <2>1, <4>1, <4>2 DEF Held
    <3> QED
      BY <3>1, <3>2
  <2> QED
    BY <2>3, <2>4 DEF AllHeld
<1>5. CASE BackupFails
  BY <1>5 DEF BackupFails, KeysFit, AllHeld, Held
<1>6. ASSUME NEW d \in DOMAIN reported, DeleteBackup(d) PROVE KeysFit' /\ AllHeld'
  <2>1. /\ step = "idle" /\ step' = step
        /\ files' = [s \in DOMAIN files \ {reported[d]} |-> files[s]]
        /\ reported' = [e \in {e \in DOMAIN reported : reported[e] # reported[d]} |-> reported[e]]
        /\ UNCHANGED <<stored, key, oldKey, refused, issued, sealed, lost>>
    BY <1>6 DEF DeleteBackup
  <2>2. KeysFit'
    BY <2>1 DEF KeysFit
  <2>3. ASSUME NEW e \in DOMAIN reported' \ lost' PROVE Held(e)'
    <3>1. /\ e \in DOMAIN reported \ lost /\ reported'[e] = reported[e]
          /\ reported[e] # reported[d] /\ Held(e)
      BY <2>1, <2>3 DEF AllHeld
    <3>2. reported[e] \in DOMAIN files' /\ files'[reported[e]] = files[reported[e]]
      BY <2>1, <3>1 DEF Held
    <3> QED
      BY <2>1, <3>1, <3>2 DEF Held
  <2> QED
    BY <2>2, <2>3 DEF AllHeld
<1> QED
  BY <1>1, <1>2, <1>3, <1>4, <1>5, <1>6

\* A rotation, up to the last file.
LEMMA RotationKeepsKeys ==
    ASSUME EncryptedTyped, KeysFit, AllHeld,
           \/ \E r \in BOOLEAN : BeginRotation(r)
           \/ NextFile \/ OpenAgain \/ WriteAgain
    PROVE  KeysFit' /\ AllHeld'
<1> USE DEF Rewriting, Rotating, keys
<1>1. ASSUME NEW r \in BOOLEAN, BeginRotation(r) PROVE KeysFit' /\ AllHeld'
  <2>1. /\ step = "idle" /\ oldKey' = key
        /\ \/ step' = "next file" /\ todo' = DOMAIN files
           \/ step' = "store key" /\ todo' = {}
        /\ UNCHANGED <<stored, key, refused, files, sealed, target, reported, lost>>
    BY <1>1 DEF BeginRotation
  <2>2. KeysFit'
    BY <2>1 DEF KeysFit
  <2>3. AllHeld'
    BY <2>1 DEF AllHeld, Held, HeldInRotation
  <2> QED
    BY <2>2, <2>3
<1>2. CASE NextFile
  <2>1. PICK s \in todo :
            /\ files[s].key = oldKey
            /\ sealed' = [key |-> issued, data |-> files[s].data]
            /\ target' = s /\ todo' = todo \ {s}
    BY <1>2 DEF NextFile
  <2>2. /\ step = "next file" /\ step' = "open again" /\ key' = issued
        /\ UNCHANGED <<stored, oldKey, refused, issued, files, reported, lost>>
        /\ sealed'.key = issued /\ sealed'.data = files[s].data /\ s \in DOMAIN files
    BY <1>2, <2>1 DEF NextFile, EncryptedTyped
  <2>3. KeysFit'
    BY <2>1, <2>2 DEF KeysFit
  <2>4. ASSUME NEW d \in DOMAIN reported' \ lost' PROVE Held(d)'
    <3> DEFINE r == reported[d]
    <3>1. /\ r \in DOMAIN files
          /\ r \in todo => files[r] = [key |-> oldKey, data |-> d]
          /\ r \notin todo => files[r] = [key |-> issued, data |-> d]
      BY <2>2, <2>4 DEF AllHeld, Held, HeldInRotation
    <3>2. r = s => files[s].data = d
      BY <2>1, <3>1
    <3> QED
      BY <2>1, <2>2, <3>1, <3>2 DEF Held, HeldInRotation
  <2> QED
    BY <2>3, <2>4 DEF AllHeld
<1>3. CASE OpenAgain
  <2>1. /\ step = "open again" /\ step' = "write again"
        /\ DOMAIN files' = DOMAIN files \cup {target}
        /\ \A r \in DOMAIN files \ {target} : files'[r] = files[r]
        /\ UNCHANGED <<stored, key, oldKey, refused, issued, sealed, target, todo, reported, lost>>
    BY <1>3 DEF OpenAgain, Truncated
  <2>2. KeysFit'
    BY <2>1 DEF KeysFit
  <2>3. ASSUME NEW d \in DOMAIN reported' \ lost' PROVE Held(d)'
    <3>1. reported[d] \in DOMAIN files /\ HeldInRotation(d, reported[d])
      BY <2>1, <2>3 DEF AllHeld, Held
    <3>2. HeldInRotation(d, reported[d])'
      BY <2>1, <3>1 DEF KeysFit, HeldInRotation
    <3> QED
      BY <2>1, <3>1, <3>2 DEF Held
  <2> QED
    BY <2>2, <2>3 DEF AllHeld
<1>4. CASE WriteAgain
  <2>1. /\ step = "write again" /\ step' = "next file"
        /\ files' = [files EXCEPT ![target] = sealed]
        /\ UNCHANGED <<stored, key, oldKey, refused, issued, sealed, target, todo, reported, lost>>
    BY <1>4 DEF WriteAgain
  <2>2. KeysFit'
    BY <2>1 DEF KeysFit
  <2>3. sealed = [key |-> issued, data |-> sealed.data] /\ target \in DOMAIN files
    BY <2>1 DEF KeysFit, EncryptedTyped, Sealed
  <2>4. AllHeld'
    BY <2>1, <2>3 DEF KeysFit, AllHeld, Held, HeldInRotation
  <2> QED
    BY <2>2, <2>4
<1> QED
  BY <1>1, <1>2, <1>3, <1>4

\* The end of a rotation, or of the process.
LEMMA EndsKeepKeys ==
    ASSUME EncryptedTyped, KeysFit, AllHeld,
           StoreKey \/ StoreKeyFails \/ RotationFails \/ EncryptedRestart
    PROVE  KeysFit' /\ AllHeld'
<1> USE DEF Rewriting, Rotating, keys
<1>1. ASSUME Rewriting, NEW d \in DOMAIN reported \ lost, reported[d] \notin Rewritten
      PROVE  reported[d] \in DOMAIN files /\ files[reported[d]] = [key |-> oldKey, data |-> d]
  <2>1. Held(d)
    BY <1>1 DEF AllHeld
  <2> QED
    BY <1>1, <2>1 DEF Held, HeldInRotation, Rewritten
<1>2. CASE StoreKey \/ StoreKeyFails
  <2>1. /\ AllIsWritten /\ step' = "idle"
        /\ UNCHANGED <<issued, files, reported>> /\ lost \subseteq lost'
        /\ \/ stored' = issued /\ key' = issued /\ (step = "store key" => DOMAIN reported \subseteq lost')
           \/ refused' = TRUE /\ key' = key
    BY <1>2 DEF StoreKey, StoreKeyFails
  <2>2. KeysFit'
    BY <2>1 DEF KeysFit
  <2>3. ASSUME NEW d \in DOMAIN reported' \ lost' PROVE Held(d)'
    <3>1. Held(d)
      BY <2>1, <2>3 DEF AllHeld
    <3>2. CASE step = "store key"
      BY <2>1, <2>3, <3>1, <3>2 DEF Held
    <3>3. CASE step = "next file" /\ todo = {}
      <4>1. files[reported[d]] = [key |-> issued, data |-> d] /\ reported[d] \in DOMAIN files
        BY <3>1, <3>3 DEF Held, HeldInRotation
      <4>2. key = issued
        BY <3>3, <4>1 DEF KeysFit
      <4> QED
        BY <2>1, <4>1, <4>2 DEF Held
    <3> QED
      BY <2>1, <3>2, <3>3 DEF AllIsWritten
  <2> QED
    BY <2>2, <2>3 DEF AllHeld
<1>3. CASE RotationFails
  <2>1. /\ Rewriting /\ step' = "idle" /\ key' = oldKey
        /\ lost' = lost \cup DataAt(Rewritten)
        /\ UNCHANGED <<stored, refused, files, reported>>
    BY <1>3 DEF RotationFails, MayFail
  <2>2. KeysFit'
    BY <2>1 DEF KeysFit
  <2>3. ASSUME NEW d \in DOMAIN reported' \ lost' PROVE Held(d)'
    <3>1. d \in DOMAIN reported \ lost /\ reported[d] \notin Rewritten
      BY <2>1, <2>3 DEF DataAt
    <3> QED
      BY <1>1, <1>3, <2>1, <3>1 DEF Held, RotationFails, MayFail
  <2> QED
    BY <2>2, <2>3 DEF AllHeld
<1>4. CASE EncryptedRestart
  <2> DEFINE opens == IF Rewriting THEN oldKey ELSE key
  <2>1. /\ step' = "idle" /\ key' = stored /\ UNCHANGED <<stored, files, reported>>
        /\ lost \subseteq lost'
        /\ refused /\ opens # stored => DOMAIN reported \subseteq lost'
        /\ Rewriting => DataAt(Rewritten) \subseteq lost'
    BY <1>4 DEF EncryptedRestart, DataAt
  <2>2. KeysFit'
    BY <2>1 DEF KeysFit
  <2>3. ASSUME NEW d \in DOMAIN reported' \ lost' PROVE Held(d)'
    <3>1. d \in DOMAIN reported \ lost /\ (Rewriting => reported[d] \notin Rewritten)
      BY <2>1, <2>3 DEF DataAt
    <3>2. opens = stored
      BY <2>1, <2>3 DEF KeysFit
    <3>3. CASE Rewriting
      BY <1>1, <2>1, <3>1, <3>2, <3>3 DEF Held
    <3>4. CASE ~Rewriting
      BY <2>1, <3>1, <3>2, <3>4 DEF Held, AllHeld
    <3> QED
      BY <3>3, <3>4
  <2> QED
    BY <2>2, <2>3 DEF AllHeld
<1> QED
  BY <1>2, <1>3, <1>4

LEMMA EncryptedStays == EncryptedInv /\ [EncryptedNext]_encryptedVars => EncryptedInv'
<1> SUFFICES ASSUME EncryptedInv, [EncryptedNext]_encryptedVars PROVE EncryptedInv'
  OBVIOUS
<1>1. CASE UNCHANGED encryptedVars
  BY <1>1 DEF encryptedVars, EncryptedInv, EncryptedTyped, KeysFit, AllHeld, Held, HeldInRotation,
     Rotating, Rewriting, DataAt
<1>2. CASE EncryptedNext
  <2>1. KeysFit' /\ AllHeld'
    BY <1>2, BackupKeepsKeys, RotationKeepsKeys, EndsKeepKeys DEF EncryptedNext, EncryptedInv
  <2> QED
    BY <1>2, <2>1, EncryptedTypes DEF EncryptedInv
<1> QED
  BY <1>1, <1>2

\* For any backups, keys and seconds: wherever backups, rotations and processes stop, and
\* whatever the keyring refuses, the manager can decrypt what was reported, with the key
\* that is stored unless that one was refused.
THEOREM EncryptedIsReadable == EncryptedSpec => []BackupsReadable
<1>1. EncryptedInv => BackupsReadable
  BY DEF EncryptedInv, KeysFit, AllHeld, Held, BackupsReadable, ReportedIsReadable, KeyIsStored,
     Rotating
<1> QED
  BY <1>1, EncryptedStart, EncryptedStays, PTL DEF EncryptedSpec

----------------------------------------------------------------------------
(* Local backups                                                           *)

Versions == 0 .. MaxVersion
Making == {"copy sqlite", "copy vault", "manifest", "open tar", "close tar", "remove dir", "list"}

LocalTyped ==
    /\ db \in Versions /\ wal \in Versions /\ vault \subseteq Notes /\ version \in Versions
    /\ made \in 0 .. MaxId
    /\ dirs \in [Ids -> Contents]
    /\ tars \in [Ids -> Contents \cup {NoTar, Torn}]
    /\ copied \in [Ids -> Contents]
    /\ pc \in Making \cup {"idle", "delete", "restore sqlite", "restore vault"}
    /\ cur \in 0 .. made
    /\ doomed \subseteq Ids
    /\ acked \subseteq 1 .. made
    /\ restored \in 0 .. made

\* All that the backup b has copied, as its manifest lists it.
Whole(b) == [sqlite |-> copied[b].sqlite, vault |-> copied[b].vault, manifest |-> TRUE]

\* It is there: packed, whatever a restore has left beside it, or in its directory.
Kept(b) == \/ tars[b] = Whole(b) /\ dirs[b] \in PartsOf(Whole(b))
           \/ tars[b] = NoTar /\ dirs[b] = Whole(b)

\* The backup that is made is the newest, and was not reported; none is deleted
\* that is reported.
Phases ==
    /\ pc = "idle" => cur = 0
    /\ pc \in Making => cur # 0
    /\ cur # 0 /\ pc \in Making \cup {"delete"} => cur = made /\ cur \notin acked
    /\ Restoring => cur # 0
    /\ pc = "delete" => doomed \cap acked = {}

\* What there is of a backup, step by step.
Progress ==
    /\ \A b \in Ids : b > made => /\ dirs[b] = Nothing /\ tars[b] = NoTar
                                  /\ copied[b] = Nothing
    /\ pc = "copy sqlite" => dirs[cur] = Nothing /\ tars[cur] = NoTar /\ copied[cur] = Nothing
    /\ pc = "copy vault" =>
          /\ dirs[cur] = [sqlite |-> copied[cur].sqlite, vault |-> {}, manifest |-> FALSE]
          /\ tars[cur] = NoTar
    /\ pc = "manifest" =>
          /\ dirs[cur] = [sqlite |-> copied[cur].sqlite, vault |-> copied[cur].vault,
                          manifest |-> FALSE]
          /\ tars[cur] = NoTar
    /\ pc \in {"open tar", "close tar", "remove dir"} => dirs[cur] = Whole(cur)
    /\ pc = "open tar" => tars[cur] = NoTar
    /\ pc = "remove dir" => tars[cur] = Whole(cur)
    /\ cur # 0 /\ pc \in {"list", "delete"} =>
          tars[cur] \in {NoTar, Whole(cur)} /\ dirs[cur] \in PartsOf(Whole(cur))
    /\ \A b \in Ids : tars[b] = Torn => b \in packing \/ (pc = "close tar" /\ b = cur)

\* What a restore has brought back.
Restores ==
    /\ Restoring => restored = 0 /\ (cur \in acked => dirs[cur] = Whole(cur))
    /\ pc = "restore vault" /\ cur \in acked => copied[cur].sqlite \in {0, db}
    /\ cur # 0 => restored # cur
    /\ RestoredHasAll

LocalInv == LocalTyped /\ Phases /\ Progress /\ Restores /\ \A b \in acked : Kept(b)

----------------------------------------------------------------------------

\* What is left of a removal is no more than there was.
LEMMA PartsFacts ==
    ASSUME NEW c \in Contents
    PROVE  /\ PartsOf(c) \subseteq Contents
           /\ c \in PartsOf(c) /\ Nothing \in PartsOf(c)
           /\ \A l \in PartsOf(c) : PartsOf(l) \subseteq PartsOf(c)
<1>1. /\ c.sqlite \in Versions /\ c.vault \subseteq Notes /\ c.manifest \in BOOLEAN
      /\ c = [sqlite |-> c.sqlite, vault |-> c.vault, manifest |-> c.manifest]
  BY DEF Contents, Versions
<1>2. 0 \in Versions
  BY BackupAssumption DEF Versions
<1>3. PartsOf(c) \subseteq Contents
  BY <1>1, <1>2 DEF PartsOf, Contents, Versions
<1>4. c \in PartsOf(c) /\ Nothing \in PartsOf(c)
  BY <1>1 DEF PartsOf, Nothing
<1>5. \A l \in PartsOf(c) : PartsOf(l) \subseteq PartsOf(c)
  BY DEF PartsOf
<1> QED
  BY <1>3, <1>4, <1>5

LEMMA NothingFacts ==
    /\ Nothing \in Contents /\ ~Nothing.manifest
    /\ \A l \in PartsOf(Nothing) : l = Nothing
<1>1. 0 \in 0 .. MaxVersion
  BY BackupAssumption
<1>2. Nothing \in Contents /\ ~Nothing.manifest
  BY <1>1 DEF Nothing, Contents
<1>3. ASSUME NEW l \in PartsOf(Nothing) PROVE l = Nothing
  <2>1. /\ l.sqlite = 0 /\ l.vault = {} /\ l.manifest = FALSE
        /\ l = [sqlite |-> l.sqlite, vault |-> l.vault, manifest |-> l.manifest]
    BY DEF PartsOf, Nothing
  <2> QED
    BY <2>1 DEF Nothing
<1> QED
  BY <1>2, <1>3

\* A tar file with contents is not one without.
LEMMA WholeFacts ==
    ASSUME LocalTyped, NEW b \in Ids
    PROVE  /\ Whole(b) \in Contents /\ Whole(b) # NoTar /\ Whole(b) # Torn
           /\ Whole(b).sqlite = copied[b].sqlite /\ Whole(b).vault = copied[b].vault
           /\ Whole(b).manifest
<1>1. copied[b] \in Contents
  BY DEF LocalTyped
<1>2. copied[b].sqlite \in 0 .. MaxVersion /\ copied[b].vault \subseteq Notes
  BY <1>1 DEF Contents
<1>3. Whole(b) \in Contents
  BY <1>2 DEF Whole, Contents
<1>4. /\ Whole(b).sqlite = copied[b].sqlite /\ Whole(b).vault = copied[b].vault
      /\ Whole(b).manifest
  BY DEF Whole
<1> QED
  BY <1>3, <1>4, BackupAssumption

\* What is kept is restored in full.
LEMMA KeptIsRestorable ==
    ASSUME LocalTyped, NEW b \in Ids, Kept(b)
    PROVE  Restorable(b) /\ Image(b) = Whole(b)
<1>1. /\ Whole(b) \in Contents /\ Whole(b) # NoTar /\ Whole(b) # Torn /\ Whole(b).manifest
  BY WholeFacts
<1>2. CASE tars[b] = NoTar /\ dirs[b] = Whole(b)
  BY <1>1, <1>2, BackupAssumption DEF Restorable, Image
<1>3. CASE tars[b] = Whole(b) /\ dirs[b] \in PartsOf(Whole(b))
  <2>1. Extracted(Whole(b), dirs[b]) = Whole(b)
    <3> DEFINE w == Whole(b)
               d == dirs[b]
    <3>1. d.sqlite \in {0, w.sqlite} /\ d.vault \subseteq w.vault /\ w.manifest = TRUE
      BY <1>3 DEF PartsOf, Whole
    <3>2. /\ (IF w.sqlite = 0 THEN d.sqlite ELSE w.sqlite) = w.sqlite
          /\ d.vault \cup w.vault = w.vault /\ (d.manifest \/ w.manifest) = TRUE
      BY <3>1
    <3>3. w = [sqlite |-> w.sqlite, vault |-> w.vault, manifest |-> TRUE]
      BY DEF Whole
    <3> HIDE DEF w, d
    <3> QED
      BY <3>2, <3>3 DEF Extracted, w, d
  <2> QED
    BY <1>1, <1>3, <2>1 DEF Restorable, Image
<1> QED
  BY <1>2, <1>3 DEF Kept

LEMMA ImageFacts ==
    ASSUME LocalTyped, NEW b \in Ids, Restorable(b) PROVE Image(b) \in Contents
<1>1. dirs[b] \in Contents /\ tars[b] \in Contents \cup {NoTar, Torn} /\ tars[b] # Torn
  BY DEF LocalTyped, Restorable
<1>2. \A c, d \in Contents : Extracted(c, d) \in Contents
  BY DEF Extracted, Contents
<1> QED
  BY <1>1, <1>2 DEF Image

LEMMA Bounds == MaxId \in Nat /\ MaxVersion \in Nat /\ \A b : b \in Ids <=> b \in Nat /\ 1 <= b /\ b <= MaxId
<1>1. MaxId \in Nat /\ MaxVersion \in Nat
  BY BackupAssumption
<1> QED
  BY <1>1 DEF Ids

LEMMA IdFacts ==
    ASSUME LocalTyped
    PROVE  /\ made \in Nat /\ made <= MaxId
           /\ cur \in Nat /\ cur <= made /\ restored \in Nat /\ restored <= made
           /\ cur # 0 => cur \in Ids
           /\ \A b \in acked : b \in Ids /\ b \in Nat /\ b # 0 /\ b <= made
           /\ \A b \in Ids : b \in Nat /\ b # 0
<1>1. /\ made \in 0 .. MaxId /\ cur \in 0 .. made /\ restored \in 0 .. made
      /\ acked \subseteq 1 .. made
  BY DEF LocalTyped
<1> QED
  BY <1>1, Bounds

\* What was never made is nowhere.
LEMMA FoundIsMade ==
    ASSUME LocalTyped, Progress, NEW b \in Ids,
           dirs[b] # Nothing \/ tars[b] # NoTar \/ Restorable(b)
    PROVE  b \in 1 .. made
<1>1. made \in Nat /\ b \in Nat /\ b >= 1
  BY IdFacts, Bounds
<1>2. ASSUME b > made PROVE FALSE
  <2>1. dirs[b] = Nothing /\ tars[b] = NoTar
    BY <1>2 DEF Progress
  <2> QED
    BY <2>1, NothingFacts DEF Restorable, Image
<1> QED
  BY <1>1, <1>2

\* The backups that are kept are those that nothing is done to.
LEMMA OthersAreKept ==
    ASSUME LocalTyped, \A b \in acked : Kept(b), NEW c,
           \A b \in Ids \ {c} : dirs'[b] = dirs[b] /\ tars'[b] = tars[b] /\ copied'[b] = copied[b],
           acked' \subseteq acked \ {c}
    PROVE  \A b \in acked' : Kept(b)'
<1> SUFFICES ASSUME NEW b \in acked' PROVE Kept(b)'
  OBVIOUS
<1>1. b \in acked /\ b \in Ids \ {c}
  BY IdFacts
<1>2. Whole(b)' = Whole(b)
  BY <1>1 DEF Whole
<1> QED
  BY <1>1, <1>2 DEF Kept

LEMMA AllAreKept ==
    ASSUME LocalTyped, \A b \in acked : Kept(b), UNCHANGED <<dirs, tars, copied>>,
           acked' \subseteq acked
    PROVE  \A b \in acked' : Kept(b)'
  BY DEF Kept, Whole

----------------------------------------------------------------------------
(* What others do to the sources                                           *)

LEMMA SourcesKeep ==
    ASSUME LocalInv, \/ Commit \/ Checkpoint \/ WriteVault \/ UNCHANGED backupVars
                     \/ \E b \in Ids : GrowsOld(b)
    PROVE  LocalInv'
<1>1. /\ UNCHANGED <<made, dirs, tars, pc, cur, doomed, acked, copied, packing>>
      /\ \/ restored' = 0 /\ ~Restoring
         \/ UNCHANGED <<db, vault, restored>>
  BY DEF LocalInv, Commit, Checkpoint, WriteVault, GrowsOld, backupVars, sources, disk, takes
<1>2. LocalTyped'
  <2>1. db' \in Versions /\ wal' \in Versions /\ vault' \subseteq Notes /\ version' \in Versions
    <3>1. CASE Commit
      <4>1. version \in Versions /\ version < MaxVersion /\ version' = version + 1
        BY <3>1 DEF LocalInv, LocalTyped, Commit
      <4>2. version + 1 \in Versions
        BY <4>1, Bounds DEF Versions
      <4> QED
        BY <3>1, <4>1, <4>2 DEF LocalInv, LocalTyped, Commit
    <3>2. CASE Checkpoint
      <4>1. 0 \in Versions
        BY Bounds DEF Versions
      <4> QED
        BY <3>2, <4>1 DEF LocalInv, LocalTyped, Checkpoint
    <3>3. CASE WriteVault
      BY <3>3 DEF LocalInv, LocalTyped, WriteVault
    <3>4. CASE UNCHANGED sources
      BY <3>4 DEF LocalInv, LocalTyped, sources
    <3> QED
      BY <3>1, <3>2, <3>3, <3>4 DEF GrowsOld, backupVars, sources
  <2>2. restored' \in 0 .. made
    <3>1. restored \in 0 .. made /\ 0 \in 0 .. made
      BY IdFacts DEF LocalInv
    <3> QED
      BY <1>1, <3>1
  <2> QED
    BY <1>1, <2>1, <2>2 DEF LocalInv, LocalTyped
<1>3. Phases'
  BY <1>1 DEF LocalInv, Phases, Restoring
<1>4. Progress'
  BY <1>1 DEF LocalInv, Progress, Whole
<1>5. Restores'
  <2>1. CASE restored' = 0 /\ ~Restoring
    BY <1>1, <2>1, IdFacts DEF LocalInv, Restores, RestoredHasAll, Restoring
  <2>2. CASE UNCHANGED <<db, vault, restored>>
    BY <1>1, <2>2 DEF LocalInv, Restores, RestoredHasAll, Restoring, Whole
  <2> QED
    BY <1>1, <2>1, <2>2
<1>6. \A b \in acked' : Kept(b)'
  BY <1>1, AllAreKept DEF LocalInv
<1> QED
  BY <1>2, <1>3, <1>4, <1>5, <1>6 DEF LocalInv

----------------------------------------------------------------------------
(* A backup is made                                                        *)

LEMMA BeginKeeps == ASSUME LocalInv, BeginBackup PROVE LocalInv'
<1>1. /\ pc = "idle" /\ made < MaxId /\ made' = made + 1 /\ cur' = made + 1
      /\ pc' = "copy sqlite"
      /\ UNCHANGED <<db, wal, vault, version, dirs, tars, doomed, acked, copied, packing, restored>>
  BY DEF BeginBackup, sources, disk, takes
<1>2. /\ made \in Nat /\ made' \in Nat /\ made' \in Ids /\ made' # 0 /\ restored <= made
      /\ restored # made' /\ made' \notin acked /\ restored \in Nat /\ made' > made
  <2>1. /\ made \in Nat /\ restored <= made /\ restored \in Nat
        /\ \A b \in acked : b \in Nat /\ b <= made
    BY IdFacts DEF LocalInv
  <2> QED
    <3>1. made' = made + 1 /\ made < MaxId
      BY <1>1
    <3>2. made' \in Nat /\ made' # 0 /\ made' > made /\ restored # made' /\ made' <= MaxId
      BY <2>1, <3>1, Bounds
    <3>3. made' \in Ids
      BY <3>2, Bounds
    <3>4. made' \notin acked
      BY <2>1, <3>2
    <3> QED
      BY <2>1, <3>2, <3>3, <3>4
<1>3. LocalTyped'
  <2>1. made' \in 0 .. MaxId /\ cur' \in 0 .. made' /\ acked' \subseteq 1 .. made'
        /\ restored' \in 0 .. made'
    <3>1. \A b \in acked : b \in Nat /\ b # 0 /\ b <= made
      BY IdFacts DEF LocalInv
    <3> QED
      <4>1. made' \in 0 .. MaxId /\ made' \in 0 .. made'
        BY <1>2, Bounds
      <4>2. acked \subseteq 1 .. made' /\ restored \in 0 .. made'
        BY <1>2, <3>1
      <4> QED
        BY <1>1, <4>1, <4>2
  <2> QED
    BY <1>1, <2>1 DEF LocalInv, LocalTyped, Making
<1>4. Phases'
  BY <1>1, <1>2 DEF Phases, Making, Restoring
<1>5. Progress'
  <2>1. dirs[made'] = Nothing /\ tars[made'] = NoTar /\ copied[made'] = Nothing
    BY <1>2 DEF LocalInv, Progress
  <2>2. \A b \in Ids : b > made' => b > made
    BY <1>2, Bounds
  <2>3. /\ \A b \in Ids : b > made => dirs[b] = Nothing /\ tars[b] = NoTar /\ copied[b] = Nothing
        /\ \A b \in Ids : tars[b] = Torn => b \in packing
    BY <1>1 DEF LocalInv, Progress
  <2> QED
    BY <1>1, <2>1, <2>2, <2>3 DEF Progress
<1>6. Restores'
  BY <1>1, <1>2 DEF LocalInv, Restores, RestoredHasAll, Restoring
<1>7. \A b \in acked' : Kept(b)'
  BY <1>1, AllAreKept DEF LocalInv
<1> QED
  BY <1>3, <1>4, <1>5, <1>6, <1>7 DEF LocalInv

\* A step that changes what there is of the current backup only, and goes on.
LEMMA GoesOn ==
    ASSUME LocalInv, pc \in Making, pc' \in Making,
           UNCHANGED <<db, wal, vault, version, made, cur, doomed, acked, packing, restored>>,
           dirs' \in [Ids -> Contents], copied' \in [Ids -> Contents],
           tars' \in [Ids -> Contents \cup {NoTar, Torn}],
           \A b \in Ids \ {cur} : dirs'[b] = dirs[b] /\ tars'[b] = tars[b] /\ copied'[b] = copied[b],
           Progress'
    PROVE  LocalInv'
<1>1. LocalTyped'
  BY DEF LocalInv, LocalTyped
<1>2. Phases'
  BY DEF LocalInv, Phases, Making, Restoring
<1>3. cur # 0 /\ restored # cur /\ cur \notin acked
  BY DEF LocalInv, Phases, Restores
<1>4. Restores'
  <2>1. restored \in acked => copied'[restored] = copied[restored]
    BY <1>3, IdFacts DEF LocalInv
  <2> QED
    BY <1>3, <2>1 DEF LocalInv, Restores, RestoredHasAll, Restoring, Making
<1>5. \A b \in acked' : Kept(b)'
  <2>1. acked' \subseteq acked \ {cur}
    BY <1>3
  <2> QED
    BY <2>1, OthersAreKept DEF LocalInv
<1> QED
  BY <1>1, <1>2, <1>4, <1>5 DEF LocalInv

\* What is so of the other backups while one is made.
LEMMA OthersRest ==
    ASSUME LocalInv, cur # 0, UNCHANGED <<made, packing>>,
           \A b \in Ids \ {cur} : dirs'[b] = dirs[b] /\ tars'[b] = tars[b] /\ copied'[b] = copied[b]
    PROVE  /\ \A b \in Ids : b > made' => /\ dirs'[b] = Nothing /\ tars'[b] = NoTar
                                          /\ copied'[b] = Nothing
           /\ \A b \in Ids \ {cur} : tars'[b] = Torn => b \in packing'
<1>1. \A b \in Ids : b > made => b # cur
  BY IdFacts DEF LocalInv
<1> QED
  BY <1>1 DEF LocalInv, Progress

\* A field of what a backup holds is set.
LEMMA FieldFacts ==
    ASSUME NEW c \in Contents, NEW q \in Versions, NEW v \in SUBSET Notes
    PROVE  /\ [c EXCEPT !.sqlite = q] = [sqlite |-> q, vault |-> c.vault, manifest |-> c.manifest]
           /\ [c EXCEPT !.vault = v] = [sqlite |-> c.sqlite, vault |-> v, manifest |-> c.manifest]
           /\ [c EXCEPT !.manifest = TRUE] = [sqlite |-> c.sqlite, vault |-> c.vault, manifest |-> TRUE]
<1>1. [c EXCEPT !.sqlite = q] = [sqlite |-> q, vault |-> c.vault, manifest |-> c.manifest]
  <2>1. [c EXCEPT !.sqlite = q] \in Contents
    BY DEF Contents, Versions
  <2> QED
    BY <2>1 DEF Contents
<1>2. [c EXCEPT !.vault = v] = [sqlite |-> c.sqlite, vault |-> v, manifest |-> c.manifest]
  <2>1. [c EXCEPT !.vault = v] \in Contents
    BY DEF Contents
  <2> QED
    BY <2>1 DEF Contents
<1>3. [c EXCEPT !.manifest = TRUE] = [sqlite |-> c.sqlite, vault |-> c.vault, manifest |-> TRUE]
  <2> DEFINE r == [c EXCEPT !.manifest = TRUE]
  <2>1. r \in Contents
    BY DEF Contents
  <2>2. r.sqlite = c.sqlite /\ r.vault = c.vault /\ r.manifest = TRUE
    BY DEF Contents
  <2> HIDE DEF r
  <2>3. r = [sqlite |-> r.sqlite, vault |-> r.vault, manifest |-> r.manifest]
    BY <2>1 DEF Contents
  <2> QED
    BY <2>2, <2>3 DEF r
<1> QED
  BY <1>1, <1>2, <1>3

LEMMA CopiesKeep ==
    ASSUME LocalInv, CopySqlite \/ CopyVault \/ WriteManifest PROVE LocalInv'
<1>1. /\ pc \in Making /\ cur # 0 /\ cur \in Ids
      /\ dirs \in [Ids -> Contents] /\ copied \in [Ids -> Contents]
      /\ tars \in [Ids -> Contents \cup {NoTar, Torn}]
      /\ db \in Versions /\ vault \subseteq Notes
  BY IdFacts DEF LocalInv, LocalTyped, Phases, Making, CopySqlite, CopyVault, WriteManifest
<1>2. /\ UNCHANGED <<db, wal, vault, version, made, cur, doomed, acked, packing, restored>>
      /\ tars' = tars
  BY DEF CopySqlite, CopyVault, WriteManifest, sources, takes
<1>3. dirs[cur] \in Contents /\ copied[cur] \in Contents
  BY <1>1
<1>4. tars[cur] = NoTar
  BY DEF LocalInv, Progress, CopySqlite, CopyVault, WriteManifest
<1>5. CASE CopySqlite
  <2>1. /\ dirs' = [dirs EXCEPT ![cur].sqlite = db]
        /\ copied' = [copied EXCEPT ![cur].sqlite = db]
        /\ pc = "copy sqlite" /\ pc' = "copy vault"
        /\ dirs[cur] = Nothing /\ copied[cur] = Nothing
    BY <1>5 DEF CopySqlite, LocalInv, Progress
  <2> DEFINE e == [sqlite |-> db, vault |-> {}, manifest |-> FALSE]
  <2>2. dirs' = [dirs EXCEPT ![cur] = e] /\ copied' = [copied EXCEPT ![cur] = e]
    <3>1. [Nothing EXCEPT !.sqlite = db] = e
      <4>1. Nothing.vault = {} /\ Nothing.manifest = FALSE
        BY DEF Nothing
      <4> QED
        <5>1. [Nothing EXCEPT !.sqlite = db]
                 = [sqlite |-> db, vault |-> Nothing.vault, manifest |-> Nothing.manifest]
          BY <1>1, NothingFacts, FieldFacts
        <5> QED
          BY <4>1, <5>1
    <3>2. /\ dirs' = [dirs EXCEPT ![cur] = [dirs[cur] EXCEPT !.sqlite = db]]
          /\ copied' = [copied EXCEPT ![cur] = [copied[cur] EXCEPT !.sqlite = db]]
      BY <1>1, <2>1
    <3> QED
      BY <2>1, <3>1, <3>2
  <2>3. e \in Contents
    BY <1>1 DEF Contents, Versions
  <2>4. dirs'[cur] = e /\ copied'[cur] = e
    BY <1>1, <2>2
  <2>5. Progress'
    <3>1. \A b \in Ids \ {cur} :
             dirs'[b] = dirs[b] /\ tars'[b] = tars[b] /\ copied'[b] = copied[b]
      BY <1>1, <1>2, <2>2
    <3>2. tars'[cur] = NoTar /\ NoTar # Torn
      BY <1>2, <1>4, BackupAssumption
    <3>3. e.sqlite = db
      OBVIOUS
    <3> HIDE DEF e
    <3> QED
      BY <1>1, <1>2, <2>1, <2>4, <3>1, <3>2, <3>3, OthersRest DEF Progress, e
  <2> QED
    <3>1. \A b \in Ids \ {cur} :
             dirs'[b] = dirs[b] /\ tars'[b] = tars[b] /\ copied'[b] = copied[b]
      BY <1>1, <1>2, <2>2
    <3>2. /\ dirs' \in [Ids -> Contents] /\ copied' \in [Ids -> Contents]
          /\ tars' \in [Ids -> Contents \cup {NoTar, Torn}]
      BY <1>1, <1>2, <2>2, <2>3
    <3>3. pc' \in Making
      BY <2>1 DEF Making
    <3> QED
      BY <1>1, <1>2, <2>5, <3>1, <3>2, <3>3, GoesOn
<1>6. CASE CopyVault
  <2>1. /\ dirs' = [dirs EXCEPT ![cur].vault = vault]
        /\ copied' = [copied EXCEPT ![cur].vault = vault]
        /\ pc = "copy vault" /\ pc' = "manifest"
        /\ dirs[cur] = [sqlite |-> copied[cur].sqlite, vault |-> {}, manifest |-> FALSE]
    BY <1>6 DEF CopyVault, LocalInv, Progress
  <2> DEFINE e == [dirs[cur] EXCEPT !.vault = vault]
             f == [copied[cur] EXCEPT !.vault = vault]
  <2>2. dirs' = [dirs EXCEPT ![cur] = e] /\ copied' = [copied EXCEPT ![cur] = f]
    BY <1>1, <2>1
  <2>3. e \in Contents /\ f \in Contents
    BY <1>1, <1>3 DEF Contents
  <2>4. dirs'[cur] = e /\ copied'[cur] = f
    BY <1>1, <2>2
  <2>5. e = [sqlite |-> f.sqlite, vault |-> f.vault, manifest |-> FALSE]
    <3>1. [[sqlite |-> copied[cur].sqlite, vault |-> {}, manifest |-> FALSE] EXCEPT !.vault = vault]
            = [sqlite |-> copied[cur].sqlite, vault |-> vault, manifest |-> FALSE]
      BY <1>1, <1>3, <2>1, FieldFacts
    <3>2. f.sqlite = copied[cur].sqlite /\ f.vault = vault
      BY <1>3 DEF Contents
    <3> QED
      BY <2>1, <3>1, <3>2
  <2>6. Progress'
    BY <1>1, <1>2, <1>4, <2>1, <2>2, <2>4, <2>5, OthersRest, BackupAssumption DEF Progress
  <2> QED
    BY <1>1, <1>2, <2>1, <2>2, <2>3, <2>6, GoesOn DEF Making
<1>7. CASE WriteManifest
  <2>1. /\ dirs' = [dirs EXCEPT ![cur].manifest = TRUE] /\ copied' = copied
        /\ pc = "manifest" /\ pc' \in {"open tar", "list"}
        /\ dirs[cur] = [sqlite |-> copied[cur].sqlite, vault |-> copied[cur].vault,
                        manifest |-> FALSE]
    BY <1>7 DEF WriteManifest, LocalInv, Progress, takes
  <2> DEFINE e == Whole(cur)
  <2>2. dirs' = [dirs EXCEPT ![cur] = e] /\ e' = e
    <3>1. [[sqlite |-> copied[cur].sqlite, vault |-> copied[cur].vault, manifest |-> FALSE]
              EXCEPT !.manifest = TRUE] = e
      BY <1>1, <1>3, <2>1, FieldFacts DEF Whole
    <3>2. dirs' = [dirs EXCEPT ![cur] = [dirs[cur] EXCEPT !.manifest = TRUE]]
      BY <1>1, <2>1
    <3>3. e' = e
      BY <1>2, <2>1 DEF Whole
    <3> QED
      BY <2>1, <3>1, <3>2, <3>3
  <2>3. e \in Contents
    BY <1>1, WholeFacts DEF LocalInv
  <2>4. dirs'[cur] = e /\ e \in PartsOf(e)
    BY <1>1, <2>2, <2>3, PartsFacts
  <2> HIDE DEF e
  <2>5. Progress'
    BY <1>1, <1>2, <1>4, <2>1, <2>2, <2>4, OthersRest, BackupAssumption DEF Progress, e
  <2> QED
    BY <1>1, <1>2, <2>1, <2>2, <2>3, <2>5, GoesOn DEF Making
<1> QED
  BY <1>5, <1>6, <1>7

LEMMA PackingKeeps ==
    ASSUME LocalInv, OpenTar \/ CloseTar \/ RemoveDir PROVE LocalInv'
<1>1. /\ pc \in Making /\ cur # 0 /\ cur \in Ids
      /\ dirs \in [Ids -> Contents] /\ copied \in [Ids -> Contents]
      /\ tars \in [Ids -> Contents \cup {NoTar, Torn}]
  BY IdFacts DEF LocalInv, LocalTyped, Phases, Making, OpenTar, CloseTar, RemoveDir
<1>2. /\ UNCHANGED <<db, wal, vault, version, made, cur, doomed, acked, packing, restored>>
      /\ copied' = copied /\ Whole(cur)' = Whole(cur) /\ dirs[cur] = Whole(cur)
  BY DEF OpenTar, CloseTar, RemoveDir, sources, takes, Whole, LocalInv, Progress
<1>3. /\ Whole(cur) \in Contents /\ Whole(cur) # NoTar /\ Whole(cur) # Torn
      /\ Nothing \in Contents /\ Nothing \in PartsOf(Whole(cur))
  <2>1. Whole(cur) \in Contents /\ Whole(cur) # NoTar /\ Whole(cur) # Torn
    BY <1>1, WholeFacts DEF LocalInv
  <2> QED
    BY <2>1, PartsFacts, NothingFacts
<1>4. CASE OpenTar
  <2>1. /\ tars' = [tars EXCEPT ![cur] = Torn] /\ dirs' = dirs /\ pc' = "close tar"
    BY <1>4 DEF OpenTar
  <2>2. Progress'
    BY <1>1, <1>2, <2>1, OthersRest DEF Progress
  <2> QED
    BY <1>1, <1>2, <2>1, <2>2, GoesOn DEF Making
<1>5. CASE CloseTar
  <2>1. /\ tars' = [tars EXCEPT ![cur] = Whole(cur)] /\ dirs' = dirs /\ pc' = "remove dir"
    BY <1>2, <1>5 DEF CloseTar
  <2>2. Progress'
    BY <1>1, <1>2, <1>3, <2>1, OthersRest DEF Progress
  <2> QED
    BY <1>1, <1>2, <1>3, <2>1, <2>2, GoesOn DEF Making
<1>6. CASE RemoveDir
  <2>1. /\ dirs' = [dirs EXCEPT ![cur] = Nothing] /\ tars' = tars /\ pc' = "list"
        /\ tars[cur] = Whole(cur)
    BY <1>6 DEF RemoveDir, LocalInv, Progress
  <2>2. dirs'[cur] = Nothing
    BY <1>1, <2>1
  <2>3. Progress'
    BY <1>1, <1>2, <1>3, <2>1, <2>2, OthersRest DEF Progress
  <2> QED
    BY <1>1, <1>2, <1>3, <2>1, <2>3, GoesOn DEF Making
<1> QED
  BY <1>4, <1>5, <1>6

----------------------------------------------------------------------------
(* An operation ends, as it should or not                                  *)

LEMMA ReturnKeeps ==
    ASSUME LocalInv, Return, UNCHANGED <<db, wal, vault, version, made, copied, restored>>,
           dirs' \in [Ids -> Contents], tars' \in [Ids -> Contents \cup {NoTar, Torn}],
           acked' \subseteq 1 .. made, acked' \subseteq acked \cup {cur},
           \A b \in Ids : b > made => dirs'[b] = Nothing /\ tars'[b] = NoTar,
           \A b \in Ids : tars'[b] = Torn => b \in packing',
           \A b \in acked' : Kept(b)'
    PROVE  LocalInv'
<1>1. made \in Nat /\ \A b \in acked' : b # 0
  BY IdFacts DEF LocalInv
<1>2. LocalTyped'
  <2>1. 0 \in 0 .. made /\ pc' = "idle" /\ cur' = 0 /\ doomed' = {}
    BY <1>1 DEF Return
  <2> QED
    BY <2>1 DEF LocalInv, LocalTyped
<1>3. Phases'
  BY DEF Return, Phases, Making, Restoring
<1>4. Progress'
  BY DEF LocalInv, Return, Progress
<1>5. Restores'
  <2>1. restored \in acked' => restored \in acked
    BY <1>1 DEF LocalInv, Restores
  <2> QED
    BY <2>1 DEF LocalInv, Return, Restores, RestoredHasAll, Restoring
<1> QED
  BY <1>2, <1>3, <1>4, <1>5 DEF LocalInv

\* What is lost of the directory of one backup is less of it.
LEMMA LeftFacts ==
    ASSUME LocalInv, NEW b \in Ids, NEW left \in PartsOf(dirs[b]),
           dirs' = [dirs EXCEPT ![b] = left]
    PROVE  /\ dirs' \in [Ids -> Contents] /\ dirs'[b] = left
           /\ \A a \in Ids \ {b} : dirs'[a] = dirs[a]
           /\ \A a \in Ids : a > made => dirs'[a] = Nothing
<1>1. dirs \in [Ids -> Contents] /\ dirs[b] \in Contents
  BY DEF LocalInv, LocalTyped
<1>2. left \in Contents
  BY <1>1, PartsFacts
<1>3. dirs' \in [Ids -> Contents] /\ dirs'[b] = left /\ \A a \in Ids \ {b} : dirs'[a] = dirs[a]
  BY <1>1, <1>2
<1>4. b > made => left = Nothing
  BY NothingFacts DEF LocalInv, Progress
<1> QED
  BY <1>3, <1>4 DEF LocalInv, Progress

LEMMA FailuresKeep ==
    ASSUME LocalInv, CopyFails \/ PackFails \/ RestoreFails PROVE LocalInv'
<1>1. /\ dirs \in [Ids -> Contents] /\ tars \in [Ids -> Contents \cup {NoTar, Torn}]
      /\ acked \subseteq 1 .. made
  BY DEF LocalInv, LocalTyped
<1>2. /\ Return /\ UNCHANGED <<db, wal, vault, version, made, copied, restored, acked, packing>>
  BY DEF CopyFails, PackFails, RestoreFails, sources, takes
<1>3. \A b \in Ids : b > made => dirs[b] = Nothing /\ tars[b] = NoTar
  BY DEF LocalInv, Progress
<1>4. CASE CopyFails \/ RestoreFails
  <2>1. UNCHANGED <<dirs, tars>> /\ pc # "close tar"
    BY <1>4 DEF CopyFails, RestoreFails, disk, Restoring
  <2>2. \A b \in Ids : tars'[b] = Torn => b \in packing'
    BY <1>2, <2>1 DEF LocalInv, Progress
  <2>3. \A b \in acked' : Kept(b)'
    BY <1>2, <2>1, AllAreKept DEF LocalInv
  <2> QED
    BY <1>1, <1>2, <1>3, <2>1, <2>2, <2>3, ReturnKeeps
<1>5. CASE PackFails
  <2>1. /\ tars' = [tars EXCEPT ![cur] = NoTar] /\ cur \in Ids /\ cur \notin acked
        /\ \E left \in PartsOf(dirs[cur]) : dirs' = [dirs EXCEPT ![cur] = left]
    <3>1. cur # 0 /\ cur \notin acked
      BY <1>5 DEF PackFails, LocalInv, Phases, Making
    <3>2. cur \in Ids
      BY <3>1, IdFacts DEF LocalInv
    <3>3. dirs[cur] \in PartsOf(dirs[cur])
      BY <1>1, <3>2, PartsFacts
    <3> QED
      BY <1>5, <3>1, <3>2, <3>3 DEF PackFails
  <2>2. /\ dirs' \in [Ids -> Contents]
        /\ \A a \in Ids \ {cur} : dirs'[a] = dirs[a]
        /\ \A a \in Ids : a > made => dirs'[a] = Nothing
    BY <2>1, LeftFacts
  <2>3. /\ tars' \in [Ids -> Contents \cup {NoTar, Torn}] /\ tars'[cur] = NoTar
        /\ \A a \in Ids \ {cur} : tars'[a] = tars[a]
    BY <1>1, <2>1
  <2>4. \A b \in Ids : tars'[b] = Torn => b \in packing'
    BY <1>2, <2>3, BackupAssumption DEF LocalInv, Progress
  <2>5. \A b \in Ids : b > made => tars'[b] = NoTar
    BY <1>3, <2>3
  <2>6. \A b \in acked' : Kept(b)'
    <3>1. acked' \subseteq acked \ {cur}
      BY <1>2, <2>1
    <3> QED
      BY <1>2, <2>2, <2>3, <3>1, OthersAreKept DEF LocalInv
  <2> QED
    BY <1>1, <1>2, <2>2, <2>3, <2>4, <2>5, <2>6, ReturnKeeps
<1> QED
  BY <1>4, <1>5

LEMMA CrashKeeps == ASSUME LocalInv, BackupCrash PROVE LocalInv'
<1>1. /\ tars' = tars /\ tars \in [Ids -> Contents \cup {NoTar, Torn}]
      /\ dirs \in [Ids -> Contents]
      /\ acked' = acked /\ acked \subseteq 1 .. made /\ Return
      /\ UNCHANGED <<db, wal, vault, version, made, copied, restored>>
  BY DEF LocalInv, LocalTyped, BackupCrash, sources
<1>2. \A b \in Ids : b > made => dirs[b] = Nothing /\ tars[b] = NoTar
  BY DEF LocalInv, Progress
<1>3. \A b \in Ids : tars'[b] = Torn => b \in packing'
  BY <1>1 DEF LocalInv, Progress, BackupCrash
<1>4. CASE UNCHANGED dirs
  <2>1. \A b \in acked' : Kept(b)'
    BY <1>1, <1>4, AllAreKept DEF LocalInv
  <2> QED
    BY <1>1, <1>2, <1>3, <1>4, <2>1, ReturnKeeps
<1>5. ASSUME NEW b \in Ids, NEW left \in PartsOf(dirs[b]), dirs' = [dirs EXCEPT ![b] = left],
             b \in acked => tars[b] # NoTar
      PROVE  LocalInv'
  <2>1. /\ dirs' \in [Ids -> Contents] /\ dirs'[b] = left
        /\ \A a \in Ids \ {b} : dirs'[a] = dirs[a]
        /\ \A a \in Ids : a > made => dirs'[a] = Nothing
    BY <1>5, LeftFacts
  <2>2. ASSUME NEW a \in acked' PROVE Kept(a)'
    <3>1. a \in Ids /\ Kept(a) /\ Whole(a)' = Whole(a) /\ a \in acked
      BY <1>1, <2>2, IdFacts DEF LocalInv, Whole
    <3>2. CASE a # b
      BY <1>1, <2>1, <3>1, <3>2 DEF Kept
    <3>3. CASE a = b
      <4>1. tars[a] = Whole(a) /\ dirs[a] \in PartsOf(Whole(a))
        BY <1>5, <3>1, <3>3 DEF Kept
      <4>2. PartsOf(dirs[a]) \subseteq PartsOf(Whole(a))
        BY <3>1, <4>1, WholeFacts, PartsFacts DEF LocalInv
      <4> QED
        BY <1>1, <1>5, <2>1, <3>1, <3>3, <4>1, <4>2 DEF Kept
    <3> QED
      BY <3>2, <3>3
  <2> QED
    BY <1>1, <1>2, <1>3, <2>1, <2>2, ReturnKeeps
<1>6. CASE /\ \/ pc \in {"copy vault", "remove dir"}
              \/ pc = "restore sqlite" /\ tars[cur] # NoTar
           /\ \E left \in PartsOf(dirs[cur]) : dirs' = [dirs EXCEPT ![cur] = left]
  <2>1. cur \in Ids /\ (cur \in acked => tars[cur] # NoTar)
    BY <1>6, IdFacts DEF LocalInv, Phases, Making, Restoring
  <2> QED
    BY <1>5, <1>6, <2>1
<1>7. CASE /\ pc = "delete"
           /\ \E b \in doomed : \E left \in PartsOf(dirs[b]) : dirs' = [dirs EXCEPT ![b] = left]
  <2>1. \A b \in doomed : b \in Ids /\ b \notin acked
    BY <1>7 DEF LocalInv, LocalTyped, Phases
  <2> QED
    BY <1>5, <1>7, <2>1
<1> QED
  BY <1>4, <1>6, <1>7 DEF BackupCrash

\* A backup that is verified is kept.
LEMMA VerifiedIsKept ==
    ASSUME LocalInv, pc = "delete", cur # 0, VerifyOK(cur) PROVE Kept(cur)
<1>1. cur \in Ids
  BY IdFacts DEF LocalInv
<1>2. tars[cur] \in {NoTar, Whole(cur)} /\ dirs[cur] \in PartsOf(Whole(cur))
  BY DEF LocalInv, Progress
<1>3. CASE tars[cur] = Whole(cur)
  BY <1>2, <1>3 DEF Kept
<1>4. CASE tars[cur] = NoTar
  <2> DEFINE d == dirs[cur]
             c == copied[cur]
  <2>1. /\ d.sqlite \in {0, c.sqlite}
        /\ d = [sqlite |-> d.sqlite, vault |-> d.vault, manifest |-> d.manifest]
        /\ d.manifest \in BOOLEAN
    BY <1>2 DEF PartsOf, Whole
  <2>2. d.manifest /\ c.sqlite \in {0, d.sqlite} /\ d.vault = c.vault
    BY <1>4 DEF VerifyOK
  <2>3. d.sqlite = c.sqlite /\ d.manifest = TRUE
    BY <2>1, <2>2
  <2> HIDE DEF d, c
  <2>4. d = [sqlite |-> c.sqlite, vault |-> c.vault, manifest |-> TRUE]
    BY <2>1, <2>2, <2>3
  <2>5. dirs[cur] = Whole(cur)
    BY <2>4 DEF Whole, d, c
  <2> QED
    BY <1>4, <2>5 DEF Kept
<1> QED
  BY <1>2, <1>3, <1>4

LEMMA FinishKeeps == ASSUME VerifyIntegrity, LocalInv, Finish PROVE LocalInv'
<1>1. /\ pc = "delete" /\ Return
      /\ UNCHANGED <<db, wal, vault, version, made, dirs, tars, copied, packing, restored>>
      /\ acked' = IF cur # 0 /\ VerifyOK(cur) THEN acked \cup {cur} ELSE acked
  BY DEF Finish, sources, disk, takes
<1>2. /\ dirs \in [Ids -> Contents] /\ tars \in [Ids -> Contents \cup {NoTar, Torn}]
      /\ acked \subseteq 1 .. made
  BY DEF LocalInv, LocalTyped
<1>3. \A b \in Ids : b > made => dirs'[b] = Nothing /\ tars'[b] = NoTar
  BY <1>1 DEF LocalInv, Progress
<1>4. \A b \in Ids : tars'[b] = Torn => b \in packing'
  BY <1>1 DEF LocalInv, Progress
<1>5. acked' \subseteq 1 .. made /\ acked' \subseteq acked \cup {cur}
  <2>1. made \in Nat /\ cur \in Nat /\ cur <= made
    BY IdFacts DEF LocalInv
  <2>2. cur # 0 => cur \in 1 .. made
    BY <2>1
  <2> QED
    BY <1>1, <1>2, <2>2
<1>6. ASSUME NEW b \in acked' PROVE Kept(b)'
  <2>1. Kept(b)
    BY <1>1, VerifiedIsKept DEF LocalInv
  <2>2. Whole(b)' = Whole(b)
    BY <1>1 DEF Whole
  <2> QED
    BY <1>1, <2>1, <2>2 DEF Kept
<1> QED
  BY <1>1, <1>2, <1>3, <1>4, <1>5, <1>6, ReturnKeeps

----------------------------------------------------------------------------
(* Backups are deleted                                                     *)

LEMMA DoomKeeps ==
    ASSUME LocalInv, Retention \/ \E b \in Ids : BeginDelete(b) PROVE LocalInv'
<1>1. /\ UNCHANGED <<db, wal, vault, version, made, dirs, tars, cur, copied, packing, restored>>
      /\ pc' = "delete" /\ doomed' \subseteq Ids /\ acked' \subseteq acked
      /\ doomed' \cap acked' = {}
      /\ pc = "list" \/ (pc = "idle" /\ cur = 0)
  <2>1. CASE Retention
    <3>1. Victims \subseteq Ids
      BY DEF Victims, ListedIds, Listed
    <3> QED
      BY <2>1, <3>1 DEF Retention, sources, disk, takes
  <2>2. CASE \E b \in Ids : BeginDelete(b)
    BY <2>2 DEF BeginDelete, sources, disk, takes, LocalInv, Phases
  <2> QED
    BY <2>1, <2>2
<1>2. LocalTyped'
  BY <1>1 DEF LocalInv, LocalTyped
<1>3. Phases'
  BY <1>1 DEF LocalInv, Phases, Making, Restoring
<1>4. Progress'
  BY <1>1 DEF LocalInv, Progress, Whole
<1>5. Restores'
  BY <1>1 DEF LocalInv, Restores, RestoredHasAll, Restoring
<1>6. \A b \in acked' : Kept(b)'
  BY <1>1, AllAreKept DEF LocalInv
<1> QED
  BY <1>2, <1>3, <1>4, <1>5, <1>6 DEF LocalInv

LEMMA DeleteKeeps == ASSUME LocalInv, Delete PROVE LocalInv'
<1>1. /\ pc = "delete" /\ pc' = pc /\ doomed' \subseteq doomed
      /\ UNCHANGED <<db, wal, vault, version, made, cur, acked, copied, packing, restored>>
  BY DEF Delete, sources, takes
<1>2. /\ dirs \in [Ids -> Contents] /\ tars \in [Ids -> Contents \cup {NoTar, Torn}]
      /\ doomed \subseteq Ids /\ doomed \cap acked = {}
  BY <1>1 DEF LocalInv, LocalTyped, Phases
<1>3. PICK b \in doomed :
         /\ \E left \in PartsOf(dirs[b]) : dirs' = [dirs EXCEPT ![b] = left]
         /\ tars' = [tars EXCEPT ![b] = NoTar] \/ tars' = tars
  <2>1. \A b \in doomed : Nothing \in PartsOf(dirs[b])
    BY <1>2, PartsFacts
  <2> QED
    BY <2>1 DEF Delete
<1>4. PICK left \in PartsOf(dirs[b]) : dirs' = [dirs EXCEPT ![b] = left]
  BY <1>3
<1>5. b \in Ids /\ b \notin acked
  BY <1>2
<1>6. /\ dirs' \in [Ids -> Contents] /\ dirs'[b] = left
      /\ \A a \in Ids \ {b} : dirs'[a] = dirs[a]
      /\ \A a \in Ids : a > made => dirs'[a] = Nothing
  BY <1>4, <1>5, LeftFacts
<1>7. /\ tars' \in [Ids -> Contents \cup {NoTar, Torn}] /\ tars'[b] \in {NoTar, tars[b]}
      /\ \A a \in Ids \ {b} : tars'[a] = tars[a]
  BY <1>2, <1>3, <1>5
<1>8. LocalTyped'
  BY <1>1, <1>2, <1>6, <1>7 DEF LocalInv, LocalTyped
<1>9. Phases'
  BY <1>1 DEF LocalInv, Phases, Making, Restoring
<1>10. Progress'
  <2>1. \A a \in Ids : a > made => tars'[a] = NoTar /\ copied[a] = Nothing
    BY <1>7 DEF LocalInv, Progress
  <2>2. \A a \in Ids : tars'[a] = Torn => a \in packing
    <3>1. \A a \in Ids : tars[a] = Torn => a \in packing
      BY <1>1 DEF LocalInv, Progress
    <3> QED
      BY <1>7, <3>1, BackupAssumption
  <2>3. cur # 0 => tars'[cur] \in {NoTar, Whole(cur)} /\ dirs'[cur] \in PartsOf(Whole(cur))
    <3> SUFFICES ASSUME cur # 0
                 PROVE  tars'[cur] \in {NoTar, Whole(cur)} /\ dirs'[cur] \in PartsOf(Whole(cur))
      OBVIOUS
    <3>1. cur \in Ids /\ tars[cur] \in {NoTar, Whole(cur)} /\ dirs[cur] \in PartsOf(Whole(cur))
      BY <1>1, IdFacts DEF LocalInv, Progress
    <3>2. PartsOf(dirs[cur]) \subseteq PartsOf(Whole(cur))
      BY <3>1, WholeFacts, PartsFacts DEF LocalInv
    <3> QED
      BY <1>6, <1>7, <3>1, <3>2
  <2>4. Whole(cur)' = Whole(cur)
    BY <1>1 DEF Whole
  <2> QED
    BY <1>1, <1>6, <2>1, <2>2, <2>3, <2>4 DEF Progress
<1>11. Restores'
  BY <1>1 DEF LocalInv, Restores, RestoredHasAll, Restoring
<1>12. \A a \in acked' : Kept(a)'
  <2>1. acked' \subseteq acked \ {b}
    BY <1>1, <1>5
  <2> QED
    BY <1>1, <1>6, <1>7, <2>1, OthersAreKept DEF LocalInv
<1> QED
  BY <1>8, <1>9, <1>10, <1>11, <1>12 DEF LocalInv

----------------------------------------------------------------------------
(* A backup is restored                                                    *)

LEMMA BeginRestoreKeeps ==
    ASSUME LocalInv, NEW b \in Ids, BeginRestore(b) PROVE LocalInv'
<1>1. /\ pc = "idle" /\ pc' = "restore sqlite" /\ cur' = b /\ restored' = 0 /\ Restorable(b)
      /\ dirs' = [dirs EXCEPT ![b] = Image(b)]
      /\ UNCHANGED <<db, wal, vault, version, made, tars, doomed, acked, copied, packing>>
  BY DEF BeginRestore, sources, takes
<1>2. b \in 1 .. made /\ made \in Nat /\ b \in Nat /\ b # 0 /\ b <= made
  <2>1. b \in 1 .. made
    BY <1>1, FoundIsMade DEF LocalInv
  <2>2. made \in Nat
    BY IdFacts DEF LocalInv
  <2> QED
    BY <2>1, <2>2
<1>3. dirs \in [Ids -> Contents] /\ Image(b) \in Contents
  BY <1>1, ImageFacts DEF LocalInv, LocalTyped
<1>4. /\ dirs' \in [Ids -> Contents] /\ dirs'[b] = Image(b)
      /\ \A a \in Ids \ {b} : dirs'[a] = dirs[a]
  BY <1>1, <1>3
<1>5. \A a \in Ids : Whole(a)' = Whole(a)
  BY <1>1 DEF Whole
<1>6. b \in acked => dirs'[b] = Whole(b)
  BY <1>4, KeptIsRestorable DEF LocalInv
<1>7. LocalTyped'
  <2>1. b \in 0 .. made /\ 0 \in 0 .. made
    BY <1>2
  <2> QED
    BY <1>1, <1>4, <2>1 DEF LocalInv, LocalTyped
<1>8. Phases'
  BY <1>1, <1>2 DEF Phases, Making, Restoring
<1>9. Progress'
  <2>1. \A a \in Ids : a > made => a # b
    BY <1>2
  <2>2. \A a \in Ids : a > made => dirs'[a] = Nothing /\ tars[a] = NoTar /\ copied[a] = Nothing
    BY <1>4, <2>1 DEF LocalInv, Progress
  <2> QED
    BY <1>1, <2>2 DEF LocalInv, Progress
<1>10. Restores'
  <2>1. 0 \notin acked
    BY IdFacts DEF LocalInv
  <2> QED
    BY <1>1, <1>2, <1>5, <1>6, <2>1 DEF Restores, RestoredHasAll, Restoring
<1>11. ASSUME NEW a \in acked' PROVE Kept(a)'
  <2>1. a \in Ids /\ Kept(a) /\ a \in acked
    BY <1>1, <1>11, IdFacts DEF LocalInv
  <2>2. CASE a # b
    BY <1>1, <1>4, <1>5, <2>1, <2>2 DEF Kept
  <2>3. CASE a = b
    <3>1. Whole(a) \in PartsOf(Whole(a))
      BY <2>1, WholeFacts, PartsFacts DEF LocalInv
    <3> QED
      BY <1>1, <1>5, <1>6, <2>1, <2>3, <3>1 DEF Kept
  <2> QED
    BY <2>2, <2>3
<1> QED
  BY <1>7, <1>8, <1>9, <1>10, <1>11 DEF LocalInv

LEMMA RestoreKeeps ==
    ASSUME LocalInv, RestoreSqlite \/ RestoreVault PROVE LocalInv'
<1>1. /\ UNCHANGED <<wal, version, made, dirs, tars, acked, copied, packing>>
      /\ Restoring /\ cur \in Ids /\ cur # 0 /\ restored = 0 /\ 0 \notin acked
  <2>1. /\ UNCHANGED <<wal, version, made, dirs, tars, acked, copied, packing>>
        /\ Restoring
    BY DEF RestoreSqlite, RestoreVault, disk, takes, Restoring
  <2> QED
    BY <2>1, IdFacts DEF LocalInv, Phases, Restores
<1>2. dirs[cur] \in Contents /\ (cur \in acked => dirs[cur] = Whole(cur))
  BY <1>1 DEF LocalInv, LocalTyped, Restores
<1>3. dirs[cur].sqlite \in Versions /\ dirs[cur].vault \subseteq Notes
  BY <1>2 DEF Contents, Versions
<1>4. cur \in acked => dirs[cur].sqlite = copied[cur].sqlite /\ dirs[cur].vault = copied[cur].vault
  BY <1>2 DEF Whole
<1>5. \A b \in acked' : Kept(b)'
  BY <1>1, AllAreKept DEF LocalInv
<1>6. CASE RestoreSqlite
  <2>1. /\ db' = (IF dirs[cur].sqlite = 0 THEN db ELSE dirs[cur].sqlite)
        /\ pc' = "restore vault" /\ UNCHANGED <<vault, cur, doomed, restored>>
    BY <1>6 DEF RestoreSqlite
  <2>2. LocalTyped'
    <3>1. db' \in Versions
      BY <1>3, <2>1 DEF LocalInv, LocalTyped
    <3> QED
      BY <1>1, <2>1, <3>1 DEF LocalInv, LocalTyped
  <2>3. Phases'
    BY <1>1, <2>1 DEF LocalInv, Phases, Making, Restoring
  <2>4. Progress'
    BY <1>1, <1>6, <2>1 DEF LocalInv, Progress, RestoreSqlite
  <2>5. Restores'
    <3>1. cur \in acked => copied[cur].sqlite \in {0, db'} /\ dirs[cur] = Whole(cur)
      BY <1>2, <1>4, <2>1
    <3>2. Whole(cur)' = Whole(cur)
      BY <1>1, <2>1 DEF Whole
    <3> QED
      BY <1>1, <2>1, <3>1, <3>2 DEF Restores, RestoredHasAll, Restoring
  <2> QED
    BY <1>5, <2>2, <2>3, <2>4, <2>5 DEF LocalInv
<1>7. CASE RestoreVault
  <2>1. /\ vault' = vault \cup dirs[cur].vault /\ restored' = cur
        /\ pc' = "idle" /\ cur' = 0 /\ doomed' = {} /\ db' = db
    BY <1>7 DEF RestoreVault, Return
  <2>2. LocalTyped'
    <3>1. vault' \subseteq Notes
      BY <1>3, <2>1 DEF LocalInv, LocalTyped
    <3>2. 0 \in 0 .. made /\ restored' \in 0 .. made
      BY <2>1, IdFacts DEF LocalInv
    <3> QED
      BY <1>1, <2>1, <3>1, <3>2 DEF LocalInv, LocalTyped
  <2>3. Phases'
    BY <2>1 DEF Phases, Making, Restoring
  <2>4. Progress'
    BY <1>1, <1>7, <2>1 DEF LocalInv, Progress, RestoreVault
  <2>5. Restores'
    <3>1. cur \in acked => /\ copied[cur].vault \subseteq vault'
                           /\ copied[cur].sqlite \in {0, db}
      BY <1>4, <1>7, <2>1 DEF LocalInv, Restores, RestoreVault
    <3> QED
      BY <1>1, <2>1, <3>1 DEF Restores, RestoredHasAll, Restoring
  <2> QED
    BY <1>5, <2>2, <2>3, <2>4, <2>5 DEF LocalInv
<1> QED
  BY <1>6, <1>7

----------------------------------------------------------------------------

LEMMA LocalStart == BackupInit => LocalInv
<1> SUFFICES ASSUME BackupInit PROVE LocalInv
  OBVIOUS
<1>1. LocalTyped
  <2>1. 0 \in Versions /\ 0 \in 0 .. MaxId /\ 0 \in 0 .. 0
    BY Bounds DEF Versions
  <2>2. Nothing \in Contents
    BY NothingFacts
  <2> QED
    BY <2>1, <2>2 DEF BackupInit, LocalTyped
<1>2. Phases
  BY DEF BackupInit, Phases, Making, Restoring
<1>3. Progress
  BY BackupAssumption DEF BackupInit, Progress
<1>4. Restores /\ \A b \in acked : Kept(b)
  BY DEF BackupInit, Restores, RestoredHasAll, Restoring
<1> QED
  BY <1>1, <1>2, <1>3, <1>4 DEF LocalInv

\* LocalInv holds of every backup that is made, deleted and restored, with
\* verify_integrity on, whatever fails and wherever the process dies.
THEOREM LocalInvHolds == ASSUME VerifyIntegrity PROVE BackupSpec => []LocalInv
<1>1. BackupInit => LocalInv
  BY LocalStart
<1>2. LocalInv /\ [BackupNext]_backupVars => LocalInv'
  <2> SUFFICES ASSUME LocalInv, [BackupNext]_backupVars PROVE LocalInv'
    OBVIOUS
  <2>1. CASE Commit \/ Checkpoint \/ WriteVault \/ UNCHANGED backupVars
    BY <2>1, SourcesKeep
  <2>2. ASSUME NEW b \in Ids, GrowsOld(b) \/ BeginDelete(b) \/ BeginRestore(b) PROVE LocalInv'
    BY <2>2, SourcesKeep, DoomKeeps, BeginRestoreKeeps
  <2>3. CASE BeginBackup
    BY <2>3, BeginKeeps
  <2>4. CASE CopySqlite \/ CopyVault \/ WriteManifest
    BY <2>4, CopiesKeep
  <2>5. CASE OpenTar \/ CloseTar \/ RemoveDir
    BY <2>5, PackingKeeps
  <2>6. CASE CopyFails \/ PackFails \/ RestoreFails
    BY <2>6, FailuresKeep
  <2>7. CASE Retention
    BY <2>7, DoomKeeps
  <2>8. CASE Delete
    BY <2>8, DeleteKeeps
  <2>9. CASE Finish
    BY <2>9, FinishKeeps
  <2>10. CASE RestoreSqlite \/ RestoreVault
    BY <2>10, RestoreKeeps
  <2>11. CASE BackupCrash
    BY <2>11, CrashKeeps
  <2> QED
    BY <2>1, <2>2, <2>3, <2>4, <2>5, <2>6, <2>7, <2>8, <2>9, <2>10, <2>11 DEF BackupNext
<1> QED
  BY <1>1, <1>2, PTL DEF BackupSpec

\* There is a newest listed backup as soon as one is listed.
LEMMA NewestListed ==
    ASSUME NEW b \in ListedIds PROVE \E n \in ListedIds : \A a \in ListedIds : a <= n
<1>1. ListedIds \subseteq Ids
  BY DEF ListedIds, Listed
<1> DEFINE Gaps == {MaxId - a : a \in ListedIds}
<1>2. Gaps \subseteq Nat /\ MaxId - b \in Gaps
  <2>1. \A a \in Ids : MaxId - a \in Nat
    BY Bounds
  <2> QED
    BY <1>1, <2>1
<1>3. \E g \in Gaps : \A h \in Gaps : g <= h
  <2> HIDE DEF Gaps
  <2>1. PICK g \in Gaps : \A h \in Gaps : ~(<<h, g>> \in OpToRel(<, Nat))
    <3>1. Gaps # {} /\ Gaps \subseteq Nat
      BY <1>2
    <3> QED
      BY <3>1, NatLessThanWellFounded, WFMin
  <2>2. \A h \in Gaps : ~(h < g)
    BY <1>2, <2>1 DEF OpToRel
  <2> QED
    BY <1>2, <2>2
<1>4. PICK n \in ListedIds : \A a \in ListedIds : MaxId - n <= MaxId - a
  BY <1>3
<1>5. \A a \in ListedIds : a <= n
  BY <1>1, <1>4, Bounds
<1> QED
  BY <1>5

\* With verify_integrity on, a backup that was reported can be restored in full
\* until it is deleted, a restore brings back all that it copied, and the
\* newest backup can be restored unless the process died packing it.
THEOREM LocalIsRestorable == ASSUME VerifyIntegrity PROVE BackupSpec => []BackupsAreRestorable
<1>1. LocalInv => AckedIsRestorable
  <2> SUFFICES ASSUME LocalInv, NEW b \in acked
               PROVE  /\ Restorable(b) /\ Image(b).vault = copied[b].vault
                      /\ Image(b).sqlite = copied[b].sqlite
    BY DEF AckedIsRestorable
  <2>1. b \in Ids /\ Kept(b)
    BY IdFacts DEF LocalInv
  <2> QED
    BY <2>1, KeptIsRestorable, WholeFacts DEF LocalInv
<1>2. LocalInv => RestoredHasAll
  BY DEF LocalInv, Restores
<1>3. LocalInv => LatestIsRestorable
  <2> SUFFICES ASSUME LocalInv, pc = "idle", NEW b \in acked
               PROVE  \E n \in ListedIds : /\ \A a \in ListedIds : a <= n
                                           /\ Restorable(n) \/ n \in packing
    BY DEF LatestIsRestorable
  <2>1. b \in ListedIds
    <3>1. b \in Ids /\ Kept(b) /\ Whole(b) \in Contents /\ Whole(b).manifest
      BY IdFacts, WholeFacts DEF LocalInv
    <3>2. CASE tars[b] = Whole(b)
      <4>1. <<b, "tar">> \in Listed
        BY <3>1, <3>2 DEF Listed
      <4> QED
        BY <4>1 DEF ListedIds
    <3>3. CASE dirs[b] = Whole(b)
      <4>1. <<b, "dir">> \in Listed
        BY <3>1, <3>3 DEF Listed
      <4> QED
        BY <4>1 DEF ListedIds
    <3> QED
      BY <3>1, <3>2, <3>3 DEF Kept
  <2>2. PICK n \in ListedIds : \A a \in ListedIds : a <= n
    BY <2>1, NewestListed
  <2>3. n \in Ids /\ (dirs[n].manifest \/ (tars[n] \in Contents /\ tars[n].manifest))
    BY DEF ListedIds, Listed
  <2>4. tars[n] = Torn => n \in packing
    BY <2>3 DEF LocalInv, Progress
  <2>5. tars[n] # Torn => Restorable(n)
    <3>1. CASE tars[n] = NoTar
      BY <2>3, <3>1, BackupAssumption DEF Restorable, Image
    <3>2. CASE tars[n] # NoTar
      <4>1. Extracted(tars[n], dirs[n]).manifest = (dirs[n].manifest \/ tars[n].manifest)
        BY DEF Extracted
      <4> QED
        BY <2>3, <3>2, <4>1 DEF Restorable, Image
    <3> QED
      BY <3>1, <3>2
  <2> QED
    BY <2>2, <2>4, <2>5
<1> QED
  BY <1>1, <1>2, <1>3, LocalInvHolds, PTL DEF BackupsAreRestorable

----------------------------------------------------------------------------
(* Plug-ins                                                                *)

PluginSteps == {"idle", "approve", "revoke", "load", "save", "save revoked", "execute", "register"}

PluginTyped ==
    /\ text \in [Plugins -> Nat \ {0}]
    /\ list \in [Plugins -> Nat]
    /\ at \in [Processes -> PluginSteps]
    /\ plugin \in [Processes -> Plugins \cup {NoPlugin}]
    /\ \A u \in Processes : at[u] # "idle" => plugin[u] \in Plugins
    /\ seen \in [Processes -> [Plugins -> Nat]]
    /\ loaded \in [Processes -> Nat]
    /\ approved \in [Plugins -> SUBSET Nat]

\* A list of which every entry was approved some time.
Sound(l) == \A p \in Plugins : l[p] # 0 => l[p] \in approved[p]

ListsAreSound == Sound(list) /\ \A u \in Processes : Sound(seen[u])

\* What was verified was approved, as long as it is the same.
VerifiedWasApproved ==
    \A u \in Processes :
        at[u] = "execute" /\ u \notin edited => text[plugin[u]] \in approved[plugin[u]]

IInv == PluginTyped /\ ListsAreSound /\ VerifiedWasApproved /\ ExecutedWasApproved

-----------------------------------------------------------------------------
\* The first state is typed and nothing is on a list.
LEMMA InitIsSound == Init => IInv
  BY DEF Init, IInv, PluginTyped, PluginSteps, ListsAreSound, Sound, VerifiedWasApproved,
         ExecutedWasApproved, Empty

\* An edit of a file spares what was executed, and marks who had verified it.
LEMMA EditKeeps == ASSUME IInv, NEW p \in Plugins, Edit(p) PROVE IInv'
  <1>1. PluginTyped'
    <2>1. text[p] + 1 \in Nat \ {0}
      BY DEF IInv, PluginTyped
    <2>2. text' \in [Plugins -> Nat \ {0}]
      BY <2>1 DEF IInv, PluginTyped, Edit
    <2> QED
      BY <2>2 DEF IInv, PluginTyped, Edit
  <1>2. ListsAreSound' /\ ExecutedWasApproved'
    BY DEF IInv, PluginTyped, PluginSteps, Edit, ListsAreSound, Sound, ExecutedWasApproved
  <1>3. VerifiedWasApproved'
    <2> SUFFICES ASSUME NEW u \in Processes, at[u] = "execute", u \notin edited'
                 PROVE  text'[plugin[u]] \in approved[plugin[u]]
      BY DEF VerifiedWasApproved, Edit
    <2>1. plugin[u] # p /\ u \notin edited
      BY DEF Edit
    <2>2. plugin[u] \in Plugins
      BY DEF IInv, PluginTyped, PluginSteps
    <2>3. text'[plugin[u]] = text[plugin[u]]
      BY <2>1, <2>2 DEF IInv, PluginTyped, PluginSteps, Edit
    <2> QED
      BY <2>1, <2>3 DEF IInv, VerifiedWasApproved
  <1> QED
    BY <1>1, <1>2, <1>3 DEF IInv

\* What a call begins with is the list, or nothing.
LEMMA PluginBeginKeeps ==
    ASSUME IInv, NEW u \in Processes, NEW s \in {"approve", "revoke", "load"},
           NEW p \in Plugins, Begin(u, s, p)
    PROVE  IInv'
  <1>1. Read \in [Plugins -> Nat] /\ Sound(Read)
    BY DEF IInv, PluginTyped, PluginSteps, ListsAreSound, Sound, Read, Empty
  <1>2. PluginTyped'
    BY <1>1 DEF IInv, PluginTyped, PluginSteps, Begin, Goto, history
  <1>3. ListsAreSound'
    BY <1>1 DEF IInv, PluginTyped, PluginSteps, ListsAreSound, Sound, Begin, history
  <1>4. VerifiedWasApproved' /\ ExecutedWasApproved'
    BY DEF IInv, PluginTyped, PluginSteps, VerifiedWasApproved, ExecutedWasApproved, Begin, Goto, history
  <1> QED
    BY <1>2, <1>3, <1>4 DEF IInv

\* The hash that an approval puts on the list is approved with it.
LEMMA OpenKeeps == ASSUME IInv, NEW u \in Processes, Open(u) PROVE IInv'
  <1> DEFINE p == plugin[u]
             hash == IF at[u] = "approve" THEN text[p] ELSE 0
  <1>1. p \in Plugins /\ hash \in Nat
    BY DEF IInv, PluginTyped, PluginSteps, Open
  <1>2. /\ Changed(u) = [seen[u] EXCEPT ![p] = hash]
        /\ Changed(u) \in [Plugins -> Nat]
        /\ Changed(u)[p] = hash
    BY <1>1 DEF IInv, PluginTyped, PluginSteps, Changed
  <1>3. approved' = [approved EXCEPT ![p] = @ \cup ({hash} \ {0})]
    BY <1>2 DEF Open
  <1>4. \A q \in Plugins : approved[q] \subseteq approved'[q]
    BY <1>1, <1>3 DEF IInv, PluginTyped, PluginSteps
  <1>5. PluginTyped'
    <2>1. seen' \in [Processes -> [Plugins -> Nat]]
      BY <1>2 DEF IInv, PluginTyped, Open
    <2>2. approved' \in [Plugins -> SUBSET Nat]
      BY <1>1, <1>3 DEF IInv, PluginTyped
    <2>3. at' \in [Processes -> PluginSteps] /\ \A v \in Processes : plugin[v] \in Plugins \/ at'[v] = "idle"
      BY <1>1 DEF IInv, PluginTyped, PluginSteps, Open, Goto
    <2> QED
      BY <2>1, <2>2, <2>3 DEF IInv, PluginTyped, Open
  <1>6. Sound(list)'
    BY <1>4 DEF IInv, ListsAreSound, Sound, Open
  <1>7. \A v \in Processes : Sound(seen[v])'
    <2> SUFFICES ASSUME NEW v \in Processes, NEW q \in Plugins, seen'[v][q] # 0
                 PROVE  seen'[v][q] \in approved'[q]
      BY DEF Sound
    <2>1. CASE v = u /\ q = p
      <3>1. seen'[v][q] = hash
        BY <2>1, <1>1, <1>2 DEF Open, IInv, PluginTyped, PluginSteps
      <3> QED
        BY <3>1, <2>1, <1>1, <1>3 DEF IInv, PluginTyped, PluginSteps
    <2>2. CASE ~(v = u /\ q = p)
      <3>1. seen'[v][q] = seen[v][q]
        BY <2>2, <1>1, <1>2 DEF Open, IInv, PluginTyped, PluginSteps
      <3> QED
        BY <3>1, <1>4 DEF IInv, ListsAreSound, Sound
    <2> QED
      BY <2>1, <2>2
  <1>8. VerifiedWasApproved' /\ ExecutedWasApproved'
    <2>1. \A v \in Processes : at'[v] \in {"execute", "register"} => at'[v] = at[v] /\ plugin[v] \in Plugins
      BY DEF IInv, PluginTyped, PluginSteps, Open, Goto
    <2> QED
      BY <2>1, <1>4 DEF IInv, VerifiedWasApproved, ExecutedWasApproved, Open
  <1> QED
    BY <1>5, <1>6, <1>7, <1>8 DEF IInv, ListsAreSound

\* What the other steps write on the list, a process has read or changed; the steps of a
\* load change no list.
LEMMA SaveKeeps == ASSUME IInv, NEW u \in Processes, Save(u) PROVE IInv'
  <1>1. PluginTyped'
    BY DEF IInv, PluginTyped, PluginSteps, Save, Leave, Goto, Empty
  <1>2. ListsAreSound'
    BY DEF IInv, PluginTyped, PluginSteps, ListsAreSound, Sound, Save, Leave, Empty
  <1>3. VerifiedWasApproved' /\ ExecutedWasApproved'
    BY DEF IInv, PluginTyped, PluginSteps, VerifiedWasApproved, ExecutedWasApproved, Save, Leave, Goto
  <1> QED
    BY <1>1, <1>2, <1>3 DEF IInv

\* A process that leaves has nothing left that could be executed.
LEMMA LeaveKeeps ==
    ASSUME IInv, NEW u \in Processes, Leave(u),
           UNCHANGED <<text, list, approved>>,
           \/ UNCHANGED <<loaded, edited>>
           \/ Forget(u)
           \/ loaded' = loaded /\ edited' = edited \ {u}
    PROVE  IInv'
  <1>1. \A v \in Processes \ {u} :
            /\ at'[v] = at[v] /\ plugin'[v] = plugin[v] /\ loaded'[v] = loaded[v]
            /\ v \in edited' <=> v \in edited
    BY DEF IInv, PluginTyped, PluginSteps, Leave, Goto, Forget
  <1>2. at'[u] = "idle"
    BY DEF IInv, PluginTyped, PluginSteps, Leave, Goto
  <1>3. PluginTyped'
    <2>1. loaded' \in [Processes -> Nat]
      BY DEF IInv, PluginTyped, Forget
    <2>2. seen' \in [Processes -> [Plugins -> Nat]]
      BY DEF IInv, PluginTyped, Leave, Empty
    <2>3. at' \in [Processes -> PluginSteps] /\ plugin' \in [Processes -> Plugins \cup {NoPlugin}]
      BY DEF IInv, PluginTyped, PluginSteps, Leave, Goto
    <2>4. \A v \in Processes : at'[v] # "idle" => plugin'[v] \in Plugins
      BY <1>1, <1>2 DEF IInv, PluginTyped
    <2> QED
      BY <2>1, <2>2, <2>3, <2>4 DEF IInv, PluginTyped
  <1>4. ListsAreSound'
    BY DEF IInv, PluginTyped, PluginSteps, ListsAreSound, Sound, Leave, Empty
  <1>5. VerifiedWasApproved' /\ ExecutedWasApproved'
    BY <1>1, <1>2 DEF IInv, VerifiedWasApproved, ExecutedWasApproved
  <1> QED
    BY <1>3, <1>4, <1>5 DEF IInv

\* What is verified is the text that the list has, which is not 0.
LEMMA VerifyKeeps == ASSUME IInv, NEW u \in Processes, Verify(u) PROVE IInv'
  <1>1. CASE Verified(u)
    <2>1. plugin[u] \in Plugins /\ text[plugin[u]] \in approved[plugin[u]]
      BY <1>1 DEF IInv, PluginTyped, PluginSteps, ListsAreSound, Sound, Verify, Verified
    <2>2. /\ at' = [at EXCEPT ![u] = "execute"] /\ edited' = edited \ {u}
          /\ UNCHANGED <<text, list, plugin, seen, loaded, approved>>
      BY <1>1 DEF Verify, Goto
    <2>3. PluginTyped' /\ ListsAreSound'
      BY <2>1, <2>2 DEF IInv, PluginTyped, PluginSteps, ListsAreSound, Sound
    <2>4. VerifiedWasApproved' /\ ExecutedWasApproved'
      BY <2>1, <2>2 DEF IInv, PluginTyped, PluginSteps, VerifiedWasApproved, ExecutedWasApproved
    <2> QED
      BY <2>3, <2>4 DEF IInv
  <1>2. CASE ~Verified(u)
    BY <1>2, LeaveKeeps DEF Verify
  <1> QED
    BY <1>1, <1>2

\* What is executed is the text of the file, which is the one that was verified unless
\* it was edited since.
LEMMA ExecuteKeeps == ASSUME IInv, NEW u \in Processes, Execute(u) PROVE IInv'
  <1>1. CASE Leave(u) /\ UNCHANGED loaded
    BY <1>1, LeaveKeeps DEF Execute
  <1>2. CASE /\ loaded' = [loaded EXCEPT ![u] = text[plugin[u]]]
             /\ Goto(u, "register") /\ UNCHANGED <<plugin, seen>>
    <2>1. PluginTyped' /\ ListsAreSound'
      BY <1>2 DEF IInv, PluginTyped, PluginSteps, ListsAreSound, Sound, Execute, Goto
    <2>2. VerifiedWasApproved' /\ ExecutedWasApproved'
      BY <1>2 DEF IInv, PluginTyped, PluginSteps, VerifiedWasApproved, ExecutedWasApproved, Execute, Goto
    <2> QED
      BY <2>1, <2>2 DEF IInv
  <1> QED
    BY <1>1, <1>2 DEF Execute

-----------------------------------------------------------------------------
\* Every step keeps the invariant.
LEMMA InvariantHolds == Spec => []IInv
  <1>1. Init => IInv
    BY InitIsSound
  <1>2. IInv /\ [Next]_vars => IInv'
    <2> SUFFICES ASSUME IInv, [Next]_vars PROVE IInv'
      OBVIOUS
    <2>1. ASSUME NEW p \in Plugins, Edit(p) PROVE IInv'
      BY <2>1, EditKeeps
    <2>2. ASSUME NEW u \in Processes, NEW s \in {"approve", "revoke", "load"},
                 NEW p \in Plugins, Begin(u, s, p)
          PROVE  IInv'
      BY <2>2, PluginBeginKeeps
    <2>3. ASSUME NEW u \in Processes, Open(u) PROVE IInv'
      BY <2>3, OpenKeeps
    <2>4. ASSUME NEW u \in Processes, Save(u) PROVE IInv'
      BY <2>4, SaveKeeps
    <2>5. ASSUME NEW u \in Processes, NothingToRevoke(u) PROVE IInv'
      BY <2>5, LeaveKeeps DEF NothingToRevoke, history
    <2>6. ASSUME NEW u \in Processes, Verify(u) PROVE IInv'
      BY <2>6, VerifyKeeps
    <2>7. ASSUME NEW u \in Processes, Execute(u) PROVE IInv'
      BY <2>7, ExecuteKeeps
    <2>8. ASSUME NEW u \in Processes, Register(u) \/ Dies(u) PROVE IInv'
      BY <2>8, LeaveKeeps DEF Register, Dies
    <2>9. ASSUME NEW u \in Processes, NEW n \in Names, Unregister(u, n) PROVE IInv'
      BY <2>9 DEF Unregister, history, IInv, PluginTyped, PluginSteps, ListsAreSound, Sound,
                  VerifiedWasApproved, ExecutedWasApproved
    <2>10. CASE UNCHANGED vars
      BY <2>10 DEF vars, registry, history, IInv, PluginTyped, PluginSteps, ListsAreSound, Sound,
                   VerifiedWasApproved, ExecutedWasApproved
    <2> QED
      BY <2>1, <2>2, <2>3, <2>4, <2>5, <2>6, <2>7, <2>8, <2>9, <2>10 DEF Next
  <1> QED
    BY <1>1, <1>2, PTL DEF Spec

\* verify_plugin and load_plugins: for any processes, plug-ins and texts, whatever
\* approvals, revocations, edits, deaths and torn lists overlap, what is executed was
\* approved, unless its file was edited after it was verified.
THEOREM OnlyApprovedIsExecuted == Spec => []ExecutedWasApproved
  <1>1. IInv => ExecutedWasApproved
    BY DEF IInv
  <1> QED
    BY <1>1, InvariantHolds, PTL

-----------------------------------------------------------------------------
\* Who is idle has read nothing; who is about to save a revocation has made it.
IdleHasNothing == \A u \in Processes : at[u] = "idle" => seen[u] = Empty
RevocationIsMade ==
    \A u \in Processes : at[u] = "save revoked" => seen[u][plugin[u]] = 0

\* What was revoked for good is on no list, on disk or read by anyone.
OffEveryList ==
    \A p \in revoked : p \in Plugins /\ list[p] = 0 /\ \A u \in Processes : seen[u][p] = 0

ToolsHaveAPlugin ==
    /\ plugins \in [Processes -> SUBSET Names] /\ tools \in [Processes -> SUBSET Names]
    /\ claims \in [Plugins -> Names]
    /\ \A u \in Processes : tools[u] \subseteq plugins[u]

RevokedInv == IdleHasNothing /\ RevocationIsMade /\ OffEveryList
Inv == PluginTyped /\ RevokedInv /\ ToolsHaveAPlugin

\* Steps that leave the lists, and who has read what, alone.
LEMMA ListsUntouched ==
    ASSUME PluginTyped, RevokedInv, UNCHANGED <<list, seen, revoked>>,
           \A u \in Processes :
               /\ at'[u] = "idle" => at[u] = "idle"
               /\ at'[u] = "save revoked" => at[u] = "save revoked" /\ plugin'[u] = plugin[u]
    PROVE  RevokedInv'
  BY DEF RevokedInv, IdleHasNothing, RevocationIsMade, OffEveryList, Empty

\* A process that leaves forgets what it has read.
LEMMA LeavingForgets ==
    ASSUME PluginTyped, RevokedInv, NEW u \in Processes, Leave(u), UNCHANGED <<list, revoked>>
    PROVE  RevokedInv'
  <1>1. /\ at'[u] = "idle" /\ seen'[u] = Empty
        /\ \A v \in Processes \ {u} :
              at'[v] = at[v] /\ plugin'[v] = plugin[v] /\ seen'[v] = seen[v]
    BY DEF PluginTyped, Leave, Goto
  <1>2. \A p \in Plugins : Empty[p] = 0
    BY DEF Empty
  <1>3. Empty' = Empty
    BY DEF Empty
  <1>4. IdleHasNothing'
    BY <1>1, <1>3 DEF RevokedInv, IdleHasNothing
  <1>5. RevocationIsMade'
    BY <1>1 DEF RevokedInv, RevocationIsMade
  <1>6. OffEveryList'
    BY <1>1, <1>2 DEF RevokedInv, OffEveryList
  <1> QED
    BY <1>4, <1>5, <1>6 DEF RevokedInv

\* What is read has nothing that was revoked.
LEMMA BeginSpares ==
    ASSUME PluginTyped, RevokedInv, NEW u \in Processes, NEW s \in {"approve", "revoke", "load"},
           NEW p \in Plugins, Begin(u, s, p)
    PROVE  RevokedInv'
  <1>1. /\ at'[u] = s /\ seen'[u] = Read /\ UNCHANGED <<list, revoked>>
        /\ \A v \in Processes \ {u} :
              at'[v] = at[v] /\ plugin'[v] = plugin[v] /\ seen'[v] = seen[v]
    BY DEF PluginTyped, Begin, Goto, history
  <1>2. \A q \in revoked : Read[q] = 0
    BY DEF RevokedInv, OffEveryList, Read, Empty
  <1>3. Empty' = Empty
    BY DEF Empty
  <1>4. IdleHasNothing'
    BY <1>1, <1>3 DEF RevokedInv, IdleHasNothing
  <1>5. RevocationIsMade'
    BY <1>1 DEF RevokedInv, RevocationIsMade
  <1>6. OffEveryList'
    BY <1>1, <1>2 DEF RevokedInv, OffEveryList
  <1> QED
    BY <1>4, <1>5, <1>6 DEF RevokedInv

\* An approval takes its plug-in from the revoked ones; a revocation its entry from the list.
LEMMA OpenSpares ==
    ASSUME PluginTyped, RevokedInv, NEW u \in Processes, Open(u) PROVE RevokedInv'
  <1> DEFINE p == plugin[u]
             hash == IF at[u] = "approve" THEN text[p] ELSE 0
  <1>1. p \in Plugins
    BY DEF PluginTyped, Open
  <1>2. /\ seen'[u] = [seen[u] EXCEPT ![p] = hash] /\ UNCHANGED <<list, plugin>>
        /\ \A v \in Processes \ {u} : at'[v] = at[v] /\ seen'[v] = seen[v]
        /\ at'[u] = IF at[u] = "approve" THEN "save" ELSE "save revoked"
    BY DEF PluginTyped, Open, Goto, Changed
  <1>3. seen'[u][p] = hash /\ \A q \in Plugins \ {p} : seen'[u][q] = seen[u][q]
    BY <1>1, <1>2 DEF PluginTyped
  <1>4. revoked' = IF at[u] = "approve" THEN revoked \ {p} ELSE revoked
    BY DEF Open
  <1>5. IdleHasNothing'
    <2>1. Empty' = Empty
      BY DEF Empty
    <2> QED
      BY <1>2, <2>1 DEF RevokedInv, IdleHasNothing
  <1>6. RevocationIsMade'
    BY <1>2, <1>3 DEF RevokedInv, RevocationIsMade
  <1>7. OffEveryList'
    <2> SUFFICES ASSUME NEW q \in revoked'
                 PROVE  q \in Plugins /\ list'[q] = 0 /\ \A v \in Processes : seen'[v][q] = 0
      BY DEF OffEveryList
    <2>1. q \in revoked /\ (q = p => hash = 0)
      BY <1>4
    <2>2. q \in Plugins /\ list[q] = 0 /\ \A v \in Processes : seen[v][q] = 0
      BY <2>1 DEF RevokedInv, OffEveryList
    <2>3. seen'[u][q] = 0
      BY <2>1, <2>2, <1>3
    <2> QED
      BY <2>2, <2>3, <1>2
  <1> QED
    BY <1>5, <1>6, <1>7 DEF RevokedInv

\* What is revoked for good now is on the list of nobody, since all others are idle.
LEMMA SaveSpares ==
    ASSUME PluginTyped, RevokedInv, NEW u \in Processes, Save(u) PROVE RevokedInv'
  <1>1. /\ list' = seen[u] /\ at'[u] = "idle" /\ seen'[u] = Empty
        /\ \A v \in Processes \ {u} :
              at'[v] = at[v] /\ plugin'[v] = plugin[v] /\ seen'[v] = seen[v]
    BY DEF PluginTyped, Save, Leave, Goto
  <1>2. \A q \in Plugins : Empty[q] = 0
    BY DEF Empty
  <1>3. Empty' = Empty
    BY DEF Empty
  <1>4. ASSUME NEW q \in revoked' PROVE q \in Plugins /\ \A v \in Processes : seen[v][q] = 0
    <2>1. CASE q \in revoked
      BY <2>1 DEF RevokedInv, OffEveryList
    <2>2. CASE q \notin revoked
      <3>1. at[u] = "save revoked" /\ Alone(u) /\ q = plugin[u]
        BY <2>2 DEF Save
      <3>2. q \in Plugins /\ seen[u][q] = 0
        BY <3>1 DEF PluginTyped, RevokedInv, RevocationIsMade
      <3>3. \A v \in Processes \ {u} : seen[v] = Empty
        BY <3>1 DEF Alone, RevokedInv, IdleHasNothing
      <3> QED
        BY <3>2, <3>3, <1>2
    <2> QED
      BY <2>1, <2>2
  <1>5. OffEveryList'
    BY <1>1, <1>2, <1>4 DEF OffEveryList
  <1> QED
    BY <1>1, <1>3, <1>5 DEF RevokedInv, IdleHasNothing, RevocationIsMade

\* revoke_plugin, approve_plugin and _save_allowlist: what was revoked while nobody else
\* was at work stays off the list until it is approved again, whatever reads, writes and
\* deaths overlap afterwards; and no tool is filed under a plug-in that is not registered.
THEOREM RevokedIsOff == Spec => []RevokedStaysOff
  <1>1. Init => Inv
    <2>1. Init => PluginTyped
      BY InitIsSound DEF IInv
    <2>2. Init => RevokedInv /\ ToolsHaveAPlugin
      BY DEF Init, RevokedInv, IdleHasNothing, RevocationIsMade, OffEveryList,
             ToolsHaveAPlugin, Empty
    <2> QED
      BY <2>1, <2>2 DEF Inv
  <1>2. IInv /\ IInv' /\ Inv /\ [Next]_vars => Inv'
    <2> SUFFICES ASSUME PluginTyped, PluginTyped', RevokedInv, ToolsHaveAPlugin, [Next]_vars
                 PROVE  RevokedInv' /\ ToolsHaveAPlugin'
      BY DEF IInv, Inv
    <2>1. ASSUME NEW p \in Plugins, Edit(p) PROVE RevokedInv' /\ ToolsHaveAPlugin'
      BY <2>1, ListsUntouched DEF Edit, registry, ToolsHaveAPlugin
    <2>2. ASSUME NEW u \in Processes, NEW s \in {"approve", "revoke", "load"},
                 NEW p \in Plugins, Begin(u, s, p)
          PROVE  RevokedInv' /\ ToolsHaveAPlugin'
      BY <2>2, BeginSpares DEF Begin, registry, ToolsHaveAPlugin
    <2>3. ASSUME NEW u \in Processes, Open(u) PROVE RevokedInv' /\ ToolsHaveAPlugin'
      BY <2>3, OpenSpares DEF Open, registry, ToolsHaveAPlugin
    <2>4. ASSUME NEW u \in Processes, Save(u) PROVE RevokedInv' /\ ToolsHaveAPlugin'
      BY <2>4, SaveSpares DEF Save, registry, ToolsHaveAPlugin
    <2>5. ASSUME NEW u \in Processes, NothingToRevoke(u) PROVE RevokedInv' /\ ToolsHaveAPlugin'
      BY <2>5, LeavingForgets DEF NothingToRevoke, registry, history, ToolsHaveAPlugin
    <2>6. ASSUME NEW u \in Processes, Verify(u) \/ Execute(u)
          PROVE  RevokedInv' /\ ToolsHaveAPlugin'
      <3>1. ToolsHaveAPlugin' /\ UNCHANGED <<list, revoked>>
        BY <2>6 DEF Verify, Execute, registry, ToolsHaveAPlugin
      <3>2. CASE Leave(u)
        BY <3>1, <3>2, LeavingForgets
      <3>3. CASE ~Leave(u)
        <4>1. \E s \in {"execute", "register"} : at' = [at EXCEPT ![u] = s] /\ UNCHANGED <<plugin, seen>>
          BY <2>6, <3>3 DEF Verify, Execute, Goto
        <4> QED
          BY <3>1, <4>1, ListsUntouched DEF PluginTyped
      <3> QED
        BY <3>2, <3>3
    <2>7. ASSUME NEW u \in Processes, Register(u) PROVE RevokedInv' /\ ToolsHaveAPlugin'
      <3>1. claims[plugin[u]] \in Names
        BY <2>7 DEF Register, PluginTyped, ToolsHaveAPlugin
      <3>2. ToolsHaveAPlugin'
        BY <2>7, <3>1 DEF Register, registry, ToolsHaveAPlugin
      <3> QED
        BY <2>7, <3>2, LeavingForgets DEF Register
    <2>8. ASSUME NEW u \in Processes, NEW n \in Names, Unregister(u, n)
          PROVE  RevokedInv' /\ ToolsHaveAPlugin'
      BY <2>8, ListsUntouched DEF Unregister, history, ToolsHaveAPlugin
    <2>9. ASSUME NEW u \in Processes, Dies(u) PROVE RevokedInv' /\ ToolsHaveAPlugin'
      BY <2>9, LeavingForgets DEF Dies, ToolsHaveAPlugin
    <2>10. CASE UNCHANGED vars
      BY <2>10, ListsUntouched DEF vars, registry, history, ToolsHaveAPlugin
    <2> QED
      BY <2>1, <2>2, <2>3, <2>4, <2>5, <2>6, <2>7, <2>8, <2>9, <2>10 DEF Next
  <1>3. Inv => RevokedStaysOff
    BY DEF Inv, PluginTyped, RevokedInv, OffEveryList, ToolsHaveAPlugin, RevokedStaysOff
  <1>4. Spec => []IInv
    BY InvariantHolds
  <1> QED
    BY <1>1, <1>2, <1>3, <1>4, PTL DEF Spec

\* The two together are what the run checks.
THEOREM AllowListIsObeyed == Spec => []ApprovalsHold
  <1>1. ExecutedWasApproved /\ RevokedStaysOff => ApprovalsHold
    BY DEF ApprovalsHold
  <1> QED
    BY <1>1, OnlyApprovedIsExecuted, RevokedIsOff, PTL

----------------------------------------------------------------------------
(* What the system controller lets through                                 *)

Stamps == [time : Nat, number : Nat]

LimitsTyped ==
    /\ clock \in Nat
    /\ IsFiniteSet(clicks) /\ clicks \subseteq Stamps
    /\ IsFiniteSet(clicked) /\ clicked \subseteq Stamps
    /\ IsFiniteSet(typed) /\ typed \subseteq Stamps
    /\ keyCount \in 0 .. MaxKeys
    /\ keyStart \in 0 .. clock

\* What was posted in the last second is what the limiter still holds.
ClicksCounted ==
    /\ Cardinality(clicks) <= MaxClicks
    /\ \A c \in clicks \cup clicked : c.time <= clock
    /\ \A c \in clicked : c.time + Second > clock => c \in clicks
    /\ \A w \in Times : Cardinality(Within(clicked, w)) <= MaxClicks
    /\ \A c \in clicks \cup clicked : c.time = clock => c.number <= Cardinality(Recent)

\* The keys of the window that is open, and those before it that a second from w
\* still touches.
InWindow == {k \in typed : k.time >= keyStart}
BeforeWindow(w) == {k \in typed : k.time < keyStart /\ k.time + Second > w}

KeysCounted ==
    /\ \A k \in typed : k.time <= clock /\ k.time <= keyStart + Second
    /\ Cardinality(InWindow) <= keyCount
    /\ \A w \in Times : w >= keyStart => Cardinality(BeforeWindow(w)) <= MaxKeys
    /\ \A w \in Times : Cardinality(Within(typed, w)) <= 2 * MaxKeys

InputInv == LimitsTyped /\ ClicksCounted /\ KeysCounted

LEMMA StampsCounted ==
    ASSUME NEW a \in Int, NEW b \in Int
    PROVE  /\ IsFiniteSet(Numbered(a .. b))
           /\ Cardinality(Numbered(a .. b)) = IF a > b THEN 0 ELSE b - a + 1
<1>1. IsFiniteSet(a .. b) /\ Cardinality(a .. b) = IF a > b THEN 0 ELSE b - a + 1
  BY FS_Interval
<1> DEFINE stamp == [k \in a .. b |-> [time |-> clock, number |-> k]]
<1>2. stamp \in Bijection(a .. b, Numbered(a .. b))
  <2>1. \A k \in a .. b : stamp[k].number = k  OBVIOUS
  <2>2. stamp \in Surjection(a .. b, Numbered(a .. b))  BY DEF Surjection, Numbered
  <2>3. \A i, j \in a .. b : stamp[i] = stamp[j] => i = j
    <3> TAKE i, j \in a .. b
    <3> HAVE stamp[i] = stamp[j]
    <3> HIDE DEF stamp
    <3> QED  BY <2>1
  <2> HIDE DEF stamp
  <2> QED  BY <2>2, <2>3 DEF Bijection, Injection, Surjection, IsInjective
<1>3. ExistsBijection(a .. b, Numbered(a .. b))  BY <1>2 DEF ExistsBijection
<1> QED  BY ONLY <1>1, <1>3, FS_Bijection

LEMMA UnionBounded ==
    ASSUME NEW S, NEW T, IsFiniteSet(S), IsFiniteSet(T)
    PROVE  /\ IsFiniteSet(S \cup T)
           /\ Cardinality(S \cup T) \in Nat /\ Cardinality(S) \in Nat /\ Cardinality(T) \in Nat
           /\ Cardinality(S \cup T) <= Cardinality(S) + Cardinality(T)
<1>1. IsFiniteSet(S \cup T)
      /\ Cardinality(S \cup T) = Cardinality(S) + Cardinality(T) - Cardinality(S \cap T)
  BY FS_Union
<1>2. IsFiniteSet(S \cap T)  BY FS_Intersection
<1>3. /\ Cardinality(S \cup T) \in Nat /\ Cardinality(S) \in Nat
      /\ Cardinality(T) \in Nat /\ Cardinality(S \cap T) \in Nat
  BY <1>1, <1>2, FS_CardinalityType
<1> QED  BY <1>1, <1>3

LEMMA SubsetBounded ==
    ASSUME NEW S, NEW T, IsFiniteSet(S), T \subseteq S
    PROVE  /\ IsFiniteSet(T) /\ Cardinality(T) \in Nat /\ Cardinality(S) \in Nat
           /\ Cardinality(T) <= Cardinality(S)
<1>1. IsFiniteSet(T) /\ Cardinality(T) <= Cardinality(S)  BY FS_Subset
<1> QED  BY <1>1, FS_CardinalityType

\* What the limiter allows was not there before, so that the clicks are as many as their
\* numbers.
LEMMA NewClicksAreNew ==
    ASSUME InputInv, NEW n \in {1, 2}
    PROVE  NewClicks(n) \cap (clicks \cup clicked) = {}
<1>1. Recent \subseteq clicks  BY DEF Recent
<1>2. Cardinality(Recent) \in Nat
  BY <1>1, SubsetBounded DEF InputInv, LimitsTyped
<1>3. \A c \in NewClicks(n) : c.time = clock /\ c.number > Cardinality(Recent)
  BY <1>2 DEF NewClicks, Numbered
<1>4. \A c \in clicks \cup clicked : c.number \in Nat
  BY DEF InputInv, LimitsTyped, Stamps
<1> QED  BY <1>2, <1>3, <1>4 DEF InputInv, ClicksCounted

\* allowClick leaves no more clicks in the last second than there may be.
LEMMA ClicksAreCounted ==
    ASSUME InputInv, NEW n \in {1, 2}, Take(n), UNCHANGED clock,
           clicked' \in {clicked, clicked \cup NewClicks(n)}
    PROVE  /\ IsFiniteSet(clicks') /\ clicks' \subseteq Stamps
           /\ IsFiniteSet(clicked') /\ clicked' \subseteq Stamps
           /\ ClicksCounted'
<1> USE ControllerAssumption
<1> DEFINE r == Cardinality(Recent)
           most == IF r + n <= MaxClicks THEN r + n ELSE MaxClicks
<1>1. Recent \subseteq clicks  BY DEF Recent
<1>2. IsFiniteSet(Recent) /\ r \in Nat /\ r <= MaxClicks
  <2>1. Cardinality(clicks) <= MaxClicks /\ IsFiniteSet(clicks)
    BY DEF InputInv, ClicksCounted, LimitsTyped
  <2>2. IsFiniteSet(Recent) /\ r \in Nat /\ Cardinality(clicks) \in Nat /\ r <= Cardinality(clicks)
    BY <1>1, <2>1, SubsetBounded
  <2> QED  BY <2>1, <2>2
<1>3. most \in Int /\ r <= most /\ most <= MaxClicks  BY <1>2
<1>4. NewClicks(n) = Numbered(r + 1 .. most)
  <2>1. {k \in r + 1 .. r + n : k <= MaxClicks} = r + 1 .. most  BY <1>2
  <2> QED  BY <2>1 DEF NewClicks
<1>5. IsFiniteSet(NewClicks(n)) /\ Cardinality(NewClicks(n)) = most - r
  <2>1. r + 1 \in Int  BY <1>2
  <2>2. /\ IsFiniteSet(Numbered(r + 1 .. most))
        /\ Cardinality(Numbered(r + 1 .. most)) = IF r + 1 > most THEN 0 ELSE most - (r + 1) + 1
    BY ONLY <1>3, <2>1, StampsCounted
  <2>3. (IF r + 1 > most THEN 0 ELSE most - (r + 1) + 1) = most - r
    BY <1>2, <1>3
  <2> QED  BY <1>4, <2>2, <2>3
<1>6. clicks' = Recent \cup NewClicks(n)  BY DEF Take
<1>7. NewClicks(n) \cap Recent = {}  BY <1>1, NewClicksAreNew
<1>8. IsFiniteSet(clicks') /\ Cardinality(clicks') = most
  <2>1. IsFiniteSet(Recent \cup NewClicks(n))
        /\ Cardinality(Recent \cup NewClicks(n))
              = r + Cardinality(NewClicks(n)) - Cardinality(Recent \cap NewClicks(n))
    BY <1>2, <1>5, FS_Union
  <2>2. Cardinality(Recent \cap NewClicks(n)) = 0  BY <1>7, FS_EmptySet
  <2> QED  BY <1>2, <1>3, <1>5, <1>6, <2>1, <2>2
<1>9. NewClicks(n) \subseteq Stamps /\ \A c \in NewClicks(n) : c.time = clock /\ c.number <= most
  <2>1. clock \in Nat /\ r + 1 .. most \subseteq Nat  BY <1>2, <1>3 DEF InputInv, LimitsTyped
  <2> QED  BY <1>3, <1>4, <2>1 DEF Numbered, Stamps
<1>10. clicks' \subseteq Stamps  BY <1>1, <1>6, <1>9 DEF InputInv, LimitsTyped
<1>11. IsFiniteSet(clicked') /\ clicked' \subseteq Stamps
  <2>1. IsFiniteSet(clicked) /\ clicked \subseteq Stamps  BY DEF InputInv, LimitsTyped
  <2>2. IsFiniteSet(clicked \cup NewClicks(n))  BY <1>5, <2>1, UnionBounded
  <2> QED  BY <1>9, <2>1, <2>2
<1>12. clock' = clock /\ clock \in Nat  BY DEF InputInv, LimitsTyped
<1>13. \A c \in clicks' \cup clicked' : c.time <= clock
  <2>1. \A c \in clicks \cup clicked : c.time <= clock  BY DEF InputInv, ClicksCounted
  <2> QED  BY <1>1, <1>6, <1>9, <1>12, <2>1
<1>14. \A c \in clicked' : c.time + Second > clock => c \in clicks'
  BY <1>6, <1>9 DEF Recent, InputInv, ClicksCounted
<1>15. ASSUME NEW w \in Times PROVE Cardinality(Within(clicked', w)) <= MaxClicks
  <2>1. w \in Nat /\ Second \in Nat  BY DEF Times
  <2>2. CASE w < clock
    <3>1. Within(clicked', w) = Within(clicked, w)
      BY <1>9, <1>12, <2>1, <2>2 DEF Within
    <3> QED  BY <3>1 DEF InputInv, ClicksCounted
  <2>3. CASE w >= clock
    <3>1. Within(clicked', w) \subseteq clicks'
      <4> SUFFICES ASSUME NEW c \in clicked', c.time + Second > w PROVE c \in clicks'
        BY DEF Within
      <4>1. c.time \in Nat  BY <1>11 DEF Stamps
      <4>2. c.time + Second > clock  BY ONLY <4>1, <2>1, <2>3, <1>12, c.time + Second > w
      <4> QED  BY <4>2, <1>14
    <3>2. /\ Cardinality(Within(clicked', w)) \in Nat
          /\ Cardinality(Within(clicked', w)) <= Cardinality(clicks')
      BY <3>1, <1>8, SubsetBounded
    <3> QED  BY <3>2, <1>3, <1>8
  <2> QED  BY <2>1, <2>2, <2>3, <1>12
<1>16. \A w \in Times : Cardinality(Within(clicked, w)') <= MaxClicks
  BY <1>15 DEF Within
<1>17. Cardinality(Recent') = most
  <2>1. Recent' = clicks'
    <3>1. \A c \in Recent : c.time + Second > clock  BY DEF Recent
    <3>2. \A c \in NewClicks(n) : c.time + Second > clock  BY <1>9, <1>12
    <3> QED  BY <3>1, <3>2, <1>6, <1>12 DEF Recent
  <2> QED  BY <1>8, <2>1
<1>18. \A c \in clicks' \cup clicked' : c.time = clock => c.number <= most
  <2> SUFFICES ASSUME NEW c \in clicks' \cup clicked', c.time = clock PROVE c.number <= most
    OBVIOUS
  <2>1. CASE c \in NewClicks(n)  BY <1>9, <2>1
  <2>2. CASE c \notin NewClicks(n)
    <3>1. c \in clicks \cup clicked  BY <1>1, <1>6, <2>2
    <3>2. c.number <= r /\ c.number \in Nat
      BY <3>1 DEF InputInv, ClicksCounted, LimitsTyped, Stamps
    <3> QED  BY <3>2, <1>2, <1>3
  <2> QED  BY <2>1, <2>2
<1> QED  BY <1>3, <1>8, <1>10, <1>11, <1>12, <1>13, <1>14, <1>16, <1>17, <1>18 DEF ClicksCounted

\* allowKeys leaves the count of its window within its limit, and what the window
\* before it let through within the limit too.
LEMMA KeysAreCounted ==
    ASSUME InputInv, NEW n \in Nat, UNCHANGED clock,
           keyStart' = IF WindowOver THEN clock ELSE keyStart,
           \/ /\ AllowKeys(n)
              /\ keyCount' = KeysBefore + n
              /\ typed' = typed \cup Numbered(KeysBefore + 1 .. KeysBefore + n)
           \/ keyCount' = KeysBefore /\ UNCHANGED typed
    PROVE  /\ IsFiniteSet(typed') /\ typed' \subseteq Stamps
           /\ keyCount' \in 0 .. MaxKeys
           /\ keyStart' \in 0 .. clock
           /\ KeysCounted'
<1> USE ControllerAssumption
<1> DEFINE new == typed' \ typed
<1>1. PICK m \in Nat : /\ KeysBefore + m <= MaxKeys
                       /\ keyCount' = KeysBefore + m
                       /\ typed' = typed \cup Numbered(KeysBefore + 1 .. KeysBefore + m)
  <2>1. KeysBefore \in 0 .. MaxKeys  BY DEF KeysBefore, InputInv, LimitsTyped
  <2>2. Numbered(KeysBefore + 1 .. KeysBefore + 0) = {}  BY <2>1 DEF Numbered
  <2>3. CASE AllowKeys(n)  /\ keyCount' = KeysBefore + n
              /\ typed' = typed \cup Numbered(KeysBefore + 1 .. KeysBefore + n)
    BY <2>3 DEF AllowKeys
  <2>4. CASE keyCount' = KeysBefore /\ UNCHANGED typed
    BY <2>1, <2>2, <2>4
  <2> QED  BY <2>3, <2>4
<1> DEFINE b == KeysBefore
           N == Numbered(b + 1 .. b + m)
<1>2. b \in Nat /\ b <= MaxKeys /\ keyCount \in Nat /\ keyCount <= MaxKeys
      /\ clock' = clock /\ clock \in Nat /\ keyStart \in Nat /\ keyStart <= clock
  BY DEF KeysBefore, InputInv, LimitsTyped
<1>3. IsFiniteSet(N) /\ Cardinality(N) = m
  <2>1. b + 1 \in Int /\ b + m \in Int  BY <1>2
  <2>2. /\ IsFiniteSet(Numbered(b + 1 .. b + m))
        /\ Cardinality(Numbered(b + 1 .. b + m))
              = IF b + 1 > b + m THEN 0 ELSE (b + m) - (b + 1) + 1
    BY ONLY <2>1, StampsCounted
  <2> QED  BY <1>2, <2>2
<1>4. N \subseteq Stamps /\ \A k \in N : k.time = clock
  BY <1>2 DEF Numbered, Stamps
<1>5. IsFiniteSet(typed') /\ typed' \subseteq Stamps
  <2>1. IsFiniteSet(typed) /\ typed \subseteq Stamps  BY DEF InputInv, LimitsTyped
  <2>2. IsFiniteSet(typed \cup N)  BY <1>3, <2>1, UnionBounded
  <2> QED  BY <1>1, <1>4, <2>1, <2>2
<1>6. keyCount' \in 0 .. MaxKeys /\ keyStart' \in 0 .. clock /\ keyStart' <= clock /\ keyStart' \in Nat
  BY <1>1, <1>2 DEF WindowOver
<1>7. \A k \in typed : k.time \in Nat /\ k.time <= clock /\ k.time <= keyStart + Second
  BY DEF InputInv, LimitsTyped, KeysCounted, Stamps
<1>8. \A k \in typed' : k.time <= clock /\ k.time <= keyStart' + Second
  BY <1>1, <1>2, <1>4, <1>7 DEF WindowOver
<1>9. IsFiniteSet(typed) /\ IsFiniteSet(InWindow) /\ Cardinality(InWindow) <= keyCount
      /\ Cardinality(InWindow) \in Nat
  <2>1. IsFiniteSet(typed) /\ Cardinality(InWindow) <= keyCount
    BY DEF InputInv, LimitsTyped, KeysCounted
  <2>2. InWindow \subseteq typed  BY DEF InWindow
  <2> QED  BY <2>1, <2>2, SubsetBounded
<1>10. Cardinality(InWindow') <= keyCount'
  <2>1. CASE WindowOver
    <3>1. InWindow' = N  BY <2>1, <1>1, <1>2, <1>4, <1>7 DEF WindowOver, InWindow
    <3> QED  BY <3>1, <1>1, <1>2, <1>3
  <2>2. CASE ~ WindowOver
    <3>1. InWindow' = InWindow \cup N
      BY <2>2, <1>1, <1>2, <1>4 DEF InWindow
    <3>2. Cardinality(InWindow') \in Nat /\ Cardinality(InWindow') <= Cardinality(InWindow) + m
      BY <3>1, <1>3, <1>9, UnionBounded
    <3>3. b = keyCount  BY <2>2 DEF KeysBefore
    <3> QED  BY <3>2, <3>3, <1>1, <1>2, <1>9
  <2> QED  BY <2>1, <2>2
<1>11. ASSUME NEW w \in Times, w >= keyStart' PROVE Cardinality(BeforeWindow(w)') <= MaxKeys
  <2>1. w \in Nat  BY DEF Times
  <2>2. CASE WindowOver
    <3>1. BeforeWindow(w)' \subseteq InWindow
      BY <2>1, <2>2, <1>1, <1>2, <1>4, <1>7, <1>11 DEF WindowOver, InWindow, BeforeWindow
    <3>2. Cardinality(BeforeWindow(w)') \in Nat
          /\ Cardinality(BeforeWindow(w)') <= Cardinality(InWindow)
      BY <3>1, <1>9, SubsetBounded
    <3> QED  BY <3>2, <1>2, <1>9
  <2>3. CASE ~ WindowOver
    <3>1. BeforeWindow(w)' = BeforeWindow(w)
      BY <2>1, <2>3, <1>1, <1>2, <1>4 DEF BeforeWindow
    <3>2. w >= keyStart  BY <2>3, <1>11
    <3> QED  BY <3>1, <3>2 DEF InputInv, KeysCounted
  <2> QED  BY <2>2, <2>3
<1>12. ASSUME NEW w \in Times PROVE Cardinality(Within(typed, w)') <= 2 * MaxKeys
  <2>1. w \in Nat /\ Second \in Nat  BY DEF Times
  <2>2. CASE w < clock
    <3>1. Within(typed, w)' = Within(typed, w)
      BY <1>1, <1>4, <1>2, <2>1, <2>2 DEF Within
    <3> QED  BY <3>1 DEF InputInv, KeysCounted
  <2>3. CASE w >= clock
    <3>1. Within(typed, w)' \subseteq BeforeWindow(w)' \cup InWindow'
      BY <1>5, <1>6 DEF Within, BeforeWindow, InWindow, Stamps
    <3>2. BeforeWindow(w)' \subseteq typed' /\ InWindow' \subseteq typed'
      BY DEF BeforeWindow, InWindow
    <3>3. IsFiniteSet(BeforeWindow(w)') /\ IsFiniteSet(InWindow')
      BY <3>2, <1>5, SubsetBounded
    <3>4. w >= keyStart'  BY <2>1, <2>3, <1>2, <1>6
    <3>5. Cardinality(BeforeWindow(w)') <= MaxKeys  BY <3>4, <1>11
    <3>6. /\ IsFiniteSet(BeforeWindow(w)' \cup InWindow')
          /\ Cardinality(BeforeWindow(w)' \cup InWindow') \in Nat
          /\ Cardinality(BeforeWindow(w)') \in Nat /\ Cardinality(InWindow') \in Nat
          /\ Cardinality(BeforeWindow(w)' \cup InWindow')
                 <= Cardinality(BeforeWindow(w)') + Cardinality(InWindow')
      BY <3>3, UnionBounded
    <3>7. /\ Cardinality(Within(typed, w)') \in Nat
          /\ Cardinality(Within(typed, w)') <= Cardinality(BeforeWindow(w)' \cup InWindow')
      BY <3>1, <3>6, SubsetBounded
    <3>8. keyCount' \in Nat /\ keyCount' <= MaxKeys /\ MaxKeys \in Nat  BY <1>6
    <3> HIDE ControllerAssumption
    <3> QED  BY ONLY <3>5, <3>6, <3>7, <3>8, <1>10
  <2> QED  BY <2>1, <2>2, <2>3, <1>2
<1> QED  BY <1>5, <1>6, <1>8, <1>10, <1>11, <1>12, <1>2 DEF KeysCounted

\* A process that starts has counted nothing.
LEMMA NothingCounted ==
    clicks = {} /\ clicked = {} /\ typed = {} /\ keyCount = 0 => ClicksCounted /\ KeysCounted
<1> SUFFICES ASSUME clicks = {}, clicked = {}, typed = {}, keyCount = 0
             PROVE  ClicksCounted /\ KeysCounted
  OBVIOUS
<1>1. Cardinality({}) = 0  BY FS_EmptySet
<1>2. 0 <= MaxClicks /\ 0 <= MaxKeys /\ 0 <= 2 * MaxKeys /\ 0 <= 0  BY ControllerAssumption
<1>3. ASSUME NEW w \in Times
      PROVE  /\ Cardinality(Within(clicked, w)) = 0 /\ Cardinality(Within(typed, w)) = 0
             /\ Cardinality(BeforeWindow(w)) = 0
  <2>1. Within(clicked, w) = {} /\ Within(typed, w) = {} /\ BeforeWindow(w) = {}
    BY DEF Within, BeforeWindow
  <2> QED  BY <1>1, <2>1
<1>4. InWindow = {}  BY DEF InWindow
<1>5. Cardinality(InWindow) = 0 /\ Cardinality(clicks) = 0  BY <1>1, <1>4
<1>6. clicks \cup clicked = {}  OBVIOUS
<1>7. ClicksCounted  BY <1>2, <1>3, <1>5, <1>6 DEF ClicksCounted
<1>8. KeysCounted  BY <1>2, <1>3, <1>5 DEF KeysCounted
<1> QED  BY <1>7, <1>8

LEMMA InputInit == ControllerInit => InputInv
<1> SUFFICES ASSUME ControllerInit PROVE InputInv  OBVIOUS
<1>1. IsFiniteSet({})  BY FS_EmptySet
<1>2. LimitsTyped  BY <1>1, ControllerAssumption DEF LimitsTyped, ControllerInit
<1>3. clicks = {} /\ clicked = {} /\ typed = {} /\ keyCount = 0  BY DEF ControllerInit
<1> QED  BY <1>2, <1>3, NothingCounted DEF InputInv

LEMMA InputStep == InputInv /\ [ControllerNext]_controllerVars => InputInv'
<1> SUFFICES ASSUME InputInv, [ControllerNext]_controllerVars PROVE InputInv'  OBVIOUS
<1> USE ControllerAssumption
<1> DEFINE SameClicks == UNCHANGED <<clicks, clicked>>
           SameKeys == UNCHANGED <<keyCount, keyStart, typed>>
<1>1. ASSUME UNCHANGED clock, SameClicks PROVE ClicksCounted'
  <2>1. Recent' = Recent  BY <1>1 DEF Recent
  <2>2. \A w : Within(clicked, w)' = Within(clicked, w)  BY <1>1 DEF Within
  <2> QED  BY <1>1, <2>1, <2>2 DEF InputInv, ClicksCounted
<1>2. ASSUME UNCHANGED clock, SameKeys PROVE KeysCounted'
  <2>1. \A w : Within(typed, w)' = Within(typed, w) /\ BeforeWindow(w)' = BeforeWindow(w)
    BY <1>2 DEF Within, BeforeWindow
  <2>2. InWindow' = InWindow  BY <1>2 DEF InWindow
  <2> QED  BY <1>2, <2>1, <2>2 DEF InputInv, KeysCounted
<1>3. ASSUME NEW n \in {1, 2}, Click(n) PROVE InputInv'
  <2>1. Take(n) /\ UNCHANGED clock /\ SameKeys  BY <1>3 DEF Click
  <2>2. clicked' \in {clicked, clicked \cup NewClicks(n)}  BY <1>3 DEF Click
  <2>3. /\ IsFiniteSet(clicks') /\ clicks' \subseteq Stamps
        /\ IsFiniteSet(clicked') /\ clicked' \subseteq Stamps
        /\ ClicksCounted'
    BY ONLY InputInv, <2>1, <2>2, ClicksAreCounted, n \in {1, 2}
  <2>4. KeysCounted'  BY <1>2, <2>1
  <2>5. LimitsTyped'  BY <2>1, <2>3 DEF InputInv, LimitsTyped
  <2> QED  BY <2>3, <2>4, <2>5 DEF InputInv
<1>4. ASSUME NEW n \in TextLengths, Type(n) PROVE InputInv'
  <2>1. n \in Nat /\ UNCHANGED clock /\ SameClicks  BY <1>4 DEF Type
  <2>2. keyStart' = IF WindowOver THEN clock ELSE keyStart  BY <1>4 DEF Type
  <2>3. \/ /\ AllowKeys(n)
           /\ keyCount' = KeysBefore + n
           /\ typed' = typed \cup Numbered(KeysBefore + 1 .. KeysBefore + n)
        \/ keyCount' = KeysBefore /\ UNCHANGED typed
    BY <1>4 DEF Type
  <2>4. /\ IsFiniteSet(typed') /\ typed' \subseteq Stamps
        /\ keyCount' \in 0 .. MaxKeys /\ keyStart' \in 0 .. clock
        /\ KeysCounted'
    BY ONLY InputInv, <2>1, <2>2, <2>3, KeysAreCounted
  <2>5. ClicksCounted'  BY <1>1, <2>1
  <2>6. LimitsTyped'  BY <2>1, <2>4 DEF InputInv, LimitsTyped
  <2> QED  BY <2>4, <2>5, <2>6 DEF InputInv
<1>5. ASSUME UNCHANGED <<clock, limits>> PROVE InputInv'
  BY <1>1, <1>2, <1>5 DEF InputInv, LimitsTyped, limits
<1>6. CASE ScreenRead \/ WindowRead \/ Scroll \/ PressHotkey \/ SetClipboard \/ ManageWindows
  BY <1>5, <1>6 DEF ScreenRead, WindowRead, Scroll, PressHotkey, SetClipboard, ManageWindows,
                    Unlimited
<1>7. CASE ClockTicks
  <2>1. clock' = clock + 1 /\ SameClicks /\ SameKeys  BY <1>7 DEF ClockTicks, limits
  <2>2. LimitsTyped'  BY <2>1 DEF InputInv, LimitsTyped
  <2>3. clock \in Nat /\ clicks \subseteq Stamps /\ clicked \subseteq Stamps
    BY DEF InputInv, LimitsTyped
  <2>4. \A c \in clicks \cup clicked : c.time \in Nat /\ c.time <= clock
    BY <2>3 DEF InputInv, ClicksCounted, Stamps
  <2>5. ClicksCounted'
    <3>1. \A w : Within(clicked, w)' = Within(clicked, w)  BY <2>1 DEF Within
    <3>2. \A c \in (clicks \cup clicked)' : c.time <= clock' /\ c.time # clock'
      BY <2>1, <2>3, <2>4
    <3>3. \A c \in clicked' : c.time + Second > clock' => c \in clicks'
      <4> SUFFICES ASSUME NEW c \in clicked, c.time + Second > clock' PROVE c \in clicks
        BY <2>1
      <4>1. c.time + Second > clock  BY <2>1, <2>3, <2>4
      <4> QED  BY <4>1 DEF InputInv, ClicksCounted
    <3> QED  BY <2>1, <3>1, <3>2, <3>3 DEF InputInv, ClicksCounted
  <2>6. KeysCounted'
    <3>1. \A w : Within(typed, w)' = Within(typed, w) /\ BeforeWindow(w)' = BeforeWindow(w)
      BY <2>1 DEF Within, BeforeWindow
    <3>2. InWindow' = InWindow  BY <2>1 DEF InWindow
    <3>3. \A k \in typed : k.time \in Nat /\ k.time <= clock /\ k.time <= keyStart + Second
      BY DEF InputInv, LimitsTyped, KeysCounted, Stamps
    <3>4. \A k \in typed' : k.time <= clock' /\ k.time <= keyStart' + Second
      BY <2>1, <2>3, <3>3
    <3> QED  BY <2>1, <3>1, <3>2, <3>4 DEF InputInv, KeysCounted
  <2> QED  BY <2>2, <2>5, <2>6 DEF InputInv
<1>8. CASE Restart
  <2>1. /\ clicks' = {} /\ clicked' = {} /\ typed' = {} /\ keyCount' = 0
        /\ keyStart' = clock /\ clock' = clock
    BY <1>8 DEF Restart
  <2>2. IsFiniteSet({}) /\ Cardinality({}) = 0  BY FS_EmptySet
  <2>3. LimitsTyped'  BY <2>1, <2>2 DEF InputInv, LimitsTyped
  <2>4. (clicks = {} /\ clicked = {} /\ typed = {} /\ keyCount = 0)'  BY <2>1
  <2>5. (ClicksCounted /\ KeysCounted)'  BY ONLY <2>4, NothingCounted, PTL
  <2> QED  BY <2>3, <2>5 DEF InputInv
<1>9. CASE UNCHANGED controllerVars  BY <1>5, <1>9 DEF controllerVars
<1> QED  BY <1>3, <1>4, <1>6, <1>7, <1>8, <1>9 DEF ControllerNext

\* In no second does one process post more clicks than the maximum of RateLimiter, and it
\* accepts no more than twice as many keys as the limit of its windows: for any limits and
\* any texts, whenever the process is started again.
THEOREM InputKeepsLimits == ControllerSpec => []InputIsBounded
<1>1. InputInv => InputIsBounded
  BY DEF InputInv, ClicksCounted, KeysCounted, InputIsBounded
<1> QED  BY <1>1, InputInit, InputStep, PTL DEF ControllerSpec

----------------------------------------------------------------------------
(* The log                                                                 *)

InFile(fs, f) == IF fs[f] = NoFile THEN {} ELSE ToSet(fs[f])

\* EntriesInOrder of any files: each is in order, after those with higher numbers, and
\* what was written and is gone was older than what they hold.
Ordered(fs, W, last) ==
    /\ fs \in [LogFiles -> Seq(Nat) \cup {NoFile}]
    /\ \A f \in LogFiles : fs[f] # NoFile =>
         \A i, j \in DOMAIN fs[f] : i < j => fs[f][i] < fs[f][j]
    /\ \A f, g \in LogFiles : f > g => \A d \in InFile(fs, f), e \in InFile(fs, g) : d < e
    /\ \A e \in W : \/ \E f \in LogFiles : e \in InFile(fs, f)
                   \/ \A f \in LogFiles : \A d \in InFile(fs, f) : e < d
    /\ \A f \in LogFiles : \A d \in InFile(fs, f) : d \in Nat /\ d <= last
    /\ W \subseteq 0 .. last
    /\ last \in Nat

LogInv ==
    /\ Ordered(actionLog, written, actions)
    /\ open \in BOOLEAN
    /\ open => actionLog[0] # NoFile
    /\ LoggedWhenPossible

LEMMA CreatedOrdered ==
    ASSUME NEW fs, NEW W, NEW last, Ordered(fs, W, last), fs[0] = NoFile
    PROVE  Ordered(Created(fs), W, last) /\ Created(fs)[0] # NoFile
<1> USE ControllerAssumption
<1> DEFINE new == Created(fs)
<1>1. fs \in [LogFiles -> Seq(Nat) \cup {NoFile}] /\ 0 \in LogFiles
  BY DEF Ordered, LogFiles
<1>2. new \in [LogFiles -> Seq(Nat) \cup {NoFile}]  BY <1>1 DEF Created
<1>3. new[0] = <<>> /\ \A f \in LogFiles : f # 0 => new[f] = fs[f]  BY <1>1 DEF Created
<1>4. <<>> # NoFile
  <2>1. <<>> \in Seq(Nat)  OBVIOUS
  <2> QED  BY <2>1
<1> HIDE DEF new
<1>5. \A f \in LogFiles : InFile(new, f) = InFile(fs, f)
  BY <1>1, <1>3 DEF InFile, ToSet
<1>6. \A f \in LogFiles : new[f] # NoFile =>
        \A i, j \in DOMAIN new[f] : i < j => new[f][i] < new[f][j]
  BY <1>3 DEF Ordered
<1> QED  BY <1>2, <1>3, <1>4, <1>5, <1>6 DEF Ordered, new

LEMMA AppendOrdered ==
    ASSUME NEW fs, NEW W, NEW last, Ordered(fs, W, last), fs[0] # NoFile
    PROVE  LET new == [fs EXCEPT ![0] = Append(@, last + 1)]
           IN  Ordered(new, W \cup {last + 1}, last + 1) /\ new[0] # NoFile
<1> USE ControllerAssumption
<1> DEFINE new == [fs EXCEPT ![0] = Append(@, last + 1)]
           s == fs[0]
           t == Append(s, last + 1)
<1>1. fs \in [LogFiles -> Seq(Nat) \cup {NoFile}] /\ 0 \in LogFiles /\ last \in Nat
  BY DEF Ordered, LogFiles
<1>2. s \in Seq(Nat)  BY <1>1
<1>3. t \in Seq(Nat) /\ t # NoFile  BY <1>1, <1>2
<1>4. new \in [LogFiles -> Seq(Nat) \cup {NoFile}]  BY <1>1, <1>3
<1>5. new[0] = t /\ \A f \in LogFiles : f # 0 => new[f] = fs[f]  BY <1>1
<1>6. /\ DOMAIN s = 1 .. Len(s) /\ DOMAIN t = 1 .. Len(s) + 1 /\ Len(s) \in Nat
      /\ \A i \in 1 .. Len(s) : t[i] = s[i]
      /\ t[Len(s) + 1] = last + 1
  BY <1>1, <1>2
<1>7. ToSet(t) = ToSet(s) \cup {last + 1}  BY <1>6 DEF ToSet
<1>8. \A i \in 1 .. Len(s) : s[i] \in Nat /\ s[i] <= last
  <2>1. \A d \in InFile(fs, 0) : d \in Nat /\ d <= last  BY <1>1 DEF Ordered
  <2> QED  BY <2>1, <1>6 DEF InFile, ToSet
<1>9. \A i, j \in 1 .. Len(s) : i < j => s[i] < s[j]
  BY <1>1, <1>6 DEF Ordered
<1>10. \A i, j \in DOMAIN t : i < j => t[i] < t[j]
  <2> SUFFICES ASSUME NEW i \in 1 .. Len(s) + 1, NEW j \in 1 .. Len(s) + 1, i < j
               PROVE  t[i] < t[j]
    BY <1>6
  <2> HIDE DEF s, t
  <2>1. i \in 1 .. Len(s)  BY <1>6
  <2>2. CASE j = Len(s) + 1  BY <2>1, <2>2, <1>1, <1>6, <1>8
  <2>3. CASE j # Len(s) + 1  BY <2>1, <2>3, <1>6, <1>9
  <2> QED  BY <2>2, <2>3
<1>11. InFile(new, 0) = InFile(fs, 0) \cup {last + 1}
  BY <1>3, <1>5, <1>7 DEF InFile
<1> HIDE DEF new, s, t
<1>12. \A f \in LogFiles : f # 0 => InFile(new, f) = InFile(fs, f)
  BY <1>5 DEF InFile
<1>13. \A f \in LogFiles : \A d \in InFile(fs, f) : d \in Nat /\ d <= last
  BY DEF Ordered
<1>14. \A f \in LogFiles : new[f] # NoFile =>
        \A i, j \in DOMAIN new[f] : i < j => new[f][i] < new[f][j]
  BY <1>5, <1>10 DEF Ordered
<1>15. \A f, g \in LogFiles : f > g =>
        \A d \in InFile(new, f), e \in InFile(new, g) : d < e
  <2> SUFFICES ASSUME NEW f \in LogFiles, NEW g \in LogFiles, f > g,
                      NEW d \in InFile(new, f), NEW e \in InFile(new, g)
               PROVE  d < e
    OBVIOUS
  <2>1. d \in InFile(fs, f)  BY <1>12 DEF LogFiles
  <2>2. CASE e \in InFile(fs, g)  BY <2>1, <2>2 DEF Ordered
  <2>3. CASE e = last + 1  BY <2>1, <2>3, <1>1, <1>13
  <2> QED  BY <2>2, <2>3, <1>11, <1>12
<1>16. \A e \in W \cup {last + 1} :
          \/ \E f \in LogFiles : e \in InFile(new, f)
          \/ \A f \in LogFiles : \A d \in InFile(new, f) : e < d
  <2> SUFFICES ASSUME NEW e \in W \cup {last + 1}
               PROVE  \/ \E f \in LogFiles : e \in InFile(new, f)
                      \/ \A f \in LogFiles : \A d \in InFile(new, f) : e < d
    OBVIOUS
  <2>1. CASE e = last + 1  BY <2>1, <1>1, <1>11
  <2>2. CASE e \in W
    <3>1. e \in Nat /\ e <= last  BY <2>2, <1>1 DEF Ordered
    <3>2. CASE \E f \in LogFiles : e \in InFile(fs, f)
      BY <3>2, <1>11, <1>12
    <3>3. CASE \A f \in LogFiles : \A d \in InFile(fs, f) : e < d
      BY <3>1, <3>3, <1>1, <1>11, <1>12
    <3> QED  BY <2>2, <3>2, <3>3 DEF Ordered
  <2> QED  BY <2>1, <2>2
<1>17. \A f \in LogFiles : \A d \in InFile(new, f) : d \in Nat /\ d <= last + 1
  BY <1>1, <1>11, <1>12, <1>13
<1>18. W \cup {last + 1} \subseteq 0 .. last + 1  BY <1>1 DEF Ordered
<1>19. Ordered(new, W \cup {last + 1}, last + 1) /\ new[0] # NoFile
  BY <1>1, <1>3, <1>4, <1>5, <1>14, <1>15, <1>16, <1>17, <1>18 DEF Ordered
<1> QED  BY <1>19 DEF new

\* rotateLog, cut short after any of its steps: the order stays, and the current file is
\* only gone when the last step was made.
LEMMA AfterOrdered ==
    ASSUME Ordered(actionLog, written, actions), NEW n \in 0 .. LastStep
    PROVE  /\ Ordered(After(n), written, actions)
           /\ After(n)[0] = IF n = LastStep THEN NoFile ELSE actionLog[0]
<1> USE ControllerAssumption
<1> DEFINE new == After(n)
           source(f) == IF f + n <= MaxLogFiles THEN f ELSE f - 1
<1>1. MaxLogFiles \in Nat /\ n \in Nat /\ n <= MaxLogFiles + 1  BY DEF LastStep
<1>2. actionLog \in [LogFiles -> Seq(Nat) \cup {NoFile}]  BY DEF Ordered
<1>3. \A f \in LogFiles : f \in Nat /\ f <= MaxLogFiles  BY <1>1 DEF LogFiles
<1>4. \A f \in LogFiles : f + n # LastStep => source(f) \in LogFiles
  BY <1>1 DEF LogFiles, LastStep
<1>5. \A f \in LogFiles : new[f] = IF f + n = LastStep THEN NoFile ELSE actionLog[source(f)]
  BY <1>1 DEF After, LastStep, LogFiles
<1>6. \A f, g \in LogFiles : f > g /\ f + n # LastStep /\ g + n # LastStep => source(f) > source(g)
  BY <1>1, <1>3 DEF LastStep
\* Every file but the last one, if a step was made, is still there under some number.
<1>7. \A f \in LogFiles : f # MaxLogFiles \/ n = 0 =>
        \E g \in LogFiles : g + n # LastStep /\ source(g) = f
  <2> TAKE f \in LogFiles
  <2> HAVE f # MaxLogFiles \/ n = 0
  <2>1. CASE f + n <= MaxLogFiles  BY <2>1, <1>1, <1>3 DEF LastStep
  <2>2. CASE f + n > MaxLogFiles
    <3>1. f + 1 \in LogFiles  BY <2>2, <1>1 DEF LogFiles
    <3> QED  BY <3>1, <2>2, <1>1, <1>3 DEF LastStep
  <2> QED  BY <2>1, <2>2, <1>1, <1>3
<1>8. \A f \in LogFiles : f + n # LastStep /\ n # 0 => source(f) # MaxLogFiles
  BY <1>1, <1>3 DEF LastStep
<1>9. new \in [LogFiles -> Seq(Nat) \cup {NoFile}]
  <2>1. \A f \in LogFiles : new[f] \in Seq(Nat) \cup {NoFile}  BY <1>2, <1>4, <1>5
  <2>2. DOMAIN new = LogFiles /\ new = [f \in LogFiles |-> new[f]]  BY DEF After
  <2> QED  BY ONLY <2>1, <2>2
<1>10. new[0] = IF n = LastStep THEN NoFile ELSE actionLog[0]
  <2>1. 0 \in LogFiles  BY <1>1 DEF LogFiles
  <2> QED  BY <2>1, <1>1, <1>5 DEF LastStep
<1> HIDE DEF new, source
<1>11. \A f \in LogFiles : InFile(new, f) =
          IF f + n = LastStep THEN {} ELSE InFile(actionLog, source(f))
  BY <1>5 DEF InFile
<1>12. \A f \in LogFiles : new[f] # NoFile =>
        \A i, j \in DOMAIN new[f] : i < j => new[f][i] < new[f][j]
  <2> SUFFICES ASSUME NEW f \in LogFiles, new[f] # NoFile
               PROVE  \A i, j \in DOMAIN new[f] : i < j => new[f][i] < new[f][j]
    OBVIOUS
  <2>1. source(f) \in LogFiles /\ new[f] = actionLog[source(f)]  BY <1>4, <1>5
  <2> QED  BY <2>1 DEF Ordered
<1>13. \A f, g \in LogFiles : f > g =>
        \A d \in InFile(new, f), e \in InFile(new, g) : d < e
  <2> SUFFICES ASSUME NEW f \in LogFiles, NEW g \in LogFiles, f > g,
                      NEW d \in InFile(new, f), NEW e \in InFile(new, g)
               PROVE  d < e
    OBVIOUS
  <2>1. f + n # LastStep /\ g + n # LastStep  BY <1>11
  <2>2. d \in InFile(actionLog, source(f)) /\ e \in InFile(actionLog, source(g))
    BY <2>1, <1>11
  <2>3. source(f) \in LogFiles /\ source(g) \in LogFiles /\ source(f) > source(g)
    BY <2>1, <1>4, <1>6
  <2> QED  BY <2>2, <2>3 DEF Ordered
<1>14. \A e \in written : \/ \E f \in LogFiles : e \in InFile(new, f)
                          \/ \A f \in LogFiles : \A d \in InFile(new, f) : e < d
  <2> TAKE e \in written
  <2>1. CASE \A f \in LogFiles : \A d \in InFile(actionLog, f) : e < d
    BY <2>1, <1>4, <1>11
  <2>2. ASSUME NEW f \in LogFiles, e \in InFile(actionLog, f)
        PROVE  \/ \E g \in LogFiles : e \in InFile(new, g)
               \/ \A g \in LogFiles : \A d \in InFile(new, g) : e < d
    <3>1. CASE f # MaxLogFiles \/ n = 0
      <4>1. PICK g \in LogFiles : g + n # LastStep /\ source(g) = f  BY <3>1, <1>7
      <4> QED  BY <4>1, <2>2, <1>11
    <3>2. CASE f = MaxLogFiles /\ n # 0
      <4> SUFFICES ASSUME NEW g \in LogFiles, NEW d \in InFile(new, g) PROVE e < d
        OBVIOUS
      <4>1. g + n # LastStep  BY <1>11
      <4>2. source(g) \in LogFiles /\ source(g) # MaxLogFiles /\ d \in InFile(actionLog, source(g))
        BY <4>1, <3>2, <1>4, <1>8, <1>11
      <4>3. source(g) \in Nat /\ source(g) <= MaxLogFiles  BY <4>2, <1>3
      <4>4. f > source(g)  BY ONLY <4>2, <4>3, <3>2, <1>1
      <4> QED  BY <4>2, <4>4, <2>2 DEF Ordered
    <3> QED  BY <3>1, <3>2
  <2>3. \/ \E f \in LogFiles : e \in InFile(actionLog, f)
        \/ \A f \in LogFiles : \A d \in InFile(actionLog, f) : e < d
    BY DEF Ordered
  <2> QED  BY <2>1, <2>2, <2>3
<1>15. \A f \in LogFiles : \A d \in InFile(new, f) : d \in Nat /\ d <= actions
  BY <1>4, <1>11 DEF Ordered
<1> QED  BY <1>9, <1>10, <1>12, <1>13, <1>14, <1>15 DEF Ordered, new

LEMMA LogInit == ControllerInit => LogInv
<1> SUFFICES ASSUME ControllerInit PROVE LogInv  OBVIOUS
<1> USE ControllerAssumption
<1>1. 0 \in LogFiles  BY DEF LogFiles
<1>2. <<>> \in Seq(Nat)  OBVIOUS
<1>3. actionLog \in [LogFiles -> Seq(Nat) \cup {NoFile}]  BY <1>2 DEF ControllerInit
<1>4. \A f \in LogFiles : actionLog[f] = <<>> \/ actionLog[f] = NoFile  BY DEF ControllerInit
<1>5. actionLog[0] # NoFile  BY <1>1, <1>2 DEF ControllerInit
<1>6. \A f \in LogFiles : InFile(actionLog, f) = {}  BY <1>4 DEF InFile, ToSet
<1>7. \A f \in LogFiles : actionLog[f] # NoFile =>
        \A i, j \in DOMAIN actionLog[f] : i < j => actionLog[f][i] < actionLog[f][j]
  BY <1>4
<1>8. written = {} /\ actions = 0 /\ open = TRUE  BY DEF ControllerInit
<1> QED  BY <1>3, <1>5, <1>6, <1>7, <1>8 DEF LogInv, Ordered, LoggedWhenPossible

LEMMA WritingKeepsOrder ==
    ASSUME NEW fs, NEW handle \in BOOLEAN, Ordered(fs, written, actions),
           handle => fs[0] # NoFile,
           handle \/ fs[0] = NoFile \/ Full(fs[0]),
           WritesTo(fs, handle)
    PROVE  LogInv'
<1>1. CASE handle
  <2> DEFINE new == [fs EXCEPT ![0] = Append(@, actions + 1)]
  <2>1. Ordered(new, written \cup {actions + 1}, actions + 1) /\ new[0] # NoFile
    BY <1>1, AppendOrdered
  <2>2. /\ actionLog' = new /\ written' = written \cup {actions + 1}
        /\ actions' = actions + 1 /\ open' = TRUE
    BY <1>1 DEF WritesTo
  <2> QED  BY <2>1, <2>2 DEF LogInv, Ordered, InFile, LoggedWhenPossible
<1>2. CASE ~ handle
  <2>1. /\ actionLog' = fs /\ written' = written /\ actions' = actions + 1 /\ open' = FALSE
    BY <1>2 DEF WritesTo
  <2>2. Ordered(fs, written, actions + 1)  BY DEF Ordered
  <2>3. Ordered(actionLog, written, actions)'  BY <2>1, <2>2 DEF Ordered, InFile
  <2>4. LoggedWhenPossible'  BY <2>1, <1>2 DEF LoggedWhenPossible, Full
  <2> QED  BY <2>1, <2>3, <2>4 DEF LogInv
<1> QED  BY <1>1, <1>2

LEMMA LoggingKeepsOrder == ASSUME LogInv, Logs PROVE LogInv'
<1> USE ControllerAssumption
<1>1. 0 \in 0 .. LastStep /\ LastStep \in 0 .. LastStep  BY DEF LastStep
<1>2. CASE WritesTo(actionLog, open)
  BY <1>2, WritingKeepsOrder DEF LogInv, LoggedWhenPossible
<1>3. CASE Full(actionLog[0]) /\ WritesTo(Created(After(LastStep)), TRUE)
  <2>1. Ordered(After(LastStep), written, actions) /\ After(LastStep)[0] = NoFile
    BY <1>1, AfterOrdered DEF LogInv
  <2>2. /\ Ordered(Created(After(LastStep)), written, actions)
        /\ Created(After(LastStep))[0] # NoFile
    BY <2>1, CreatedOrdered
  <2> QED  BY <2>2, <1>3, WritingKeepsOrder
<1>4. ASSUME NEW n \in 0 .. LastStep, Full(actionLog[0]), WritesTo(After(n), FALSE)
      PROVE  LogInv'
  <2>1. /\ Ordered(After(n), written, actions)
        /\ After(n)[0] = IF n = LastStep THEN NoFile ELSE actionLog[0]
    BY AfterOrdered DEF LogInv
  <2>2. After(n)[0] = NoFile \/ Full(After(n)[0])  BY <2>1, <1>4
  <2> QED  BY <2>1, <2>2, <1>4, WritingKeepsOrder
<1> QED  BY <1>2, <1>3, <1>4 DEF Logs

LEMMA LogStep == LogInv /\ [ControllerNext]_controllerVars => LogInv'
<1> SUFFICES ASSUME LogInv, [ControllerNext]_controllerVars PROVE LogInv'  OBVIOUS
<1>1. ASSUME UNCHANGED logging PROVE LogInv'
  BY <1>1 DEF LogInv, logging, Ordered, InFile, LoggedWhenPossible, Full
<1>2. CASE Logs  BY <1>2, LoggingKeepsOrder
<1>3. CASE Restart
  <2>1. PICK n \in 0 .. LastStep :
           (n > 0 => Full(actionLog[0])) /\ actionLog' = Reopened(After(n))
    BY <1>3 DEF Restart
  <2>2. /\ Ordered(After(n), written, actions)
    BY AfterOrdered DEF LogInv
  <2>3. Ordered(Reopened(After(n)), written, actions) /\ Reopened(After(n))[0] # NoFile
    BY <2>2, CreatedOrdered DEF Reopened
  <2>4. open' = TRUE /\ UNCHANGED <<actions, written>>  BY <1>3 DEF Restart
  <2> QED  BY <2>1, <2>3, <2>4 DEF LogInv, Ordered, InFile, LoggedWhenPossible
<1>4. ASSUME ControllerNext PROVE Logs \/ UNCHANGED logging \/ Restart
  <2>1. ASSUME NEW n, Click(n) PROVE Logs \/ UNCHANGED logging  BY <2>1 DEF Click
  <2>2. ASSUME NEW n, Type(n) PROVE Logs \/ UNCHANGED logging  BY <2>2 DEF Type
  <2>3. ClockTicks => UNCHANGED logging  BY DEF ClockTicks
  <2> QED  BY <1>4, <2>1, <2>2, <2>3 DEF ControllerNext, Unlimited, ScreenRead, WindowRead,
              Scroll, PressHotkey, SetClipboard, ManageWindows
<1>5. CASE UNCHANGED controllerVars  BY <1>1, <1>5 DEF controllerVars
<1> QED  BY <1>1, <1>2, <1>3, <1>4, <1>5

\* Whichever steps of whichever rotations of ActionLogger fail or are cut short, and
\* whenever the process is started again, the files of the log hold the last entries in
\* their order, and a logger without its file gets it back as soon as it can: for any
\* number of files and any size of them.
THEOREM LogKeepsOrder == ControllerSpec => []LogStaysInOrder
<1>1. LogInv => LogStaysInOrder
  BY DEF LogInv, Ordered, InFile, LogStaysInOrder, EntriesInOrder, Entries
<1> QED  BY <1>1, LogInit, LogStep, PTL DEF ControllerSpec
=============================================================================
