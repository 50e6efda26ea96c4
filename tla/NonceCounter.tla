----------------------------- MODULE NonceCounter -----------------------------
(***************************************************************************)
(* backup_manager.py: the counter in the nonces of EncryptedBackupManager. *)
(* It is kept in the system keyring, where every thread and every process  *)
(* that encrypts for this user gets it and stores it in two calls, without *)
(* a lock.  A nonce is the second, the counter and four random bytes, and  *)
(* has to be "unique even if" the clock is wrong, or if the random bytes   *)
(* are the same: only the counter is looked at here.                       *)
(***************************************************************************)
EXTENDS Naturals, FiniteSets

CONSTANTS Encryptors,  \* the threads and processes that encrypt
          Wrap,        \* the counter counts modulo Wrap; 2^32 in the code
          MaxStores    \* bound: counters stored

ASSUME NonceAssumption == Wrap \in Nat \ {0} /\ MaxStores \in Nat

VARIABLES counter,     \* KEYRING_NONCE_COUNTER
          counting,    \* Encryptors -> it has got the counter and has not stored the next
          count,       \* Encryptors -> the counter it has got
          stores,      \* counters stored so far
          overtaken,   \* history: the stores that came when the counter had moved on
          uses         \* history: the counters used in nonces, with the number of the store

nonceVars == <<counter, counting, count, stores, overtaken, uses>>

NonceInit ==
    /\ counter = 0
    /\ counting = [e \in Encryptors |-> FALSE] /\ count = [e \in Encryptors |-> 0]
    /\ stores = 0 /\ overtaken = {} /\ uses = {}

GetCounter(e) ==
    /\ ~counting[e]
    /\ counting' = [counting EXCEPT ![e] = TRUE]
    /\ count' = [count EXCEPT ![e] = counter]
    /\ UNCHANGED <<counter, stores, overtaken, uses>>

\* Mutant: the counter stays at its end.
NextSaturated(c) == IF c + 1 = Wrap THEN c ELSE c + 1

NextCounter(c) == (c + 1) % Wrap

\* The nonce is used, or the process is gone, or the keyring raises, before it is.
StoreCounter(e) ==
    /\ counting[e] /\ stores < MaxStores
    /\ counter' = NextCounter(count[e])
    /\ stores' = stores + 1
    /\ overtaken' = overtaken \cup IF counter # count[e] THEN {stores + 1} ELSE {}
    /\ uses' \in {uses, uses \cup {[id |-> stores + 1, count |-> count[e]]}}
    /\ counting' = [counting EXCEPT ![e] = FALSE]
    /\ UNCHANGED count

\* The process is gone, or the keyring raises, before the counter is stored.
GiveUpCounter(e) ==
    /\ counting[e]
    /\ counting' = [counting EXCEPT ![e] = FALSE]
    /\ UNCHANGED <<counter, count, stores, overtaken, uses>>

NonceNext == \E e \in Encryptors : GetCounter(e) \/ StoreCounter(e) \/ GiveUpCounter(e)

NonceSpec == NonceInit /\ [][NonceNext]_nonceVars
-----------------------------------------------------------------------------
\* "Get and atomically increment the nonce counter" and "This ensures uniqueness": it is
\* not atomic, and this is what is left.  Two nonces have the same counter only if Wrap
\* counters or more were stored from the one to the other, or if, after the first and up
\* to the second, one was stored by an encryption that others had overtaken.
NoncesUnique ==
    \A u, v \in uses :
        u.id < v.id /\ u.count = v.count =>
            \/ v.id - u.id >= Wrap
            \/ \E n \in overtaken : u.id < n /\ n <= v.id
=============================================================================
