----------------------------- MODULE SessionStore -----------------------------
(***************************************************************************)
(* session_save and session_restore: handlers/session.py over              *)
(* redis_client.py, or over SQLite when there is no Redis.                 *)
(*                                                                         *)
(* In Redis a session is under the key "<id>" when it is small and under   *)
(* "<id>:z", compressed, when it is large; a restore asks for "<id>:z"     *)
(* first.  Several servers share one Redis.  All keys have the same time   *)
(* to live, so they expire in the order they were set.                     *)
(*                                                                         *)
(* Saves are numbered; the number stands for the content that was saved.   *)
(***************************************************************************)
EXTENDS Naturals, FiniteSets

CONSTANTS Servers,
          Ids,        \* session ids; each server starts with one of its own
          First,      \* Servers -> the id it starts with
          MaxSaves,   \* bound: saves
          Redis       \* the servers that found a Redis when they started

ASSUME SessionAssumption ==
    /\ First \in [Servers -> Ids]
    /\ MaxSaves \in Nat
    /\ Redis \subseteq Servers

Stores == {"redis", "sqlite"}
StoreOf(s) == IF s \in Redis THEN "redis" ELSE "sqlite"

Keys == {"plain", "z"}
None == [save |-> 0, valid |-> TRUE]
Entries == [save : 1 .. MaxSaves, valid : BOOLEAN]

VARIABLES store,    \* Ids -> Keys -> the entry in Redis, or None
          rows,     \* Ids -> the save in SQLite, or 0
          current,  \* Servers -> SessionHandler._session_id
          asked,    \* Servers -> the id a restore has asked "<id>:z" for, or {}
          saves,    \* saves so far
          saved,    \* history: Stores -> Ids -> the last save reported to be
                    \* there, 0 once it expired
          spoiled,  \* history: Stores -> the ids whose last save was stored where
                    \* or as it is not found, or not at all
          seen      \* history: Servers -> Ids -> the save it restored last

vars == <<store, rows, current, asked, saves, saved, spoiled, seen>>

Init ==
    /\ store = [i \in Ids |-> [k \in Keys |-> None]]
    /\ rows = [i \in Ids |-> 0]
    /\ current = First
    /\ asked = [s \in Servers |-> {}]
    /\ saves = 0
    /\ saved = [b \in Stores |-> [i \in Ids |-> 0]]
    /\ spoiled = [b \in Stores |-> {}]
    /\ seen = [s \in Servers |-> [i \in Ids |-> 0]]

Idle(s) == asked[s] = {}

----------------------------------------------------------------------------
(* session_save                                                            *)

\* Mutant: SETNX, which leaves a key that is there.
SetsOnce(i, k, e) == store' = [store EXCEPT ![i][k] = IF @ = None THEN e ELSE @]

\* save_session: one SETEX of one of the two keys, "z" when the session is
\* large.  A large one falls through to the plain key when Redis refuses that.
Sets(i, k, e) == store' = [store EXCEPT ![i][k] = e]

Spoils(b, i, bad) ==
    spoiled' = [spoiled EXCEPT ![b] = IF bad THEN @ \cup {i} ELSE @ \ {i}]

\* What save_session returns is not looked at: a save that Redis refused, one
\* that is not valid, or one under a key that is asked second, is reported.
SaveInRedis(s) ==
    LET i == current[s]
    IN  /\ s \in Redis
        /\ \/ \E k \in Keys, valid \in BOOLEAN :
                /\ Sets(i, k, [save |-> saves + 1, valid |-> valid])
                /\ Spoils("redis", i, ~valid \/ (k = "plain" /\ store[i]["z"] # None))
           \/ Spoils("redis", i, TRUE) /\ UNCHANGED store
        /\ UNCHANGED rows

\* The row's id is the session's: a second save is not inserted.
Inserts(i) == rows' = [rows EXCEPT ![i] = IF @ = 0 THEN saves + 1 ELSE @]

SaveInSqlite(s) ==
    /\ s \notin Redis
    /\ Inserts(current[s])
    /\ Spoils("sqlite", current[s], rows[current[s]] # 0)
    /\ UNCHANGED store

\* The answer is always "saved": True.
Save(s) ==
    /\ Idle(s)
    /\ saves < MaxSaves
    /\ SaveInRedis(s) \/ SaveInSqlite(s)
    /\ saves' = saves + 1
    /\ saved' = [saved EXCEPT ![StoreOf(s)][current[s]] = saves + 1]
    /\ UNCHANGED <<current, asked, seen>>

\* Mutant: a compressed session lives shorter than a plain one.
ExpireCompressed(i, k) ==
    /\ store[i][k] # None
    /\ k = "z" \/ \A j \in Ids, l \in Keys : store[j][l] = None \/ store[i][k].save <= store[j][l].save
    /\ store' = [store EXCEPT ![i][k] = None]
    /\ saved' = [saved EXCEPT !["redis"][i] = IF @ = store[i][k].save THEN 0 ELSE @]
    /\ UNCHANGED <<rows, current, asked, saves, spoiled, seen>>

\* A key expires, the one that was set first before the others.
Expire(i, k) ==
    /\ store[i][k] # None
    /\ \A j \in Ids, l \in Keys : store[j][l] = None \/ store[i][k].save <= store[j][l].save
    /\ store' = [store EXCEPT ![i][k] = None]
    /\ saved' = [saved EXCEPT !["redis"][i] = IF @ = store[i][k].save THEN 0 ELSE @]
    /\ UNCHANGED <<rows, current, asked, saves, spoiled, seen>>

----------------------------------------------------------------------------
(* session_restore                                                         *)

\* An entry is found when it is there and SessionStateModel accepts it.
Found(e) == e # None /\ e.valid

Restores(s, i, save) ==
    /\ current' = [current EXCEPT ![s] = i]
    /\ seen' = [seen EXCEPT ![s][i] = save]

\* The first GET, of "<id>:z".  What is there is restored or refused; an
\* error of Redis ends the restore.
RestoreCompressed(s, i) ==
    /\ s \in Redis
    /\ Idle(s)
    /\ LET e == store[i]["z"]
       IN  IF e = None
           THEN asked' = [asked EXCEPT ![s] = {i}] /\ UNCHANGED <<current, seen>>
           ELSE /\ Found(e)
                /\ Restores(s, i, e.save)
                /\ UNCHANGED asked
    /\ UNCHANGED <<store, rows, saves, saved, spoiled>>

\* The second GET, of "<id>".
RestorePlain(s) ==
    /\ \E i \in asked[s] :
        LET e == store[i]["plain"]
        IN  IF Found(e) THEN Restores(s, i, e.save) ELSE UNCHANGED <<current, seen>>
    /\ asked' = [asked EXCEPT ![s] = {}]
    /\ UNCHANGED <<store, rows, saves, saved, spoiled>>

RestoreRow(s, i) ==
    /\ s \notin Redis
    /\ rows[i] # 0
    /\ Restores(s, i, rows[i])
    /\ UNCHANGED <<store, rows, asked, saves, saved, spoiled>>

Next ==
    \/ \E s \in Servers : Save(s) \/ RestorePlain(s)
    \/ \E s \in Servers, i \in Ids : RestoreCompressed(s, i) \/ RestoreRow(s, i)
    \/ \E i \in Ids, k \in Keys : Expire(i, k)

Spec == Init /\ [][Next]_vars

----------------------------------------------------------------------------
(* Properties                                                              *)

\* What a restore that nothing interleaves with would give: a save, or 0.
Restored(s, i) ==
    IF s \notin Redis THEN rows[i]
    ELSE LET e == IF store[i]["z"] = None THEN store[i]["plain"] ELSE store[i]["z"]
         IN  IF Found(e) THEN e.save ELSE 0

\* "Persist current session state for later restoration": until it expires, a
\* session that was reported saved is what a restore gives, to any server of
\* the store, unless that very save was spoiled: an older save, a refused one
\* or one that expired never comes in its way.
RestoreIsCurrent ==
    \A s \in Servers, i \in Ids :
        saved[StoreOf(s)][i] # 0 /\ i \notin spoiled[StoreOf(s)]
            => Restored(s, i) = saved[StoreOf(s)][i]

\* A server never gets an older state of a session than it got before,
\* although a session can be under two keys, which are asked one after the
\* other while another server saves: the one that is asked first is the newer
\* one, or the other one is what is left when it expires.
RestoreNeverGoesBack ==
    [][\A s \in Servers : \A i \in Ids \ spoiled[StoreOf(s)] :
          seen'[s][i] # 0 => seen'[s][i] >= seen[s][i]]_seen
=============================================================================
