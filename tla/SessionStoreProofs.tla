------------------------- MODULE SessionStoreProofs -------------------------
(***************************************************************************)
(* Proofs about SessionStore, for any servers, ids and number of saves: a  *)
(* restore gives the last save, and no server goes back to an older one.   *)
(***************************************************************************)
EXTENDS SessionStore, TLAPS

\* The saves under the two keys of a session; 0 when there is none.
Large(i) == store[i]["z"].save
Small(i) == store[i]["plain"].save

Typed ==
    /\ store \in [Ids -> [Keys -> Entries \cup {None}]]
    /\ rows \in [Ids -> Nat]
    /\ current \in [Servers -> Ids]
    /\ asked \in [Servers -> SUBSET Ids]
    /\ saves \in Nat
    /\ saved \in [Stores -> [Ids -> Nat]]
    /\ spoiled \in [Stores -> SUBSET Ids]
    /\ seen \in [Servers -> [Ids -> Nat]]

\* Saves are numbered in order, so what is stored or seen is not yet to come.
NothingFromTheFuture ==
    \A i \in Ids : /\ Large(i) <= saves /\ Small(i) <= saves /\ rows[i] <= saves
                   /\ \A s \in Servers : seen[s][i] <= saves

(* What holds of the two keys.  That the one that is asked first is the     *)
(* newer one is not enough: a server may have asked for it before it was    *)
(* there, and what it finds under the other must still not be older than    *)
(* what it has seen.                                                        *)
LargeIsNewer ==
    \A i \in Ids \ spoiled["redis"] : Large(i) # 0 => Small(i) < Large(i)

LargeNotOlder ==
    \A s \in Servers \cap Redis : \A i \in Ids \ spoiled["redis"] :
        Large(i) # 0 => seen[s][i] <= Large(i)

\* Because keys expire in the order they were set, what is left of a session
\* when one of them has expired is not older than what was seen.
LeftNotOlder ==
    \A s \in Servers \cap Redis : \A i \in Ids :
        Large(i) # 0 \/ Small(i) # 0 => seen[s][i] <= Large(i) \/ seen[s][i] <= Small(i)

AskedNotOlder ==
    \A s \in Servers \cap Redis : \A i \in asked[s] :
        Small(i) # 0 => seen[s][i] <= Small(i)

\* Without Redis the first row of a session is its last.
RowsStay == \A s \in Servers \ Redis : \A i \in Ids : seen[s][i] \in {0, rows[i]}

OnlyRedisAsks == \A s \in Servers \ Redis : asked[s] = {}

\* RestoreIsCurrent, in terms of the keys and of the rows.
KeysAreCurrent ==
    \A i \in Ids \ spoiled["redis"] :
        saved["redis"][i] # 0 =>
            LET e == IF store[i]["z"] = None THEN store[i]["plain"] ELSE store[i]["z"]
            IN  e.valid /\ e.save = saved["redis"][i]

RowsAreCurrent ==
    \A i \in Ids \ spoiled["sqlite"] :
        saved["sqlite"][i] # 0 => rows[i] = saved["sqlite"][i]

Order == LargeIsNewer /\ LargeNotOlder /\ LeftNotOlder /\ AskedNotOlder /\ RowsStay
SessionInv ==
    /\ Typed /\ NothingFromTheFuture /\ OnlyRedisAsks
    /\ Order
    /\ KeysAreCurrent /\ RowsAreCurrent

----------------------------------------------------------------------------

\* A key with nothing under it is one whose save is 0.
LEMMA NoneIsZero ==
    ASSUME Typed, NEW i \in Ids, NEW k \in Keys
    PROVE  /\ store[i][k].save \in Nat
           /\ store[i][k] = None <=> store[i][k].save = 0
           /\ store[i][k].valid \in BOOLEAN
<1>1. store[i][k] \in Entries \cup {None}
  BY DEF Typed
<1>2. CASE store[i][k] = None
  BY <1>2 DEF None
<1>3. CASE store[i][k] \in Entries
  BY <1>3, SessionAssumption DEF Entries, None
<1> QED
  BY <1>1, <1>2, <1>3

\* What setting one key does to the saves under it and under all others.
LEMMA SetsFacts ==
    ASSUME Typed, NEW i \in Ids, NEW k \in Keys, NEW e \in Entries \cup {None},
           store' = [store EXCEPT ![i][k] = e]
    PROVE  /\ store' \in [Ids -> [Keys -> Entries \cup {None}]]
           /\ store'[i][k] = e
           /\ \A j \in Ids, l \in Keys : <<j, l>> # <<i, k>> => store'[j][l] = store[j][l]
BY DEF Typed

\* The saves under the keys are numbers.
LEMMA SavesAreNumbers ==
    ASSUME Typed, NEW i \in Ids
    PROVE  Large(i) \in Nat /\ Small(i) \in Nat
BY NoneIsZero DEF Keys, Large, Small

----------------------------------------------------------------------------
(* session_save                                                            *)

\* A save that sets a key.
LEMMA SetKeeps ==
    ASSUME SessionInv, NEW s \in Servers, s \in Redis, NEW i \in Ids, i = current[s],
           NEW k \in Keys, NEW valid \in BOOLEAN,
           NEW e, e = [save |-> saves + 1, valid |-> valid], Sets(i, k, e),
           Spoils("redis", i, ~valid \/ (k = "plain" /\ store[i]["z"] # None)),
           saves < MaxSaves, saves' = saves + 1,
           saved' = [saved EXCEPT !["redis"][i] = saves + 1],
           UNCHANGED <<rows, current, asked, seen>>
    PROVE  SessionInv'
<1> DEFINE bad == ~valid \/ (k = "plain" /\ store[i]["z"] # None)
<1>1. Typed /\ saves \in Nat /\ MaxSaves \in Nat
  BY SessionAssumption DEF SessionInv, Typed
<1>2. e \in Entries
  BY <1>1 DEF Entries
<1>3. /\ store' \in [Ids -> [Keys -> Entries \cup {None}]]
      /\ store'[i][k] = e
      /\ \A j \in Ids, l \in Keys : <<j, l>> # <<i, k>> => store'[j][l] = store[j][l]
  BY <1>1, <1>2 DEF Sets, Typed
<1>4. /\ spoiled' \in [Stores -> SUBSET Ids]
      /\ spoiled'["sqlite"] = spoiled["sqlite"]
      /\ \A j \in Ids : j # i => (j \in spoiled'["redis"] <=> j \in spoiled["redis"])
      /\ i \in spoiled'["redis"] <=> bad
  <2>1. spoiled' = [spoiled EXCEPT !["redis"] = IF bad THEN @ \cup {i} ELSE @ \ {i}]
    BY DEF Spoils
  <2> HIDE DEF bad
  <2>2. bad => spoiled' = [spoiled EXCEPT !["redis"] = @ \cup {i}]
    BY <2>1
  <2>3. ~bad => spoiled' = [spoiled EXCEPT !["redis"] = @ \ {i}]
    BY <2>1
  <2> QED
    BY <1>1, <2>2, <2>3 DEF Typed, Stores
<1>5. /\ saved' \in [Stores -> [Ids -> Nat]]
      /\ saved'["sqlite"] = saved["sqlite"]
      /\ saved'["redis"][i] = saves + 1
      /\ \A j \in Ids : j # i => saved'["redis"][j] = saved["redis"][j]
  BY <1>1 DEF Typed, Stores
<1>6. Typed'
  BY <1>1, <1>3, <1>4, <1>5 DEF Typed
<1>7. \A j \in Ids : j # i => Large(j)' = Large(j) /\ Small(j)' = Small(j)
  BY <1>3 DEF Keys, Large, Small
<1>8. /\ k = "z" => Large(i)' = saves + 1 /\ Small(i)' = Small(i)
      /\ k = "plain" => Small(i)' = saves + 1 /\ Large(i)' = Large(i)
  BY <1>3 DEF Keys, Large, Small
<1>9. \A j \in Ids : /\ Large(j) \in Nat /\ Small(j) \in Nat
                     /\ Large(j) <= saves /\ Small(j) <= saves /\ rows[j] \in Nat /\ rows[j] <= saves
                     /\ \A t \in Servers : seen[t][j] \in Nat /\ seen[t][j] <= saves
  BY <1>1, SavesAreNumbers DEF SessionInv, Typed, NothingFromTheFuture
<1>10. NothingFromTheFuture'
  BY <1>1, <1>7, <1>8, <1>9 DEF NothingFromTheFuture, Keys
<1>11. k = "plain" /\ ~bad => Large(i) = 0
  BY <1>1, NoneIsZero DEF Keys, Large
<1>12. LargeIsNewer'
  BY <1>1, <1>4, <1>7, <1>8, <1>9, <1>11 DEF SessionInv, Order, LargeIsNewer, Keys
<1>13. LargeNotOlder'
  BY <1>1, <1>4, <1>7, <1>8, <1>9, <1>11 DEF SessionInv, Order, LargeNotOlder, Keys
<1>14. LeftNotOlder'
  BY <1>1, <1>7, <1>8, <1>9 DEF SessionInv, Order, LeftNotOlder, Keys
<1>15. AskedNotOlder'
  <2> SUFFICES ASSUME NEW t \in Servers \cap Redis, NEW j \in asked[t], Small(j)' # 0
               PROVE  seen[t][j] <= Small(j)'
    BY DEF AskedNotOlder
  <2>1. j \in Ids
    BY <1>1 DEF Typed
  <2>2. Small(j)' = Small(j) \/ Small(j)' = saves + 1
    BY <1>7, <1>8, <2>1 DEF Keys
  <2> QED
    BY <1>1, <1>9, <2>1, <2>2 DEF SessionInv, Order, AskedNotOlder
<1>16. RowsStay' /\ OnlyRedisAsks' /\ RowsAreCurrent'
  BY <1>4, <1>5 DEF SessionInv, Order, RowsStay, OnlyRedisAsks, RowsAreCurrent
<1>17. KeysAreCurrent'
  <2> SUFFICES ASSUME NEW j \in Ids, j \notin spoiled'["redis"], saved'["redis"][j] # 0
               PROVE  LET f == IF store'[j]["z"] = None THEN store'[j]["plain"] ELSE store'[j]["z"]
                      IN  f.valid /\ f.save = saved'["redis"][j]
    BY DEF KeysAreCurrent
  <2>1. CASE j # i
    BY <1>3, <1>4, <1>5, <2>1 DEF SessionInv, KeysAreCurrent, Keys
  <2>2. CASE j = i
    <3>1. e # None
      BY <1>1 DEF None
    <3>2. k = "plain" => store'[i]["z"] = None
      BY <1>3, <1>4, <2>2 DEF Keys
    <3> QED
      BY <1>3, <1>4, <1>5, <2>2, <3>1, <3>2 DEF Keys
  <2> QED
    BY <2>1, <2>2
<1> QED
  BY <1>6, <1>10, <1>12, <1>13, <1>14, <1>15, <1>16, <1>17 DEF SessionInv, Order

\* A save that Redis refused.
LEMMA RefusalKeeps ==
    ASSUME SessionInv, NEW i \in Ids, Spoils("redis", i, TRUE), saves' = saves + 1,
           saved' = [saved EXCEPT !["redis"][i] = saves + 1],
           UNCHANGED <<store, rows, current, asked, seen>>
    PROVE  SessionInv'
<1>1. Typed /\ saves \in Nat
  BY DEF SessionInv, Typed
<1>2. /\ spoiled' \in [Stores -> SUBSET Ids]
      /\ spoiled'["sqlite"] = spoiled["sqlite"]
      /\ spoiled'["redis"] = spoiled["redis"] \cup {i}
  BY <1>1 DEF Spoils, Typed, Stores
<1>3. /\ saved' \in [Stores -> [Ids -> Nat]]
      /\ saved'["sqlite"] = saved["sqlite"]
      /\ \A j \in Ids : j # i => saved'["redis"][j] = saved["redis"][j]
  BY <1>1 DEF Typed, Stores
<1>4. Typed'
  BY <1>1, <1>2, <1>3 DEF Typed
<1>5. NothingFromTheFuture'
  <2>1. \A j \in Ids : /\ Large(j) \in Nat /\ Small(j) \in Nat /\ rows[j] \in Nat
                       /\ \A t \in Servers : seen[t][j] \in Nat
    BY <1>1, SavesAreNumbers DEF Typed
  <2> QED
    BY <1>1, <2>1 DEF SessionInv, NothingFromTheFuture, Large, Small
<1>6. Order' /\ OnlyRedisAsks'
  BY <1>2 DEF SessionInv, Order, LargeIsNewer, LargeNotOlder, LeftNotOlder, AskedNotOlder,
     RowsStay, OnlyRedisAsks, Large, Small
<1>7. KeysAreCurrent' /\ RowsAreCurrent'
  BY <1>2, <1>3 DEF SessionInv, KeysAreCurrent, RowsAreCurrent
<1> QED
  BY <1>4, <1>5, <1>6, <1>7 DEF SessionInv

\* A save without Redis inserts the first row and is refused, unseen, later.
LEMMA InsertKeeps ==
    ASSUME SessionInv, NEW s \in Servers, s \notin Redis, SaveInSqlite(s), saves' = saves + 1,
           saved' = [saved EXCEPT !["sqlite"][current[s]] = saves + 1],
           UNCHANGED <<current, asked, seen>>
    PROVE  SessionInv'
<1> DEFINE i == current[s]
<1>1. Typed /\ saves \in Nat /\ i \in Ids
  BY DEF SessionInv, Typed
<1>2. /\ spoiled' \in [Stores -> SUBSET Ids]
      /\ spoiled'["redis"] = spoiled["redis"]
      /\ \A j \in Ids : j # i => (j \in spoiled'["sqlite"] <=> j \in spoiled["sqlite"])
      /\ i \in spoiled'["sqlite"] <=> rows[i] # 0
  BY <1>1 DEF SaveInSqlite, Spoils, Typed, Stores
<1>3. /\ saved' \in [Stores -> [Ids -> Nat]]
      /\ saved'["redis"] = saved["redis"]
      /\ saved'["sqlite"][i] = saves + 1
      /\ \A j \in Ids : j # i => saved'["sqlite"][j] = saved["sqlite"][j]
  BY <1>1 DEF Typed, Stores
<1>4. /\ rows' \in [Ids -> Nat] /\ UNCHANGED store
      /\ rows'[i] = IF rows[i] = 0 THEN saves + 1 ELSE rows[i]
      /\ \A j \in Ids : j # i => rows'[j] = rows[j]
  BY <1>1 DEF SaveInSqlite, Inserts, Typed
<1>5. Typed'
  BY <1>1, <1>2, <1>3, <1>4 DEF Typed
<1>6. NothingFromTheFuture'
  <2>1. \A j \in Ids : /\ Large(j) \in Nat /\ Small(j) \in Nat /\ rows[j] \in Nat
                       /\ \A t \in Servers : seen[t][j] \in Nat
    BY <1>1, SavesAreNumbers DEF Typed
  <2>2. \A j \in Ids : rows'[j] <= saves + 1
    BY <1>1, <1>4, <2>1 DEF SessionInv, NothingFromTheFuture
  <2> QED
    BY <1>1, <1>4, <2>1, <2>2 DEF SessionInv, NothingFromTheFuture, Large, Small
<1>7. LargeIsNewer' /\ LargeNotOlder' /\ LeftNotOlder' /\ AskedNotOlder' /\ OnlyRedisAsks'
  BY <1>2, <1>4 DEF SessionInv, Order, LargeIsNewer, LargeNotOlder, LeftNotOlder,
     AskedNotOlder, OnlyRedisAsks, Large, Small
<1>8. RowsStay'
  BY <1>1, <1>4 DEF SessionInv, Order, RowsStay, Typed
<1>9. KeysAreCurrent'
  BY <1>2, <1>3, <1>4 DEF SessionInv, KeysAreCurrent
<1>10. RowsAreCurrent'
  BY <1>1, <1>2, <1>3, <1>4 DEF SessionInv, RowsAreCurrent
<1> QED
  BY <1>5, <1>6, <1>7, <1>8, <1>9, <1>10 DEF SessionInv, Order

LEMMA SaveKeeps ==
    ASSUME SessionInv, NEW s \in Servers, Save(s)
    PROVE  SessionInv'
<1>1. current[s] \in Ids
  BY DEF SessionInv, Typed
<1>2. CASE SaveInRedis(s)
  <2>1. s \in Redis /\ StoreOf(s) = "redis"
    BY <1>2 DEF SaveInRedis, StoreOf
  <2>2. CASE \E k \in Keys, valid \in BOOLEAN :
                /\ Sets(current[s], k, [save |-> saves + 1, valid |-> valid])
                /\ Spoils("redis", current[s],
                          ~valid \/ (k = "plain" /\ store[current[s]]["z"] # None))
    <3>1. PICK k \in Keys, valid \in BOOLEAN :
                /\ Sets(current[s], k, [save |-> saves + 1, valid |-> valid])
                /\ Spoils("redis", current[s],
                          ~valid \/ (k = "plain" /\ store[current[s]]["z"] # None))
      BY <2>2
    <3> QED
      BY <1>1, <1>2, <2>1, <3>1, SetKeeps DEF Save, SaveInRedis
  <2>3. CASE Spoils("redis", current[s], TRUE) /\ UNCHANGED store
    BY <1>1, <1>2, <2>1, <2>3, RefusalKeeps DEF Save, SaveInRedis
  <2> QED
    BY <1>2, <2>2, <2>3 DEF SaveInRedis
<1>3. CASE SaveInSqlite(s)
  BY <1>3, InsertKeeps DEF Save, SaveInSqlite, StoreOf
<1> QED
  BY <1>2, <1>3 DEF Save

----------------------------------------------------------------------------
(* Expiry                                                                  *)

\* Keys expire in the order they were set, so what is left is not older.
LEMMA ExpireKeeps ==
    ASSUME SessionInv, NEW i \in Ids, NEW k \in Keys, Expire(i, k)
    PROVE  SessionInv'
<1>1. Typed /\ None \in Entries \cup {None} /\ None.save = 0
  BY DEF SessionInv, None
<1>2. /\ store' \in [Ids -> [Keys -> Entries \cup {None}]]
      /\ store'[i][k] = None
      /\ \A j \in Ids, l \in Keys : <<j, l>> # <<i, k>> => store'[j][l] = store[j][l]
  <2>1. store' = [store EXCEPT ![i][k] = None]
    BY DEF Expire
  <2>2. store \in [Ids -> [Keys -> Entries \cup {None}]]
    BY <1>1 DEF Typed
  <2> QED
    BY <1>1, <2>1, <2>2
<1>3. /\ saved' \in [Stores -> [Ids -> Nat]]
      /\ saved'["sqlite"] = saved["sqlite"]
      /\ saved'["redis"][i] = IF saved["redis"][i] = store[i][k].save THEN 0 ELSE saved["redis"][i]
      /\ \A j \in Ids : j # i => saved'["redis"][j] = saved["redis"][j]
  BY <1>1 DEF Expire, Typed, Stores
<1>4. UNCHANGED <<rows, current, asked, saves, spoiled, seen>>
  BY DEF Expire
<1>5. Typed'
  BY <1>1, <1>2, <1>3, <1>4 DEF Typed
<1>6. \A j \in Ids : j # i => Large(j)' = Large(j) /\ Small(j)' = Small(j)
  BY <1>2 DEF Keys, Large, Small
<1>7. /\ k = "z" => Large(i)' = 0 /\ Small(i)' = Small(i)
      /\ k = "plain" => Small(i)' = 0 /\ Large(i)' = Large(i)
  BY <1>1, <1>2 DEF Keys, Large, Small
<1>8. \A j \in Ids : /\ Large(j) \in Nat /\ Small(j) \in Nat
                     /\ \A t \in Servers : seen[t][j] \in Nat
  BY <1>1, SavesAreNumbers DEF Typed
<1>9. \A l \in Keys : store[i][l].save = 0 \/ store[i][k].save <= store[i][l].save
  BY <1>1, NoneIsZero DEF Expire
<1>10. /\ k = "z" => Small(i) = 0 \/ Large(i) <= Small(i)
       /\ k = "plain" => Large(i) = 0 \/ Small(i) <= Large(i)
  BY <1>9 DEF Keys, Large, Small
<1>11. NothingFromTheFuture'
  <2>1. \A j \in Ids : Large(j)' \in {0, Large(j)} /\ Small(j)' \in {0, Small(j)}
    BY <1>6, <1>7 DEF Keys
  <2>2. saves \in Nat
    BY <1>1 DEF Typed
  <2> QED
    BY <1>4, <2>1, <2>2 DEF SessionInv, NothingFromTheFuture
<1>12. LargeIsNewer'
  BY <1>4, <1>6, <1>7, <1>8 DEF SessionInv, Order, LargeIsNewer, Keys
<1>13. LargeNotOlder'
  BY <1>4, <1>6, <1>7 DEF SessionInv, Order, LargeNotOlder, Keys
<1>14. LeftNotOlder'
  BY <1>4, <1>6, <1>7, <1>8, <1>10 DEF SessionInv, Order, LeftNotOlder, Keys
<1>15. AskedNotOlder'
  BY <1>1, <1>4, <1>6, <1>7 DEF SessionInv, Order, AskedNotOlder, Keys, Typed
<1>16. RowsStay' /\ OnlyRedisAsks' /\ RowsAreCurrent'
  BY <1>3, <1>4 DEF SessionInv, Order, RowsStay, OnlyRedisAsks, RowsAreCurrent
<1>17. KeysAreCurrent'
  <2> SUFFICES ASSUME NEW j \in Ids, j \notin spoiled["redis"], saved'["redis"][j] # 0
               PROVE  LET f == IF store'[j]["z"] = None THEN store'[j]["plain"] ELSE store'[j]["z"]
                      IN  f.valid /\ f.save = saved'["redis"][j]
    BY <1>4 DEF KeysAreCurrent
  <2>1. CASE j # i
    BY <1>2, <1>3, <2>1 DEF SessionInv, KeysAreCurrent, Keys
  <2>2. CASE j = i
    <3>1. saved'["redis"][i] = saved["redis"][i] /\ saved["redis"][i] # store[i][k].save
      BY <1>3, <2>2
    <3>2. LET f == IF store[i]["z"] = None THEN store[i]["plain"] ELSE store[i]["z"]
          IN  f.valid /\ f.save = saved["redis"][i]
      BY <2>2, <3>1 DEF SessionInv, KeysAreCurrent
    <3>3. CASE k = "z"
      BY <3>1, <3>2, <3>3 DEF Expire
    <3>4. CASE k = "plain"
      BY <1>2, <2>2, <3>1, <3>2, <3>4 DEF Keys
    <3> QED
      BY <3>3, <3>4 DEF Keys
  <2> QED
    BY <2>1, <2>2
<1> QED
  BY <1>5, <1>11, <1>12, <1>13, <1>14, <1>15, <1>16, <1>17 DEF SessionInv, Order

----------------------------------------------------------------------------
(* session_restore                                                         *)

\* What a restore leaves alone.
LEMMA RestoreTouchesNoStore ==
    ASSUME SessionInv, Typed', UNCHANGED <<store, rows, saves, saved, spoiled>>
    PROVE  LargeIsNewer' /\ KeysAreCurrent' /\ RowsAreCurrent'
BY DEF SessionInv, Order, LargeIsNewer, KeysAreCurrent, RowsAreCurrent, Large, Small

\* A server restores a save that is not older than what it has seen of an
\* unspoiled session, or it only forgets what it has asked for.
LEMMA SeeingKeeps ==
    ASSUME SessionInv, NEW s \in Servers, NEW i \in Ids, NEW save \in Nat,
           Restores(s, i, save), save <= saves,
           asked' \in [Servers -> SUBSET Ids], asked'[s] = {},
           \A t \in Servers : t # s => asked'[t] = asked[t],
           s \in Redis => /\ i \notin spoiled["redis"] /\ Large(i) # 0 => save <= Large(i)
                          /\ save <= Large(i) \/ save <= Small(i),
           s \notin Redis => save = rows[i],
           UNCHANGED <<store, rows, saves, saved, spoiled>>
    PROVE  SessionInv'
<1>1. Typed
  BY DEF SessionInv
<1>2. /\ seen' \in [Servers -> [Ids -> Nat]]
      /\ seen'[s][i] = save
      /\ \A t \in Servers, j \in Ids : <<t, j>> # <<s, i>> => seen'[t][j] = seen[t][j]
  BY <1>1 DEF Restores, Typed
<1>3. current' \in [Servers -> Ids]
  BY <1>1 DEF Restores, Typed
<1>4. Typed'
  BY <1>1, <1>2, <1>3 DEF Typed
<1>5. \A j \in Ids : Large(j)' = Large(j) /\ Small(j)' = Small(j)
  BY DEF Large, Small
<1>6. NothingFromTheFuture'
  BY <1>2, <1>5 DEF SessionInv, NothingFromTheFuture
<1>7. LargeNotOlder'
  BY <1>2, <1>5 DEF SessionInv, Order, LargeNotOlder
<1>8. LeftNotOlder'
  BY <1>2, <1>5 DEF SessionInv, Order, LeftNotOlder
<1>9. AskedNotOlder'
  <2> SUFFICES ASSUME NEW t \in Servers \cap Redis, NEW j \in asked'[t], Small(j)' # 0
               PROVE  seen'[t][j] <= Small(j)'
    BY DEF AskedNotOlder
  <2>1. t # s /\ j \in asked[t] /\ j \in Ids
    OBVIOUS
  <2>2. seen'[t][j] = seen[t][j] /\ Small(j)' = Small(j)
    BY <1>2, <1>5, <2>1
  <2> QED
    BY <2>1, <2>2 DEF SessionInv, Order, AskedNotOlder
<1>10. RowsStay' /\ OnlyRedisAsks'
  BY <1>2 DEF SessionInv, Order, RowsStay, OnlyRedisAsks
<1>11. LargeIsNewer' /\ KeysAreCurrent' /\ RowsAreCurrent'
  BY <1>4, RestoreTouchesNoStore
<1> QED
  BY <1>4, <1>6, <1>7, <1>8, <1>9, <1>10, <1>11 DEF SessionInv, Order

\* A server asks for the second key, or gives up: nothing was restored.
LEMMA AskingKeeps ==
    ASSUME SessionInv, NEW s \in Servers, s \in Redis, NEW ids \in SUBSET Ids,
           asked' = [asked EXCEPT ![s] = ids], \A i \in ids : Large(i) = 0,
           UNCHANGED <<store, rows, current, saves, saved, spoiled, seen>>
    PROVE  SessionInv'
<1>1. Typed
  BY DEF SessionInv
<1>2. /\ asked' \in [Servers -> SUBSET Ids] /\ asked'[s] = ids
      /\ \A t \in Servers : t # s => asked'[t] = asked[t]
  BY <1>1 DEF Typed
<1>3. Typed'
  BY <1>1, <1>2 DEF Typed
<1>4. \A j \in Ids : /\ Large(j)' = Large(j) /\ Small(j)' = Small(j)
                     /\ Small(j) \in Nat /\ \A t \in Servers : seen[t][j] \in Nat
  BY <1>1, SavesAreNumbers DEF Large, Small, Typed
<1>5. AskedNotOlder'
  <2> SUFFICES ASSUME NEW t \in Servers \cap Redis, NEW i \in asked'[t], Small(i) # 0
               PROVE  seen[t][i] <= Small(i)
    BY <1>2, <1>4 DEF AskedNotOlder
  <2>0. i \in Ids
    BY <1>2
  <2>1. CASE t = s
    <3>1. seen[t][i] <= Large(i) \/ seen[t][i] <= Small(i)
      BY <2>0 DEF SessionInv, Order, LeftNotOlder
    <3> QED
      BY <1>2, <1>4, <2>0, <2>1, <3>1
  <2>2. CASE t # s
    BY <1>2, <2>2 DEF SessionInv, Order, AskedNotOlder
  <2> QED
    BY <2>1, <2>2
<1>6. NothingFromTheFuture' /\ LargeNotOlder' /\ LeftNotOlder' /\ RowsStay'
  BY <1>4 DEF SessionInv, Order, NothingFromTheFuture, LargeNotOlder, LeftNotOlder, RowsStay
<1>7. OnlyRedisAsks'
  BY <1>2 DEF SessionInv, OnlyRedisAsks
<1>8. LargeIsNewer' /\ KeysAreCurrent' /\ RowsAreCurrent'
  BY <1>3, RestoreTouchesNoStore
<1> QED
  BY <1>3, <1>5, <1>6, <1>7, <1>8 DEF SessionInv, Order

LEMMA RestoreCompressedKeeps ==
    ASSUME SessionInv, NEW s \in Servers, NEW i \in Ids, RestoreCompressed(s, i)
    PROVE  SessionInv'
<1>1. Typed /\ s \in Redis /\ asked[s] = {} /\ UNCHANGED <<store, rows, saves, saved, spoiled>>
  BY DEF SessionInv, RestoreCompressed, Idle
<1>2. CASE store[i]["z"] = None
  <2>1. asked' = [asked EXCEPT ![s] = {i}] /\ UNCHANGED <<current, seen>>
    BY <1>2 DEF RestoreCompressed
  <2>2. Large(i) = 0
    BY <1>2 DEF Large, None
  <2> QED
    BY <1>1, <2>1, <2>2, AskingKeeps
<1>3. CASE store[i]["z"] # None
  <2>1. Restores(s, i, Large(i)) /\ UNCHANGED asked
    BY <1>3 DEF RestoreCompressed, Large
  <2>2. Large(i) \in Nat /\ Large(i) <= saves
    BY <1>1, SavesAreNumbers DEF SessionInv, NothingFromTheFuture
  <2>3. asked' \in [Servers -> SUBSET Ids]
    BY <1>1, <2>1 DEF Typed
  <2> QED
    BY <1>1, <2>1, <2>2, <2>3, SeeingKeeps
<1> QED
  BY <1>2, <1>3

LEMMA RestorePlainKeeps ==
    ASSUME SessionInv, NEW s \in Servers, RestorePlain(s)
    PROVE  SessionInv'
<1>1. PICK i \in asked[s] : LET e == store[i]["plain"]
                            IN  IF Found(e) THEN Restores(s, i, e.save)
                                ELSE UNCHANGED <<current, seen>>
  BY DEF RestorePlain
<1>2. Typed /\ asked' = [asked EXCEPT ![s] = {}] /\ UNCHANGED <<store, rows, saves, saved, spoiled>>
  BY DEF SessionInv, RestorePlain
<1>3. i \in Ids /\ s \in Redis
  BY <1>2 DEF SessionInv, OnlyRedisAsks, Typed
<1>4. CASE Found(store[i]["plain"])
  <2>1. Restores(s, i, Small(i)) /\ Small(i) # 0
    BY <1>1, <1>2, <1>3, <1>4, NoneIsZero DEF Found, Small, Keys
  <2>2. /\ Small(i) \in Nat /\ Large(i) \in Nat /\ Small(i) <= saves
        /\ i \notin spoiled["redis"] /\ Large(i) # 0 => Small(i) <= Large(i)
    BY <1>2, <1>3, SavesAreNumbers DEF SessionInv, Order, NothingFromTheFuture, LargeIsNewer
  <2>3. /\ asked' \in [Servers -> SUBSET Ids] /\ asked'[s] = {}
        /\ \A t \in Servers : t # s => asked'[t] = asked[t]
    BY <1>2 DEF Typed
  <2> QED
    BY <1>2, <1>3, <2>1, <2>2, <2>3, SeeingKeeps
<1>5. CASE ~Found(store[i]["plain"])
  BY <1>1, <1>2, <1>3, <1>5, AskingKeeps
<1> QED
  BY <1>4, <1>5

LEMMA RestoreRowKeeps ==
    ASSUME SessionInv, NEW s \in Servers, NEW i \in Ids, RestoreRow(s, i)
    PROVE  SessionInv'
<1>1. /\ Typed /\ s \notin Redis /\ Restores(s, i, rows[i])
      /\ UNCHANGED <<store, rows, asked, saves, saved, spoiled>>
  BY DEF SessionInv, RestoreRow
<1>2. rows[i] \in Nat /\ rows[i] <= saves
  BY <1>1 DEF SessionInv, NothingFromTheFuture, Typed
<1>3. asked' \in [Servers -> SUBSET Ids] /\ asked'[s] = {}
  BY <1>1 DEF SessionInv, OnlyRedisAsks, Typed
<1> QED
  BY <1>1, <1>2, <1>3, SeeingKeeps

LEMMA InvHolds == Spec => []SessionInv
<1>1. Init => SessionInv
  <2> SUFFICES ASSUME Init PROVE SessionInv
    OBVIOUS
  <2>1. Typed
    BY SessionAssumption DEF Init, Typed
  <2>2. \A i \in Ids, k \in Keys : store[i][k] = None
    BY DEF Init
  <2>3. \A i \in Ids : Large(i) = 0 /\ Small(i) = 0
    BY <2>2 DEF Large, Small, None, Keys
  <2>4. NothingFromTheFuture /\ OnlyRedisAsks
    BY <2>3 DEF Init, NothingFromTheFuture, OnlyRedisAsks
  <2>5. Order
    BY <2>3 DEF Init, Order, LargeIsNewer, LargeNotOlder, LeftNotOlder, AskedNotOlder, RowsStay
  <2>6. KeysAreCurrent /\ RowsAreCurrent
    BY DEF Init, KeysAreCurrent, RowsAreCurrent, Stores
  <2> QED
    BY <2>1, <2>4, <2>5, <2>6 DEF SessionInv
<1>2. SessionInv /\ [Next]_vars => SessionInv'
  <2> SUFFICES ASSUME SessionInv, [Next]_vars PROVE SessionInv'
    OBVIOUS
  <2>1. ASSUME NEW s \in Servers, Save(s) PROVE SessionInv'
    BY <2>1, SaveKeeps
  <2>2. ASSUME NEW s \in Servers, RestorePlain(s) PROVE SessionInv'
    BY <2>2, RestorePlainKeeps
  <2>3. ASSUME NEW s \in Servers, NEW i \in Ids, RestoreCompressed(s, i) PROVE SessionInv'
    BY <2>3, RestoreCompressedKeeps
  <2>4. ASSUME NEW s \in Servers, NEW i \in Ids, RestoreRow(s, i) PROVE SessionInv'
    BY <2>4, RestoreRowKeeps
  <2>5. ASSUME NEW i \in Ids, NEW k \in Keys, Expire(i, k) PROVE SessionInv'
    BY <2>5, ExpireKeeps
  <2>6. CASE UNCHANGED vars
    <3>1. Typed' /\ NothingFromTheFuture' /\ OnlyRedisAsks'
      BY <2>6 DEF vars, SessionInv, Typed, NothingFromTheFuture, OnlyRedisAsks, Large, Small
    <3>2. Order'
      BY <2>6 DEF vars, SessionInv, Order, LargeIsNewer, LargeNotOlder, LeftNotOlder,
         AskedNotOlder, RowsStay, Large, Small
    <3>3. KeysAreCurrent' /\ RowsAreCurrent'
      BY <2>6 DEF vars, SessionInv, KeysAreCurrent, RowsAreCurrent
    <3> QED
      BY <3>1, <3>2, <3>3 DEF SessionInv
  <2> QED
    BY <2>1, <2>2, <2>3, <2>4, <2>5, <2>6 DEF Next
<1> QED
  BY <1>1, <1>2, PTL DEF Spec

----------------------------------------------------------------------------

\* "Persist current session state for later restoration": a restore gives the
\* last save of a session, to any server, unless that save was spoiled.
THEOREM RestoreGivesLastSave == Spec => []RestoreIsCurrent
<1>1. SessionInv => RestoreIsCurrent
  <2> SUFFICES ASSUME SessionInv, NEW s \in Servers, NEW i \in Ids,
                      saved[StoreOf(s)][i] # 0, i \notin spoiled[StoreOf(s)]
               PROVE  Restored(s, i) = saved[StoreOf(s)][i]
    BY DEF RestoreIsCurrent
  <2>1. CASE s \in Redis
    <3>1. LET e == IF store[i]["z"] = None THEN store[i]["plain"] ELSE store[i]["z"]
          IN  e.valid /\ e.save = saved["redis"][i]
      BY <2>1 DEF SessionInv, KeysAreCurrent, StoreOf
    <3>2. None.save = 0
      BY DEF None
    <3> QED
      BY <2>1, <3>1, <3>2 DEF Restored, Found, StoreOf
  <2>2. CASE s \notin Redis
    BY <2>2 DEF SessionInv, RowsAreCurrent, Restored, StoreOf
  <2> QED
    BY <2>1, <2>2
<1> QED
  BY <1>1, InvHolds, PTL

\* No server ever restores an older state of an unspoiled session than it
\* did before, whatever expires and whoever saves between its two GETs.
THEOREM NeverBack == Spec => RestoreNeverGoesBack
<1>1. SessionInv /\ [Next]_vars =>
        [\A s \in Servers : \A i \in Ids \ spoiled[StoreOf(s)] :
            seen'[s][i] # 0 => seen'[s][i] >= seen[s][i]]_seen
  <2> SUFFICES ASSUME SessionInv, [Next]_vars, NEW s \in Servers,
                      NEW i \in Ids \ spoiled[StoreOf(s)], seen' # seen
               PROVE  seen'[s][i] >= seen[s][i]
    OBVIOUS
  <2>0. /\ Typed /\ seen[s][i] \in Nat
        /\ Large(i) \in Nat /\ Small(i) \in Nat
    BY SavesAreNumbers DEF SessionInv, Typed
  <2>1. ASSUME NEW t \in Servers, NEW j \in Ids, NEW save \in Nat, Restores(t, j, save),
               t = s /\ j = i => save >= seen[s][i]
        PROVE  seen'[s][i] >= seen[s][i]
    BY <2>0, <2>1 DEF Restores, Typed
  <2>2. ASSUME NEW t \in Servers, RestorePlain(t) PROVE seen'[s][i] >= seen[s][i]
    <3>1. PICK j \in asked[t] : LET e == store[j]["plain"]
                                IN  IF Found(e) THEN Restores(t, j, e.save)
                                    ELSE UNCHANGED <<current, seen>>
      BY <2>2 DEF RestorePlain
    <3>2. j \in Ids /\ t \in Redis
      BY <2>0 DEF SessionInv, OnlyRedisAsks, Typed
    <3>3. Restores(t, j, Small(j)) /\ Small(j) # 0
      BY <2>0, <3>1, <3>2, NoneIsZero DEF Found, Small, Keys
    <3>4. Small(j) \in Nat /\ seen[t][j] <= Small(j)
      BY <2>0, <3>2, <3>3, SavesAreNumbers DEF SessionInv, Order, AskedNotOlder
    <3> QED
      BY <2>0, <2>1, <3>2, <3>3, <3>4
  <2>3. ASSUME NEW t \in Servers, NEW j \in Ids, RestoreCompressed(t, j)
        PROVE  seen'[s][i] >= seen[s][i]
    <3>1. t \in Redis /\ Restores(t, j, Large(j)) /\ store[j]["z"] # None
      BY <2>3 DEF RestoreCompressed, Large
    <3>2. Large(j) \in Nat /\ Large(j) # 0
      BY <2>0, <3>1, NoneIsZero DEF Keys, Large
    <3>3. t = s /\ j = i => seen[s][i] <= Large(j)
      BY <3>1, <3>2 DEF SessionInv, Order, LargeNotOlder, StoreOf
    <3> QED
      BY <2>0, <2>1, <3>1, <3>2, <3>3
  <2>4. ASSUME NEW t \in Servers, NEW j \in Ids, RestoreRow(t, j)
        PROVE  seen'[s][i] >= seen[s][i]
    <3>1. t \notin Redis /\ Restores(t, j, rows[j]) /\ rows[j] \in Nat
      BY <2>0, <2>4 DEF RestoreRow, Typed
    <3>2. seen[t][j] \in {0, rows[j]}
      BY <3>1 DEF SessionInv, Order, RowsStay
    <3> QED
      BY <2>0, <2>1, <3>1, <3>2
  <2> QED
    BY <2>2, <2>3, <2>4 DEF Next, Save, Expire, vars
<1> QED
  BY <1>1, InvHolds, PTL DEF Spec, RestoreNeverGoesBack
=============================================================================
