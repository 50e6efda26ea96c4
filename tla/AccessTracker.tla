--------------------------- MODULE AccessTracker ---------------------------
(***************************************************************************)
(* access_tracker.AccessTracker as operators on its state.  A document's   *)
(* accesses are counted in a Redis hash when Redis answers and in a local  *)
(* LRU cache when it does not; content_size is stored with the count and   *)
(* is a constant of the document, so only the counts are kept here.        *)
(***************************************************************************)
EXTENDS Naturals, Sequences, SequencesExt

CONSTANTS Docs,     \* document ids
          MaxLocal  \* AccessTracker._max_cache_size

ASSUME MaxLocalAssumption == MaxLocal \in Nat \ {0}

\* redis: the hash access:<id>, 0 when there is none.  local: the entries of
\* _local_cache, 0 when there is none.  lru: their order, oldest first.
Tracker == [redis : [Docs -> Nat], local : [Docs -> Nat], lru : Seq(Docs)]

NoAccesses == [redis |-> [d \in Docs |-> 0],
               local |-> [d \in Docs |-> 0],
               lru   |-> <<>>]

Cached(t, d) == \E i \in DOMAIN t.lru : t.lru[i] = d

\* move_to_end for a document that is cached.
MoveToEnd(lru, d) ==
    Append(RemoveAt(lru, CHOOSE i \in DOMAIN lru : lru[i] = d), d)

\* The tracker with another local cache.
WithLocal(t, local, lru) == [redis |-> t.redis, local |-> local, lru |-> lru]

WithRedisCount(t, d, count) ==
    [redis |-> [t.redis EXCEPT ![d] = count], local |-> t.local, lru |-> t.lru]

\* Room for one more entry: the oldest one is evicted when the cache is full.
Evicted(t) ==
    IF Len(t.lru) >= MaxLocal
    THEN WithLocal(t, [t.local EXCEPT ![Head(t.lru)] = 0], Tail(t.lru))
    ELSE t

\* A cached entry becomes the most recent one; a new one may evict another.
CountLocally(t, d) ==
    LET room == Evicted(t)
    IN  IF Cached(t, d)
        THEN WithLocal(t, [t.local EXCEPT ![d] = @ + 1], MoveToEnd(t.lru, d))
        ELSE WithLocal(room, [room.local EXCEPT ![d] = 1], Append(room.lru, d))

CountInRedis(t, d) == WithRedisCount(t, d, t.redis[d] + 1)

\* record_access.  The Redis pipeline is one transaction: it commits, or it
\* fails, or it commits and its answer is lost; both failures are counted in
\* the local cache, the second one for a second time.
AfterRecord(t, d) ==
    {CountInRedis(t, d), CountLocally(t, d), CountLocally(CountInRedis(t, d), d)}

\* Mutant: what both places have counted is added up.
AfterReadOfBoth(t, d) == {[count |-> t.redis[d] + t.local[d], tracker |-> t]}

\* get_stats.  The count comes from Redis when it answers and has the key,
\* otherwise from the local cache, whose entry becomes the most recent one.
AfterRead(t, d) ==
    LET read      == IF Cached(t, d) THEN WithLocal(t, t.local, MoveToEnd(t.lru, d)) ELSE t
        fromLocal == [count |-> t.local[d], tracker |-> read]
        fromRedis == [count |-> t.redis[d], tracker |-> t]
    IN  {fromLocal} \cup {r \in {fromRedis} : t.redis[d] > 0}

\* The 24-hour TTL of the hash, which every pipeline renews.
Expired(t, d) == WithRedisCount(t, d, 0)

\* What a restart of the process leaves: Redis keeps its hashes.
LocalLost(t) == WithLocal(t, NoAccesses.local, NoAccesses.lru)
=============================================================================
