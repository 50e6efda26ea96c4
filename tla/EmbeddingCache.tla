--------------------------- MODULE EmbeddingCache ---------------------------
(***************************************************************************)
(* embedding_cache.py: one text's embedding in two tiers.  Redis is read   *)
(* and written without a lock, SQLite under one, and a vector found in     *)
(* SQLite is promoted to Redis under the same lock.  What is written to    *)
(* Redis while it is not connected is left out without a word.             *)
(*                                                                         *)
(* A vector is a number: the later it was given to set, the greater.       *)
(***************************************************************************)
EXTENDS Naturals

CONSTANTS Callers, MaxVectors

VARIABLES
    redis, sqlite,  \* the vector in each tier, 0 if there is none
    held,           \* _lock is held: by a get that is promoting
    at,             \* the step a caller is at
    vector,         \* the vector it writes or promotes
    made,           \* vectors so far
    quiet,          \* history: no other call was under way since this one began,
                    \* and neither tier has failed it
    oldest          \* history: no older vector may be given

vectorVars == <<redis, sqlite, held, at, vector, made, quiet, oldest>>

VectorInit ==
    /\ redis = 0 /\ sqlite = 0 /\ held = FALSE
    /\ at = [c \in Callers |-> "idle"] /\ vector = [c \in Callers |-> 0] /\ made = 0
    /\ quiet = [c \in Callers |-> FALSE] /\ oldest = 1

Begin(c, s) ==
    /\ at[c] = "idle" /\ at' = [at EXCEPT ![c] = s]
    /\ quiet' = [b \in Callers |-> b = c /\ \A d \in Callers \ {c} : at[d] = "idle"]

CallerGoes(c, s) == at' = [at EXCEPT ![c] = s]
CallerLeaves(c) ==
    /\ CallerGoes(c, "idle")
    /\ vector' = [vector EXCEPT ![c] = 0] /\ quiet' = [quiet EXCEPT ![c] = FALSE]
-----------------------------------------------------------------------------
(* get: Redis, which may fail, and then SQLite.                            *)

GetVector(c) ==
    /\ Begin(c, "select")
    /\ UNCHANGED <<redis, sqlite, held, vector, made, oldest>>

GetFromRedis(c) ==
    /\ at[c] = "idle" /\ redis # 0
    /\ quiet' = [b \in Callers |-> FALSE]
    /\ UNCHANGED <<redis, sqlite, held, at, vector, made, oldest>>

\* The row is read and its access counted, which may fail.
Select(c) ==
    /\ at[c] = "select" /\ ~held
    /\ \/ sqlite # 0 /\ held' = TRUE /\ CallerGoes(c, "promote")
          /\ vector' = [vector EXCEPT ![c] = sqlite] /\ UNCHANGED quiet
       \/ CallerLeaves(c) /\ UNCHANGED held
    /\ UNCHANGED <<redis, sqlite, made, oldest>>

Promote(c) ==
    /\ at[c] = "promote"
    /\ redis' \in {redis, vector[c]}
    /\ held' = FALSE /\ CallerLeaves(c)
    /\ UNCHANGED <<sqlite, made, oldest>>
-----------------------------------------------------------------------------
(* set and delete: Redis first, then SQLite.                               *)

SetVector(c) ==
    /\ made < MaxVectors /\ made' = made + 1
    /\ Begin(c, "set redis") /\ vector' = [vector EXCEPT ![c] = made']
    /\ UNCHANGED <<redis, sqlite, held, oldest>>

\* Mutant: Redis is given a vector only when it has none.
SetRedisIfAbsent(c) ==
    /\ at[c] = "set redis" /\ CallerGoes(c, "set sqlite")
    /\ redis' = IF redis = 0 THEN vector[c] ELSE redis
    /\ UNCHANGED <<sqlite, held, vector, made, quiet, oldest>>

SetRedis(c) ==
    /\ at[c] = "set redis" /\ CallerGoes(c, "set sqlite")
    /\ \/ redis' = vector[c] /\ UNCHANGED quiet
       \/ redis' \in {redis, vector[c]} /\ quiet' = [quiet EXCEPT ![c] = FALSE]
    /\ UNCHANGED <<sqlite, held, vector, made, oldest>>

SetSqlite(c) ==
    /\ at[c] = "set sqlite" /\ ~held /\ CallerLeaves(c)
    /\ \/ sqlite' = vector[c] /\ oldest' = IF quiet[c] THEN vector[c] ELSE oldest
       \/ UNCHANGED <<sqlite, oldest>>
    /\ UNCHANGED <<redis, held, made>>

\* Mutant: what SQLite does not have is taken to be in neither tier.
DeleteIfInSqlite(c) ==
    /\ Begin(c, "delete sqlite")
    /\ redis' = IF sqlite # 0 THEN 0 ELSE redis
    /\ UNCHANGED <<sqlite, held, vector, made, oldest>>

DeleteVector(c) ==
    /\ Begin(c, "delete sqlite") /\ redis' = 0
    /\ UNCHANGED <<sqlite, held, vector, made, oldest>>

\* Redis is not connected or fails, with or without effect: delete goes on with SQLite.
DeleteWithoutRedis(c) ==
    /\ at[c] = "idle" /\ CallerGoes(c, "delete sqlite") /\ redis' \in {redis, 0}
    /\ quiet' = [b \in Callers |-> FALSE]
    /\ UNCHANGED <<sqlite, held, vector, made, oldest>>

DeleteSqlite(c) ==
    /\ at[c] = "delete sqlite" /\ ~held /\ CallerLeaves(c)
    /\ \/ sqlite' = 0 /\ oldest' = IF quiet[c] THEN made + 1 ELSE oldest
       \/ UNCHANGED <<sqlite, oldest>>
    /\ UNCHANGED <<redis, held, made>>
-----------------------------------------------------------------------------
\* clear and prune take rows from SQLite; neither touches Redis, clear("redis") too.
ClearVectors ==
    /\ ~held /\ sqlite # 0 /\ sqlite' = 0
    /\ UNCHANGED <<redis, held, at, vector, made, quiet, oldest>>
Prune == ClearVectors

RedisExpires ==
    /\ redis # 0 /\ redis' = 0
    /\ UNCHANGED <<sqlite, held, at, vector, made, quiet, oldest>>

VectorNext ==
    \/ ClearVectors \/ Prune \/ RedisExpires
    \/ \E c \in Callers :
         \/ GetVector(c) \/ GetFromRedis(c) \/ Select(c) \/ Promote(c)
         \/ SetVector(c) \/ SetRedis(c) \/ SetSqlite(c)
         \/ DeleteVector(c) \/ DeleteWithoutRedis(c) \/ DeleteSqlite(c)

VectorSpec == VectorInit /\ [][VectorNext]_vectorVars
-----------------------------------------------------------------------------
\* Once a set or a delete has reached both tiers while no other call was under way,
\* neither tier gives an older vector: not when the other tier's entry expires or is
\* cleared, and not when one is promoted.
NoOlderVector ==
    /\ redis # 0 => redis >= oldest
    /\ sqlite # 0 => sqlite >= oldest

\* What a get may give, now or once a promotion or a set that is under way has ended.
Kept == ({redis, sqlite} \cup {vector[c] : c \in Callers}) \ {0}

Ideal == INSTANCE VectorStore WITH kept <- Kept

\* "Two-tier caching system for embeddings": whoever reads, promotes, sets, deletes and
\* clears at the same time, and whatever either tier loses, the two tiers are one store of
\* vectors: one that both have lost does not come back, and a set or a delete that had the
\* tiers to itself leaves no other vector in either.
ImplementsVectorStore == Ideal!Spec
=============================================================================
