------------------------------ MODULE HotTier ------------------------------
(***************************************************************************)
(* redis_client.py: the connection that the threads of a server share, the *)
(* context window of a session, and what is cached under single keys.      *)
(*                                                                         *)
(* A call is cut where another thread, another server or an outage can     *)
(* come in between: the test of the connection, each attempt to connect,   *)
(* each Redis command.  A command that Redis does not answer in time is    *)
(* sent again by the client library, so it can take effect twice, and a    *)
(* command whose answer is lost in an outage has taken effect or has not.  *)
(***************************************************************************)
EXTENDS Naturals

CONSTANTS Users, NoUser, Kinds, MaxTries, MaxSize, MaxLen, MaxOutages

ASSUME HotAssumption == MaxSize \in Nat

VARIABLES
    up, outages,    \* whether Redis can be reached; how often it could not
    client,         \* _client is not None
    connected,      \* _connected
    mutex,          \* the thread that holds _lock
    step, op,       \* where a thread is, and in which call
    tries,          \* failed attempts of the connect that holds the lock
    size, lives,    \* the length of the session's list; it has a time to live
    cached,         \* the kinds of entries that are in Redis
    calm,           \* history: no outage and no disconnect since the call began
    cut, clean      \* history: a push was cut short; not since this one began

hotVars == <<up, outages, client, connected, mutex, step, op, tries, size, lives, cached,
             calm, cut, clean>>
connection == <<client, connected, mutex, tries>>
push == <<cut, clean>>

Ops == ({"push", "read", "clear"} \X {"window"}) \cup ({"put", "get"} \X Kinds)
NoCall == <<"none", "none">>

\* What the code writes for an entry, and what the model it is read with has.
Written(kind) ==
    CASE kind = "query"     -> {"query", "result", "embedding", "cached_at", "hits"}
      [] kind = "template"  -> {"content", "metadata", "cached_at"}
      [] kind = "embedding" -> {"query", "embedding", "model", "created_at"}
Required(kind) ==
    CASE kind = "query"     -> {"query", "result", "created_at"}
      [] kind = "template"  -> {"content", "cached_at"}
      [] kind = "embedding" -> {"query", "embedding", "model", "created_at"}
Optional(kind) ==
    CASE kind = "query" -> {"hits"} [] kind = "template" -> {"metadata"} [] OTHER -> {}

\* extra="forbid": a model accepts its own fields only.
Accepted(kind) ==
    /\ Required(kind) \subseteq Written(kind)
    /\ Written(kind) \subseteq Required(kind) \cup Optional(kind)

HotInit ==
    /\ up = TRUE /\ outages = 0 /\ client = FALSE /\ connected = FALSE /\ mutex = NoUser
    /\ step = [u \in Users |-> "idle"] /\ op = [u \in Users |-> NoCall] /\ tries = 0
    /\ size = 0 /\ lives = FALSE /\ cached = {}
    /\ calm = [u \in Users |-> FALSE] /\ cut = FALSE /\ clean = [u \in Users |-> FALSE]
-----------------------------------------------------------------------------
(* Redis and its entries come and go.                                      *)

Outage ==
    /\ up /\ outages < MaxOutages
    /\ up' = FALSE /\ outages' = outages + 1
    /\ calm' = [u \in Users |-> FALSE]
    /\ UNCHANGED <<connection, push, step, op, size, lives, cached>>

Recover ==
    /\ ~up /\ up' = TRUE
    /\ UNCHANGED <<outages, connection, push, step, op, size, lives, cached, calm>>

\* Time passes: an entry, or a window that has a time to live, expires.
WindowExpires ==
    /\ lives /\ size' = 0 /\ lives' = FALSE
    /\ UNCHANGED <<up, outages, connection, push, step, op, cached, calm>>
CachedExpires(kind) ==
    /\ kind \in cached /\ cached' = cached \ {kind}
    /\ UNCHANGED <<up, outages, connection, push, step, op, size, lives, calm>>
-----------------------------------------------------------------------------
(* The connection.                                                         *)

AtRest(u) == step[u] \in {"idle", "error", "refused"}

BeginCall(u, o) ==
    /\ AtRest(u)
    /\ step' = [step EXCEPT ![u] = "check"] /\ op' = [op EXCEPT ![u] = o]
    /\ calm' = [calm EXCEPT ![u] = up]
    /\ UNCHANGED <<up, outages, connection, push, size, lives, cached>>

UserGoes(u, s) == step' = [step EXCEPT ![u] = s] /\ UNCHANGED <<op, calm>>

\* A call is over: with an answer, with an error, or with an entry that was refused.
Error(u) == UserGoes(u, "error")
Done(u) ==
    /\ step' = [step EXCEPT ![u] = "idle"] /\ op' = [op EXCEPT ![u] = NoCall]
    /\ calm' = [calm EXCEPT ![u] = FALSE]

\* Mutant: a connection that was lost is not made anew.
EnsureConnectedOnce(u) ==
    /\ step[u] = "check"
    /\ IF client /\ connected /\ up
       THEN UserGoes(u, "use") /\ UNCHANGED connected
       ELSE \/ ~client /\ UserGoes(u, "lock") /\ UNCHANGED connected
            \/ client /\ connected' = FALSE /\ Error(u)
    /\ UNCHANGED <<up, outages, client, mutex, tries, push, size, lives, cached>>

\* is_connected pings.  A refusal leads to connect; a ping that times out is not a
\* ConnectionError and ends the call.
EnsureConnected(u) ==
    /\ step[u] = "check"
    /\ IF client /\ connected /\ up
       THEN UserGoes(u, "use") /\ UNCHANGED connected
       ELSE \/ connected' = FALSE /\ UserGoes(u, "lock")
            \/ client /\ connected /\ Error(u) /\ UNCHANGED connected
    /\ UNCHANGED <<up, outages, client, mutex, tries, push, size, lives, cached>>

TakeLock(u) ==
    /\ step[u] = "lock" /\ mutex = NoUser /\ mutex' = u /\ tries' = 0 /\ UserGoes(u, "connect")
    /\ UNCHANGED <<up, outages, client, connected, push, size, lives, cached>>

\* One round of connect; it sleeps after a refusal, with the lock.
Connect(u) ==
    /\ step[u] = "connect"
    /\ client' = TRUE
    /\ \/ up /\ connected' = TRUE /\ mutex' = NoUser /\ tries' = 0 /\ UserGoes(u, "use")
       \/ ~up /\ connected' = FALSE /\ tries < MaxTries
          /\ tries' = tries + 1 /\ UNCHANGED <<mutex, step, op, calm>>
       \/ ~up /\ connected' = FALSE /\ tries = MaxTries
          /\ mutex' = NoUser /\ tries' = 0 /\ Error(u)
       \/ ~up /\ UNCHANGED connected /\ mutex' = NoUser /\ tries' = 0 /\ Error(u)
    /\ UNCHANGED <<up, outages, push, size, lives, cached>>

Disconnect ==
    /\ mutex = NoUser /\ client
    /\ client' = FALSE /\ connected' = FALSE
    /\ calm' = [u \in Users |-> FALSE]
    /\ UNCHANGED <<up, outages, mutex, step, op, tries, push, size, lives, cached>>
-----------------------------------------------------------------------------
(* The commands.                                                           *)

\* _client has become None, or Redis is away: the call ends with an error, and a
\* command that was sent may have taken effect.
Fails == ~client \/ ~up
AfterLoss(old, new) == IF client THEN {old, new} ELSE {old}

\* A push that ends early leaves the window untrimmed, or without a time to live.
CutShort(u) == Error(u) /\ cut' = TRUE /\ clean' = [v \in Users |-> FALSE]

\* A time-out makes the library send LPUSH again, so there can be two copies.
Lpush(u, n) ==
    /\ step[u] = "use" /\ op[u][1] = "push"
    /\ size + n <= MaxLen /\ (n > 0 => client)
    /\ size' = size + n
    /\ \/ Fails /\ n > 0 /\ CutShort(u)
       \/ Fails /\ n = 0 /\ Error(u) /\ UNCHANGED push
       \/ ~Fails /\ n > 0 /\ UserGoes(u, "trim") /\ clean' = [clean EXCEPT ![u] = TRUE]
          /\ UNCHANGED cut
    /\ UNCHANGED <<up, outages, connection, lives, cached>>

Trimmed == IF size < MaxSize THEN size ELSE MaxSize

Ltrim(u) ==
    /\ step[u] = "trim"
    /\ \/ Fails /\ CutShort(u) /\ size' \in AfterLoss(size, Trimmed)
       \/ ~Fails /\ UserGoes(u, "expire") /\ size' = Trimmed /\ UNCHANGED push
    /\ UNCHANGED <<up, outages, connection, lives, cached>>

\* Mutant: the window keeps the time to live it was made with, which it never had.
ExpireForgotten(u) ==
    /\ step[u] = "expire"
    /\ Done(u) /\ cut' = (cut /\ ~clean[u]) /\ clean' = [clean EXCEPT ![u] = FALSE]
    /\ UNCHANGED <<up, outages, connection, size, lives, cached>>

ExpireWindow(u) ==
    /\ step[u] = "expire"
    /\ \/ Fails /\ CutShort(u) /\ lives' \in AfterLoss(lives, size > 0)
       \/ ~Fails /\ Done(u) /\ lives' = (size > 0)
          /\ cut' = (cut /\ ~clean[u]) /\ clean' = [clean EXCEPT ![u] = FALSE]
    /\ UNCHANGED <<up, outages, connection, size, cached>>

\* LRANGE, of which what ContextWindowItemModel refuses is left out.
ReadContext(u) ==
    /\ step[u] = "use" /\ op[u][1] = "read"
    /\ IF Fails THEN Error(u) ELSE Done(u)
    /\ UNCHANGED <<up, outages, connection, push, size, lives, cached>>

ClearContext(u) ==
    /\ step[u] = "use" /\ op[u][1] = "clear"
    /\ \/ ~Fails /\ size' = 0 /\ lives' = FALSE /\ Done(u)
       \/ Fails /\ Error(u)
          /\ \E w \in AfterLoss(<<size, lives>>, <<0, FALSE>>) : size' = w[1] /\ lives' = w[2]
    /\ UNCHANGED <<up, outages, connection, push, cached>>

\* cache_query, cache_template, cache_embedding: one SETEX.
PutEntry(u, kind) ==
    /\ step[u] = "use" /\ op[u] = <<"put", kind>>
    /\ \/ ~Fails /\ Done(u) /\ cached' = cached \cup {kind}
       \/ Fails /\ Error(u) /\ cached' \in AfterLoss(cached, cached \cup {kind})
    /\ UNCHANGED <<up, outages, connection, push, size, lives>>

\* get_cached_query, get_template, get_cached_embedding: what the model does not
\* accept is taken for a miss.
GetEntry(u, kind) ==
    /\ step[u] = "use" /\ op[u] = <<"get", kind>>
    /\ \/ Fails /\ Error(u)
       \/ ~Fails /\ (kind \in cached => Accepted(kind)) /\ Done(u)
       \/ ~Fails /\ kind \in cached /\ ~Accepted(kind) /\ UserGoes(u, "refused")
    /\ UNCHANGED <<up, outages, connection, push, size, lives, cached>>

HotNext ==
    \/ Outage \/ Recover \/ WindowExpires \/ Disconnect
    \/ \E kind \in Kinds : CachedExpires(kind)
    \/ \E u \in Users :
         \/ \E o \in Ops : BeginCall(u, o)
         \/ EnsureConnected(u) \/ TakeLock(u) \/ Connect(u)
         \/ \E n \in 0..2 : Lpush(u, n)
         \/ Ltrim(u) \/ ExpireWindow(u) \/ ReadContext(u) \/ ClearContext(u)
         \/ \E kind \in Kinds : PutEntry(u, kind) \/ GetEntry(u, kind)

HotSpec == HotInit /\ [][HotNext]_hotVars
-----------------------------------------------------------------------------
\* A call ends in an error only if Redis was away, or the client was disconnected,
\* while the call was under way: whatever earlier calls and other threads have met,
\* connect repairs it.
OnlyOutagesFail == \A u \in Users : step[u] = "error" => ~calm[u]

\* A window that is there, while no push is under way or has been cut short, is
\* bounded and will expire.
WindowIsKept ==
    (~cut /\ \A u \in Users : step[u] \notin {"trim", "expire"})
        => size <= MaxSize /\ (size > 0 => lives)

\* get_cached_query: "Cached query result if found and valid, None otherwise".  A
\* query that cache_query cached and that has not expired is found.
CachedQueriesAreFound == \A u \in Users : op[u] = <<"get", "query">> => step[u] # "refused"
=============================================================================
