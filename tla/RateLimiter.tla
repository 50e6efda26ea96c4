---------------------------- MODULE RateLimiter ----------------------------
(***************************************************************************)
(* rate_limiter.RateLimiter: a sliding window of the requests of each      *)
(* client.  check reads the clock before it takes the lock, and time may   *)
(* pass between the two; the rest is one critical                          *)
(* section.  A stamp of the code's list is a request here: its number and  *)
(* its time, since two requests can have the same time.                    *)
(***************************************************************************)
EXTENDS Naturals, FiniteSets

CONSTANTS Clients, Checkers,
          MaxRequests,     \* max_requests, at least 1
          Window,          \* window_seconds, at least 1
          CleanupInterval, \* _cleanup_interval
          MaxTime,         \* bound: the clock stops here
          NoClient         \* not one of them

ASSUME LimiterAssumption ==
    /\ MaxRequests \in Nat \ {0} /\ Window \in Nat
    /\ CleanupInterval \in Nat /\ MaxTime \in Nat
    /\ NoClient \notin Clients

\* The server checks its clients on its event loop, which is one thread.
ASSUME OneChecker == \A t, u \in Checkers : t = u

Times == 0 .. MaxTime

VARIABLES clock,       \* time.time(), counted from the start of the process
          requests,    \* RateLimiter._requests, an unknown client has none
          lastCleanup, \* RateLimiter._last_cleanup
          calls,       \* each thread in check: its client and what it read
          admitted,    \* history: all admitted requests
          retryAt      \* history: when a rejected client was told to return,
                       \* counted from 1, 0 once it was admitted again

limiterVars == <<clock, requests, lastCleanup, calls, admitted, retryAt>>

Outside == [client |-> NoClient, now |-> 0]

LimiterInit ==
    /\ clock = 0
    /\ requests = [c \in Clients |-> {}]
    /\ lastCleanup = 0
    /\ calls = [t \in Checkers |-> Outside]
    /\ admitted = [c \in Clients |-> {}]
    /\ retryAt = [c \in Clients |-> 0]

Tick ==
    /\ clock < MaxTime
    /\ clock' = clock + 1
    /\ UNCHANGED <<requests, lastCleanup, calls, admitted, retryAt>>

----------------------------------------------------------------------------

\* Mutant: a request of window_start itself still counts.
ValidAtStart(rs, now) == {r \in rs : r.time + Window >= now}

\* A request counts while its stamp is later than window_start.
Valid(rs, now) == {r \in rs : r.time + Window > now}

\* Mutant: a client goes as soon as one of its requests has expired.
StaleEarly(c, now) == \E r \in requests[c] : r.time + Window <= now

Stale(c, now) == \A r \in requests[c] : r.time + Window <= now

CleanupDue(now) == now > lastCleanup + CleanupInterval

\* The requests once the periodic clean-up, if it is due, has been done.
Cleaned(now) ==
    IF CleanupDue(now)
    THEN [c \in Clients |-> IF Stale(c, now) THEN {} ELSE requests[c]]
    ELSE requests

\* Mutant: the newest request instead of the oldest.
RetryFromNewest(valid) ==
    CHOOSE time \in {r.time : r \in valid} : \A r \in valid : time >= r.time

\* min(valid_requests)
Oldest(valid) ==
    CHOOSE time \in {r.time : r \in valid} : \A r \in valid : time <= r.time

ReadClock(t, c) ==
    /\ calls[t] = Outside
    /\ calls' = [calls EXCEPT ![t] = [client |-> c, now |-> clock]]
    /\ UNCHANGED <<clock, requests, lastCleanup, admitted, retryAt>>

InCheck(t) == calls[t] # Outside

Full(valid) == Cardinality(valid) >= MaxRequests

\* The stamp that is appended.
NewRequest(c, now) == [number |-> Cardinality(admitted[c]) + 1, time |-> now]

\* The critical section, with the time that was read before it.  A request
\* that is refused is not recorded.
Check(t) ==
    /\ InCheck(t)
    /\ LET c     == calls[t].client
           now   == calls[t].now
           valid == Valid(Cleaned(now)[c], now)
       IN  /\ lastCleanup' = IF CleanupDue(now) THEN now ELSE lastCleanup
           /\ IF Full(valid)
              THEN /\ requests' = [Cleaned(now) EXCEPT ![c] = valid]
                   /\ retryAt' = [retryAt EXCEPT ![c] = Oldest(valid) + Window + 1]
                   /\ UNCHANGED admitted
              ELSE /\ requests' = [Cleaned(now) EXCEPT ![c] = valid \cup {NewRequest(c, now)}]
                   /\ admitted' = [admitted EXCEPT ![c] = @ \cup {NewRequest(c, now)}]
                   /\ retryAt' = [retryAt EXCEPT ![c] = 0]
    /\ calls' = [calls EXCEPT ![t] = Outside]
    /\ UNCHANGED clock

\* reset, for one client or for all; what was admitted before it is forgotten.
ResetRequests(cs) ==
    /\ requests' = [c \in Clients |-> IF c \in cs THEN {} ELSE requests[c]]
    /\ admitted' = [c \in Clients |-> IF c \in cs THEN {} ELSE admitted[c]]
    /\ retryAt' = [c \in Clients |-> IF c \in cs THEN 0 ELSE retryAt[c]]
    /\ UNCHANGED <<clock, lastCleanup, calls>>

LimiterNext ==
    \/ Tick
    \/ \E t \in Checkers : Check(t) \/ \E c \in Clients : ReadClock(t, c)
    \/ ResetRequests(Clients)
    \/ \E c \in Clients : ResetRequests({c})

LimiterSpec == LimiterInit /\ [][LimiterNext]_limiterVars

----------------------------------------------------------------------------
(* Properties                                                              *)

InWindow(c, w) == {r \in admitted[c] : r.time <= w /\ r.time + Window > w}

\* In no window of window_seconds, wherever it starts, are more than
\* max_requests requests of a client admitted; pruning, the clean-up of stale
\* clients and the resets of other clients make no room that is not there.
WindowBound == \A c \in Clients : \A w \in Times : Cardinality(InWindow(c, w)) <= MaxRequests

\* retry_after is exact: a client that was refused is refused until that time
\* and can be admitted from then on.
RetryAfterIsExact ==
    \A c \in Clients :
        retryAt[c] > 0 => (Full(Valid(requests[c], clock)) <=> clock + 1 < retryAt[c])

\* The rate limiter's check admits no more than max_requests in any window, and
\* retry_after is the time from which it admits again.
LimitIsExact == WindowBound /\ RetryAfterIsExact

\* The limiter as its clients see it: every request that was admitted, the counted ones
\* and those that were pruned or went with a stale client.
Ideal == INSTANCE SlidingWindow WITH
             time <- clock, past <- admitted, asks <- calls, until <- retryAt

\* "Tracks requests per client ID using a sliding time window": each check decides, and
\* says when to return, as one would that had kept all requests.  What is pruned,
\* cleaned up or reset meanwhile neither refuses nor admits anybody.
ImplementsSlidingWindow == Ideal!Spec
=============================================================================
