--------------------------- MODULE SlidingWindow ---------------------------
(***************************************************************************)
(* What rate_limiter.RateLimiter promises: a limiter that forgets nothing. *)
(* A check looks at every request that was ever admitted, and admits one   *)
(* more if fewer than the limit are in the window that ends when the clock *)
(* was read.                                                               *)
(***************************************************************************)
EXTENDS Naturals, FiniteSets

CONSTANTS Clients, Checkers, MaxRequests, Window, Outside

VARIABLES time,  \* the clock
          past,  \* each client: the requests it was admitted with, until a reset
          asks,  \* each thread: its client and the time it read, or Outside
          until  \* each client that was refused: when it was told to return, counted
                 \* from 1, 0 once it is admitted

Init ==
    /\ time = 0
    /\ past = [c \in Clients |-> {}]
    /\ asks = [t \in Checkers |-> Outside]
    /\ until = [c \in Clients |-> 0]

TimePasses ==
    /\ time' = time + 1
    /\ UNCHANGED <<past, asks, until>>

Ask(t, c) ==
    /\ asks[t] = Outside
    /\ asks' = [asks EXCEPT ![t] = [client |-> c, now |-> time]]
    /\ UNCHANGED <<time, past, until>>

Recent(c, now) == {r \in past[c] : r.time + Window > now}

Admit(t) ==
    /\ asks[t] # Outside
    /\ LET c == asks[t].client
       IN  /\ Cardinality(Recent(c, asks[t].now)) < MaxRequests
           /\ past' = [past EXCEPT ![c] = @ \cup
                   {[number |-> Cardinality(@) + 1, time |-> asks[t].now]}]
           /\ until' = [until EXCEPT ![c] = 0]
    /\ asks' = [asks EXCEPT ![t] = Outside]
    /\ UNCHANGED time

\* A client is refused until the first of the requests that fill its window has left it.
Refuse(t) ==
    /\ asks[t] # Outside
    /\ LET c == asks[t].client
           recent == Recent(c, asks[t].now)
       IN  /\ Cardinality(recent) >= MaxRequests
           /\ \E r \in recent :
                /\ \A s \in recent : r.time <= s.time
                /\ until' = [until EXCEPT ![c] = r.time + Window + 1]
    /\ asks' = [asks EXCEPT ![t] = Outside]
    /\ UNCHANGED <<time, past>>

Reset(cs) ==
    /\ past' = [c \in Clients |-> IF c \in cs THEN {} ELSE past[c]]
    /\ until' = [c \in Clients |-> IF c \in cs THEN 0 ELSE until[c]]
    /\ UNCHANGED <<time, asks>>

Next ==
    \/ TimePasses
    \/ \E t \in Checkers : Admit(t) \/ Refuse(t) \/ \E c \in Clients : Ask(t, c)
    \/ \E cs \in SUBSET Clients : Reset(cs)

Spec == Init /\ [][Next]_<<time, past, asks, until>>
=============================================================================
