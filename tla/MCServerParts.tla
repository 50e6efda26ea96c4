--------------------------- MODULE MCServerParts ---------------------------
(***************************************************************************)
(* Eight parts of the servers that run without files of their own: the     *)
(* lazy services, the components of the SDK server, the rate limiter, the  *)
(* research sessions, the connection to the knowledge graph, the request   *)
(* tracer, the search over the tiers and the cost tracker.  They share     *)
(* nothing that matters here, so a behaviour is one of one part, while the *)
(* others rest.                                                            *)
(*                                                                         *)
(* Three threads: one inside a critical section, one waiting for its lock, *)
(* one on the fast path.  Two instances tell a second creation from the    *)
(* first.  The clock of the limiter runs over two windows and a clean-up;  *)
(* two requests fit in a window, so that one can be expired and one not.   *)
(* Two servers have two research sessions, under one name or two.  Of the  *)
(* three tasks that use the graph two run on one event loop and the third  *)
(* on another; a third driver is made after two were interrupted.  The     *)
(* tracer keeps two traces of three.  Three documents of two types and two *)
(* groups, an entity and a note are searched for the best two.  Two of the *)
(* larger calls are over the budget.                                       *)
(***************************************************************************)
EXTENDS LazyService, ComponentInit, RateLimiter, ResearchSessions, GraphitiInit,
        RequestTracer, TierSearch, CostTracker, TLC

TaskLoops == <<"main", "main", "own">>

VARIABLE part

ThreeDocuments == {[id |-> 1, type |-> "code", group |-> "x"],
                   [id |-> 2, type |-> "note", group |-> "x"],
                   [id |-> 3, type |-> "note", group |-> "y"]}

MCInit ==
    /\ part \in {"lazy", "sdk", "limiter", "research", "graph", "tracer", "search", "cost"}
    /\ Init /\ SdkInit /\ LimiterInit /\ ResearchInit /\ GraphInit /\ TraceInit
    /\ SearchInit /\ CostInit
    /\ part # "sdk" => enabled = {}
    /\ part # "search" => docs = {}

\* The tracer or the costs have come to their bound, a reset of the costs waits for
\* itself, or two locks of the graph were made, after which nothing is said of it;
\* elsewhere a behaviour that can go no further is a deadlock.
Stops ==
    /\ \/ part = "tracer" /\ started = 3 /\ \A r \in Requests : tracing[r] = "idle"
       \/ part = "cost" /\ (locked \/ total > 5)
       \/ part = "graph" /\ ~OneLock
    /\ UNCHANGED <<part, vars, sdkVars, limiterVars, researchVars, graphVars, tracerVars,
                   searchVars, costVars>>

MCNext ==
    \/ part = "lazy" /\ Next
       /\ UNCHANGED <<part, sdkVars, limiterVars, researchVars, graphVars, tracerVars, searchVars, costVars>>
    \/ part = "sdk" /\ SdkNext
       /\ UNCHANGED <<part, vars, limiterVars, researchVars, graphVars, tracerVars, searchVars, costVars>>
    \/ part = "limiter" /\ LimiterNext
       /\ UNCHANGED <<part, vars, sdkVars, researchVars, graphVars, tracerVars, searchVars, costVars>>
    \/ part = "research" /\ ResearchNext
       /\ UNCHANGED <<part, vars, sdkVars, limiterVars, graphVars, tracerVars, searchVars, costVars>>
    \/ part = "graph" /\ OneLock /\ GraphNext
       /\ UNCHANGED <<part, vars, sdkVars, limiterVars, researchVars, tracerVars, searchVars, costVars>>
    \/ part = "tracer" /\ TraceNext
       /\ UNCHANGED <<part, vars, sdkVars, limiterVars, researchVars, graphVars, searchVars, costVars>>
    \/ part = "search" /\ SearchNext
       /\ UNCHANGED <<part, vars, sdkVars, limiterVars, researchVars, graphVars, tracerVars, costVars>>
    \/ part = "cost" /\ CostNext
       /\ UNCHANGED <<part, vars, sdkVars, limiterVars, researchVars, graphVars, tracerVars,
                      searchVars>>
    \/ Stops

MCSpec == MCInit /\ [][MCNext]_<<part, vars, sdkVars, limiterVars, researchVars, graphVars,
                                 tracerVars, searchVars, costVars>>

Symmetry == Permutations(Servers) \cup Permutations(Captures)
=============================================================================
