---------------------------- MODULE CostTracker ----------------------------
(***************************************************************************)
(* cost_tracker.py: what the calls of the models cost, under one lock that *)
(* its owner cannot take again.  The cost of a call is a number of the     *)
(* model's units.  Threads wait for the lock between two steps.            *)
(***************************************************************************)
EXTENDS Naturals

CONSTANTS Spenders, Costs, BudgetLimit, MaxTotal

ASSUME CostAssumption == Costs \subseteq Nat /\ BudgetLimit \in Nat

VARIABLES
    total,      \* the sum of _costs
    locked,     \* _lock is held across steps: by a reset
    calling,    \* the call a thread has made
    cost,       \* what it has to track
    returned    \* history: the sum of what track has returned

costVars == <<total, locked, calling, cost, returned>>

CostInit ==
    /\ total = 0 /\ locked = FALSE
    /\ calling = [c \in Spenders |-> "idle"] /\ cost = [c \in Spenders |-> 0]
    /\ returned = 0

SpenderGoes(c, s) == calling' = [calling EXCEPT ![c] = s]

\* The cost is computed before the lock is taken.
SpenderCalls(c, s, x) ==
    /\ calling[c] = "idle" /\ SpenderGoes(c, s) /\ cost' = [cost EXCEPT ![c] = x]
    /\ UNCHANGED <<total, locked, returned>>

\* Mutant: the budget is compared with what was spent before the call.
TrackBeforeCall(c) ==
    /\ calling[c] = "track" /\ ~locked /\ total + cost[c] <= MaxTotal
    /\ total' = total + cost[c]
    /\ \/ total > BudgetLimit /\ UNCHANGED returned
       \/ total <= BudgetLimit /\ returned' = returned + cost[c]
    /\ SpenderGoes(c, "idle") /\ UNCHANGED <<locked, cost>>

\* A call that exceeds the budget is counted, and track raises.
Track(c) ==
    /\ calling[c] = "track" /\ ~locked /\ total + cost[c] <= MaxTotal
    /\ total' = total + cost[c]
    /\ \/ total' > BudgetLimit /\ UNCHANGED returned
       \/ total' <= BudgetLimit /\ returned' = returned + cost[c]
    /\ SpenderGoes(c, "idle") /\ UNCHANGED <<locked, cost>>

\* get_stats and total_cost; inside reset, too, get_stats begins with the lock.
GetStats(c) ==
    /\ calling[c] \in {"stats", "stats of reset"} /\ ~locked
    /\ SpenderGoes(c, "idle") /\ UNCHANGED <<total, locked, cost, returned>>

\* reset takes the lock and calls get_stats.  What it does after that is never reached.
ResetCosts(c) ==
    /\ calling[c] = "reset" /\ ~locked
    /\ locked' = TRUE /\ SpenderGoes(c, "stats of reset")
    /\ UNCHANGED <<total, cost, returned>>

CostStep(c) == Track(c) \/ GetStats(c) \/ ResetCosts(c)

CostNext ==
    \E c \in Spenders :
        \/ \E x \in Costs : SpenderCalls(c, "track", x)
        \/ \E s \in {"stats", "reset"} : SpenderCalls(c, s, 0)
        \/ CostStep(c)

CostSpec == CostInit /\ [][CostNext]_costVars

\* A thread that can go on does.
FairCostSpec == CostSpec /\ \A c \in Spenders : WF_costVars(CostStep(c))
-----------------------------------------------------------------------------
\* However the calls of the threads overlap, what track has let pass is within the
\* budget: whoever exceeds it is told.
PassedIsWithinBudget == returned <= BudgetLimit

\* reset: "Thread-safe: Acquires lock for atomic reset."  A reset ends.
ResetReturns == \A c \in Spenders : calling[c] = "reset" ~> calling[c] = "idle"
=============================================================================
