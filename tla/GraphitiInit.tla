---------------------------- MODULE GraphitiInit ----------------------------
(***************************************************************************)
(* graphiti_manager.py: initialize, which every operation on the graph     *)
(* begins with, and close.  The coroutines run on one event loop or on     *)
(* loops of their own (run_async in a thread without one), and the call    *)
(* that waits for a coroutine may give it up: it is then cancelled at its  *)
(* await.  Between two awaits a coroutine runs through.                    *)
(*                                                                         *)
(* The driver of Neo4j, Graphiti and asyncio.Lock are external.  A driver  *)
(* is open until it is closed, by the manager or by the Graphiti that was  *)
(* given it.  A Graphiti that is given none opens one of its own, of which *)
(* the manager knows as long as it has that Graphiti.                      *)
(***************************************************************************)
EXTENDS Naturals, FiniteSets

CONSTANTS Tasks, NoTask, LoopOf, NoLoop, MaxDrivers

ASSUME GraphAssumption == NoTask \notin Tasks /\ MaxDrivers \in Nat

VARIABLES
    initialized,    \* _initialized
    graph,          \* _graphiti: its driver, whether its indices are built
    driver,         \* _neo4j_driver, a number; 0 is None
    initLock,       \* _init_lock: a lock has the name of the task that made it
    owner, bound,   \* of each lock: who holds it, and the loop it has been bound to
    mine,           \* the lock a task has got from _get_init_lock and waits for or holds
    awaiting,       \* the await a task is at, or where it is in _get_init_lock
    drivers, open,  \* drivers so far, and those that are not closed
    locks,          \* history: the locks that were made
    excused         \* history: open drivers the manager had when a task was cancelled or
                    \* a close raised, and those a Graphiti that failed had opened itself

graphVars == <<initialized, graph, driver, initLock, owner, bound, mine, awaiting, drivers, open,
               locks, excused>>
manager == <<initialized, graph, driver, drivers, open, excused>>
lockVars == <<initLock, locks, owner, bound, mine>>

NoGraph == [driver |-> 0, built |-> FALSE, there |-> FALSE]
Graphiti(d) == [driver |-> d, built |-> FALSE, there |-> TRUE]

GraphInit ==
    /\ initialized = FALSE /\ graph = NoGraph /\ driver = 0
    /\ initLock = NoTask /\ locks = {}
    /\ owner = [l \in Tasks |-> NoTask] /\ bound = [l \in Tasks |-> NoLoop]
    /\ mine = [t \in Tasks |-> NoTask] /\ awaiting = [t \in Tasks |-> "idle"]
    /\ drivers = 0 /\ open = {} /\ excused = {}

TaskGoes(t, s) == awaiting' = [awaiting EXCEPT ![t] = s]
KeepLock == UNCHANGED lockVars
ForgetLock(t) == mine' = [mine EXCEPT ![t] = NoTask] /\ UNCHANGED <<initLock, locks, bound>>
ReleaseLock(t) == owner' = [owner EXCEPT ![mine[t]] = NoTask] /\ ForgetLock(t)
LeaveLock(t) == TaskGoes(t, "idle") /\ ReleaseLock(t)

\* The drivers the manager could still close.
Closable == {driver, graph.driver} \ {0}

\* An operation of the graph, whichever: initialize has a fast path without the lock.
CallGraph(t) ==
    /\ awaiting[t] = "idle" /\ TaskGoes(t, IF initialized THEN "use" ELSE "enter")
    /\ UNCHANGED <<manager, lockVars>>

CallClose(t) ==
    /\ awaiting[t] = "idle" /\ TaskGoes(t, "enter close")
    /\ UNCHANGED <<manager, lockVars>>

----------------------------------------------------------------------------
(* The lock                                                                *)

Entering == {"enter", "enter close"}
Making == {"make", "make close"}
Waiting == {"wait", "wait close"}

\* The place of a task that comes to initialize, or of one that comes to close.
Place(t, initializing, closing) ==
    IF awaiting[t] \in {"enter", "make", "wait"} THEN initializing ELSE closing

\* _get_init_lock: there is a lock, or the task goes to make one.  Nothing is awaited
\* there, so a loop is at one task of its own only.
GetLock(t) ==
    /\ awaiting[t] \in Entering
    /\ \A u \in Tasks : LoopOf[u] = LoopOf[t] => awaiting[u] \notin Making
    /\ IF initLock # NoTask
       THEN mine' = [mine EXCEPT ![t] = initLock] /\ TaskGoes(t, Place(t, "wait", "wait close"))
       ELSE UNCHANGED mine /\ TaskGoes(t, Place(t, "make", "make close"))
    /\ UNCHANGED <<manager, initLock, locks, owner, bound>>

\* It is made, and what _init_lock is after that is returned.
MakeLock(t) ==
    /\ awaiting[t] \in Making /\ TaskGoes(t, Place(t, "enter", "enter close"))
    /\ initLock' = t /\ locks' = locks \cup {t}
    /\ UNCHANGED <<manager, owner, bound, mine>>

\* An asyncio.Lock is taken by whoever finds it free.  The first that has to wait binds
\* it to its loop; one of another loop that has to wait gets an error.
AcquireLock(t) ==
    /\ awaiting[t] \in Waiting
    /\ LET l == mine[t]
       IN  \/ owner[l] = NoTask /\ owner' = [owner EXCEPT ![l] = t] /\ UNCHANGED <<bound, mine>>
              /\ TaskGoes(t, Place(t, "held", "close held"))
           \/ owner[l] # NoTask /\ bound[l] \in {NoLoop, LoopOf[t]}
              /\ bound' = [bound EXCEPT ![l] = LoopOf[t]] /\ UNCHANGED <<owner, mine, awaiting>>
           \/ owner[l] # NoTask /\ bound[l] \notin {NoLoop, LoopOf[t]}
              /\ TaskGoes(t, "idle") /\ mine' = [mine EXCEPT ![t] = NoTask]
              /\ UNCHANGED <<owner, bound>>
    /\ UNCHANGED <<manager, initLock, locks>>

\* A task that waits is given up.
StopWaiting(t) ==
    /\ awaiting[t] \in Entering \cup Waiting /\ TaskGoes(t, "idle") /\ ForgetLock(t)
    /\ UNCHANGED <<manager, owner>>

----------------------------------------------------------------------------
(* initialize, with the lock                                               *)

\* The driver d, or 0 if there is no neo4j or it raises; then Graphiti, which uses g: the
\* driver it was given, or one of its own when there is none to give or it takes none.
\* Graphiti itself may raise, and g is 0.
Connects(t, d, g) ==
    /\ driver' = d /\ open' = open \cup ({d, g} \ {0})
    /\ drivers' = IF g > d THEN g ELSE IF d > 0 THEN d ELSE drivers
    /\ IF g # 0 THEN graph' = Graphiti(g) /\ TaskGoes(t, "build") /\ KeepLock
       ELSE /\ graph' = NoGraph
            /\ IF d # 0 THEN TaskGoes(t, "undo") /\ KeepLock ELSE LeaveLock(t)

\* The drivers that are made get the next numbers.
AreNext(d, g) ==
    /\ d \in {0, drivers + 1}
    /\ g \in {0, d, (IF d = 0 THEN drivers ELSE d) + 1}

\* Mutant: what was decided before the lock was taken is not looked at again.
CreateUnchecked(t, d, g) ==
    /\ awaiting[t] = "held" /\ AreNext(d, g) /\ Connects(t, d, g)
    /\ UNCHANGED <<initialized, excused>>

\* The second check, and if it says so the driver and Graphiti.
Create(t, d, g) ==
    /\ awaiting[t] = "held" /\ AreNext(d, g)
    /\ IF initialized
       THEN TaskGoes(t, "use") /\ ReleaseLock(t) /\ UNCHANGED <<graph, driver, drivers, open>>
       ELSE Connects(t, d, g)
    /\ UNCHANGED <<initialized, excused>>

\* build_indices_and_constraints ends.
BuildIndices(t) ==
    /\ awaiting[t] = "build" /\ initialized' = TRUE
    /\ graph' = [graph EXCEPT !.built = TRUE]
    /\ TaskGoes(t, "use") /\ ReleaseLock(t)
    /\ UNCHANGED <<driver, drivers, open, excused>>

\* It raises: _graphiti is let go as it is, and the manager's driver, if any, is closed.
BuildingFails(t) ==
    /\ awaiting[t] = "build" /\ graph' = NoGraph
    /\ excused' = excused \cup ({graph.driver} \ {driver})
    /\ IF driver # 0 THEN TaskGoes(t, "undo") /\ KeepLock ELSE LeaveLock(t)
    /\ UNCHANGED <<initialized, driver, drivers, open>>

\* Mutant: the driver of a Graphiti that could not be initialized is forgotten.
UndoForgets(t) ==
    /\ awaiting[t] = "undo" /\ driver' = 0 /\ LeaveLock(t)
    /\ UNCHANGED <<initialized, graph, drivers, open, excused>>

Undo(t) ==
    /\ awaiting[t] = "undo" /\ driver' = 0 /\ open' = open \ {driver} /\ LeaveLock(t)
    /\ excused' = excused \ {driver}
    /\ UNCHANGED <<initialized, graph, drivers>>

\* The task is given up while it builds, or while it closes the driver, or the driver's
\* close raises: no handler catches that, and the manager keeps what it has.
InitializeInterrupted(t) ==
    /\ awaiting[t] \in {"build", "undo"} /\ LeaveLock(t)
    /\ excused' = excused \cup (Closable \cap open)
    /\ UNCHANGED <<initialized, graph, driver, drivers, open>>

\* The operation itself: an error, a graph that is gone and a cancellation are all the
\* same to the manager's state.
UseEnds(t) ==
    /\ awaiting[t] = "use" /\ TaskGoes(t, "idle")
    /\ UNCHANGED <<manager, lockVars>>

----------------------------------------------------------------------------
(* close, with the lock                                                    *)

CloseBegins(t) ==
    /\ awaiting[t] = "close held"
    /\ \/ graph.there /\ TaskGoes(t, "close graph") /\ KeepLock
       \/ ~graph.there /\ driver # 0 /\ TaskGoes(t, "close driver") /\ KeepLock
       \/ ~graph.there /\ driver = 0 /\ LeaveLock(t)
    /\ UNCHANGED manager

CloseDriverNext(t) ==
    IF driver # 0 THEN TaskGoes(t, "close driver") /\ KeepLock ELSE LeaveLock(t)

\* Graphiti closes its driver.  Whatever comes of it, Graphiti is forgotten: if its close
\* raises, the manager's driver is still closed; if the task is given up, it is not.
CloseGraph(t) ==
    /\ awaiting[t] = "close graph" /\ graph' = NoGraph /\ initialized' = FALSE
    /\ open' \in {open, open \ {graph.driver}}
    /\ \/ CloseDriverNext(t)
          /\ excused' = (excused \cup ({graph.driver} \ {driver})) \cap open'
       \/ LeaveLock(t) /\ excused' = (excused \cup Closable) \cap open'
    /\ UNCHANGED <<driver, drivers>>

CloseDriver(t) ==
    /\ awaiting[t] = "close driver" /\ driver' = 0 /\ LeaveLock(t)
    /\ \/ open' = open \ {driver} /\ excused' = excused \ {driver}
       \/ excused' = excused \cup ({driver} \cap open) /\ UNCHANGED open
    /\ UNCHANGED <<initialized, graph, drivers>>

GraphNext ==
    \E t \in Tasks :
        \/ CallGraph(t) \/ CallClose(t)
        \/ GetLock(t) \/ MakeLock(t) \/ AcquireLock(t) \/ StopWaiting(t)
        \/ \E d, g \in 0..MaxDrivers : Create(t, d, g)
        \/ BuildIndices(t) \/ BuildingFails(t) \/ Undo(t) \/ InitializeInterrupted(t) \/ UseEnds(t)
        \/ CloseBegins(t) \/ CloseGraph(t) \/ CloseDriver(t)

GraphSpec == GraphInit /\ [][GraphNext]_graphVars
-----------------------------------------------------------------------------
\* A manager that says it is initialized has a graph whose indices are built, on a driver
\* that is open, except while a close is at work on it.
InitializedIsUsable ==
    initialized =>
        \/ graph.built /\ graph.driver \in open
        \/ \E t \in Tasks : awaiting[t] = "close graph"

\* A driver that is open can be closed by the manager, which has it or the Graphiti that
\* uses it, unless the manager had it when a call was interrupted, or a Graphiti had
\* opened it itself whose initialization failed.
LossesAreExplained == open \subseteq Closable \cup excused

\* No two threads have come first: two that find no lock make one each.
OneLock == \A l, m \in locks : l = m

\* With one lock, a graph that is said to be initialized can be used, and no driver is
\* lost but by an interruption or by the failure of a Graphiti that opened its own.
GraphIsUsable == OneLock => InitializedIsUsable /\ LossesAreExplained
=============================================================================
