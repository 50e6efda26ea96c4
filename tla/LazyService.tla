---------------------------- MODULE LazyService ----------------------------
(***************************************************************************)
(* server.LazyService: a service that the first of several threads to ask  *)
(* for it creates, by double-checked locking.  The read before the lock is *)
(* a step of its own, and so are the two assignments in the critical       *)
(* section that such a read can come between.                              *)
(***************************************************************************)
EXTENDS Naturals

CONSTANTS Threads,   \* threads that call get and reset
          Instances, \* bound: the objects the factory can return
          NoThread, None,
          Unset, Failed, Idle, Asking  \* the values of the abstract cell

ASSUME LazyAssumption ==
    /\ NoThread \notin Threads
    /\ None \notin Instances
    /\ Failed \notin Instances /\ Unset \notin Instances \cup {Failed}
    /\ {Idle, Asking} \cap (Instances \cup {Failed}) = {}
    /\ Idle # Asking

VARIABLES instance,  \* LazyService._instance
          attempted, \* LazyService._init_attempted
          lock,      \* who holds LazyService._lock
          pc,        \* where each thread is in get
          answer,    \* what get returns to each thread
          runs       \* history: calls of the factory since the last reset

vars == <<instance, attempted, lock, pc, answer, runs>>

Init ==
    /\ instance = None
    /\ attempted = FALSE
    /\ lock = NoThread
    /\ pc = [t \in Threads |-> "idle"]
    /\ answer = [t \in Threads |-> None]
    /\ runs = 0

Goes(t, where) == pc' = [pc EXCEPT ![t] = where]

Get(t) ==
    /\ pc[t] = "idle"
    /\ Goes(t, "called")
    /\ UNCHANGED <<instance, attempted, lock, answer, runs>>

\* The fast path reads _instance once and returns what it has read.
FastPath(t) ==
    /\ pc[t] = "called"
    /\ IF instance # None
       THEN Goes(t, "done") /\ answer' = [answer EXCEPT ![t] = instance]
       ELSE Goes(t, "waiting") /\ UNCHANGED answer
    /\ UNCHANGED <<instance, attempted, lock, runs>>

Acquire(t) ==
    /\ pc[t] = "waiting"
    /\ lock = NoThread
    /\ lock' = t
    /\ Goes(t, "checking")
    /\ UNCHANGED <<instance, attempted, answer, runs>>

\* Mutant: the lock is taken, but nothing is checked again.
CheckAgainNothing(t) ==
    /\ pc[t] = "checking"
    /\ Goes(t, "creating")
    /\ UNCHANGED <<instance, attempted, lock, answer, runs>>

\* Under the lock: another thread may have created it, or failed to.
CheckAgain(t) ==
    /\ pc[t] = "checking"
    /\ IF instance # None \/ attempted
       THEN /\ Goes(t, "done")
            /\ answer' = [answer EXCEPT ![t] = instance]
            /\ lock' = NoThread
       ELSE Goes(t, "creating") /\ UNCHANGED <<lock, answer>>
    /\ UNCHANGED <<instance, attempted, runs>>

\* The factory returns an object, or None, or raises.
Factory(t) ==
    /\ pc[t] = "creating"
    /\ instance' \in Instances \cup {None}
    /\ runs' = runs + 1
    /\ Goes(t, "created")
    /\ UNCHANGED <<attempted, lock, answer>>

\* Mutant: an attempt that came to nothing is not remembered.
FinallyIfCreated(t) ==
    /\ pc[t] = "created"
    /\ attempted' = (instance # None)
    /\ Goes(t, "leaving")
    /\ UNCHANGED <<instance, lock, answer, runs>>

\* The finally clause.
Finally(t) ==
    /\ pc[t] = "created"
    /\ attempted' = TRUE
    /\ Goes(t, "leaving")
    /\ UNCHANGED <<instance, lock, answer, runs>>

Leave(t) ==
    /\ pc[t] = "leaving"
    /\ answer' = [answer EXCEPT ![t] = instance]
    /\ lock' = NoThread
    /\ Goes(t, "done")
    /\ UNCHANGED <<instance, attempted, runs>>

Return(t) ==
    /\ pc[t] = "done"
    /\ Goes(t, "idle")
    /\ answer' = [answer EXCEPT ![t] = None]
    /\ UNCHANGED <<instance, attempted, lock, runs>>

\* reset, all of it under the lock.
Reset ==
    /\ lock = NoThread
    /\ instance' = None
    /\ attempted' = FALSE
    /\ runs' = 0
    /\ UNCHANGED <<lock, pc, answer>>

Next ==
    \/ Reset
    \/ \E t \in Threads :
          \/ Get(t) \/ FastPath(t) \/ Acquire(t) \/ CheckAgain(t) \/ Factory(t)
          \/ Finally(t) \/ Leave(t) \/ Return(t)

Spec == Init /\ [][Next]_vars

----------------------------------------------------------------------------
(* Properties                                                              *)

Places == {"idle", "called", "waiting", "checking", "creating", "created",
           "leaving", "done"}
Inside(t) == pc[t] \in {"checking", "creating", "created", "leaving"}

TypeOK ==
    /\ instance \in Instances \cup {None}
    /\ attempted \in BOOLEAN
    /\ lock \in Threads \cup {NoThread}
    /\ pc \in [Threads -> Places]
    /\ answer \in [Threads -> Instances \cup {None}]
    /\ runs \in Nat
    /\ \A t \in Threads : Inside(t) <=> lock = t

\* Between two resets the factory is called at most once, however many threads
\* ask at once and whether it succeeds, returns None or raises.
FactoryRunsOnce == runs <= 1

\* The service as its callers see it: the cell is filled when _instance is
\* assigned or, without one, when _init_attempted is.
CellNow == IF instance # None THEN instance ELSE IF attempted THEN Failed ELSE Unset

CallNow == [t \in Threads |->
               IF pc[t] = "idle" THEN Idle
               ELSE IF pc[t] # "done" THEN Asking
               ELSE IF answer[t] = None THEN Failed ELSE answer[t]]

Once == INSTANCE OnceCell WITH cell <- CellNow, call <- CallNow

\* "Once initialized, subsequent accesses return the cached instance": get
\* returns what the service was at one moment of the call, and what it is
\* changes only from unset, once, until a reset.
ImplementsOnceCell == Once!Spec
=============================================================================
