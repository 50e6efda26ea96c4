--------------------------- MODULE ServerProofs ---------------------------
(***************************************************************************)
(* Proofs about the parts of the servers that keep no file: the lazy       *)
(* services, the components of the SDK server, the rate limiter, the       *)
(* research sessions, the connection to the knowledge graph, the request   *)
(* tracer, the cost tracker and the parallel search over the tiers, each   *)
(* for any number of threads, tasks, requests or results.  Every part has  *)
(* its own inductive invariant, and none is about another part.            *)
(***************************************************************************)
EXTENDS LazyService, ComponentInit, RateLimiter, ResearchSessions, GraphitiInit,
        RequestTracer, TierSearch, CostTracker, FiniteSetTheorems, SequenceTheorems,
        WellFoundedInduction, TLAPS

(***************************************************************************)
(* The lazy services: the factory runs once between resets, and the class  *)
(* implements the cell of OnceCell.  What the assignments in the critical  *)
(* section have established:                                               *)
(***************************************************************************)
Unattempted == \A t \in Threads : pc[t] \in {"creating", "created"} => ~attempted
Fresh       == \A t \in Threads : pc[t] = "creating" => runs = 0 /\ instance = None
Created     == \A t \in Threads : pc[t] = "created" => runs = 1
Attempted   == \A t \in Threads : pc[t] = "leaving" => attempted
Settled     == \/ attempted
               \/ \E t \in Threads : pc[t] = "created"
               \/ runs = 0 /\ instance = None

Inv == TypeOK /\ Unattempted /\ Fresh /\ Created /\ Attempted /\ Settled
         /\ FactoryRunsOnce

----------------------------------------------------------------------------
(* The invariant                                                           *)

\* What a step of one thread that moves it from place p to place q leaves
\* of the places and of the lock.
LEMMA TypeStep ==
    ASSUME TypeOK, [Next]_vars
    PROVE  TypeOK'
<1> USE DEF TypeOK, Places, Inside, Goes
<1>1. CASE UNCHANGED vars
  BY <1>1 DEF vars
<1>2. CASE Reset
  BY <1>2 DEF Reset
<1>3. ASSUME NEW t \in Threads, Get(t) PROVE TypeOK'
  BY <1>3 DEF Get
<1>4. ASSUME NEW t \in Threads, FastPath(t) PROVE TypeOK'
  BY <1>4 DEF FastPath
<1>5. ASSUME NEW t \in Threads, Acquire(t) PROVE TypeOK'
  BY <1>5, LazyAssumption DEF Acquire
<1>6. ASSUME NEW t \in Threads, CheckAgain(t) PROVE TypeOK'
  <2>1. CASE instance # None \/ attempted
    BY <1>6, <2>1, LazyAssumption DEF CheckAgain
  <2>2. CASE ~(instance # None \/ attempted)
    BY <1>6, <2>2 DEF CheckAgain
  <2> QED
    BY <2>1, <2>2
<1>7. ASSUME NEW t \in Threads, Factory(t) PROVE TypeOK'
  BY <1>7 DEF Factory
<1>8. ASSUME NEW t \in Threads, Finally(t) PROVE TypeOK'
  BY <1>8 DEF Finally
<1>9. ASSUME NEW t \in Threads, Leave(t) PROVE TypeOK'
  BY <1>9, LazyAssumption DEF Leave
<1>10. ASSUME NEW t \in Threads, Return(t) PROVE TypeOK'
  BY <1>10 DEF Return
<1> QED
  BY <1>1, <1>2, <1>3, <1>4, <1>5, <1>6, <1>7, <1>8, <1>9, <1>10 DEF Next

\* Only one thread is inside.
LEMMA OneInside ==
    ASSUME TypeOK, NEW t \in Threads, NEW u \in Threads, Inside(t), Inside(u)
    PROVE  t = u
BY DEF TypeOK

LEMMA InvStep ==
    ASSUME Inv, [Next]_vars
    PROVE  Inv'
<1> USE DEF Inv, Unattempted, Fresh, Created, Attempted, Settled, FactoryRunsOnce, Goes
<1>0. TypeOK'
  BY TypeStep
<1>1. CASE UNCHANGED vars
  BY <1>0, <1>1 DEF vars
<1>2. CASE Reset
  <2>1. \A t \in Threads : pc'[t] \notin {"creating", "created", "leaving"}
    BY <1>2, LazyAssumption DEF Reset, TypeOK, Inside
  <2> QED
    BY <1>0, <1>2, <2>1 DEF Reset
<1>3. ASSUME NEW t \in Threads, Get(t) PROVE Inv'
  BY <1>0, <1>3 DEF Get, TypeOK
<1>4. ASSUME NEW t \in Threads, FastPath(t) PROVE Inv'
  BY <1>0, <1>4 DEF FastPath, TypeOK
<1>5. ASSUME NEW t \in Threads, Acquire(t) PROVE Inv'
  BY <1>0, <1>5 DEF Acquire, TypeOK
<1>6. ASSUME NEW t \in Threads, CheckAgain(t) PROVE Inv'
  <2>1. Inside(t)
    BY <1>6 DEF CheckAgain, Inside
  <2>2. \A u \in Threads : Inside(u) => u = t
    BY <2>1, OneInside
  <2>3. CASE instance # None \/ attempted
    <3>1. UNCHANGED <<instance, attempted, runs>> /\ pc' = [pc EXCEPT ![t] = "done"]
      BY <1>6, <2>3 DEF CheckAgain
    <3> QED
      BY <1>0, <1>6, <3>1 DEF CheckAgain, TypeOK
  <2>4. CASE ~(instance # None \/ attempted)
    <3>1. /\ UNCHANGED <<instance, attempted, runs>>
          /\ pc' = [pc EXCEPT ![t] = "creating"]
      BY <1>6, <2>4 DEF CheckAgain
    <3>2. \A u \in Threads : pc[u] # "created"
      BY <1>6, <2>2 DEF CheckAgain, Inside
    <3>3. runs = 0
      BY <2>4, <3>2
    <3> QED
      BY <1>0, <2>4, <3>1, <3>3 DEF TypeOK
  <2> QED
    BY <2>3, <2>4
<1>7. ASSUME NEW t \in Threads, Factory(t) PROVE Inv'
  <2>1. Inside(t)
    BY <1>7 DEF Factory, Inside
  <2>2. \A u \in Threads : Inside(u) => u = t
    BY <2>1, OneInside
  <2>3. \A u \in Threads : u # t => pc[u] \notin {"creating", "created"}
    BY <2>2 DEF Inside
  <2>4. runs = 0 /\ ~attempted
    BY <1>7 DEF Factory
  <2>5. runs' = 1 /\ UNCHANGED attempted /\ pc' = [pc EXCEPT ![t] = "created"]
    BY <1>7, <2>4 DEF Factory
  <2> QED
    BY <1>0, <2>3, <2>4, <2>5 DEF TypeOK
<1>8. ASSUME NEW t \in Threads, Finally(t) PROVE Inv'
  <2>1. Inside(t)
    BY <1>8 DEF Finally, Inside
  <2>2. \A u \in Threads : Inside(u) => u = t
    BY <2>1, OneInside
  <2>3. \A u \in Threads : u # t => pc[u] \notin {"creating", "created"}
    BY <2>2 DEF Inside
  <2> QED
    BY <1>0, <1>8, <2>3 DEF Finally, TypeOK
<1>9. ASSUME NEW t \in Threads, Leave(t) PROVE Inv'
  BY <1>0, <1>9 DEF Leave, TypeOK
<1>10. ASSUME NEW t \in Threads, Return(t) PROVE Inv'
  BY <1>0, <1>10 DEF Return, TypeOK
<1> QED
  BY <1>1, <1>2, <1>3, <1>4, <1>5, <1>6, <1>7, <1>8, <1>9, <1>10 DEF Next

LEMMA InvInit ==
    ASSUME Init
    PROVE  Inv
<1>1. TypeOK
  BY LazyAssumption DEF Init, TypeOK, Places, Inside
<1>2. Unattempted /\ Fresh /\ Created /\ Attempted /\ Settled
  BY DEF Init, Unattempted, Fresh, Created, Attempted, Settled
<1>3. FactoryRunsOnce
  BY DEF Init, FactoryRunsOnce
<1> QED
  BY <1>1, <1>2, <1>3 DEF Inv

LEMMA InvHolds == Spec => []Inv
<1>1. Init => Inv
  BY InvInit
<1>2. Inv /\ [Next]_vars => Inv'
  BY InvStep
<1> QED
  BY <1>1, <1>2, PTL DEF Spec

\* The service's state is well typed, and the thread inside the critical
\* section is the one that holds the lock.
THEOREM TypeCorrect == Spec => []TypeOK
<1>1. Inv => TypeOK
  BY DEF Inv
<1> QED
  BY <1>1, InvHolds, PTL

\* However many threads ask for the service at once, its factory is called at
\* most once between two resets.
THEOREM OneRun == Spec => []FactoryRunsOnce
<1>1. Inv => FactoryRunsOnce
  BY DEF Inv
<1> QED
  BY <1>1, InvHolds, PTL

----------------------------------------------------------------------------
(* Refinement: every step is a step of the cell, or leaves it alone        *)

\* What the calls look like after thread t has moved.
LEMMA CallMoves ==
    ASSUME TypeOK, TypeOK', NEW t \in Threads,
           \A u \in Threads \ {t} : pc'[u] = pc[u] /\ answer'[u] = answer[u]
    PROVE  CallNow' = [CallNow EXCEPT ![t] = CallNow'[t]]
BY DEF CallNow, TypeOK

\* A thread whose call looks the same leaves all calls as they were.
LEMMA SameAnswer ==
    ASSUME NEW t \in Threads, CallNow' = [CallNow EXCEPT ![t] = CallNow'[t]],
           CallNow'[t] = CallNow[t]
    PROVE  UNCHANGED CallNow
<1>1. CallNow = [u \in Threads |-> CallNow[u]]
  BY DEF CallNow
<1>2. [CallNow EXCEPT ![t] = CallNow[t]] = CallNow
  BY <1>1
<1> QED
  BY <1>2

LEMMA StepRefines ==
    ASSUME Inv, Inv', [Next]_vars
    PROVE  [Once!Next]_<<CellNow, CallNow>>
<1> USE DEF Goes
<1>t. TypeOK /\ TypeOK'
  BY DEF Inv
<1>1. CASE UNCHANGED vars
  BY <1>1 DEF vars, CellNow, CallNow
<1>2. CASE Reset
  <2>1. CellNow' = Unset /\ UNCHANGED CallNow
    BY <1>2 DEF Reset, CellNow, CallNow
  <2> QED
    BY <2>1 DEF Once!Next, Once!Reset
<1>3. ASSUME NEW t \in Threads, Get(t) PROVE Once!Ask(t)
  <2>1. CallNow[t] = Idle /\ CallNow'[t] = Asking
    BY <1>3, <1>t DEF Get, CallNow, TypeOK
  <2>2. CallNow' = [CallNow EXCEPT ![t] = CallNow'[t]]
    BY <1>3, <1>t, CallMoves DEF Get, TypeOK
  <2>3. UNCHANGED CellNow
    BY <1>3 DEF Get, CellNow
  <2> QED
    BY <2>1, <2>2, <2>3 DEF Once!Ask
<1>4. ASSUME NEW t \in Threads, FastPath(t) PROVE Once!Answer(t) \/ UNCHANGED <<CellNow, CallNow>>
  <2>1. UNCHANGED CellNow /\ CallNow[t] = Asking
    BY <1>4 DEF FastPath, CellNow, CallNow
  <2>2. CallNow' = [CallNow EXCEPT ![t] = CallNow'[t]]
    BY <1>4, <1>t, CallMoves DEF FastPath, TypeOK
  <2>3. CASE instance # None
    <3>1. CallNow'[t] = instance
      BY <1>4, <1>t, <2>3 DEF FastPath, CallNow, TypeOK
    <3>2. CellNow = instance /\ CellNow # Unset
      BY <1>t, <2>3, LazyAssumption DEF CellNow, TypeOK
    <3> QED
      BY <2>1, <2>2, <3>1, <3>2 DEF Once!Answer
  <2>4. CASE instance = None
    <3>1. CallNow'[t] = Asking
      BY <1>4, <1>t, <2>4 DEF FastPath, CallNow, TypeOK
    <3> QED
      BY <2>1, <2>2, <3>1, SameAnswer
  <2> QED
    BY <2>3, <2>4
<1>5. ASSUME NEW t \in Threads, Acquire(t) PROVE UNCHANGED <<CellNow, CallNow>>
  BY <1>5, <1>t DEF Acquire, CellNow, CallNow, TypeOK
<1>6. ASSUME NEW t \in Threads, CheckAgain(t)
      PROVE  Once!Answer(t) \/ UNCHANGED <<CellNow, CallNow>>
  <2>1. UNCHANGED CellNow /\ CallNow[t] = Asking
    BY <1>6 DEF CheckAgain, CellNow, CallNow
  <2>2. CallNow' = [CallNow EXCEPT ![t] = CallNow'[t]]
    BY <1>6, <1>t, CallMoves DEF CheckAgain, TypeOK
  <2>3. CASE instance # None \/ attempted
    <3>1. CallNow'[t] = IF instance = None THEN Failed ELSE instance
      BY <1>6, <1>t, <2>3 DEF CheckAgain, CallNow, TypeOK
    <3>2. CellNow = (IF instance = None THEN Failed ELSE instance) /\ CellNow # Unset
      BY <1>t, <2>3, LazyAssumption DEF CellNow, TypeOK
    <3> QED
      BY <2>1, <2>2, <3>1, <3>2 DEF Once!Answer
  <2>4. CASE ~(instance # None \/ attempted)
    <3>1. CallNow'[t] = Asking
      BY <1>6, <1>t, <2>4 DEF CheckAgain, CallNow, TypeOK
    <3> QED
      BY <2>1, <2>2, <3>1, SameAnswer
  <2> QED
    BY <2>3, <2>4
<1>7. ASSUME NEW t \in Threads, Factory(t)
      PROVE  Once!Fill(t) \/ UNCHANGED <<CellNow, CallNow>>
  <2>1. instance = None /\ ~attempted /\ UNCHANGED attempted
    BY <1>7 DEF Factory, Inv, Fresh, Unattempted
  <2>2. CallNow[t] = Asking /\ UNCHANGED CallNow
    BY <1>7, <1>t DEF Factory, CallNow, TypeOK
  <2>3. CellNow = Unset
    BY <2>1 DEF CellNow
  <2>4. CASE instance' = None
    BY <2>1, <2>2, <2>3, <2>4 DEF CellNow
  <2>5. CASE instance' \in Instances
    <3>1. CellNow' = instance'
      BY <2>5, LazyAssumption DEF CellNow
    <3> QED
      BY <2>2, <2>3, <2>5, <3>1 DEF Once!Fill, Once!Answers
  <2> QED
    BY <1>7, <2>4, <2>5 DEF Factory
<1>8. ASSUME NEW t \in Threads, Finally(t)
      PROVE  Once!Fill(t) \/ UNCHANGED <<CellNow, CallNow>>
  <2>1. ~attempted /\ attempted' /\ UNCHANGED instance
    BY <1>8 DEF Finally, Inv, Unattempted
  <2>2. CallNow[t] = Asking /\ UNCHANGED CallNow
    BY <1>8, <1>t DEF Finally, CallNow, TypeOK
  <2>3. CASE instance = None
    <3>1. CellNow = Unset /\ CellNow' = Failed
      BY <2>1, <2>3 DEF CellNow
    <3> QED
      BY <2>2, <3>1 DEF Once!Fill, Once!Answers
  <2>4. CASE instance # None
    BY <2>1, <2>2, <2>4 DEF CellNow
  <2> QED
    BY <2>3, <2>4
<1>9. ASSUME NEW t \in Threads, Leave(t) PROVE Once!Answer(t)
  <2>1. attempted /\ UNCHANGED <<instance, attempted>>
    BY <1>9 DEF Leave, Inv, Attempted
  <2>2. CallNow[t] = Asking
    BY <1>9 DEF Leave, CallNow
  <2>3. CallNow' = [CallNow EXCEPT ![t] = CallNow'[t]]
    BY <1>9, <1>t, CallMoves DEF Leave, TypeOK
  <2>4. CallNow'[t] = IF instance = None THEN Failed ELSE instance
    BY <1>9, <1>t DEF Leave, CallNow, TypeOK
  <2>5. CellNow = (IF instance = None THEN Failed ELSE instance) /\ CellNow # Unset
    BY <1>t, <2>1, LazyAssumption DEF CellNow, TypeOK
  <2>6. UNCHANGED CellNow
    BY <2>1 DEF CellNow
  <2> QED
    BY <2>2, <2>3, <2>4, <2>5, <2>6 DEF Once!Answer
<1>10. ASSUME NEW t \in Threads, Return(t) PROVE Once!Return(t)
  <2>1. CallNow[t] \in Instances \cup {Failed} /\ CallNow'[t] = Idle
    BY <1>10, <1>t DEF Return, CallNow, TypeOK
  <2>2. CallNow' = [CallNow EXCEPT ![t] = CallNow'[t]]
    BY <1>10, <1>t, CallMoves DEF Return, TypeOK
  <2>3. UNCHANGED CellNow
    BY <1>10 DEF Return, CellNow
  <2> QED
    BY <2>1, <2>2, <2>3 DEF Once!Return, Once!Answers
<1> QED
  BY <1>1, <1>2, <1>3, <1>4, <1>5, <1>6, <1>7, <1>8, <1>9, <1>10 DEF Next, Once!Next

\* LazyService implements the cell it promises: every get returns what the
\* service was at a moment of the call, and nothing but a reset empties or
\* replaces what the first caller has created.
THEOREM Refinement == Spec => ImplementsOnceCell
<1>1. Init => Once!Init
  BY DEF Init, Once!Init, CellNow, CallNow
<1>2. Inv /\ Inv' /\ [Next]_vars => [Once!Next]_<<CellNow, CallNow>>
  BY StepRefines
<1> QED
  BY <1>1, <1>2, InvHolds, PTL DEF Spec, ImplementsOnceCell, Once!Spec

(***************************************************************************)
(* The components of the SDK server.                                       *)
(***************************************************************************)
Stages == {"idle", "waiting", "building", "returning"}

SdkTyped ==
    /\ set \subseteq Components /\ enabled \subseteq Optional
    /\ building \in Callers \cup {NoCaller}
    /\ stage \in [Callers -> Stages]
    /\ next \in 1..6
    /\ builds \in [Components -> Nat]
    /\ raised \in BOOLEAN

\* One caller builds, the one with the lock.
OneBuilds == \A c \in Callers : stage[c] = "building" <=> building = c

\* What the check before the lock and the check after it stand for.
IndexIsFirst ==
    /\ \A c \in Callers : stage[c] = "returning" => "index" \in set
    /\ building = NoCaller => "index" \in set \/ \A k \in Components : builds[k] = 0
    /\ building # NoCaller => (next > 1 => "index" \in set)

\* The builder has not been where it is going.
NotYetBuilt ==
    building # NoCaller => \A j \in 1..5 : j >= next => builds[Order[j]] = 0

Wholly == {"index", "vault"} \cup (enabled \ {"livegrep"})

\* Until a constructor raises, what is wanted is there as far as the builder has come.
NoneIsMissing ==
    ~raised =>
        /\ building = NoCaller /\ "index" \in set => Wholly \subseteq set
        /\ building # NoCaller =>
              \A j \in 1..5 : j < next /\ Wanted(Order[j]) => Order[j] \in set

SdkInv ==
    SdkTyped /\ OneBuilds /\ IndexIsFirst /\ NotYetBuilt /\ BuiltOnce /\ NoneIsMissing

LEMMA Orders ==
    /\ Len(Order) = 5
    /\ Order[1] = "index" /\ Order[2] = "vault" /\ Order[3] = "redis"
    /\ Order[4] = "graphiti" /\ Order[5] = "livegrep"
    /\ \A j \in 1..5 : Order[j] \in Components
    /\ \A i, j \in 1..5 : Order[i] = Order[j] => i = j
    /\ \A k \in Components : \E j \in 1..5 : Order[j] = k
<1>1. /\ Len(Order) = 5
      /\ Order[1] = "index" /\ Order[2] = "vault" /\ Order[3] = "redis"
      /\ Order[4] = "graphiti" /\ Order[5] = "livegrep"
  BY DEF Order
<1>2. \A j \in 1..5 : j = 1 \/ j = 2 \/ j = 3 \/ j = 4 \/ j = 5
  OBVIOUS
<1>3. \A j \in 1..5 : Order[j] \in Components
  BY <1>1, <1>2 DEF Components
<1>4. \A i, j \in 1..5 : Order[i] = Order[j] => i = j
  BY <1>1, <1>2
<1>5. \A k \in Components : \E j \in 1..5 : Order[j] = k
  BY <1>1 DEF Components
<1> QED
  BY <1>1, <1>3, <1>4, <1>5

LEMMA SdkBegins == SdkInit => SdkInv
<1> SUFFICES ASSUME SdkInit PROVE SdkInv
  OBVIOUS
<1>1. SdkTyped
  <2>1. building \in Callers \cup {NoCaller} /\ stage \in [Callers -> Stages]
    BY DEF SdkInit, Stages
  <2>2. set \subseteq Components /\ enabled \subseteq Optional /\ raised \in BOOLEAN
    BY DEF SdkInit
  <2>3. next \in 1..6 /\ builds \in [Components -> Nat]
    BY DEF SdkInit
  <2> QED
    BY <2>1, <2>2, <2>3 DEF SdkTyped
<1>4. OneBuilds
  BY SdkAssumption DEF SdkInit, OneBuilds
<1>2. IndexIsFirst /\ NotYetBuilt /\ NoneIsMissing
  BY DEF SdkInit, IndexIsFirst, NotYetBuilt, NoneIsMissing
<1>3. BuiltOnce
  BY DEF SdkInit, BuiltOnce
<1> QED
  BY <1>1, <1>2, <1>3, <1>4 DEF SdkInv

\* The steps that the builder takes with the next component.
LEMMA BuilderSteps ==
    ASSUME SdkInv, NEW c \in Callers, Build(c) \/ Skip(c)
    PROVE  SdkInv'
<1> USE SdkAssumption DEF SdkInv
<1> DEFINE k == Order[next]
<1>1. /\ stage[c] = "building" /\ building = c /\ next \in 1..5 /\ next' = next + 1
      /\ building' = building /\ stage' = stage /\ enabled' = enabled /\ raised' = raised
  BY Orders DEF Build, Skip, Coming, SdkTyped, OneBuilds
<1>2. k \in Components /\ building # NoCaller
  BY <1>1, Orders
<1>3. \/ Wanted(k) /\ set' = set \cup {k} /\ builds' = [builds EXCEPT ![k] = @ + 1]
      \/ ~Wanted(k) /\ set' = set /\ builds' = builds
  BY DEF Build, Skip
<1>4. builds[k] = 0
  BY <1>1, <1>2 DEF NotYetBuilt
<1>5. SdkTyped' /\ set \subseteq set'
  BY <1>1, <1>2, <1>3 DEF SdkTyped
<1>6. OneBuilds'
  BY <1>1 DEF OneBuilds
<1>7. k = "index" => Wanted(k)
  BY DEF Wanted, Components, Optional
<1>8. "index" \in set'
  <2>1. CASE next = 1
    BY <1>3, <1>7, <2>1, Orders
  <2>2. CASE next # 1
    BY <1>1, <1>2, <1>5, <2>2 DEF IndexIsFirst
  <2> QED
    BY <2>1, <2>2
<1>9. IndexIsFirst'
  BY <1>1, <1>2, <1>8 DEF IndexIsFirst
<1>10. \A j \in 1..5 : j >= next' => builds'[Order[j]] = 0
  <2> SUFFICES ASSUME NEW j \in 1..5, j >= next' PROVE builds'[Order[j]] = 0
    OBVIOUS
  <2>1. j >= next /\ j # next
    BY <1>1
  <2>2. Order[j] \in Components /\ Order[j] # k /\ builds[Order[j]] = 0
    BY <1>1, <1>2, <2>1, Orders DEF NotYetBuilt
  <2> QED
    BY <1>3, <2>2 DEF SdkTyped
<1>11. NotYetBuilt'
  BY <1>10 DEF NotYetBuilt
<1>12. BuiltOnce'
  <2> SUFFICES ASSUME NEW m \in Components PROVE builds'[m] <= 1
    BY DEF BuiltOnce
  <2> QED
    BY <1>2, <1>3, <1>4 DEF BuiltOnce, SdkTyped
<1>13. ASSUME ~raised, NEW j \in 1..5, j < next', Wanted(Order[j])
       PROVE  Order[j] \in set'
  <2>1. CASE j = next
    BY <1>3, <1>13, <2>1
  <2>2. CASE j # next
    <3>1. j < next
      BY <1>1, <1>13, <2>2
    <3> QED
      BY <1>2, <1>5, <1>13, <3>1 DEF NoneIsMissing
  <2> QED
    BY <2>1, <2>2
<1>14. NoneIsMissing'
  BY <1>1, <1>2, <1>13 DEF NoneIsMissing, Wanted
<1> QED
  BY <1>5, <1>6, <1>9, <1>11, <1>12, <1>14

LEMMA SdkStays == SdkInv /\ [SdkNext]_sdkVars => SdkInv'
<1> SUFFICES ASSUME SdkInv, [SdkNext]_sdkVars PROVE SdkInv'
  OBVIOUS
<1> USE SdkAssumption DEF SdkInv
<1>1. CASE UNCHANGED sdkVars
  BY <1>1 DEF sdkVars, SdkTyped, OneBuilds, IndexIsFirst, NotYetBuilt, BuiltOnce,
              NoneIsMissing, Wholly, Wanted
<1>2. ASSUME NEW c \in Callers, CallComponents(c) PROVE SdkInv'
  <2>1. SdkTyped' /\ OneBuilds' /\ IndexIsFirst'
    BY <1>2 DEF CallComponents, ToStage, SdkTyped, Stages, OneBuilds, IndexIsFirst
  <2>2. NotYetBuilt' /\ BuiltOnce' /\ NoneIsMissing'
    BY <1>2 DEF CallComponents, NotYetBuilt, BuiltOnce, NoneIsMissing, Wholly, Wanted
  <2> QED
    BY <2>1, <2>2
<1>3. ASSUME NEW c \in Callers, AcquireComponents(c) PROVE SdkInv'
  <2>1. CASE "index" \in set
    <3>1. SdkTyped' /\ OneBuilds' /\ IndexIsFirst'
      BY <1>3, <2>1 DEF AcquireComponents, ToStage, SdkTyped, Stages, OneBuilds, IndexIsFirst
    <3>2. NotYetBuilt' /\ BuiltOnce' /\ NoneIsMissing'
      BY <1>3, <2>1 DEF AcquireComponents, NotYetBuilt, BuiltOnce, NoneIsMissing, Wholly,
                        Wanted
    <3> QED
      BY <3>1, <3>2
  <2>2. CASE "index" \notin set
    <3>1. /\ building = NoCaller /\ building' = c /\ next' = 1
          /\ set' = set /\ enabled' = enabled /\ builds' = builds /\ raised' = raised
          /\ stage' = [stage EXCEPT ![c] = "building"]
      BY <1>3, <2>2 DEF AcquireComponents, ToStage
    <3>2. SdkTyped' /\ OneBuilds'
      BY <3>1 DEF SdkTyped, Stages, OneBuilds
    <3>3. IndexIsFirst'
      BY <2>2, <3>1 DEF IndexIsFirst, SdkTyped
    <3>4. \A m \in Components : builds[m] = 0
      BY <2>2, <3>1 DEF IndexIsFirst
    <3>5. NotYetBuilt' /\ BuiltOnce'
      BY <3>1, <3>4, Orders DEF NotYetBuilt, BuiltOnce
    <3>6. NoneIsMissing'
      BY <3>1 DEF NoneIsMissing
    <3> QED
      BY <3>2, <3>3, <3>5, <3>6
  <2> QED
    BY <2>1, <2>2
<1>4. ASSUME NEW c \in Callers, Build(c) \/ Skip(c) PROVE SdkInv'
  BY <1>4, BuilderSteps
<1>5. ASSUME NEW c \in Callers, Raise(c) PROVE SdkInv'
  <2>1. /\ stage[c] = "building" /\ building = c /\ next \in 1..5
        /\ building' = NoCaller /\ raised' = TRUE /\ stage' = [stage EXCEPT ![c] = "idle"]
        /\ set' = set /\ enabled' = enabled /\ builds' = builds /\ next' = next
    BY <1>5, Orders DEF Raise, Coming, ToStage, OneBuilds, SdkTyped
  <2>2. SdkTyped' /\ OneBuilds'
    BY <2>1 DEF SdkTyped, Stages, OneBuilds
  <2>3. "index" \in set \/ \A m \in Components : builds[m] = 0
    <3>1. CASE next = 1
      BY <2>1, <3>1, Orders DEF NotYetBuilt
    <3>2. CASE next # 1
      BY <2>1, <3>2 DEF IndexIsFirst
    <3> QED
      BY <3>1, <3>2
  <2>4. IndexIsFirst'
    BY <2>1, <2>3 DEF IndexIsFirst, SdkTyped
  <2>5. NotYetBuilt' /\ BuiltOnce' /\ NoneIsMissing'
    BY <2>1 DEF NotYetBuilt, BuiltOnce, NoneIsMissing
  <2> QED
    BY <2>2, <2>4, <2>5
<1>6. ASSUME NEW c \in Callers, Built(c) PROVE SdkInv'
  <2>1. /\ stage[c] = "building" /\ building = c /\ next = 6
        /\ building' = NoCaller /\ stage' = [stage EXCEPT ![c] = "returning"]
        /\ set' \in {set, set \ {"livegrep"}}
        /\ enabled' = enabled /\ builds' = builds /\ next' = next /\ raised' = raised
    BY <1>6, Orders DEF Built, ToStage, OneBuilds, SdkTyped
  <2>2. SdkTyped' /\ OneBuilds'
    BY <2>1 DEF SdkTyped, Stages, OneBuilds
  <2>3. "index" \in set'
    BY <2>1 DEF IndexIsFirst
  <2>4. IndexIsFirst'
    BY <2>1, <2>3 DEF IndexIsFirst
  <2>5. NotYetBuilt' /\ BuiltOnce'
    BY <2>1 DEF NotYetBuilt, BuiltOnce
  <2>6. ASSUME ~raised, NEW m \in Wholly PROVE m \in set'
    <3>1. m \in Components /\ m # "livegrep" /\ Wanted(m)
      BY DEF Wholly, Wanted, Components, Optional, SdkTyped
    <3>2. m \in set
      BY <2>1, <2>6, <3>1, Orders DEF NoneIsMissing
    <3> QED
      BY <2>1, <3>1, <3>2
  <2>7. NoneIsMissing'
    BY <2>1, <2>6 DEF NoneIsMissing, Wholly
  <2> QED
    BY <2>2, <2>4, <2>5, <2>7
<1>7. ASSUME NEW c \in Callers, ReturnComponents(c) PROVE SdkInv'
  <2>1. SdkTyped' /\ OneBuilds' /\ IndexIsFirst'
    BY <1>7 DEF ReturnComponents, ToStage, SdkTyped, Stages, OneBuilds, IndexIsFirst
  <2>2. NotYetBuilt' /\ BuiltOnce' /\ NoneIsMissing'
    BY <1>7 DEF ReturnComponents, NotYetBuilt, BuiltOnce, NoneIsMissing, Wholly, Wanted
  <2> QED
    BY <2>1, <2>2
<1> QED
  BY <1>1, <1>2, <1>3, <1>4, <1>5, <1>6, <1>7 DEF SdkNext

\* get_components constructs no component twice, however many callers race for its lock
\* and whatever constructor raises, and whoever is given the components while nobody
\* builds is given all that are configured, unless a constructor has raised.
THEOREM NothingIsBuiltTwice == SdkSpec => ComponentsAreWhole
<1>1. SdkInv => BuiltOnce
  BY DEF SdkInv
<1>2. SdkInv => [\A c \in Callers :
                    stage[c] = "returning" /\ building = NoCaller /\ ~raised
                        => {"index", "vault"} \cup (enabled \ {"livegrep"}) \subseteq set]_given
  BY DEF SdkInv, IndexIsFirst, NoneIsMissing, Wholly
<1> QED
  BY <1>1, <1>2, SdkBegins, SdkStays, PTL DEF SdkSpec, ComponentsAreWhole, TuplesAreComplete

(***************************************************************************)
(* The rate limiter.                                                       *)
(***************************************************************************)
Stamps == [number : Nat, time : Nat]
CallsMade == [client : Clients, now : Nat]

LimiterTyped ==
    /\ clock \in Nat /\ lastCleanup \in Nat
    /\ requests \in [Clients -> SUBSET Stamps] /\ admitted \in [Clients -> SUBSET Stamps]
    /\ calls \in [Checkers -> CallsMade \cup {Outside}]
    /\ retryAt \in [Clients -> Nat]

\* What is counted was admitted, and the numbers tell the admitted apart.
Counted ==
    \A c \in Clients :
        /\ requests[c] \subseteq admitted[c] /\ IsFiniteSet(admitted[c])
        /\ \A r \in admitted[c] : r.number <= Cardinality(admitted[c])
        /\ Cardinality(requests[c]) <= MaxRequests

\* What is not counted any more has expired for every check to come.
Expired(r, now) == r.time + Window <= now
ForgottenIsExpired ==
    /\ \A t \in Checkers : InCheck(t) => calls[t].now <= clock
    /\ \A c \in Clients : \A r \in admitted[c] \ requests[c] :
         Expired(r, clock) /\ \A t \in Checkers : InCheck(t) => Expired(r, calls[t].now)

\* A client that was refused has as many requests as it may, and is told when the oldest
\* expires; or all have been cleaned up, and the time has come.
RetryIsKnown ==
    \A c \in Clients : retryAt[c] > 0 =>
        \/ requests[c] = {} /\ retryAt[c] <= clock + 1
        \/ Cardinality(requests[c]) = MaxRequests
             /\ retryAt[c] = Oldest(requests[c]) + Window + 1

LimiterInv ==
    LimiterTyped /\ Counted /\ ForgottenIsExpired /\ WindowBound /\ RetryIsKnown

\* min(valid_requests) is the time of one of them, and none is earlier.
LEMMA OldestIsFirst ==
    ASSUME NEW R \in SUBSET Stamps, R # {}
    PROVE  /\ Oldest(R) \in Nat
           /\ \E r \in R : Oldest(R) = r.time
           /\ \A r \in R : Oldest(R) <= r.time
<1> DEFINE times == {r.time : r \in R}
<1>1. times # {} /\ times \subseteq Nat
  BY DEF Stamps
<1>2. PICK time \in times : \A u \in times : ~(<<u, time>> \in OpToRel(<, Nat))
  BY <1>1, NatLessThanWellFounded, WFMin
<1>3. \A u \in times : ~(u < time)
  BY <1>1, <1>2 DEF OpToRel
<1>4. \A u \in times : time <= u
  <2>1. time \in Nat /\ \A u \in times : u \in Nat
    BY <1>1, <1>2
  <2> HIDE DEF times
  <2> QED
    BY ONLY <1>3, <2>1
<1>5. \E m \in times : \A r \in R : m <= r.time
  BY <1>4
<1>6. Oldest(R) \in times /\ \A r \in R : Oldest(R) <= r.time
  BY <1>5 DEF Oldest
<1> QED
  BY <1>1, <1>6

LEMMA LimiterBegins == LimiterInit => LimiterInv
<1> SUFFICES ASSUME LimiterInit PROVE LimiterInv
  OBVIOUS
<1> USE LimiterAssumption DEF LimiterInit
<1>1. LimiterTyped
  <2>1. calls \in [Checkers -> CallsMade \cup {Outside}]
    OBVIOUS
  <2>2. requests \in [Clients -> SUBSET Stamps] /\ admitted \in [Clients -> SUBSET Stamps]
    OBVIOUS
  <2>3. clock \in Nat /\ lastCleanup \in Nat /\ retryAt \in [Clients -> Nat]
    OBVIOUS
  <2> QED
    BY <2>1, <2>2, <2>3 DEF LimiterTyped
<1>2. Counted
  <2>1. ASSUME NEW c \in Clients
        PROVE  requests[c] = {} /\ admitted[c] = {} /\ Cardinality(requests[c]) = 0
    BY FS_EmptySet
  <2>2. 0 <= MaxRequests
    OBVIOUS
  <2> QED
    BY <2>1, <2>2, FS_EmptySet DEF Counted
<1>3. ForgottenIsExpired
  BY DEF ForgottenIsExpired, InCheck
<1>4. WindowBound
  <2>1. ASSUME NEW c \in Clients, NEW w \in Times PROVE InWindow(c, w) = {}
    BY DEF InWindow
  <2>2. Cardinality({}) <= MaxRequests
    BY FS_EmptySet
  <2> QED
    BY <2>1, <2>2 DEF WindowBound
<1>5. RetryIsKnown
  BY DEF RetryIsKnown
<1> QED
  BY <1>1, <1>2, <1>3, <1>4, <1>5 DEF LimiterInv

LEMMA TickStep ==
    ASSUME LimiterInv, Tick
    PROVE  LimiterInv'
<1> USE LimiterAssumption DEF LimiterInv
<1>1. /\ clock \in Nat /\ clock' = clock + 1
      /\ UNCHANGED <<requests, lastCleanup, calls, admitted, retryAt>>
  BY DEF Tick, LimiterTyped
<1>2. LimiterTyped'
  BY <1>1 DEF LimiterTyped
<1>3. Counted' /\ WindowBound'
  BY <1>1 DEF Counted, WindowBound, InWindow
<1>4. ASSUME NEW n \in Nat, n <= clock PROVE n <= clock'
  BY <1>1, <1>4
<1>5. ForgottenIsExpired'
  <2>1. ASSUME NEW t \in Checkers, InCheck(t) PROVE calls[t].now <= clock'
    <3>1. calls[t].now \in Nat
      BY <2>1 DEF InCheck, LimiterTyped, CallsMade
    <3>2. calls[t].now <= clock
      BY <2>1 DEF ForgottenIsExpired
    <3> QED
      BY <1>4, <3>1, <3>2
  <2>2. ASSUME NEW c \in Clients, NEW r \in admitted[c] \ requests[c]
        PROVE  Expired(r, clock')
    <3>1. r.time + Window \in Nat
      BY DEF LimiterTyped, Stamps
    <3>2. r.time + Window <= clock
      BY <2>2 DEF ForgottenIsExpired, Expired
    <3> QED
      BY <1>4, <3>1, <3>2 DEF Expired
  <2> QED
    BY <1>1, <2>1, <2>2 DEF ForgottenIsExpired, InCheck
<1>6. RetryIsKnown'
  <2> SUFFICES ASSUME NEW c \in Clients, retryAt[c] > 0,
                      requests[c] = {}, retryAt[c] <= clock + 1
               PROVE  retryAt[c] <= clock' + 1
    BY <1>1 DEF RetryIsKnown
  <2>1. retryAt[c] \in Nat
    BY DEF LimiterTyped
  <2> HIDE DEF LimiterInv
  <2> QED
    BY <1>1, <2>1
<1> QED
  BY <1>2, <1>3, <1>5, <1>6

LEMMA ReadClockStep ==
    ASSUME LimiterInv, NEW t \in Checkers, NEW c \in Clients, ReadClock(t, c)
    PROVE  LimiterInv'
<1> USE LimiterAssumption DEF LimiterInv
<1>1. /\ calls' = [calls EXCEPT ![t] = [client |-> c, now |-> clock]]
      /\ UNCHANGED <<clock, requests, lastCleanup, admitted, retryAt>>
  BY DEF ReadClock
<1>2. /\ calls'[t] = [client |-> c, now |-> clock]
      /\ \A u \in Checkers \ {t} : calls'[u] = calls[u]
  BY <1>1 DEF LimiterTyped
<1>3. [client |-> c, now |-> clock] \in CallsMade
  BY DEF CallsMade, LimiterTyped
<1>4. LimiterTyped'
  BY <1>1, <1>3 DEF LimiterTyped
<1>5. Counted' /\ WindowBound' /\ RetryIsKnown'
  BY <1>1 DEF Counted, WindowBound, InWindow, RetryIsKnown
<1>6. ForgottenIsExpired'
  <2>1. calls'[t].now = clock /\ clock <= clock
    BY <1>2 DEF LimiterTyped
  <2> QED
    BY <1>1, <1>2, <2>1, OneChecker DEF ForgottenIsExpired
<1> QED
  BY <1>4, <1>5, <1>6

LEMMA ResetStep ==
    ASSUME LimiterInv, NEW cs \in SUBSET Clients, ResetRequests(cs)
    PROVE  LimiterInv'
<1> USE LimiterAssumption DEF LimiterInv
<1>1. /\ requests' = [c \in Clients |-> IF c \in cs THEN {} ELSE requests[c]]
      /\ admitted' = [c \in Clients |-> IF c \in cs THEN {} ELSE admitted[c]]
      /\ retryAt' = [c \in Clients |-> IF c \in cs THEN 0 ELSE retryAt[c]]
      /\ UNCHANGED <<clock, lastCleanup, calls>>
  BY DEF ResetRequests
<1>2. \A c \in Clients :
         \/ requests'[c] = {} /\ admitted'[c] = {} /\ retryAt'[c] = 0
         \/ requests'[c] = requests[c] /\ admitted'[c] = admitted[c] /\ retryAt'[c] = retryAt[c]
  BY <1>1
<1>3. LimiterTyped'
  <2>1. /\ requests' \in [Clients -> SUBSET Stamps] /\ admitted' \in [Clients -> SUBSET Stamps]
    BY <1>1 DEF LimiterTyped
  <2>2. retryAt' \in [Clients -> Nat]
    BY <1>1 DEF LimiterTyped
  <2> QED
    BY <1>1, <2>1, <2>2 DEF LimiterTyped
<1>4. IsFiniteSet({}) /\ Cardinality({}) = 0 /\ 0 <= MaxRequests
  BY FS_EmptySet
<1>5. Counted'
  BY <1>2, <1>4 DEF Counted
<1>6. ForgottenIsExpired'
  BY <1>1, <1>2 DEF ForgottenIsExpired, InCheck
<1>7. WindowBound'
  <2> SUFFICES ASSUME NEW c \in Clients, NEW w \in Times
               PROVE  Cardinality(InWindow(c, w)') <= MaxRequests
    BY DEF WindowBound
  <2>1. CASE admitted'[c] = {}
    <3>1. InWindow(c, w)' = {}
      BY <2>1 DEF InWindow
    <3> QED
      BY <1>4, <3>1
  <2>2. CASE admitted'[c] = admitted[c]
    <3>1. InWindow(c, w)' = InWindow(c, w)
      BY <2>2 DEF InWindow
    <3> QED
      BY <3>1 DEF WindowBound
  <2> QED
    BY <1>2, <2>1, <2>2
<1>8. RetryIsKnown'
  BY <1>1, <1>2 DEF RetryIsKnown
<1> QED
  BY <1>3, <1>5, <1>6, <1>7, <1>8

\* The clean-up changes nothing for the client that is checked, and leaves another all
\* of its requests or none.
LEMMA CleanedKeepsValid ==
    ASSUME LimiterTyped, NEW c \in Clients, NEW now \in Nat
    PROVE  /\ Valid(Cleaned(now)[c], now) = {r \in requests[c] : r.time + Window > now}
           /\ \/ Cleaned(now)[c] = requests[c]
              \/ Cleaned(now)[c] = {} /\ \A r \in requests[c] : Expired(r, now)
           /\ DOMAIN Cleaned(now) = Clients
<1>1. \/ Cleaned(now)[c] = requests[c]
      \/ Cleaned(now)[c] = {} /\ \A r \in requests[c] : Expired(r, now)
  BY DEF Cleaned, Stale, Expired
<1>2. ASSUME NEW r \in requests[c], Expired(r, now) PROVE ~(r.time + Window > now)
  <2>1. r.time + Window \in Nat
    BY LimiterAssumption DEF LimiterTyped, Stamps
  <2> QED
    BY <1>2, <2>1 DEF Expired
<1>3. Valid(Cleaned(now)[c], now) = {r \in requests[c] : r.time + Window > now}
  <2>1. CASE Cleaned(now)[c] = requests[c]
    BY <2>1 DEF Valid
  <2>2. CASE Cleaned(now)[c] = {} /\ \A r \in requests[c] : Expired(r, now)
    BY <1>2, <2>2 DEF Valid
  <2> QED
    BY <1>1, <2>1, <2>2
<1>4. DOMAIN Cleaned(now) = Clients
  BY DEF Cleaned, LimiterTyped
<1> QED
  BY <1>1, <1>3, <1>4

LEMMA CheckStep ==
    ASSUME LimiterInv, NEW t \in Checkers, Check(t)
    PROVE  LimiterInv'
<1> USE DEF LimiterInv
<1> DEFINE c == calls[t].client
           now == calls[t].now
           valid == {r \in requests[c] : r.time + Window > now}
           new == [number |-> Cardinality(admitted[c]) + 1, time |-> now]
<1>1. InCheck(t) /\ c \in Clients /\ now \in Nat
  BY DEF Check, InCheck, LimiterTyped, CallsMade
<1>2. now <= clock
  BY <1>1 DEF ForgottenIsExpired
<1>3. /\ Valid(Cleaned(now)[c], now) = valid
      /\ \A d \in Clients :
            \/ Cleaned(now)[d] = requests[d]
            \/ Cleaned(now)[d] = {} /\ \A r \in requests[d] : Expired(r, now)
      /\ DOMAIN Cleaned(now) = Clients
  BY <1>1, CleanedKeepsValid
<1>4. /\ lastCleanup' = IF CleanupDue(now) THEN now ELSE lastCleanup
      /\ calls' = [calls EXCEPT ![t] = Outside] /\ clock' = clock
      /\ \/ /\ Full(valid) /\ requests' = [Cleaned(now) EXCEPT ![c] = valid]
            /\ retryAt' = [retryAt EXCEPT ![c] = Oldest(valid) + Window + 1]
            /\ admitted' = admitted
         \/ /\ ~Full(valid) /\ requests' = [Cleaned(now) EXCEPT ![c] = valid \cup {new}]
            /\ admitted' = [admitted EXCEPT ![c] = @ \cup {new}]
            /\ retryAt' = [retryAt EXCEPT ![c] = 0]
  BY <1>3 DEF Check, NewRequest
<1>5. \A u \in Checkers : ~InCheck(u)'
  BY <1>4, OneChecker DEF InCheck, LimiterTyped
<1> HIDE DEF c, now
<1>6. /\ IsFiniteSet(admitted[c]) /\ requests[c] \in SUBSET admitted[c]
      /\ requests[c] \in SUBSET Stamps /\ admitted[c] \in SUBSET Stamps
      /\ valid \in SUBSET requests[c]
  BY <1>1 DEF Counted, LimiterTyped
<1>7. /\ IsFiniteSet(requests[c]) /\ Cardinality(requests[c]) \in Nat
      /\ IsFiniteSet(valid) /\ Cardinality(valid) \in Nat
      /\ Cardinality(valid) <= Cardinality(requests[c])
      /\ Cardinality(valid) = Cardinality(requests[c]) => valid = requests[c]
      /\ Cardinality(admitted[c]) \in Nat
  BY <1>6, FS_Subset, FS_CardinalityType
<1>8. Cardinality(requests[c]) <= MaxRequests /\ MaxRequests \in Nat /\ MaxRequests # 0
  BY <1>1, LimiterAssumption DEF Counted
<1>9. new \in Stamps /\ new \notin admitted[c] /\ new.time = now
  <2>1. new \in Stamps /\ new.time = now
    BY <1>1, <1>7 DEF Stamps
  <2>2. ASSUME new \in admitted[c] PROVE FALSE
    <3>1. Cardinality(admitted[c]) + 1 <= Cardinality(admitted[c])
      BY <1>1, <2>2 DEF Counted
    <3> HIDE DEF LimiterInv
    <3> QED
      BY <1>7, <3>1
  <2> QED
    BY <2>1, <2>2
<1>10. /\ \A d \in Clients \ {c} : requests'[d] = Cleaned(now)[d]
       /\ \A d \in Clients \ {c} : admitted'[d] = admitted[d] /\ retryAt'[d] = retryAt[d]
       /\ \/ /\ Full(valid) /\ requests'[c] = valid
             /\ retryAt'[c] = Oldest(valid) + Window + 1 /\ admitted'[c] = admitted[c]
          \/ /\ ~Full(valid) /\ requests'[c] = valid \cup {new}
             /\ retryAt'[c] = 0 /\ admitted'[c] = admitted[c] \cup {new}
  BY <1>1, <1>3, <1>4 DEF LimiterTyped
<1> HIDE DEF new
<1>11. LimiterTyped'
  <2>1. requests' \in [Clients -> SUBSET Stamps]
    <3>1. Cleaned(now) \in [Clients -> SUBSET Stamps]
      BY DEF Cleaned, LimiterTyped
    <3> QED
      BY <1>4, <1>6, <1>9, <3>1
  <2>2. admitted' \in [Clients -> SUBSET Stamps]
    BY <1>4, <1>9 DEF LimiterTyped
  <2>3. retryAt' \in [Clients -> Nat]
    <3>1. Full(valid) => Oldest(valid) + Window + 1 \in Nat
      <4>1. Full(valid) => valid # {}
        BY <1>8, FS_EmptySet DEF Full
      <4>2. valid \in SUBSET Stamps
        BY <1>6
      <4> HIDE DEF valid, LimiterInv
      <4>3. Full(valid) => Oldest(valid) \in Nat
        BY <4>1, <4>2, OldestIsFirst
      <4> QED
        BY <4>3, LimiterAssumption
    <3> QED
      BY <1>4, <3>1 DEF LimiterTyped
  <2>4. calls' \in [Checkers -> CallsMade \cup {Outside}] /\ lastCleanup' \in Nat
    BY <1>1, <1>4 DEF LimiterTyped
  <2> QED
    BY <1>4, <2>1, <2>2, <2>3, <2>4 DEF LimiterTyped
<1>12. Counted'
  <2> SUFFICES ASSUME NEW d \in Clients
               PROVE  /\ requests'[d] \subseteq admitted'[d] /\ IsFiniteSet(admitted'[d])
                      /\ \A r \in admitted'[d] : r.number <= Cardinality(admitted'[d])
                      /\ Cardinality(requests'[d]) <= MaxRequests
    BY DEF Counted
  <2>1. CASE d # c
    <3>1. Cardinality({}) = 0 /\ 0 <= MaxRequests
      BY <1>8, FS_EmptySet
    <3> QED
      BY <1>3, <1>10, <2>1, <3>1 DEF Counted
  <2>2. CASE d = c /\ Full(valid)
    <3>1. Cardinality(valid) <= MaxRequests
      <4> HIDE DEF valid, LimiterInv
      <4> QED
        BY <1>7, <1>8
    <3> QED
      BY <1>6, <1>10, <2>2, <3>1 DEF Counted
  <2>3. CASE d = c /\ ~Full(valid)
    <3>1. requests'[c] = valid \cup {new} /\ admitted'[c] = admitted[c] \cup {new}
      BY <1>10, <2>3
    <3>2. IsFiniteSet(admitted'[c]) /\ Cardinality(admitted'[c]) = Cardinality(admitted[c]) + 1
      <4>1. IsFiniteSet(admitted[c]) /\ new \notin admitted[c]
        BY <1>6, <1>9
      <4> QED
        BY ONLY <4>1, <3>1, FS_AddElement
    <3>3. new \notin valid /\ valid \subseteq admitted[c]
      BY <1>6, <1>9
    <3>4. Cardinality(requests'[c]) = Cardinality(valid) + 1
      <4>1. IsFiniteSet(valid)
        BY <1>7
      <4> HIDE DEF valid, LimiterInv
      <4>2. Cardinality(valid \cup {new}) = Cardinality(valid) + 1
        <5> HIDE DEF LimiterInv
        <5> QED
          BY ONLY <4>1, <3>3, FS_AddElement
      <4> QED
        BY <3>1, <4>2
    <3>5. Cardinality(requests'[c]) <= MaxRequests
      <4> HIDE DEF valid, LimiterInv
      <4> QED
        BY <1>7, <1>8, <2>3, <3>4 DEF Full
    <3>6. ASSUME NEW r \in admitted'[c] PROVE r.number <= Cardinality(admitted'[c])
      <4>1. CASE r \in admitted[c]
        <5>1. r.number \in Nat /\ r.number <= Cardinality(admitted[c])
          BY <1>1, <1>6, <4>1 DEF Counted, Stamps
        <5> HIDE DEF LimiterInv
        <5> QED
          BY <1>7, <3>2, <5>1
      <4>2. CASE r = new
        <5>1. r.number = Cardinality(admitted[c]) + 1
          BY <4>2 DEF new
        <5> HIDE DEF LimiterInv
        <5> QED
          BY <1>7, <3>2, <5>1
      <4> QED
        BY <3>1, <3>6, <4>1, <4>2
    <3> QED
      BY <2>3, <3>1, <3>2, <3>3, <3>5, <3>6
  <2> QED
    BY <2>1, <2>2, <2>3
<1>13. ASSUME NEW r \in Stamps, Expired(r, now) PROVE Expired(r, clock)
  <2>1. r.time + Window \in Nat /\ now \in Nat /\ clock \in Nat /\ r.time + Window <= now
    BY <1>1, <1>13, LimiterAssumption DEF Stamps, LimiterTyped, Expired
  <2> HIDE DEF LimiterInv
  <2> QED
    BY <1>2, <2>1 DEF Expired
<1>14. ForgottenIsExpired'
  <2> SUFFICES ASSUME NEW d \in Clients, NEW r \in admitted'[d] \ requests'[d]
               PROVE  Expired(r, clock)
    BY <1>4, <1>5 DEF ForgottenIsExpired
  <2>1. CASE r \in admitted[d] \ requests[d]
    BY <2>1 DEF ForgottenIsExpired
  <2>2. CASE r \notin admitted[d] \ requests[d]
    <3>1. r \in Stamps /\ r \in requests[d] /\ Expired(r, now)
      <4>1. CASE d # c
        BY <1>3, <1>10, <2>2, <4>1 DEF LimiterTyped
      <4>2. CASE d = c
        <5>1. r \in requests[c] /\ r \notin valid
          BY <1>10, <2>2, <4>2
        <5>2. r \in Stamps /\ ~(r.time + Window > now)
          BY <1>6, <5>1
        <5>3. r.time + Window \in Nat
          BY <5>2, LimiterAssumption DEF Stamps
        <5>4. r.time + Window <= now
          BY <1>1, <5>2, <5>3
        <5> QED
          BY <4>2, <5>1, <5>2, <5>4 DEF Expired
      <4> QED
        BY <4>1, <4>2
    <3> QED
      BY <1>13, <3>1
  <2> QED
    BY <2>1, <2>2
\* A window with the new request in it has no other requests than those that are counted.
<1>15. WindowBound'
  <2> SUFFICES ASSUME NEW d \in Clients, NEW w \in Times
               PROVE  Cardinality(InWindow(d, w)') <= MaxRequests
    BY DEF WindowBound
  <2>1. CASE admitted'[d] = admitted[d]
    <3>1. InWindow(d, w)' = InWindow(d, w)
      BY <2>1 DEF InWindow
    <3> QED
      BY <3>1 DEF WindowBound
  <2>2. CASE admitted'[d] # admitted[d]
    <3>1. d = c /\ ~Full(valid) /\ admitted'[c] = admitted[c] \cup {new}
      BY <1>10, <2>2
    <3>2. w \in Nat
      BY LimiterAssumption DEF Times
    <3>3. CASE ~(now <= w /\ now + Window > w)
      <4>1. InWindow(d, w)' = InWindow(d, w)
        BY <1>9, <3>1, <3>3 DEF InWindow
      <4> QED
        BY <4>1 DEF WindowBound
    <3>4. CASE now <= w /\ now + Window > w
      <4>1. InWindow(d, w)' \subseteq valid \cup {new}
        <5> SUFFICES ASSUME NEW r \in admitted[c], r.time + Window > w PROVE r \in valid
          BY <3>1 DEF InWindow
        <5>1. r.time + Window \in Nat
          BY <1>6, LimiterAssumption DEF Stamps
        <5>2. r.time + Window > now
          BY <1>1, <3>2, <3>4, <5>1
        <5>3. r \in requests[c]
          <6>1. ~Expired(r, now)
            BY <1>1, <5>1, <5>2 DEF Expired
          <6>2. r \notin requests[c] => Expired(r, now)
            BY <1>1 DEF ForgottenIsExpired, now
          <6> QED
            BY <6>1, <6>2
        <5> QED
          BY <5>2, <5>3
      <4> HIDE DEF valid, LimiterInv
      <4>a. IsFiniteSet(valid) /\ Cardinality(valid) \in Nat
        BY <1>7
      <4>b. /\ IsFiniteSet(valid \cup {new})
            /\ Cardinality(valid \cup {new})
                 = IF new \in valid THEN Cardinality(valid) ELSE Cardinality(valid) + 1
        BY ONLY <4>a, FS_AddElement
      <4>2. IsFiniteSet(valid \cup {new}) /\ Cardinality(valid \cup {new}) <= Cardinality(valid) + 1
        BY <4>a, <4>b
      <4>3. /\ Cardinality(InWindow(d, w)') <= Cardinality(valid \cup {new})
            /\ Cardinality(InWindow(d, w)') \in Nat
        BY <4>1, <4>2, FS_Subset, FS_CardinalityType
      <4>4. Cardinality(valid \cup {new}) \in Nat
        BY <4>2, FS_CardinalityType
      <4>5. Cardinality(valid) + 1 <= MaxRequests
        BY <1>7, <1>8, <3>1 DEF Full
      <4> QED
        BY <1>7, <1>8, <4>2, <4>3, <4>4, <4>5
    <3> QED
      BY <3>3, <3>4
  <2> QED
    BY <2>1, <2>2
<1>16. RetryIsKnown'
  <2> SUFFICES ASSUME NEW d \in Clients, retryAt'[d] > 0
               PROVE  \/ requests'[d] = {} /\ retryAt'[d] <= clock + 1
                      \/ /\ Cardinality(requests'[d]) = MaxRequests
                         /\ retryAt'[d] = Oldest(requests'[d]) + Window + 1
    BY <1>4 DEF RetryIsKnown
  <2>1. CASE d = c
    <3>1. Full(valid) /\ requests'[c] = valid /\ retryAt'[c] = Oldest(valid) + Window + 1
      BY <1>10, <2>1
    <3>2. Cardinality(valid) = MaxRequests
      <4> HIDE DEF valid, LimiterInv
      <4> QED
        BY <1>7, <1>8, <3>1 DEF Full
    <3> QED
      BY <2>1, <3>1, <3>2
  <2>2. CASE d # c /\ requests'[d] = requests[d]
    BY <1>10, <2>2 DEF RetryIsKnown
  <2>3. CASE d # c /\ requests'[d] # requests[d]
    <3>1. /\ requests'[d] = {} /\ retryAt'[d] = retryAt[d]
          /\ \A r \in requests[d] : Expired(r, now)
      BY <1>3, <1>10, <2>3
    <3>2. CASE requests[d] = {}
      BY <2>3, <3>1, <3>2
    <3>3. CASE requests[d] # {}
      <4>1. retryAt[d] = Oldest(requests[d]) + Window + 1
        BY <3>1, <3>3 DEF RetryIsKnown
      <4>2. requests[d] \in SUBSET Stamps
        BY DEF LimiterTyped
      <4>3. Oldest(requests[d]) \in Nat /\ \E r \in requests[d] : Oldest(requests[d]) = r.time
        BY <3>3, <4>2, OldestIsFirst
      <4>4. Oldest(requests[d]) + Window <= now
        BY <3>1, <4>3 DEF Expired
      <4>5. clock \in Nat /\ Window \in Nat
        BY LimiterAssumption DEF LimiterTyped
      <4> HIDE DEF LimiterInv
      <4>6. retryAt[d] <= clock + 1
        BY <1>1, <1>2, <4>1, <4>3, <4>4, <4>5
      <4> QED
        BY <3>1, <4>6
    <3> QED
      BY <3>2, <3>3
  <2> QED
    BY <2>1, <2>2, <2>3
<1> QED
  BY <1>11, <1>12, <1>14, <1>15, <1>16

LEMMA LimiterStays == LimiterInv /\ [LimiterNext]_limiterVars => LimiterInv'
<1> SUFFICES ASSUME LimiterInv, [LimiterNext]_limiterVars PROVE LimiterInv'
  OBVIOUS
<1>1. CASE UNCHANGED limiterVars
  BY <1>1 DEF limiterVars, LimiterInv, LimiterTyped, Counted, ForgottenIsExpired, InCheck,
              WindowBound, InWindow, RetryIsKnown
<1>2. \A c \in Clients : {c} \in SUBSET Clients
  OBVIOUS
<1> QED
  BY <1>1, <1>2, TickStep, ReadClockStep, ResetStep, CheckStep DEF LimiterNext

\* Until the oldest of the most that a client may have has expired, it has as many; from
\* then on it has fewer.
LEMMA RetryIsExact == LimiterInv => RetryAfterIsExact
<1> SUFFICES ASSUME LimiterInv, NEW c \in Clients, retryAt[c] > 0
             PROVE  Full(Valid(requests[c], clock)) <=> clock + 1 < retryAt[c]
  BY DEF RetryAfterIsExact
<1> DEFINE valid == Valid(requests[c], clock)
<1>1. /\ clock \in Nat /\ Window \in Nat /\ MaxRequests \in Nat /\ MaxRequests # 0
      /\ requests[c] \in SUBSET Stamps
      /\ retryAt[c] \in Nat
  BY LimiterAssumption DEF LimiterInv, LimiterTyped
<1>2. IsFiniteSet(requests[c])
  BY FS_Subset DEF LimiterInv, Counted
<1>3. valid \in SUBSET requests[c]
  BY DEF Valid
<1>4. CASE requests[c] = {} /\ retryAt[c] <= clock + 1
  <2>1. valid = {}
    BY <1>3, <1>4
  <2>2. ~Full(valid)
    BY <1>1, <2>1, FS_EmptySet DEF Full
  <2>3. ~(clock + 1 < retryAt[c])
    BY <1>1, <1>4
  <2> QED
    BY <2>2, <2>3
<1>5. CASE /\ Cardinality(requests[c]) = MaxRequests
           /\ retryAt[c] = Oldest(requests[c]) + Window + 1
  <2>1. requests[c] # {}
    BY <1>1, <1>5, FS_EmptySet
  <2>2. /\ Oldest(requests[c]) \in Nat
        /\ \E r \in requests[c] : Oldest(requests[c]) = r.time
        /\ \A r \in requests[c] : Oldest(requests[c]) <= r.time
    BY <1>1, <2>1, OldestIsFirst
  <2>3. clock + 1 < retryAt[c] <=> Oldest(requests[c]) + Window > clock
    BY <1>1, <1>5, <2>2
  <2>4. ASSUME Oldest(requests[c]) + Window > clock PROVE Full(valid)
    <3>1. ASSUME NEW r \in requests[c] PROVE r.time + Window > clock
      <4>1. r.time \in Nat /\ Oldest(requests[c]) <= r.time
        BY <1>1, <2>2 DEF Stamps
      <4> QED
        BY <1>1, <2>2, <2>4, <4>1
    <3>2. valid = requests[c]
      BY <3>1 DEF Valid
    <3> QED
      BY <1>1, <1>5, <3>2 DEF Full
  <2>5. ASSUME ~(Oldest(requests[c]) + Window > clock) PROVE ~Full(valid)
    <3>1. valid # requests[c]
      BY <2>2, <2>5 DEF Valid
    <3> HIDE DEF valid
    <3>2. /\ IsFiniteSet(valid) /\ Cardinality(valid) <= MaxRequests
          /\ Cardinality(valid) # MaxRequests
      BY <1>2, <1>3, <1>5, <3>1, FS_Subset
    <3>3. Cardinality(valid) \in Nat
      BY <3>2, FS_CardinalityType
    <3> QED
      BY <1>1, <3>2, <3>3 DEF Full
  <2> QED
    BY <2>3, <2>4, <2>5
<1> QED
  BY <1>4, <1>5 DEF LimiterInv, RetryIsKnown

\* For every limit, every window and any number of clients, however the time passes
\* between the reading of the clock and the check and whatever is cleaned up and reset:
\* no window has more admitted requests of a client than the limit, and a client that is
\* refused is told exactly when it can be admitted again.
THEOREM LimitIsKept == LimiterSpec => []LimitIsExact
<1>1. LimiterInv => LimitIsExact
  BY RetryIsExact DEF LimiterInv, LimitIsExact
<1> QED
  BY <1>1, LimiterBegins, LimiterStays, PTL DEF LimiterSpec

\* Of the requests that a check does not find among the counted ones none is in its window.
LEMMA CountedAreRecent ==
    ASSUME LimiterInv, NEW t \in Checkers, InCheck(t)
    PROVE  LET c   == calls[t].client
               now == calls[t].now
           IN  /\ c \in Clients /\ now \in Nat
               /\ Valid(Cleaned(now)[c], now) = Ideal!Recent(c, now)
               /\ Ideal!Recent(c, now) \in SUBSET Stamps /\ IsFiniteSet(Ideal!Recent(c, now))
<1> DEFINE c == calls[t].client
           now == calls[t].now
<1>1. c \in Clients /\ now \in Nat
  BY DEF InCheck, LimiterInv, LimiterTyped, CallsMade
<1>2. Valid(Cleaned(now)[c], now) = {r \in requests[c] : r.time + Window > now}
  BY <1>1, CleanedKeepsValid DEF LimiterInv
<1>3. ASSUME NEW r \in admitted[c], r.time + Window > now PROVE r \in requests[c]
  <2>1. SUFFICES ASSUME r \notin requests[c] PROVE FALSE
    OBVIOUS
  <2>2. r.time + Window <= now
    BY <1>1, <2>1 DEF LimiterInv, ForgottenIsExpired, Expired
  <2>3. r.time + Window \in Nat
    BY <1>1, LimiterAssumption DEF LimiterInv, LimiterTyped, Stamps
  <2> HIDE DEF now
  <2> QED
    BY <1>1, <1>3, <2>2, <2>3
<1>4. requests[c] \subseteq admitted[c] /\ IsFiniteSet(admitted[c]) /\ admitted[c] \subseteq Stamps
  BY <1>1 DEF LimiterInv, LimiterTyped, Counted
<1>5. Valid(Cleaned(now)[c], now) = Ideal!Recent(c, now)
  BY <1>2, <1>3, <1>4 DEF Ideal!Recent
<1>6. Ideal!Recent(c, now) \in SUBSET admitted[c]
  BY DEF Ideal!Recent
<1>7. IsFiniteSet(Ideal!Recent(c, now))
  BY <1>4, <1>6, FS_Subset
<1> QED
  BY <1>1, <1>4, <1>5, <1>6, <1>7

\* Counting is the same in both modules.
LEMMA SameCount == ASSUME NEW S PROVE Ideal!Cardinality(S) = Cardinality(S)
BY DEF Ideal!Cardinality, Cardinality

LEMMA CheckDecides ==
    ASSUME LimiterInv, NEW t \in Checkers, Check(t)
    PROVE  Ideal!Admit(t) \/ Ideal!Refuse(t)
<1> DEFINE c == calls[t].client
           now == calls[t].now
           recent == Ideal!Recent(c, now)
<1>1. calls[t] # Outside /\ InCheck(t)
  BY DEF Check, InCheck
<1>2. /\ c \in Clients /\ now \in Nat /\ Valid(Cleaned(now)[c], now) = recent
      /\ recent \in SUBSET Stamps /\ IsFiniteSet(recent)
  BY <1>1, CountedAreRecent
<1>3. Cardinality(recent) \in Nat /\ MaxRequests \in Nat /\ MaxRequests # 0
  BY <1>2, FS_CardinalityType, LimiterAssumption
<1>4. calls' = [calls EXCEPT ![t] = Outside] /\ clock' = clock
  BY DEF Check
<1>5. CASE Full(recent)
  <2>1. admitted' = admitted /\ retryAt' = [retryAt EXCEPT ![c] = Oldest(recent) + Window + 1]
    BY <1>2, <1>5 DEF Check
  <2>2. Cardinality(recent) >= MaxRequests
    BY <1>5 DEF Full
  <2>3. recent # {}
    BY <1>3, <2>2, FS_EmptySet
  <2>4. PICK r \in recent : Oldest(recent) = r.time
    BY <1>2, <2>3, OldestIsFirst
  <2>5. \A s \in recent : r.time <= s.time
    BY <1>2, <2>3, <2>4, OldestIsFirst
  <2>6. retryAt' = [retryAt EXCEPT ![c] = r.time + Window + 1]
    BY <2>1, <2>4
  <2> QED
    BY <1>1, <1>4, <2>1, <2>2, <2>5, <2>6, SameCount DEF Ideal!Refuse
<1>6. CASE ~Full(recent)
  <2>1. admitted' = [admitted EXCEPT ![c] = @ \cup {NewRequest(c, now)}]
        /\ retryAt' = [retryAt EXCEPT ![c] = 0]
    BY <1>2, <1>6 DEF Check
  <2>2. Cardinality(recent) < MaxRequests
    BY <1>3, <1>6 DEF Full
  <2>3. admitted' = [admitted EXCEPT ![c] = @ \cup
                        {[number |-> Cardinality(@) + 1, time |-> now]}]
    BY <1>2, <2>1 DEF NewRequest, LimiterInv, LimiterTyped
  <2> QED
    BY <1>1, <1>4, <2>1, <2>2, <2>3, SameCount DEF Ideal!Admit
<1> QED
  BY <1>5, <1>6

LEMMA LimiterStepRefines ==
    ASSUME LimiterInv, [LimiterNext]_limiterVars
    PROVE  [Ideal!Next]_<<clock, admitted, calls, retryAt>>
<1>1. CASE UNCHANGED limiterVars
  BY <1>1 DEF limiterVars
<1>2. CASE Tick
  BY <1>2 DEF Tick, Ideal!Next, Ideal!TimePasses
<1>3. ASSUME NEW t \in Checkers, Check(t) PROVE Ideal!Next
  BY <1>3, CheckDecides DEF Ideal!Next
<1>4. ASSUME NEW t \in Checkers, NEW c \in Clients, ReadClock(t, c) PROVE Ideal!Next
  BY <1>4 DEF ReadClock, Ideal!Next, Ideal!Ask
<1>5. ASSUME NEW cs \in SUBSET Clients, ResetRequests(cs) PROVE Ideal!Next
  BY <1>5 DEF ResetRequests, Ideal!Next, Ideal!Reset
<1>6. \A c \in Clients : {c} \in SUBSET Clients
  OBVIOUS
<1> QED
  BY <1>1, <1>2, <1>3, <1>4, <1>5, <1>6 DEF LimiterNext

\* Whatever the rate limiter prunes and cleans up, and however long a check waits for the
\* lock: it admits and refuses whom the limiter that forgets nothing does, and tells those
\* it refuses the same time.
THEOREM LimiterRefinement == LimiterSpec => ImplementsSlidingWindow
<1>1. LimiterInit => Ideal!Init
  BY DEF LimiterInit, Ideal!Init
<1>2. LimiterInv /\ [LimiterNext]_limiterVars => [Ideal!Next]_<<clock, admitted, calls, retryAt>>
  BY LimiterStepRefines
<1> QED
  BY <1>1, <1>2, LimiterBegins, LimiterStays, PTL DEF LimiterSpec, ImplementsSlidingWindow, Ideal!Spec

(***************************************************************************)
(* The research sessions.                                                  *)
(***************************************************************************)
NotePlaces == (Names \X Nat) \cup (Sessions \X Nat)
Endings == [id : Sessions, step : {"transcript", "leave"}]

ResearchTyped ==
    /\ name \in [Sessions -> Names \cup {Nothing}]
    /\ active \in [Servers -> SUBSET Sessions]
    /\ rows \in SUBSET Sessions
    /\ texts \in [Names -> SUBSET Transcripts]
    /\ noted \in [Captures -> NotePlaces \cup {Nothing}]
    /\ marker \in Sessions \cup {Nothing}
    /\ ending \in [Servers -> Endings \cup {NotEnding}]
    /\ told \in [Sessions -> SUBSET Transcripts]
    /\ stale \in BOOLEAN
    /\ held \in [Sessions -> SUBSET (Transcripts \cup Captures)]
    /\ \A i \in Sessions : IsFiniteSet(held[i])

\* What is active, has a row or is being ended has been started, by one server.
Started ==
    /\ \A s \in Servers : \A i \in active[s] : name[i] # Nothing
    /\ \A i \in rows : name[i] # Nothing
    /\ \A s \in Servers : ~Free(s) => name[ending[s].id] # Nothing
    /\ \A i \in Sessions : name[i] = Nothing => told[i] = {}
    /\ \A s, u \in Servers : \A i \in active[s] \cap active[u] : s = u

\* While a session is active its server has all that it was told ...
ToldIsHeld == \A s \in Servers : \A i \in active[s] : told[i] \subseteq held[i]

\* ... and once it is not, or is about to be no more, the transcript note has it.
Ended(i) == \A s \in Servers : i \in active[s] => ending[s] = [id |-> i, step |-> "leave"]
ToldIsWritten ==
    \A i \in Sessions :
        name[i] # Nothing /\ Alone(i) /\ Ended(i) => told[i] \subseteq texts[name[i]]

\* The notes in the folder of a name are of a session with that name, and while it is
\* active their numbers go no further than its captures.
NotesAreNumbered ==
    /\ \A x \in Captures :
         noted[x] # Nothing /\ noted[x][1] \in Names => \E i \in Sessions : name[i] = noted[x][1]
    /\ \A s \in Servers : \A i \in active[s] : Alone(i) =>
         \A x \in Captures : noted[x] # Nothing /\ noted[x][1] = name[i] =>
             noted[x][2] <= Cardinality(held[i] \cap Captures)

NotesAreApart ==
    \A i \in Sessions : name[i] # Nothing /\ Alone(i) =>
        \A x, y \in Captures :
            x # y /\ noted[x] # Nothing /\ noted[x][1] = name[i] => noted[x] # noted[y]

ResearchInv ==
    /\ ResearchTyped /\ Started /\ ToldIsHeld /\ ToldIsWritten
    /\ NotesAreNumbered /\ NotesAreApart /\ MarkerIsOpen

LEMMA ResearchBegins == ResearchInit => ResearchInv
<1> SUFFICES ASSUME ResearchInit PROVE ResearchInv
  OBVIOUS
<1>1. ResearchTyped
  <2>1. \A i \in Sessions : held[i] = {} /\ IsFiniteSet(held[i])
    BY FS_EmptySet DEF ResearchInit
  <2>2. /\ name \in [Sessions -> Names \cup {Nothing}]
        /\ active \in [Servers -> SUBSET Sessions] /\ rows \in SUBSET Sessions
        /\ texts \in [Names -> SUBSET Transcripts]
        /\ told \in [Sessions -> SUBSET Transcripts] /\ stale \in BOOLEAN
    BY DEF ResearchInit
  <2>3. /\ noted \in [Captures -> NotePlaces \cup {Nothing}]
        /\ marker \in Sessions \cup {Nothing}
        /\ ending \in [Servers -> Endings \cup {NotEnding}]
        /\ held \in [Sessions -> SUBSET (Transcripts \cup Captures)]
    BY DEF ResearchInit
  <2> QED
    BY <2>1, <2>2, <2>3 DEF ResearchTyped
<1>2. Started /\ ToldIsHeld /\ ToldIsWritten
  BY DEF ResearchInit, Started, Free, ToldIsHeld, ToldIsWritten
<1>3. NotesAreNumbered /\ NotesAreApart /\ MarkerIsOpen
  BY DEF ResearchInit, NotesAreNumbered, NotesAreApart, MarkerIsOpen
<1> QED
  BY <1>1, <1>2, <1>3 DEF ResearchInv

\* A name is not Nothing, and no two kinds of folders are one.
LEMMA NamesAreNames ==
    ASSUME ResearchTyped
    PROVE  /\ \A i \in Sessions : name[i] # Nothing => name[i] \in Names
           /\ \A n \in Names : n # Nothing /\ n \notin Sessions
           /\ \A x \in Captures : noted[x] # Nothing => noted[x] \in NotePlaces
           /\ Nothing \notin NotePlaces
BY ResearchAssumption DEF ResearchTyped, NotePlaces

LEMMA StartSteps ==
    ASSUME ResearchInv, NEW s \in Servers, NEW i \in Sessions, NEW n \in Names,
           StartSession(s, i, n)
    PROVE  ResearchInv'
<1> USE DEF ResearchInv
<1>1. /\ ending[s] = NotEnding /\ name[i] = Nothing
      /\ name' = [name EXCEPT ![i] = n] /\ active' = [active EXCEPT ![s] = @ \cup {i}]
      /\ rows' \in {rows, rows \cup {i}} /\ marker' \in {marker, i}
      /\ UNCHANGED <<held, texts, noted, ending, told, stale>>
  BY DEF StartSession, Free
<1>2. ResearchTyped'
  BY <1>1 DEF ResearchTyped
<1>3. n # Nothing /\ told[i] = {} /\ \A u \in Servers : i \notin active[u]
  BY <1>1, NamesAreNames DEF Started
<1>4. /\ name'[i] = n /\ \A k \in Sessions \ {i} : name'[k] = name[k]
      /\ active'[s] = active[s] \cup {i}
      /\ \A u \in Servers \ {s} : active'[u] = active[u]
  BY <1>1 DEF ResearchTyped
<1>5. \A k \in Sessions \ {i} : name[k] # Nothing /\ Alone(k)' => Alone(k)
  BY <1>1, <1>4 DEF Alone
<1>6. Started'
  <2>1. \A u \in Servers : \A k \in active'[u] : name'[k] # Nothing
    BY <1>3, <1>4, <1>2 DEF Started, ResearchTyped
  <2>2. \A k \in rows' : name'[k] # Nothing
    BY <1>1, <1>3, <1>4, <1>2 DEF Started, ResearchTyped
  <2>3. \A u \in Servers : ~Free(u)' => name'[ending'[u].id] # Nothing
    <3> SUFFICES ASSUME NEW u \in Servers, ~Free(u)' PROVE name'[ending'[u].id] # Nothing
      OBVIOUS
    <3>1. ~Free(u) /\ ending[u] \in Endings /\ ending'[u] = ending[u]
      BY <1>1 DEF Free, ResearchTyped
    <3>2. ending[u].id \in Sessions /\ name[ending[u].id] # Nothing
      BY <3>1 DEF Started, Endings
    <3> QED
      BY <1>3, <1>4, <3>1, <3>2
  <2>4. \A k \in Sessions : name'[k] = Nothing => told'[k] = {}
    BY <1>1, <1>3, <1>4 DEF Started
  <2>5. \A u, v \in Servers : \A k \in active'[u] \cap active'[v] : u = v
    BY <1>3, <1>4 DEF Started
  <2> QED
    BY <2>1, <2>2, <2>3, <2>4, <2>5 DEF Started
<1>7. ToldIsHeld'
  BY <1>1, <1>3, <1>4 DEF ToldIsHeld
<1>8. ToldIsWritten'
  <2> SUFFICES ASSUME NEW k \in Sessions, name'[k] # Nothing, Alone(k)', Ended(k)'
               PROVE  told'[k] \subseteq texts'[name'[k]]
    BY DEF ToldIsWritten
  <2>1. CASE k = i
    BY <1>1, <1>3, <2>1
  <2>2. CASE k # i
    <3>1. name[k] # Nothing /\ Alone(k) /\ name'[k] = name[k]
      BY <1>4, <1>5, <2>2
    <3>2. Ended(k)
      BY <1>1, <1>4, <2>2 DEF Ended
    <3> QED
      BY <1>1, <3>1, <3>2 DEF ToldIsWritten
  <2> QED
    BY <2>1, <2>2
<1>9. ASSUME Alone(i)', NEW x \in Captures, noted[x] # Nothing PROVE noted[x][1] # n
  BY <1>1, <1>3, <1>4, <1>9 DEF NotesAreNumbered, Alone
<1>10. NotesAreNumbered'
  <2>1. ASSUME NEW x \in Captures, noted'[x] # Nothing, noted'[x][1] \in Names
        PROVE  \E k \in Sessions : name'[k] = noted'[x][1]
    BY <1>1, <1>4, <2>1, NamesAreNames DEF NotesAreNumbered
  <2>2. ASSUME NEW u \in Servers, NEW k \in active'[u], Alone(k)',
               NEW x \in Captures, noted'[x] # Nothing, noted'[x][1] = name'[k]
        PROVE  noted'[x][2] <= Cardinality(held'[k] \cap Captures)
    <3>1. k # i
      BY <1>1, <1>4, <1>9, <2>2
    <3>2. k \in Sessions /\ k \in active[u] /\ name[k] # Nothing /\ name'[k] = name[k]
      BY <1>4, <1>2, <2>2, <3>1 DEF Started, ResearchTyped
    <3>3. Alone(k)
      BY <1>5, <2>2, <3>1, <3>2
    <3> QED
      BY <1>1, <2>2, <3>2, <3>3 DEF NotesAreNumbered
  <2> QED
    BY <2>1, <2>2 DEF NotesAreNumbered
<1>11. NotesAreApart'
  BY <1>1, <1>4, <1>5, <1>9 DEF NotesAreApart
<1>12. MarkerIsOpen'
  BY <1>1, <1>4 DEF MarkerIsOpen, IsActive
<1> QED
  BY <1>2, <1>6, <1>7, <1>8, <1>10, <1>11, <1>12

\* A session whose server is free is not being ended by it.
LEMMA FreeIsNotEnded ==
    ASSUME NEW s \in Servers, NEW i \in Sessions, i \in active[s], Free(s)
    PROVE  ~Ended(i)
BY DEF Free, NotEnding, Ended

\* Where the items of a session stay or grow, so does the number of its captures.
LEMMA MoreCaptures ==
    ASSUME NEW H, NEW x, IsFiniteSet(H)
    PROVE  /\ IsFiniteSet(H \cup {x})
           /\ Cardinality(H \cap Captures) \in Nat
           /\ Cardinality((H \cup {x}) \cap Captures) \in Nat
           /\ Cardinality(H \cap Captures) <= Cardinality((H \cup {x}) \cap Captures)
           /\ x \in Captures \ H =>
                 Cardinality((H \cup {x}) \cap Captures) = Cardinality(H \cap Captures) + 1
<1> DEFINE A == H \cap Captures
           B == (H \cup {x}) \cap Captures
<1>1. IsFiniteSet(H \cup {x})
  BY FS_AddElement
<1>2. IsFiniteSet(A) /\ IsFiniteSet(B)
  BY <1>1, FS_Subset
<1>3. Cardinality(A) \in Nat /\ Cardinality(B) \in Nat
  BY <1>2, FS_CardinalityType
<1>4. A \in SUBSET B
  OBVIOUS
<1>5. Cardinality(A) <= Cardinality(B)
  BY <1>2, <1>4, FS_Subset
<1>6. ASSUME x \in Captures \ H PROVE Cardinality(B) = Cardinality(A) + 1
  <2>1. B = A \cup {x} /\ x \notin A
    BY <1>6
  <2> HIDE DEF A, B
  <2> QED
    BY <1>2, <2>1, FS_AddElement
<1> QED
  BY <1>1, <1>3, <1>5, <1>6

LEMMA StoreTranscriptStep ==
    ASSUME ResearchInv, NEW s \in Servers, NEW i \in Sessions, NEW x \in Transcripts,
           StoreTranscript(s, i, x)
    PROVE  ResearchInv'
<1> USE DEF ResearchInv
<1>1. /\ Free(s) /\ i \in active[s]
      /\ held' = [held EXCEPT ![i] = @ \cup {x}] /\ told' = [told EXCEPT ![i] = @ \cup {x}]
      /\ UNCHANGED <<name, active, rows, texts, noted, marker, ending, stale>>
  BY DEF StoreTranscript
<1>2. /\ held'[i] = held[i] \cup {x} /\ told'[i] = told[i] \cup {x}
      /\ \A k \in Sessions \ {i} : held'[k] = held[k] /\ told'[k] = told[k]
  BY <1>1 DEF ResearchTyped
<1>3. /\ IsFiniteSet(held'[i])
      /\ Cardinality(held[i] \cap Captures) \in Nat
      /\ Cardinality(held'[i] \cap Captures) \in Nat
      /\ Cardinality(held[i] \cap Captures) <= Cardinality(held'[i] \cap Captures)
  <2>1. IsFiniteSet(held[i])
    BY DEF ResearchTyped
  <2> HIDE DEF ResearchInv
  <2>2. /\ IsFiniteSet(held[i] \cup {x})
        /\ Cardinality(held[i] \cap Captures) \in Nat
        /\ Cardinality((held[i] \cup {x}) \cap Captures) \in Nat
        /\ Cardinality(held[i] \cap Captures) <= Cardinality((held[i] \cup {x}) \cap Captures)
    BY <2>1, MoreCaptures
  <2> QED
    BY <1>2, <2>2
<1>4. ResearchTyped'
  <2>1. /\ held' \in [Sessions -> SUBSET (Transcripts \cup Captures)]
        /\ told' \in [Sessions -> SUBSET Transcripts]
    BY <1>1 DEF ResearchTyped
  <2>2. \A k \in Sessions : IsFiniteSet(held'[k])
    BY <1>2, <1>3 DEF ResearchTyped
  <2> QED
    BY <1>1, <2>1, <2>2 DEF ResearchTyped
<1>5. Started'
  BY <1>1, <1>2 DEF Started, Free
<1>6. ToldIsHeld'
  BY <1>1, <1>2 DEF ToldIsHeld, ResearchTyped
<1>7. \A k \in Sessions : (Alone(k)' <=> Alone(k)) /\ (Ended(k)' <=> Ended(k))
  BY <1>1 DEF Alone, Ended
<1>8. ToldIsWritten'
  BY <1>1, <1>2, <1>7, FreeIsNotEnded DEF ToldIsWritten
<1>9. NotesAreNumbered'
  <2>1. ASSUME NEW u \in Servers, NEW k \in active[u], Alone(k),
               NEW y \in Captures, noted[y] # Nothing, noted[y][1] = name[k]
        PROVE  noted[y][2] <= Cardinality(held'[k] \cap Captures)
    <3>1. noted[y][2] <= Cardinality(held[k] \cap Captures) /\ k \in Sessions
      BY <2>1 DEF NotesAreNumbered, ResearchTyped
    <3>2. CASE k # i
      BY <1>2, <3>1, <3>2
    <3>3. CASE k = i
      <4>1. noted[y][2] \in Nat
        BY <2>1, NamesAreNames DEF NotePlaces
      <4>2. noted[y][2] <= Cardinality(held[i] \cap Captures)
        BY <3>1, <3>3
      <4> HIDE DEF ResearchInv
      <4>3. noted[y][2] <= Cardinality(held'[i] \cap Captures)
        BY <1>3, <4>1, <4>2
      <4> QED
        BY <3>3, <4>3
    <3> QED
      BY <3>2, <3>3
  <2>2. \A u \in Servers : \A k \in active'[u] : k \in Sessions
    BY <1>1 DEF ResearchTyped
  <2> QED
    BY <1>1, <1>7, <2>1, <2>2 DEF NotesAreNumbered
<1>10. NotesAreApart' /\ MarkerIsOpen'
  BY <1>1, <1>7 DEF NotesAreApart, MarkerIsOpen, IsActive
<1> QED
  BY <1>4, <1>5, <1>6, <1>8, <1>9, <1>10

LEMMA StoreCaptureStep ==
    ASSUME ResearchInv, NEW s \in Servers, NEW i \in Sessions, NEW x \in Captures,
           StoreCapture(s, i, x)
    PROVE  ResearchInv'
<1> USE DEF ResearchInv
<1> DEFINE number == Cardinality(held[i] \cap Captures) + 1
<1>1. /\ noted[x] = Nothing /\ x \notin held[i] /\ name[i] # Nothing
      /\ noted' \in {noted, [noted EXCEPT ![x] = NoteOf(s, i)]}
      /\ UNCHANGED <<name, active, rows, texts, marker, ending, told, stale>>
  BY DEF StoreCapture
<1>2. /\ held'[i] = IF i \in active[s] THEN held[i] \cup {x} ELSE held[i]
      /\ \A k \in Sessions \ {i} : held'[k] = held[k]
      /\ held' \in [Sessions -> SUBSET (Transcripts \cup Captures)]
  BY DEF StoreCapture, ResearchTyped
<1>3. /\ IsFiniteSet(held[i] \cup {x})
      /\ Cardinality(held[i] \cap Captures) \in Nat
      /\ Cardinality((held[i] \cup {x}) \cap Captures) = number
  BY <1>1, MoreCaptures DEF ResearchTyped
<1>4. NoteOf(s, i) \in NotePlaces
  BY <1>1, <1>3, NamesAreNames DEF NoteOf, NotePlaces
<1>5. ResearchTyped'
  <2>1. noted' \in [Captures -> NotePlaces \cup {Nothing}]
    BY <1>1, <1>4 DEF ResearchTyped
  <2>2. \A k \in Sessions : IsFiniteSet(held'[k])
    BY <1>2, <1>3 DEF ResearchTyped
  <2> QED
    BY <1>1, <1>2, <2>1, <2>2 DEF ResearchTyped
<1>6. Started'
  BY <1>1 DEF Started, Free
<1>7. ToldIsHeld'
  BY <1>1, <1>2 DEF ToldIsHeld, ResearchTyped
<1>8. \A k \in Sessions : (Alone(k)' <=> Alone(k)) /\ (Ended(k)' <=> Ended(k))
  BY <1>1 DEF Alone, Ended
<1>9. ToldIsWritten' /\ MarkerIsOpen'
  BY <1>1, <1>8 DEF ToldIsWritten, MarkerIsOpen, IsActive
<1>10. \A y \in Captures \ {x} : noted'[y] = noted[y]
  BY <1>1 DEF ResearchTyped
<1>11. noted'[x] = Nothing \/ noted'[x] = NoteOf(s, i)
  BY <1>1 DEF ResearchTyped
<1>12. /\ i \in active[s] => NoteOf(s, i)[1] = name[i] /\ NoteOf(s, i)[2] = number
       /\ i \notin active[s] => NoteOf(s, i)[1] = i
  BY DEF NoteOf
<1>13. \A k \in Sessions : name[k] # i
  BY NamesAreNames, ResearchAssumption DEF ResearchTyped
\* The numbers of the notes that were there are less than the next one.
<1>14. ASSUME i \in active[s], Alone(i), NEW y \in Captures, noted[y] # Nothing,
              noted[y][1] = name[i]
       PROVE  noted[y][2] \in Nat /\ noted[y][2] < number
  <2>1. noted[y][2] \in Nat
    BY <1>14, NamesAreNames DEF NotePlaces
  <2>2. noted[y][2] <= Cardinality(held[i] \cap Captures)
    BY <1>14 DEF NotesAreNumbered
  <2> HIDE DEF ResearchInv
  <2> QED
    BY <1>3, <2>1, <2>2
<1>15. NotesAreNumbered'
  <2>1. ASSUME NEW y \in Captures, noted'[y] # Nothing, noted'[y][1] \in Names
        PROVE  \E k \in Sessions : name[k] = noted'[y][1]
    <3>1. CASE y = x
      BY <1>11, <1>12, <2>1, <3>1, NamesAreNames, ResearchAssumption
    <3>2. CASE y # x
      BY <1>10, <2>1, <3>2 DEF NotesAreNumbered
    <3> QED
      BY <3>1, <3>2
  <2>2. ASSUME NEW u \in Servers, NEW k \in active[u], Alone(k),
               NEW y \in Captures, noted'[y] # Nothing, noted'[y][1] = name[k]
        PROVE  noted'[y][2] <= Cardinality(held'[k] \cap Captures)
    <3>1. k \in Sessions /\ name[k] # Nothing
      BY DEF ResearchTyped, Started
    <3>2. CASE y = x
      <4>1. i \in active[s] /\ k = i /\ noted'[x][2] = number
        BY <1>1, <1>11, <1>12, <1>13, <2>2, <3>1, <3>2 DEF Alone
      <4>2. Cardinality(held'[i] \cap Captures) = number /\ number \in Nat
        BY <1>2, <1>3, <4>1
      <4> HIDE DEF number
      <4>3. number <= number
        BY <4>2
      <4> QED
        BY <3>2, <4>1, <4>2, <4>3
    <3>3. CASE y # x
      <4>1. noted'[y] = noted[y] /\ noted[y] # Nothing /\ noted[y][1] = name[k]
        BY <1>10, <2>2, <3>3
      <4>2. noted[y][2] <= Cardinality(held[k] \cap Captures)
        BY <2>2, <4>1 DEF NotesAreNumbered
      <4>3. CASE held'[k] = held[k]
        BY <4>1, <4>2, <4>3
      <4>4. CASE held'[k] # held[k]
        <5>1. k = i /\ i \in active[s] /\ held'[i] = held[i] \cup {x}
          BY <1>2, <3>1, <4>4
        <5>2. noted[y][2] \in Nat /\ noted[y][2] < number
          BY <1>14, <2>2, <4>1, <5>1
        <5>3. Cardinality(held'[i] \cap Captures) = number /\ number \in Nat
          BY <1>3, <5>1
        <5> HIDE DEF number
        <5>4. noted[y][2] <= number
          BY <5>2, <5>3
        <5> QED
          BY <4>1, <5>1, <5>3, <5>4
      <4> QED
        BY <4>3, <4>4
    <3> QED
      BY <3>2, <3>3
  <2>3. \A u \in Servers : \A k \in active'[u] : k \in Sessions /\ k \in active[u]
    BY <1>1 DEF ResearchTyped
  <2> QED
    BY <1>1, <1>8, <2>1, <2>2, <2>3 DEF NotesAreNumbered
<1>16. NotesAreApart'
  <2> SUFFICES ASSUME NEW k \in Sessions, name[k] # Nothing, Alone(k),
                      NEW y \in Captures, NEW z \in Captures, y # z,
                      noted'[y] # Nothing, noted'[y][1] = name[k], noted'[y] = noted'[z]
               PROVE  FALSE
    BY <1>1, <1>8 DEF NotesAreApart
  <2>1. CASE y # x /\ z # x
    BY <1>10, <2>1 DEF NotesAreApart
  <2>2. ASSUME NEW v \in Captures, v # x, noted'[v] = noted'[x] PROVE FALSE
    <3>1. noted'[x] # Nothing /\ noted'[x][1] = name[k] /\ noted'[x] = NoteOf(s, i)
      <4>1. y = x \/ z = x
        BY <2>1
      <4> QED
        BY <1>11, <4>1
    <3>2. i \in active[s] /\ k = i /\ noted'[x][2] = number
      BY <1>1, <1>12, <1>13, <3>1 DEF Alone
    <3>3. noted[v] = noted'[x]
      BY <1>10, <2>2
    <3>4. noted[v][2] \in Nat /\ noted[v][2] < number
      BY <1>14, <3>1, <3>2, <3>3
    <3>5. noted[v][2] = number
      BY <3>2, <3>3
    <3> HIDE DEF number
    <3> QED
      BY <3>4, <3>5
  <2> QED
    BY <2>1, <2>2
<1> QED
  BY <1>5, <1>6, <1>7, <1>9, <1>15, <1>16

LEMMA EndStep ==
    ASSUME ResearchInv, NEW s \in Servers, NEW i \in Sessions, EndSession(s, i)
    PROVE  ResearchInv'
<1> USE DEF ResearchInv
<1>1. /\ Free(s) /\ i \in active[s] \cup rows
      /\ ending' = [ending EXCEPT ![s] = [id |-> i, step |-> "transcript"]]
      /\ UNCHANGED <<name, active, held, rows, texts, noted, marker, told, stale>>
  BY DEF EndSession
<1>2. [id |-> i, step |-> "transcript"] \in Endings
  BY DEF Endings
<1>3. ResearchTyped'
  BY <1>1, <1>2 DEF ResearchTyped
<1>4. /\ ending'[s] = [id |-> i, step |-> "transcript"]
      /\ \A u \in Servers \ {s} : ending'[u] = ending[u]
  BY <1>1 DEF ResearchTyped
<1>5. name[i] # Nothing
  BY <1>1 DEF Started
<1>6. \A u \in Servers : ~Free(u)' => name'[ending'[u].id] # Nothing
  BY <1>1, <1>4, <1>5 DEF Free, Started
<1>7. Started'
  BY <1>1, <1>6 DEF Started
<1>8. \A k \in Sessions : (Alone(k)' <=> Alone(k)) /\ (Ended(k)' => Ended(k))
  BY <1>1, <1>4 DEF Alone, Ended
<1>9. ToldIsWritten'
  BY <1>1, <1>8 DEF ToldIsWritten
<1>10. ToldIsHeld' /\ NotesAreApart' /\ MarkerIsOpen'
  BY <1>1, <1>8 DEF ToldIsHeld, NotesAreApart, MarkerIsOpen, IsActive
<1>11. NotesAreNumbered'
  BY <1>1 DEF NotesAreNumbered, Alone
<1> QED
  BY <1>3, <1>7, <1>9, <1>10, <1>11

\* What a server is ending.
LEMMA IsEnding ==
    ASSUME ResearchInv, NEW s \in Servers, ~Free(s)
    PROVE  /\ ending[s] \in Endings /\ ending[s].id \in Sessions
           /\ name[ending[s].id] # Nothing /\ name[ending[s].id] \in Names
           /\ Known(s) \in SUBSET Transcripts
           /\ ending[s].id \in active[s] =>
                 Known(s) = held[ending[s].id] \cap Transcripts
           /\ ending[s].id \notin active[s] => Known(s) = {}
<1>1. ending[s] \in Endings
  BY DEF ResearchInv, ResearchTyped, Free
<1>2. ending[s].id \in Sessions
  BY <1>1 DEF Endings
<1>3. name[ending[s].id] # Nothing
  BY DEF ResearchInv, Started
<1> QED
  BY <1>1, <1>2, <1>3, NamesAreNames DEF ResearchInv, Known

LEMMA WriteStep ==
    ASSUME ResearchInv, NEW s \in Servers, WriteTranscript(s)
    PROVE  ResearchInv'
<1> USE DEF ResearchInv
<1> DEFINE i == ending[s].id
           n == name[i]
<1>1. /\ ending[s].step = "transcript"
      /\ texts' = IF Known(s) = {} THEN texts ELSE [texts EXCEPT ![n] = Known(s)]
      /\ ending' = [ending EXCEPT ![s].step = "leave"]
      /\ UNCHANGED <<name, active, held, rows, noted, marker, told, stale>>
  BY DEF WriteTranscript, IsAt, ServerGoes
<1>2. ~Free(s)
  BY <1>1 DEF Free, NotEnding
<1>3. /\ ending[s] \in Endings /\ i \in Sessions /\ n # Nothing /\ n \in Names
      /\ Known(s) \in SUBSET Transcripts
      /\ i \in active[s] => Known(s) = held[i] \cap Transcripts
      /\ i \notin active[s] => Known(s) = {}
  BY <1>2, IsEnding
<1>4. /\ ending'[s] = [id |-> i, step |-> "leave"] /\ ending'[s] \in Endings
      /\ \A u \in Servers \ {s} : ending'[u] = ending[u]
      /\ ending' \in [Servers -> Endings \cup {NotEnding}]
  BY <1>1, <1>3 DEF ResearchTyped, Endings
<1>5. ResearchTyped'
  <2>1. texts' \in [Names -> SUBSET Transcripts]
    BY <1>1, <1>3 DEF ResearchTyped
  <2> QED
    BY <1>1, <1>4, <2>1 DEF ResearchTyped
<1>6. Started'
  <2>1. \A u \in Servers : ~Free(u)' => name'[ending'[u].id] # Nothing
    BY <1>1, <1>3, <1>4 DEF Free, Started
  <2> QED
    BY <1>1, <2>1 DEF Started
<1>7. \A k \in Sessions : Alone(k)' <=> Alone(k)
  BY <1>1 DEF Alone
<1>8. ToldIsWritten'
  <2> SUFFICES ASSUME NEW k \in Sessions, name[k] # Nothing, Alone(k), Ended(k)'
               PROVE  told[k] \subseteq texts'[name[k]]
    BY <1>1, <1>7 DEF ToldIsWritten
  <2>1. name[k] \in Names /\ told[k] \subseteq Transcripts
    BY NamesAreNames DEF ResearchTyped
  <2>2. CASE k = i /\ i \in active[s]
    <3>1. told[k] \subseteq Known(s)
      BY <1>3, <2>1, <2>2 DEF ToldIsHeld
    <3>2. Known(s) # {} => texts'[n] = Known(s)
      BY <1>1, <1>3 DEF ResearchTyped
    <3> QED
      BY <2>2, <3>1, <3>2
  <2>3. CASE ~(k = i /\ i \in active[s])
    <3>1. texts'[name[k]] = texts[name[k]]
      <4>1. CASE k = i
        BY <1>1, <1>3, <2>3, <4>1
      <4>2. CASE k # i
        BY <1>1, <1>3, <2>1, <4>2 DEF Alone, ResearchTyped
      <4> QED
        BY <4>1, <4>2
    <3>2. Ended(k)
      BY <1>1, <1>4, <2>3 DEF Ended
    <3> QED
      BY <3>1, <3>2 DEF ToldIsWritten
  <2> QED
    BY <2>2, <2>3
<1>9. ToldIsHeld' /\ NotesAreApart' /\ MarkerIsOpen'
  BY <1>1, <1>7 DEF ToldIsHeld, NotesAreApart, MarkerIsOpen, IsActive
<1>10. NotesAreNumbered'
  BY <1>1 DEF NotesAreNumbered, Alone
<1> QED
  BY <1>5, <1>6, <1>8, <1>9, <1>10

\* A note that is half written is the one of a session that is active still.
LEMMA PartialIsHarmless ==
    ASSUME ResearchInv, NEW s \in Servers, ~Free(s), texts' \in Partial(s),
           NEW k \in Sessions, name[k] # Nothing, Alone(k),
           ~(k \in active[s] /\ ending[s].id = k /\ ending[s].step = "transcript")
    PROVE  texts'[name[k]] = texts[name[k]]
<1> DEFINE i == ending[s].id
<1>1. /\ i \in Sessions /\ name[i] \in Names
      /\ i \notin active[s] => Known(s) = {}
  BY IsEnding
<1>2. name[k] \in Names
  BY NamesAreNames DEF ResearchInv
<1>3. CASE texts' = texts
  BY <1>3
<1>4. CASE texts' # texts
  <2>1. /\ texts' = [texts EXCEPT ![name[i]] = {}]
        /\ ending[s].step = "transcript" /\ Known(s) # {}
    BY <1>4 DEF Partial, IsAt
  <2>2. k # i
    BY <1>1, <2>1
  <2>3. name[i] # name[k]
    BY <1>1, <2>2 DEF Alone
  <2> QED
    BY <1>1, <1>2, <2>1, <2>3 DEF ResearchInv, ResearchTyped
<1> QED
  BY <1>3, <1>4

LEMMA PartialIsTyped ==
    ASSUME ResearchInv, NEW s \in Servers, texts' \in Partial(s)
    PROVE  texts' \in [Names -> SUBSET Transcripts]
BY DEF Partial, ResearchInv, ResearchTyped

LEMMA WriteFailsStep ==
    ASSUME ResearchInv, NEW s \in Servers, WriteFails(s)
    PROVE  ResearchInv'
<1> USE DEF ResearchInv
<1>1. /\ ~Free(s) /\ texts' \in Partial(s)
      /\ ending' = [ending EXCEPT ![s] = NotEnding]
      /\ UNCHANGED <<name, active, held, rows, noted, marker, told, stale>>
  BY DEF WriteFails
<1>2. /\ ending'[s] = NotEnding /\ \A u \in Servers \ {s} : ending'[u] = ending[u]
      /\ ending' \in [Servers -> Endings \cup {NotEnding}]
  BY <1>1 DEF ResearchTyped
<1>3. ResearchTyped'
  BY <1>1, <1>2, PartialIsTyped DEF ResearchTyped
<1>4. Started'
  BY <1>1, <1>2 DEF Started, Free
<1>5. \A k \in Sessions : Alone(k)' <=> Alone(k)
  BY <1>1 DEF Alone
<1>6. ToldIsWritten'
  <2> SUFFICES ASSUME NEW k \in Sessions, name[k] # Nothing, Alone(k), Ended(k)'
               PROVE  told[k] \subseteq texts'[name[k]]
    BY <1>1, <1>5 DEF ToldIsWritten
  <2>1. k \notin active[s]
    BY <1>1, <1>2, FreeIsNotEnded DEF Ended, NotEnding
  <2>2. Ended(k)
    BY <1>1, <1>2, <2>1 DEF Ended
  <2>3. texts'[name[k]] = texts[name[k]]
    BY <1>1, <2>1, PartialIsHarmless
  <2> QED
    BY <2>2, <2>3 DEF ToldIsWritten
<1>7. ToldIsHeld' /\ NotesAreApart' /\ MarkerIsOpen'
  BY <1>1, <1>5 DEF ToldIsHeld, NotesAreApart, MarkerIsOpen, IsActive
<1>8. NotesAreNumbered'
  BY <1>1 DEF NotesAreNumbered, Alone
<1> QED
  BY <1>3, <1>4, <1>6, <1>7, <1>8

LEMMA LeaveStep ==
    ASSUME ResearchInv, NEW s \in Servers, LeaveSession(s)
    PROVE  ResearchInv'
<1> USE DEF ResearchInv
<1> DEFINE i == ending[s].id
<1>1. /\ ending[s].step = "leave"
      /\ active' = [active EXCEPT ![s] = @ \ {i}]
      /\ held' = [held EXCEPT ![i] = IF i \in active[s] THEN {} ELSE @]
      /\ RemoveMarker
      /\ ending' = [ending EXCEPT ![s] = NotEnding]
      /\ UNCHANGED <<name, rows, texts, noted, told>>
  BY DEF LeaveSession, IsAt
<1>2. ~Free(s)
  BY <1>1 DEF Free, NotEnding
<1>3. ending[s] \in Endings /\ i \in Sessions
  BY <1>2, IsEnding
<1>4. ending[s] = [id |-> i, step |-> "leave"]
  BY <1>1, <1>3 DEF Endings
<1>5. /\ ending'[s] = NotEnding /\ \A u \in Servers \ {s} : ending'[u] = ending[u]
      /\ active'[s] = active[s] \ {i} /\ \A u \in Servers \ {s} : active'[u] = active[u]
      /\ \A k \in Sessions \ {i} : held'[k] = held[k]
      /\ held'[i] = IF i \in active[s] THEN {} ELSE held[i]
  BY <1>1, <1>3 DEF ResearchTyped
<1>6. \A u \in Servers : \A k \in active'[u] : k \in active[u] /\ k \in Sessions /\ held'[k] = held[k]
  BY <1>3, <1>5 DEF ResearchTyped, Started
<1>7. ResearchTyped'
  <2>1. \A k \in Sessions : IsFiniteSet(held'[k])
    BY <1>3, <1>5, FS_EmptySet DEF ResearchTyped
  <2>2. /\ active' \in [Servers -> SUBSET Sessions]
        /\ held' \in [Sessions -> SUBSET (Transcripts \cup Captures)]
        /\ ending' \in [Servers -> Endings \cup {NotEnding}]
    BY <1>1 DEF ResearchTyped
  <2>3. marker' \in Sessions \cup {Nothing} /\ stale' \in BOOLEAN
    BY <1>1 DEF RemoveMarker, ResearchTyped
  <2> QED
    BY <1>1, <2>1, <2>2, <2>3 DEF ResearchTyped
<1>8. Started'
  BY <1>1, <1>5, <1>6 DEF Started, Free
<1>9. \A k \in Sessions : Alone(k)' <=> Alone(k)
  BY <1>1 DEF Alone
<1>10. ToldIsHeld'
  BY <1>1, <1>6 DEF ToldIsHeld
<1>11. ToldIsWritten'
  <2> SUFFICES ASSUME NEW k \in Sessions, name[k] # Nothing, Alone(k), Ended(k)'
               PROVE  told[k] \subseteq texts[name[k]]
    BY <1>1, <1>9 DEF ToldIsWritten
  <2>1. k \notin active'[s]
    BY <1>5 DEF Ended, NotEnding
  <2>2. \A u \in Servers : k \in active[u] => ending[u] = [id |-> k, step |-> "leave"]
    <3> SUFFICES ASSUME NEW u \in Servers, k \in active[u]
                 PROVE  ending[u] = [id |-> k, step |-> "leave"]
      OBVIOUS
    <3>1. CASE u = s
      BY <1>4, <1>5, <2>1, <3>1
    <3>2. CASE u # s
      BY <1>5, <3>2 DEF Ended
    <3> QED
      BY <3>1, <3>2
  <2> QED
    BY <2>2 DEF ToldIsWritten, Ended
<1>12. NotesAreNumbered'
  <2>1. ASSUME NEW u \in Servers, NEW k \in active'[u], Alone(k)',
               NEW x \in Captures, noted'[x] # Nothing, noted'[x][1] = name'[k]
        PROVE  noted'[x][2] <= Cardinality(held'[k] \cap Captures)
    <3>1. k \in active[u] /\ held'[k] = held[k] /\ Alone(k)
      BY <1>1, <1>6, <2>1 DEF Alone
    <3>2. noted[x][2] <= Cardinality(held[k] \cap Captures)
      BY <1>1, <2>1, <3>1 DEF NotesAreNumbered
    <3> QED
      BY <1>1, <3>1, <3>2
  <2> QED
    BY <1>1, <2>1 DEF NotesAreNumbered
<1>13. NotesAreApart'
  BY <1>1, <1>9 DEF NotesAreApart
<1>14. MarkerIsOpen'
  BY <1>1 DEF RemoveMarker, MarkerIsOpen
<1> QED
  BY <1>7, <1>8, <1>10, <1>11, <1>12, <1>13, <1>14

LEMMA RestartStep ==
    ASSUME ResearchInv, NEW s \in Servers, RestartServer(s)
    PROVE  ResearchInv'
<1> USE DEF ResearchInv
<1>1. /\ active' = [active EXCEPT ![s] = {}]
      /\ held' = [i \in Sessions |-> IF i \in active[s] THEN {} ELSE held[i]]
      /\ told' = [i \in Sessions |-> IF i \in active[s] THEN told[i] \ held[i] ELSE told[i]]
      /\ texts' \in Partial(s)
      /\ ending' = [ending EXCEPT ![s] = NotEnding]
      /\ stale' = TRUE
      /\ UNCHANGED <<name, rows, noted, marker>>
  BY DEF RestartServer
<1>2. /\ active'[s] = {} /\ \A u \in Servers \ {s} : active'[u] = active[u]
      /\ ending'[s] = NotEnding /\ \A u \in Servers \ {s} : ending'[u] = ending[u]
  BY <1>1 DEF ResearchTyped
<1>3. \A i \in active[s] : i \in Sessions /\ held'[i] = {} /\ told'[i] = {}
  BY <1>1 DEF ToldIsHeld, ResearchTyped
<1>4. \A i \in Sessions : i \notin active[s] => held'[i] = held[i] /\ told'[i] = told[i]
  BY <1>1
<1>5. \A u \in Servers : \A k \in active'[u] :
         k \in active[u] /\ k \in Sessions /\ held'[k] = held[k] /\ told'[k] = told[k]
  BY <1>2, <1>4 DEF ResearchTyped, Started
<1>6. ResearchTyped'
  <2>1. \A k \in Sessions : IsFiniteSet(held'[k])
    BY <1>3, <1>4, FS_EmptySet DEF ResearchTyped
  <2>2. /\ active' \in [Servers -> SUBSET Sessions]
        /\ held' \in [Sessions -> SUBSET (Transcripts \cup Captures)]
        /\ told' \in [Sessions -> SUBSET Transcripts]
        /\ ending' \in [Servers -> Endings \cup {NotEnding}]
    BY <1>1 DEF ResearchTyped
  <2> QED
    BY <1>1, <2>1, <2>2, PartialIsTyped DEF ResearchTyped
<1>7. Started'
  <2>1. \A k \in Sessions : name'[k] = Nothing => told'[k] = {}
    BY <1>1, <1>3, <1>4 DEF Started
  <2>2. \A u \in Servers : ~Free(u)' => name'[ending'[u].id] # Nothing
    BY <1>1, <1>2 DEF Started, Free
  <2> QED
    BY <1>1, <1>5, <2>1, <2>2 DEF Started
<1>8. \A k \in Sessions : Alone(k)' <=> Alone(k)
  BY <1>1 DEF Alone
<1>9. ToldIsHeld'
  BY <1>5 DEF ToldIsHeld
<1>10. ToldIsWritten'
  <2> SUFFICES ASSUME NEW k \in Sessions, name[k] # Nothing, Alone(k), Ended(k)'
               PROVE  told'[k] \subseteq texts'[name[k]]
    BY <1>1, <1>8 DEF ToldIsWritten
  <2>1. CASE k \in active[s]
    BY <1>3, <2>1
  <2>2. CASE k \notin active[s]
    <3>1. Ended(k) /\ told'[k] = told[k]
      BY <1>2, <1>4, <2>2 DEF Ended
    <3>2. texts'[name[k]] = texts[name[k]]
      <4>1. CASE Free(s)
        BY <1>1, <4>1 DEF Partial, IsAt, Free, NotEnding
      <4>2. CASE ~Free(s)
        BY <1>1, <2>2, <4>2, PartialIsHarmless
      <4> QED
        BY <4>1, <4>2
    <3> QED
      BY <3>1, <3>2 DEF ToldIsWritten
  <2> QED
    BY <2>1, <2>2
<1>11. NotesAreNumbered'
  <2>1. ASSUME NEW u \in Servers, NEW k \in active'[u], Alone(k)',
               NEW x \in Captures, noted'[x] # Nothing, noted'[x][1] = name'[k]
        PROVE  noted'[x][2] <= Cardinality(held'[k] \cap Captures)
    <3>1. k \in active[u] /\ held'[k] = held[k] /\ Alone(k)
      BY <1>1, <1>5, <2>1 DEF Alone
    <3>2. noted[x][2] <= Cardinality(held[k] \cap Captures)
      BY <1>1, <2>1, <3>1 DEF NotesAreNumbered
    <3> QED
      BY <1>1, <3>1, <3>2
  <2> QED
    BY <1>1, <2>1 DEF NotesAreNumbered
<1>12. NotesAreApart' /\ MarkerIsOpen'
  BY <1>1, <1>8 DEF NotesAreApart, MarkerIsOpen
<1> QED
  BY <1>6, <1>7, <1>9, <1>10, <1>11, <1>12

LEMMA ResearchStays == ResearchInv /\ [ResearchNext]_researchVars => ResearchInv'
<1> SUFFICES ASSUME ResearchInv, [ResearchNext]_researchVars PROVE ResearchInv'
  OBVIOUS
<1>1. CASE UNCHANGED researchVars
  <2>1. ResearchTyped' /\ Started' /\ ToldIsHeld' /\ ToldIsWritten'
    BY <1>1 DEF researchVars, ResearchInv, ResearchTyped, Started, Free, ToldIsHeld,
                ToldIsWritten, Alone, Ended
  <2>2. NotesAreNumbered' /\ NotesAreApart' /\ MarkerIsOpen'
    BY <1>1 DEF researchVars, ResearchInv, NotesAreNumbered, NotesAreApart, Alone,
                MarkerIsOpen, IsActive
  <2> QED
    BY <2>1, <2>2 DEF ResearchInv
<1> QED
  BY <1>1, StartSteps, StoreTranscriptStep, StoreCaptureStep, EndStep, WriteStep,
     WriteFailsStep, LeaveStep, RestartStep DEF ResearchNext

\* Whatever servers start, fill and end research sessions, fail to write their notes and
\* die: a session that has its name to itself keeps the transcripts that it was told and
\* a note for each of its captures, and the marker file names a session that is active.
THEOREM SessionsKeepAll == ResearchSpec => []SessionsAreKept
<1>1. ResearchInv => MarkerIsOpen
  BY DEF ResearchInv
<1>2. ResearchInv => NothingIsLost
  <2> SUFFICES ASSUME ResearchInv, NEW i \in Sessions, name[i] # Nothing, Alone(i)
               PROVE  /\ told[i] \subseteq held[i] \cup texts[name[i]]
                      /\ \A x, y \in Captures :
                            x # y /\ noted[x] # Nothing /\ noted[x][1] = name[i]
                                => noted[x] # noted[y]
    BY DEF NothingIsLost
  <2>1. CASE \E s \in Servers : i \in active[s]
    BY <2>1 DEF ResearchInv, ToldIsHeld, NotesAreApart
  <2>2. CASE ~\E s \in Servers : i \in active[s]
    BY <2>2 DEF ResearchInv, ToldIsWritten, Ended, NotesAreApart
  <2> QED
    BY <2>1, <2>2
<1> QED
  BY <1>1, <1>2, ResearchBegins, ResearchStays, PTL DEF ResearchSpec, SessionsAreKept

(***************************************************************************)
(* The connection to the knowledge graph.                                  *)
(***************************************************************************)
Awaits == {"idle", "enter", "enter close", "make", "make close", "wait", "wait close", "use",
           "held", "build", "undo", "close held", "close graph", "close driver"}
WithLock == {"held", "build", "undo", "close held", "close graph", "close driver"}

GraphTyped ==
    /\ initialized \in BOOLEAN
    /\ graph \in [driver : Nat, built : BOOLEAN, there : BOOLEAN]
    /\ driver \in Nat /\ 0 \notin open
    /\ awaiting \in [Tasks -> Awaits]
    /\ initLock \in Tasks \cup {NoTask} /\ locks \subseteq Tasks
    /\ mine \in [Tasks -> Tasks \cup {NoTask}] /\ owner \in [Tasks -> Tasks \cup {NoTask}]

\* A task that is inside holds the lock it has got, which is one of those that were made.
LocksHeld ==
    /\ initLock = NoTask \/ initLock \in locks
    /\ \A t \in Tasks :
         /\ awaiting[t] \in Waiting \cup WithLock => mine[t] \in locks
         /\ awaiting[t] \in WithLock => owner[mine[t]] = t

\* The manager has a use for its drivers: it is initialized, or a task is building on
\* them or closing one.
InUse ==
    \/ initialized
    \/ \E t \in Tasks : awaiting[t] \in {"build", "undo", "close driver"}

\* What each await with the lock has established.
Established ==
    /\ ~graph.there => graph.driver = 0
    /\ initialized => graph.built /\ graph.there /\ graph.driver \in open
    /\ \A t \in Tasks :
         /\ awaiting[t] = "build" => ~initialized /\ graph.there /\ graph.driver \in open
         /\ awaiting[t] \in {"undo", "close driver"} => ~initialized /\ graph.driver = 0

\* The manager's own drivers are excused too, while it has no use for them: they are lost
\* when the next are made.
LossesFit ==
    /\ open \subseteq Closable \cup excused
    /\ ~InUse => open \subseteq excused

GraphInv == GraphTyped /\ LocksHeld /\ (OneLock => Established /\ LossesFit)

LEMMA GraphBegins == GraphInit => GraphInv
<1> SUFFICES ASSUME GraphInit PROVE GraphInv
  OBVIOUS
<1> USE GraphAssumption DEF GraphInit
<1>1. GraphTyped
  BY DEF GraphTyped, NoGraph, Awaits
<1>2. LocksHeld
  BY DEF LocksHeld, Waiting, WithLock
<1>3. Established
  BY DEF Established, NoGraph
<1>4. LossesFit
  BY DEF LossesFit
<1> QED
  BY <1>1, <1>2, <1>3, <1>4 DEF GraphInv

\* With one lock, one task is inside.
LEMMA OneIsInside ==
    ASSUME GraphTyped, LocksHeld, OneLock, NEW t \in Tasks, awaiting[t] \in WithLock
    PROVE  \A u \in Tasks \ {t} : awaiting[u] \notin WithLock
<1> SUFFICES ASSUME NEW u \in Tasks \ {t}, awaiting[u] \in WithLock PROVE FALSE
  OBVIOUS
<1>1. mine[t] \in locks /\ mine[u] \in locks /\ owner[mine[t]] = t /\ owner[mine[u]] = u
  BY DEF LocksHeld
<1>2. mine[t] = mine[u]
  BY <1>1 DEF OneLock
<1> QED
  BY <1>1, <1>2

\* A step that only moves a task between places without the lock, whatever it does about
\* a lock it does not hold.
LEMMA LockFreeSteps ==
    ASSUME GraphInv, NEW t \in Tasks, NEW s \in Awaits \ WithLock,
           awaiting[t] \notin WithLock, awaiting' = [awaiting EXCEPT ![t] = s],
           UNCHANGED <<manager, owner>>,
           initLock' \in Tasks \cup {NoTask}, locks' \subseteq Tasks, locks \subseteq locks',
           initLock' = NoTask \/ initLock' \in locks',
           NEW l \in Tasks \cup {NoTask}, mine' = [mine EXCEPT ![t] = l],
           s \in Waiting => l \in locks'
    PROVE  GraphInv'
<1> USE DEF GraphInv
<1>1. GraphTyped'
  BY DEF GraphTyped, manager
<1>2. LocksHeld'
  BY DEF LocksHeld, GraphTyped
<1>3. OneLock' => OneLock
  BY DEF OneLock
<1>4. ASSUME OneLock PROVE Established' /\ LossesFit'
  <2>1. /\ UNCHANGED <<initialized, graph, driver, open, excused>>
        /\ \A u \in Tasks : awaiting'[u] \in WithLock => awaiting'[u] = awaiting[u]
        /\ \A u \in Tasks : awaiting[u] \in WithLock => awaiting'[u] = awaiting[u]
    BY DEF manager, GraphTyped
  <2>2. Established'
    BY <1>4, <2>1 DEF Established, WithLock
  <2>3. (InUse' <=> InUse) /\ Closable' = Closable
    BY <2>1 DEF InUse, WithLock, Closable
  <2> QED
    BY <1>4, <2>1, <2>2, <2>3 DEF LossesFit
<1> QED
  BY <1>1, <1>2, <1>3, <1>4

\* The task that is inside goes on with its lock or leaves it.
GoesOn(t, s) == s \in WithLock /\ TaskGoes(t, s) /\ KeepLock
GoesOut(t, s) == s \in {"idle", "use"} /\ TaskGoes(t, s) /\ ReleaseLock(t)

LEMMA HolderMoves ==
    ASSUME GraphTyped, LocksHeld, NEW t \in Tasks, awaiting[t] \in WithLock,
           NEW s, GoesOn(t, s) \/ GoesOut(t, s)
    PROVE  /\ LocksHeld' /\ (OneLock' => OneLock)
           /\ awaiting' \in [Tasks -> Awaits] /\ awaiting'[t] = s
           /\ initLock' \in Tasks \cup {NoTask} /\ locks' \subseteq Tasks
           /\ mine' \in [Tasks -> Tasks \cup {NoTask}]
           /\ owner' \in [Tasks -> Tasks \cup {NoTask}]
           /\ OneLock => \A u \in Tasks \ {t} : awaiting'[u] \notin WithLock
<1>1. /\ awaiting' = [awaiting EXCEPT ![t] = s] /\ s \in Awaits
      /\ initLock' = initLock /\ locks' = locks
  BY DEF GoesOn, GoesOut, TaskGoes, KeepLock, ReleaseLock, ForgetLock, lockVars, WithLock, Awaits
<1>2. /\ awaiting' \in [Tasks -> Awaits] /\ awaiting'[t] = s
      /\ \A u \in Tasks \ {t} : awaiting'[u] = awaiting[u]
  BY <1>1 DEF GraphTyped
<1>3. OneLock => \A u \in Tasks \ {t} : awaiting'[u] \notin WithLock
  BY <1>2, OneIsInside
<1>4. OneLock' => OneLock
  BY <1>1 DEF OneLock
<1>5. CASE GoesOn(t, s)
  <2>1. mine' = mine /\ owner' = owner /\ s \in WithLock
    BY <1>5 DEF GoesOn, KeepLock, lockVars
  <2>2. LocksHeld'
    BY <1>1, <1>2, <2>1 DEF LocksHeld
  <2> QED
    BY <1>1, <1>2, <1>3, <1>4, <2>1, <2>2 DEF GraphTyped
<1>6. CASE GoesOut(t, s)
  <2>1. /\ mine' = [mine EXCEPT ![t] = NoTask]
        /\ owner' = [owner EXCEPT ![mine[t]] = NoTask] /\ s \notin Waiting \cup WithLock
    BY <1>6 DEF GoesOut, ReleaseLock, ForgetLock, Waiting, WithLock
  <2>2. /\ mine' \in [Tasks -> Tasks \cup {NoTask}] /\ owner' \in [Tasks -> Tasks \cup {NoTask}]
        /\ \A u \in Tasks \ {t} : mine'[u] = mine[u]
    BY <2>1 DEF GraphTyped
  <2>3. mine[t] \in Tasks /\ owner[mine[t]] = t
    BY DEF LocksHeld, GraphTyped
  <2>4. ASSUME NEW u \in Tasks \ {t}, awaiting'[u] \in WithLock PROVE owner'[mine'[u]] = u
    <3>1. owner[mine[u]] = u /\ mine[u] \in Tasks
      BY <1>2, <2>4 DEF LocksHeld, GraphTyped
    <3>2. mine[u] # mine[t]
      BY <2>3, <3>1
    <3> QED
      BY <2>1, <2>2, <3>1, <3>2 DEF GraphTyped
  <2>5. LocksHeld'
    BY <1>1, <1>2, <2>1, <2>2, <2>4 DEF LocksHeld
  <2> QED
    BY <1>1, <1>2, <1>3, <1>4, <2>2, <2>5 DEF GraphTyped
<1> QED
  BY <1>5, <1>6

\* What the task that is inside has to see to: the types of what it changes, and, where it
\* is now, what is established there and that no driver is lost.
LEMMA HolderKeeps ==
    ASSUME GraphInv, NEW t \in Tasks, awaiting[t] \in WithLock,
           NEW s, GoesOn(t, s) \/ GoesOut(t, s),
           initialized' \in BOOLEAN,
           graph' \in [driver : Nat, built : BOOLEAN, there : BOOLEAN],
           driver' \in Nat, 0 \notin open',
           OneLock => /\ ~graph'.there => graph'.driver = 0
                      /\ initialized' => graph'.built /\ graph'.there /\ graph'.driver \in open'
                      /\ s = "build" => ~initialized' /\ graph'.there /\ graph'.driver \in open'
                      /\ s \in {"undo", "close driver"} => ~initialized' /\ graph'.driver = 0
                      /\ open' \subseteq {driver', graph'.driver} \cup excused'
                      /\ initialized' \/ s \in {"build", "undo", "close driver"}
                            \/ open' \subseteq excused'
    PROVE  GraphInv'
<1>1. /\ LocksHeld' /\ (OneLock' => OneLock)
      /\ awaiting' \in [Tasks -> Awaits] /\ awaiting'[t] = s
      /\ initLock' \in Tasks \cup {NoTask} /\ locks' \subseteq Tasks
      /\ mine' \in [Tasks -> Tasks \cup {NoTask}]
      /\ owner' \in [Tasks -> Tasks \cup {NoTask}]
      /\ OneLock => \A u \in Tasks \ {t} : awaiting'[u] \notin WithLock
  BY HolderMoves DEF GraphInv
<1>2. GraphTyped'
  BY <1>1 DEF GraphTyped
<1>3. ASSUME OneLock PROVE Established' /\ LossesFit'
  <2>1. Established'
    BY <1>1, <1>3 DEF Established, WithLock
  <2>2. InUse' <=> initialized' \/ s \in {"build", "undo", "close driver"}
    BY <1>1, <1>3 DEF InUse, WithLock
  <2>3. LossesFit'
    BY <1>3, <2>2 DEF LossesFit, Closable
  <2> QED
    BY <2>1, <2>3
<1> QED
  BY <1>1, <1>2, <1>3 DEF GraphInv

\* What holds of the manager for the task that is inside.
LEMMA HolderSees ==
    ASSUME GraphInv, NEW t \in Tasks, awaiting[t] \in WithLock
    PROVE  /\ initialized \in BOOLEAN
           /\ graph \in [driver : Nat, built : BOOLEAN, there : BOOLEAN]
           /\ driver \in Nat /\ 0 \notin open
           /\ OneLock => /\ ~graph.there => graph.driver = 0
                         /\ initialized => graph.built /\ graph.there /\ graph.driver \in open
                         /\ awaiting[t] = "build" =>
                               ~initialized /\ graph.there /\ graph.driver \in open
                         /\ awaiting[t] \in {"undo", "close driver"} =>
                               ~initialized /\ graph.driver = 0
                         /\ open \subseteq {driver, graph.driver} \cup excused
                         /\ initialized \/ awaiting[t] \in {"build", "undo", "close driver"}
                               \/ open \subseteq excused
<1>1. /\ initialized \in BOOLEAN
      /\ graph \in [driver : Nat, built : BOOLEAN, there : BOOLEAN]
      /\ driver \in Nat /\ 0 \notin open
  BY DEF GraphInv, GraphTyped
<1>2. ASSUME OneLock
      PROVE  InUse <=> initialized \/ awaiting[t] \in {"build", "undo", "close driver"}
  <2>1. \A u \in Tasks \ {t} : awaiting[u] \notin WithLock
    BY <1>2, OneIsInside DEF GraphInv
  <2> QED
    BY <2>1 DEF InUse, WithLock
<1>3. ASSUME OneLock PROVE Established /\ LossesFit
  BY <1>3 DEF GraphInv
<1> QED
  BY <1>1, <1>2, <1>3 DEF Established, LossesFit, Closable

LEMMA CreateStep ==
    ASSUME GraphInv, NEW t \in Tasks, NEW d \in 0..MaxDrivers, NEW g \in 0..MaxDrivers,
           Create(t, d, g)
    PROVE  GraphInv'
<1>1. awaiting[t] = "held" /\ awaiting[t] \in WithLock /\ d \in Nat /\ g \in Nat
  BY GraphAssumption DEF Create, WithLock
<1>2. /\ initialized \in BOOLEAN
      /\ graph \in [driver : Nat, built : BOOLEAN, there : BOOLEAN]
      /\ driver \in Nat /\ 0 \notin open
      /\ OneLock => /\ ~graph.there => graph.driver = 0
                    /\ initialized => graph.built /\ graph.there /\ graph.driver \in open
                    /\ open \subseteq {driver, graph.driver} \cup excused
                    /\ initialized \/ open \subseteq excused
  BY <1>1, HolderSees
<1>3. initialized' = initialized /\ excused' = excused
  BY DEF Create
<1>4. CASE initialized
  <2>1. GoesOut(t, "use") /\ UNCHANGED <<graph, driver, open>>
    BY <1>4 DEF Create, GoesOut
  <2> QED
    BY <1>1, <1>2, <1>3, <1>4, <2>1, HolderKeeps
<1>5. CASE ~initialized
  <2>1. driver' = d /\ open' = open \cup ({d, g} \ {0}) /\ 0 \notin open'
    BY <1>2, <1>5 DEF Create, Connects
  <2>2. CASE g # 0
    <3>1. GoesOn(t, "build") /\ graph' = [driver |-> g, built |-> FALSE, there |-> TRUE]
      BY <1>5, <2>2 DEF Create, Connects, GoesOn, Graphiti, WithLock
    <3>2. g \in open' /\ OneLock => open' \subseteq {d, g} \cup excused
      BY <1>2, <1>5, <2>1, <2>2
    <3>3. /\ graph' \in [driver : Nat, built : BOOLEAN, there : BOOLEAN]
          /\ graph'.there /\ graph'.driver = g
      BY <1>1, <3>1
    <3>4. OneLock => open' \subseteq {driver', graph'.driver} \cup excused'
      BY <1>2, <1>3, <1>5, <2>1, <3>3
    <3>5. graph'.driver \in open'
      BY <2>1, <2>2, <3>3
    <3> QED
      BY <1>1, <1>2, <1>3, <1>5, <2>1, <3>1, <3>3, <3>4, <3>5, HolderKeeps
  <2>3. CASE g = 0 /\ d # 0
    <3>1. GoesOn(t, "undo") /\ graph' = [driver |-> 0, built |-> FALSE, there |-> FALSE]
      BY <1>5, <2>3 DEF Create, Connects, GoesOn, NoGraph, WithLock
    <3>2. /\ graph' \in [driver : Nat, built : BOOLEAN, there : BOOLEAN]
          /\ ~graph'.there /\ graph'.driver = 0
      BY <3>1
    <3>3. OneLock => open' \subseteq {driver', graph'.driver} \cup excused'
      BY <1>2, <1>3, <1>5, <2>1, <2>3, <3>2
    <3> QED
      BY <1>1, <1>2, <1>3, <1>5, <2>1, <3>1, <3>2, <3>3, HolderKeeps
  <2>4. CASE g = 0 /\ d = 0
    <3>1. GoesOut(t, "idle") /\ graph' = [driver |-> 0, built |-> FALSE, there |-> FALSE]
      BY <1>5, <2>4 DEF Create, Connects, LeaveLock, GoesOut, NoGraph
    <3>2. /\ graph' \in [driver : Nat, built : BOOLEAN, there : BOOLEAN]
          /\ ~graph'.there /\ graph'.driver = 0
      BY <3>1
    <3>3. OneLock => open' \subseteq excused'
      BY <1>2, <1>3, <1>5, <2>1, <2>4
    <3> QED
      BY <1>1, <1>2, <1>3, <1>5, <2>1, <3>1, <3>2, <3>3, HolderKeeps
  <2> QED
    BY <2>2, <2>3, <2>4
<1> QED
  BY <1>2, <1>4, <1>5

\* The steps of an initialization that has its drivers.
LEMMA BuildSteps ==
    ASSUME GraphInv, NEW t \in Tasks,
           BuildIndices(t) \/ BuildingFails(t) \/ Undo(t) \/ InitializeInterrupted(t)
    PROVE  GraphInv'
<1>1. awaiting[t] \in {"build", "undo"} /\ awaiting[t] \in WithLock
  BY DEF BuildIndices, BuildingFails, Undo, InitializeInterrupted, WithLock
<1>2. /\ initialized \in BOOLEAN
      /\ graph \in [driver : Nat, built : BOOLEAN, there : BOOLEAN]
      /\ driver \in Nat /\ 0 \notin open
      /\ OneLock => /\ ~graph.there => graph.driver = 0
                    /\ ~initialized
                    /\ awaiting[t] = "build" => graph.there /\ graph.driver \in open
                    /\ awaiting[t] = "undo" => graph.driver = 0
                    /\ open \subseteq {driver, graph.driver} \cup excused
  BY <1>1, HolderSees
<1>3. CASE BuildIndices(t)
  <2>1. /\ GoesOut(t, "use") /\ initialized' = TRUE /\ awaiting[t] = "build"
        /\ graph' = [graph EXCEPT !.built = TRUE]
        /\ UNCHANGED <<driver, open, excused>>
    BY <1>3 DEF BuildIndices, GoesOut
  <2>2. /\ graph' \in [driver : Nat, built : BOOLEAN, there : BOOLEAN]
        /\ graph'.built /\ graph'.there = graph.there /\ graph'.driver = graph.driver
    BY <1>2, <2>1
  <2> QED
    BY <1>1, <1>2, <2>1, <2>2, HolderKeeps
<1>4. CASE BuildingFails(t)
  <2>1. /\ graph' = [driver |-> 0, built |-> FALSE, there |-> FALSE]
        /\ excused' = excused \cup ({graph.driver} \ {driver})
        /\ UNCHANGED <<initialized, driver, open>>
        /\ \/ driver # 0 /\ GoesOn(t, "undo")
           \/ driver = 0 /\ GoesOut(t, "idle")
    BY <1>4 DEF BuildingFails, NoGraph, LeaveLock, GoesOn, GoesOut, WithLock
  <2>2. /\ graph' \in [driver : Nat, built : BOOLEAN, there : BOOLEAN]
        /\ ~graph'.there /\ graph'.driver = 0
    BY <2>1
  <2>3. OneLock => /\ open' \subseteq {driver', graph'.driver} \cup excused'
                   /\ driver = 0 => open' \subseteq excused'
    BY <1>2, <2>1
  <2> QED
    BY <1>1, <1>2, <2>1, <2>2, <2>3, HolderKeeps
<1>5. CASE Undo(t)
  <2>1. /\ driver' = 0 /\ open' = open \ {driver} /\ excused' = excused \ {driver}
        /\ UNCHANGED <<initialized, graph>> /\ GoesOut(t, "idle") /\ awaiting[t] = "undo"
    BY <1>5 DEF Undo, LeaveLock, GoesOut
  <2>2. OneLock => open' \subseteq excused'
    BY <1>2, <2>1
  <2> QED
    BY <1>1, <1>2, <2>1, <2>2, HolderKeeps
<1>6. CASE InitializeInterrupted(t)
  <2>1. /\ excused' = excused \cup (Closable \cap open) /\ GoesOut(t, "idle")
        /\ UNCHANGED <<initialized, graph, driver, open>>
    BY <1>6 DEF InitializeInterrupted, LeaveLock, GoesOut
  <2>2. OneLock => open' \subseteq excused'
    BY <1>2, <2>1 DEF Closable
  <2> QED
    BY <1>1, <1>2, <2>1, <2>2, HolderKeeps
<1> QED
  BY <1>3, <1>4, <1>5, <1>6

\* The steps of a close.
LEMMA CloseSteps ==
    ASSUME GraphInv, NEW t \in Tasks, CloseBegins(t) \/ CloseGraph(t) \/ CloseDriver(t)
    PROVE  GraphInv'
<1>1. awaiting[t] \in {"close held", "close graph", "close driver"} /\ awaiting[t] \in WithLock
  BY DEF CloseBegins, CloseGraph, CloseDriver, WithLock
<1>2. /\ initialized \in BOOLEAN
      /\ graph \in [driver : Nat, built : BOOLEAN, there : BOOLEAN]
      /\ driver \in Nat /\ 0 \notin open
      /\ OneLock => /\ ~graph.there => graph.driver = 0
                    /\ initialized => graph.built /\ graph.there /\ graph.driver \in open
                    /\ awaiting[t] = "close driver" => ~initialized /\ graph.driver = 0
                    /\ open \subseteq {driver, graph.driver} \cup excused
                    /\ initialized \/ awaiting[t] = "close driver" \/ open \subseteq excused
  BY <1>1, HolderSees
<1>3. CASE CloseBegins(t)
  <2>1. /\ UNCHANGED <<initialized, graph, driver, open, excused>> /\ awaiting[t] = "close held"
        /\ \/ GoesOn(t, "close graph")
           \/ ~graph.there /\ GoesOn(t, "close driver")
           \/ ~graph.there /\ GoesOut(t, "idle")
    BY <1>3 DEF CloseBegins, manager, LeaveLock, GoesOn, GoesOut, WithLock
  <2> QED
    BY <1>1, <1>2, <2>1, HolderKeeps
<1>4. CASE CloseGraph(t)
  <2>1. /\ graph' = [driver |-> 0, built |-> FALSE, there |-> FALSE]
        /\ initialized' = FALSE /\ driver' = driver
        /\ open' \in {open, open \ {graph.driver}} /\ awaiting[t] = "close graph"
    BY <1>4 DEF CloseGraph, NoGraph
  <2>2. /\ graph' \in [driver : Nat, built : BOOLEAN, there : BOOLEAN]
        /\ ~graph'.there /\ graph'.driver = 0
    BY <2>1
  <2>3. \/ /\ excused' = (excused \cup ({graph.driver} \ {driver})) \cap open'
           /\ \/ driver # 0 /\ GoesOn(t, "close driver")
              \/ driver = 0 /\ GoesOut(t, "idle")
        \/ excused' = (excused \cup Closable) \cap open' /\ GoesOut(t, "idle")
    BY <1>4 DEF CloseGraph, CloseDriverNext, LeaveLock, GoesOn, GoesOut, WithLock
  <2>4. CASE /\ excused' = (excused \cup ({graph.driver} \ {driver})) \cap open'
             /\ \/ driver # 0 /\ GoesOn(t, "close driver")
                \/ driver = 0 /\ GoesOut(t, "idle")
    <3>1. OneLock => /\ open' \subseteq {driver', graph'.driver} \cup excused'
                     /\ driver = 0 => open' \subseteq excused'
      BY <1>2, <2>1, <2>4
    <3> QED
      BY <1>1, <1>2, <2>1, <2>2, <2>4, <3>1, HolderKeeps
  <2>5. CASE excused' = (excused \cup Closable) \cap open' /\ GoesOut(t, "idle")
    <3>1. OneLock => open' \subseteq excused'
      BY <1>2, <2>1, <2>5 DEF Closable
    <3> QED
      BY <1>1, <1>2, <2>1, <2>2, <2>5, <3>1, HolderKeeps
  <2> QED
    BY <2>3, <2>4, <2>5
<1>5. CASE CloseDriver(t)
  <2>1. /\ driver' = 0 /\ UNCHANGED <<initialized, graph>> /\ GoesOut(t, "idle")
        /\ awaiting[t] = "close driver"
        /\ \/ open' = open \ {driver} /\ excused' = excused \ {driver}
           \/ open' = open /\ excused' = excused \cup ({driver} \cap open)
    BY <1>5 DEF CloseDriver, LeaveLock, GoesOut
  <2>2. OneLock => open' \subseteq excused'
    <3> SUFFICES ASSUME OneLock PROVE open' \subseteq excused'
      OBVIOUS
    <3>1. \A d \in open : d = driver \/ d \in excused
      BY <1>2, <2>1
    <3> QED
      BY <2>1, <3>1
  <2> QED
    BY <1>1, <1>2, <2>1, <2>2, HolderKeeps
<1> QED
  BY <1>3, <1>4, <1>5

\* The steps to the lock.
LEMMA LockSteps ==
    ASSUME GraphInv, NEW t \in Tasks, GetLock(t) \/ MakeLock(t) \/ AcquireLock(t) \/ StopWaiting(t)
    PROVE  GraphInv'
<1>1. /\ awaiting[t] \notin WithLock /\ UNCHANGED manager
      /\ initLock \in Tasks \cup {NoTask} /\ locks \subseteq Tasks
      /\ initLock = NoTask \/ initLock \in locks
      /\ mine \in [Tasks -> Tasks \cup {NoTask}] /\ mine = [mine EXCEPT ![t] = mine[t]]
      /\ mine[t] \in Tasks \cup {NoTask}
  BY DEF GetLock, MakeLock, AcquireLock, StopWaiting, Entering, Making, Waiting, WithLock,
         GraphInv, GraphTyped, LocksHeld, manager
<1>2. CASE GetLock(t)
  <2>1. PICK s \in {"wait", "wait close", "make", "make close"} :
           /\ awaiting' = [awaiting EXCEPT ![t] = s]
           /\ \/ s \in Waiting /\ initLock # NoTask /\ mine' = [mine EXCEPT ![t] = initLock]
              \/ s \notin Waiting /\ mine' = mine
    BY <1>2 DEF GetLock, TaskGoes, Place, Waiting
  <2>2. UNCHANGED <<initLock, locks, owner>> /\ s \in Awaits \ WithLock
    BY <1>2 DEF GetLock, Awaits, WithLock
  <2> QED
    BY <1>1, <2>1, <2>2, LockFreeSteps
<1>3. CASE MakeLock(t)
  <2>1. PICK s \in {"enter", "enter close"} : awaiting' = [awaiting EXCEPT ![t] = s]
    BY <1>3 DEF MakeLock, TaskGoes, Place
  <2>2. /\ initLock' = t /\ locks' = locks \cup {t} /\ UNCHANGED <<owner, mine>>
        /\ s \in Awaits \ WithLock /\ s \notin Waiting
    BY <1>3 DEF MakeLock, Awaits, WithLock, Waiting
  <2> QED
    BY <1>1, <2>1, <2>2, LockFreeSteps
<1>4. CASE StopWaiting(t)
  <2>1. /\ awaiting' = [awaiting EXCEPT ![t] = "idle"] /\ mine' = [mine EXCEPT ![t] = NoTask]
        /\ UNCHANGED <<initLock, locks, owner>>
        /\ "idle" \in Awaits \ WithLock /\ "idle" \notin Waiting
    BY <1>4 DEF StopWaiting, TaskGoes, ForgetLock, Awaits, WithLock, Waiting
  <2> QED
    BY <1>1, <2>1, LockFreeSteps
<1>5. CASE AcquireLock(t) /\ owner[mine[t]] # NoTask
  <2>1. UNCHANGED <<initLock, locks, owner>>
    BY <1>5 DEF AcquireLock
  <2>2. \/ UNCHANGED <<awaiting, mine>>
        \/ awaiting' = [awaiting EXCEPT ![t] = "idle"] /\ mine' = [mine EXCEPT ![t] = NoTask]
    BY <1>5 DEF AcquireLock, TaskGoes
  <2>3. "idle" \in Awaits \ WithLock /\ "idle" \notin Waiting
    BY DEF Awaits, WithLock, Waiting
  <2>4. CASE UNCHANGED <<awaiting, mine>>
    BY <1>1, <2>1, <2>4 DEF GraphInv, GraphTyped, LocksHeld, OneLock, Established, LossesFit, InUse,
                            Closable, manager
  <2> QED
    BY <1>1, <2>1, <2>2, <2>3, <2>4, LockFreeSteps
<1>6. CASE AcquireLock(t) /\ owner[mine[t]] = NoTask
  <2>1. PICK s \in {"held", "close held"} : awaiting' = [awaiting EXCEPT ![t] = s]
    BY <1>6 DEF AcquireLock, TaskGoes, Place
  <2>2. /\ owner' = [owner EXCEPT ![mine[t]] = t] /\ UNCHANGED <<initLock, locks, mine>>
        /\ mine[t] \in locks /\ mine[t] \in Tasks
    BY <1>1, <1>6 DEF AcquireLock, GraphInv, LocksHeld
  <2>3. /\ awaiting' \in [Tasks -> Awaits] /\ awaiting'[t] = s
        /\ \A u \in Tasks \ {t} : awaiting'[u] = awaiting[u]
    BY <2>1 DEF GraphInv, GraphTyped, Awaits
  <2>4. GraphTyped'
    BY <1>1, <2>2, <2>3 DEF GraphInv, GraphTyped, manager
  <2>5. ASSUME NEW u \in Tasks \ {t}, awaiting[u] \in WithLock PROVE owner'[mine[u]] = u
    <3>1. owner[mine[u]] = u
      BY <2>5 DEF GraphInv, LocksHeld
    <3>2. mine[u] # mine[t] /\ mine[u] \in Tasks
      BY <1>6, <2>5, <3>1, GraphAssumption DEF GraphInv, LocksHeld, GraphTyped
    <3> QED
      BY <2>2, <3>1, <3>2 DEF GraphInv, GraphTyped
  <2>6. owner'[mine[t]] = t
    BY <2>2 DEF GraphInv, GraphTyped
  <2>7. LocksHeld'
    BY <2>2, <2>3, <2>5, <2>6 DEF GraphInv, LocksHeld
  <2>8. OneLock => Established' /\ LossesFit'
    <3>1. UNCHANGED <<initialized, graph, driver, open, excused>>
      BY <1>1 DEF manager
    <3>2. (Established => Established')
      BY <2>1, <2>3, <3>1 DEF Established
    <3>3. (InUse' <=> InUse) /\ Closable' = Closable
      BY <1>1, <2>1, <2>3, <3>1 DEF InUse, WithLock, Closable
    <3> QED
      BY <3>1, <3>2, <3>3 DEF GraphInv, LossesFit
  <2> QED
    BY <2>2, <2>4, <2>7, <2>8 DEF GraphInv, OneLock
<1> QED
  BY <1>2, <1>3, <1>4, <1>5, <1>6

LEMMA GraphStays == GraphInv /\ [GraphNext]_graphVars => GraphInv'
<1> SUFFICES ASSUME GraphInv, [GraphNext]_graphVars PROVE GraphInv'
  OBVIOUS
<1>1. CASE UNCHANGED graphVars
  BY <1>1 DEF graphVars, GraphInv, GraphTyped, LocksHeld, OneLock, Established, LossesFit, InUse,
              Closable
<1>2. ASSUME NEW t \in Tasks, CallGraph(t) \/ CallClose(t) \/ UseEnds(t) PROVE GraphInv'
  <2>1. PICK s \in {"idle", "enter", "enter close", "use"} :
           awaiting' = [awaiting EXCEPT ![t] = s]
    BY <1>2 DEF CallGraph, CallClose, UseEnds, TaskGoes
  <2>2. /\ UNCHANGED <<manager, initLock, locks, owner, mine>>
        /\ awaiting[t] \notin WithLock /\ s \in Awaits \ WithLock /\ s \notin Waiting
    BY <1>2 DEF CallGraph, CallClose, UseEnds, lockVars, Awaits, WithLock, Waiting
  <2>3. /\ initLock \in Tasks \cup {NoTask} /\ locks \subseteq Tasks
        /\ initLock = NoTask \/ initLock \in locks
        /\ mine = [mine EXCEPT ![t] = mine[t]] /\ mine[t] \in Tasks \cup {NoTask}
    BY DEF GraphInv, GraphTyped, LocksHeld
  <2> QED
    BY <2>1, <2>2, <2>3, LockFreeSteps
<1>3. ASSUME NEW t \in Tasks, NEW d \in 0..MaxDrivers, NEW g \in 0..MaxDrivers, Create(t, d, g)
      PROVE  GraphInv'
  BY <1>3, CreateStep
<1> QED
  BY <1>1, <1>2, <1>3, LockSteps, BuildSteps, CloseSteps DEF GraphNext

\* Whatever tasks of however many loops initialize, use and close the graph, are given up
\* at any await, and however often a driver, a Graphiti or its indices cannot be made or
\* closed: unless two of them came first and made a lock each, a manager that says it is
\* initialized has a graph to use, and every open driver is one it can close, one it had
\* at an interruption or a Graphiti's own that could not be initialized.
THEOREM GraphStaysUsable == GraphSpec => []GraphIsUsable
<1>1. GraphInv => GraphIsUsable
  BY DEF GraphInv, Established, LossesFit, GraphIsUsable, InitializedIsUsable, LossesAreExplained
<1> QED
  BY <1>1, GraphBegins, GraphStays, PTL DEF GraphSpec

(***************************************************************************)
(* The tracer.                                                             *)
(***************************************************************************)
Traced == {"idle", "open", "event", "span", "in span", "end", "log"}

TracerTyped ==
    /\ started \in Nat /\ started <= MaxStarted /\ current \in 0..started
    /\ traces \in Seq(Nat) /\ tracing \in [Requests -> Traced]
    /\ own \in [Requests -> 0..started] /\ span \in [Requests -> 0..started]
    /\ events \in [Numbers -> Nat] /\ happened \in [Numbers -> Nat]
    /\ alone \in SUBSET (1..started)

\* Who is in no handler has no trace, no two have one trace, and a span is of a trace.
OwnTraces ==
    /\ \A r \in Requests : own[r] = 0 <=> tracing[r] = "idle"
    /\ \A r \in Requests : span[r] = 0 <=> tracing[r] # "in span"
    /\ \A r, o \in Requests : own[r] = own[o] /\ own[r] # 0 => r = o

\* What is stored was begun and is stored once; its request, if it is still there, has
\* only to log it.
StoredOnce ==
    /\ IsInjective(traces) /\ ToSet(traces) \subseteq 1..started
    /\ \A r \in Requests : own[r] \in ToSet(traces) => tracing[r] = "log"

\* While a request is alone with its trace, that trace is the current one and no one
\* else is in a handler; no one enters it later, not even by a span that is still open.
AloneIsAlone ==
    /\ \A r \in Requests : own[r] \in alone =>
         /\ current = own[r] /\ \A o \in Others(r) : tracing[o] = "idle"
         /\ span[r] \in {0, own[r]}
    /\ current \in alone => \E r \in Requests : own[r] = current
    /\ \A r \in Requests : span[r] \in alone => own[r] = span[r]

\* Of what happened in a trace that is alone at most the one event is missing that its
\* request is about to add, and nothing once the request has left.
Adding(r) == tracing[r] \in {"event", "span", "in span"}
AloneCounts ==
    /\ \A k \in Numbers : k > started => events[k] = 0 /\ happened[k] = 0
    /\ \A r \in Requests : own[r] \in alone =>
         happened[own[r]] = IF Adding(r) THEN events[own[r]] + 1 ELSE events[own[r]]
    /\ \A k \in alone : (\A r \in Requests : own[r] # k) => events[k] = happened[k]

TracerInv == TracerTyped /\ OwnTraces /\ StoredOnce /\ AloneIsAlone /\ AloneCounts

LEMMA TracerBegins == TraceInit => TracerInv
<1> SUFFICES ASSUME TraceInit PROVE TracerInv
  OBVIOUS
<1>1. /\ current = 0 /\ started = 0 /\ alone = {} /\ traces = <<>>
      /\ \A r \in Requests : tracing[r] = "idle" /\ own[r] = 0 /\ span[r] = 0
      /\ \A k \in Numbers : events[k] = 0 /\ happened[k] = 0
  BY DEF TraceInit
<1>2. TracerTyped
  BY TracerAssumption DEF TraceInit, TracerTyped, Traced
<1>3. StoredOnce
  <2>1. DOMAIN traces = {}
    BY <1>1
  <2> QED
    BY <1>1, <2>1 DEF StoredOnce, IsInjective, ToSet
<1>4. OwnTraces /\ AloneIsAlone /\ AloneCounts
  BY <1>1 DEF OwnTraces, AloneIsAlone, AloneCounts
<1> QED
  BY <1>2, <1>3, <1>4 DEF TracerInv

\* Of a sequence without repetitions the last ones have none either, and nothing new.
LEMMA LastOnes ==
    ASSUME NEW all \in Seq(Nat), IsInjective(all), NEW m \in 1..Len(all),
           NEW last, last = SubSeq(all, m, Len(all))
    PROVE  last \in Seq(Nat) /\ IsInjective(last) /\ ToSet(last) \subseteq ToSet(all)
<1>1. m \in Int /\ Len(all) \in Int /\ DOMAIN all = 1..Len(all) /\ m <= Len(all) /\ 1 <= m
  OBVIOUS
<1>2. \A i \in m..Len(all) : all[i] \in Nat
  BY <1>1
<1>3. /\ last \in Seq(Nat) /\ Len(last) = Len(all) - m + 1
      /\ \A i \in 1..(Len(all) - m + 1) : last[i] = all[m + i - 1]
  <2> DEFINE n == Len(all)
             part == SubSeq(all, m, n)
  <2>1. n \in Int /\ last = part /\ \A i \in m..n : all[i] \in Nat
    BY <1>1, <1>2
  <2>2. /\ part \in Seq(Nat) /\ Len(part) = IF m <= n THEN n - m + 1 ELSE 0
        /\ \A i \in 1..(n - m + 1) : part[i] = all[m + i - 1]
    <3> HIDE DEF n
    <3> QED
      BY ONLY <1>1, <2>1, SubSeqProperties
  <2> HIDE DEF part
  <2> QED
    BY <1>1, <2>1, <2>2
<1>4. DOMAIN last = 1..(Len(all) - m + 1)
  BY <1>3
<1>5. \A i \in DOMAIN last : m + i - 1 \in DOMAIN all /\ last[i] = all[m + i - 1]
  BY <1>1, <1>3, <1>4
<1>6. IsInjective(last)
  <2> SUFFICES ASSUME NEW i \in DOMAIN last, NEW j \in DOMAIN last, last[i] = last[j]
               PROVE  i = j
    BY DEF IsInjective
  <2>1. m + i - 1 = m + j - 1
    BY <1>5 DEF IsInjective
  <2> QED
    BY <1>1, <1>4, <2>1
<1>7. ToSet(last) \subseteq ToSet(all)
  BY <1>5 DEF ToSet
<1> QED
  BY <1>3, <1>6, <1>7

\* Storing a trace that was not stored adds it and loses none but the oldest.
LEMMA StoringIsOnce ==
    ASSUME TracerTyped, NEW r \in Requests, StoreTrace(r),
           IsInjective(traces), own[r] \notin ToSet(traces)
    PROVE  /\ traces' \in Seq(Nat) /\ IsInjective(traces')
           /\ ToSet(traces') \subseteq ToSet(traces) \cup {own[r]}
<1> DEFINE all == Append(traces, own[r])
<1>1. traces \in Seq(Nat) /\ own[r] \in Nat
  <2>1. own[r] \in 0..started /\ started \in Nat
    BY DEF TracerTyped
  <2> QED
    BY <2>1 DEF TracerTyped
<1>2. /\ all \in Seq(Nat) /\ Len(all) = Len(traces) + 1
      /\ \A i \in 1..Len(traces) : all[i] = traces[i]
      /\ all[Len(traces) + 1] = own[r]
  BY <1>1, AppendProperties
<1>3. traces' = IF Len(all) > MaxTraces
                THEN SubSeq(all, Len(all) - MaxTraces + 1, Len(all)) ELSE all
  BY DEF StoreTrace
<1>4. DOMAIN traces = 1..Len(traces) /\ DOMAIN all = 1..(Len(traces) + 1) /\ Len(traces) \in Nat
  BY <1>1, <1>2
<1> HIDE DEF all
<1>5. ToSet(all) \subseteq ToSet(traces) \cup {own[r]}
  <2> SUFFICES ASSUME NEW i \in DOMAIN all PROVE all[i] \in ToSet(traces) \cup {own[r]}
    BY DEF ToSet
  <2>1. CASE i \in 1..Len(traces)
    BY <1>2, <1>4, <2>1 DEF ToSet
  <2>2. CASE i \notin 1..Len(traces)
    <3>1. i = Len(traces) + 1
      BY <1>4, <2>2
    <3> QED
      BY <1>2, <3>1
  <2> QED
    BY <2>1, <2>2
<1>6. IsInjective(all)
  <2>1. \A i \in 1..Len(traces) : traces[i] \in ToSet(traces)
    BY <1>4 DEF ToSet
  <2>2. \A i, j \in 1..Len(traces) : traces[i] = traces[j] => i = j
    BY <1>4 DEF IsInjective
  <2> SUFFICES ASSUME NEW i \in DOMAIN all, NEW j \in DOMAIN all, all[i] = all[j]
               PROVE  i = j
    BY DEF IsInjective
  <2>3. CASE i \in 1..Len(traces) /\ j \in 1..Len(traces)
    BY <1>2, <2>2, <2>3
  <2>4. CASE i \notin 1..Len(traces) \/ j \notin 1..Len(traces)
    <3>1. /\ i \notin 1..Len(traces) => i = Len(traces) + 1
          /\ j \notin 1..Len(traces) => j = Len(traces) + 1
      BY <1>4
    <3> QED
      BY <1>2, <2>1, <2>4, <3>1
  <2> QED
    BY <2>3, <2>4
<1>7. CASE Len(all) > MaxTraces
  <2>1. Len(all) - MaxTraces + 1 \in Nat /\ Len(all) - MaxTraces + 1 >= 1
        /\ (MaxTraces # 0 => Len(all) - MaxTraces + 1 <= Len(all))
    BY <1>2, <1>4, <1>7, TracerAssumption
  <2>2. CASE MaxTraces # 0
    <3>1. Len(all) - MaxTraces + 1 \in 1..Len(all)
      BY <1>2, <1>4, <2>1, <2>2
    <3>2. traces' \in Seq(Nat) /\ IsInjective(traces') /\ ToSet(traces') \subseteq ToSet(all)
      BY <1>2, <1>3, <1>6, <1>7, <3>1, LastOnes
    <3> QED
      BY <1>5, <3>2
  <2>3. CASE MaxTraces = 0
    <3>1. Len(all) \in Int /\ Len(all) - MaxTraces + 1 \in Int /\ Len(all) < Len(all) - MaxTraces + 1
      BY <1>2, <1>4, <2>3
    <3>2. traces' = <<>>
      BY <1>3, <1>7, <3>1, SubSeqEmpty
    <3>3. DOMAIN traces' = {}
      BY <3>2
    <3> QED
      BY <3>2, <3>3 DEF IsInjective, ToSet
  <2> QED
    BY <2>2, <2>3
<1>8. CASE ~(Len(all) > MaxTraces)
  BY <1>2, <1>3, <1>5, <1>6, <1>8
<1> QED
  BY <1>7, <1>8

LEMMA StartStays ==
    ASSUME TracerInv, NEW r \in Requests, StartTrace(r)
    PROVE  TracerInv'
<1> DEFINE new == started + 1
<1>1. /\ started \in Nat /\ new \in Numbers /\ new \in 1..new /\ new > started
      /\ 0..started \subseteq 0..new /\ 1..started \subseteq 1..new /\ new \in 0..new
      /\ new <= MaxStarted /\ new \notin 0..started /\ new # 0
  BY TracerAssumption DEF TracerInv, TracerTyped, StartTrace, Numbers
<1>2. /\ tracing[r] = "idle" /\ started' = new /\ current' = new
      /\ own' = [own EXCEPT ![r] = new] /\ tracing' = [tracing EXCEPT ![r] = "open"]
      /\ UNCHANGED <<traces, span, events, happened>>
  BY DEF StartTrace, RequestGoes
<1>3. \/ alone' = alone \cup {new} /\ \A o \in Others(r) : tracing[o] = "idle"
      \/ alone' = alone \ {own[o] : o \in Others(r)}
  BY <1>2 DEF StartTrace
<1> HIDE DEF new
<1>4. /\ own'[r] = new /\ tracing'[r] = "open"
      /\ \A o \in Others(r) : own'[o] = own[o] /\ tracing'[o] = tracing[o]
      /\ \A o \in Requests : own[o] \in 0..started /\ span[o] \in 0..started
      /\ own[r] = 0 /\ Others(r) = Requests \ {r}
  BY <1>2 DEF TracerInv, TracerTyped, OwnTraces, Others
<1>5. new \notin alone /\ alone \subseteq 1..started /\ 0 \notin alone
  BY <1>1 DEF TracerInv, TracerTyped
<1>6. \A k \in alone' \ {new} : k \in alone /\ \A o \in Requests : own[o] # k
  <2> SUFFICES ASSUME NEW k \in alone' \ {new}, NEW o \in Requests
               PROVE  k \in alone /\ own[o] # k
    OBVIOUS
  <2>1. k \in alone
    BY <1>3
  <2>2. k # 0
    BY <1>5, <2>1
  <2>3. own[o] # k
    <3>1. CASE o = r
      BY <1>4, <2>2, <3>1
    <3>2. CASE o # r /\ tracing[o] = "idle"
      BY <2>2, <3>2 DEF TracerInv, OwnTraces
    <3>3. CASE o # r /\ alone' = alone \ {own[p] : p \in Others(r)}
      BY <1>4, <3>3
    <3> QED
      BY <1>3, <1>4, <3>1, <3>2, <3>3
  <2> QED
    BY <2>1, <2>3
<1>7. new \in alone' => \A o \in Others(r) : tracing'[o] = "idle"
  BY <1>3, <1>4, <1>5
<1>8. TracerTyped'
  <2>1. own' \in [Requests -> 0..new] /\ span' \in [Requests -> 0..new]
    BY <1>1, <1>2 DEF TracerInv, TracerTyped
  <2>2. tracing' \in [Requests -> Traced]
    BY <1>2 DEF TracerInv, TracerTyped, Traced
  <2>3. alone' \in SUBSET (1..new)
    BY <1>1, <1>3, <1>5
  <2>4. new \in Nat
    BY <1>1 DEF new
  <2> QED
    BY <1>1, <1>2, <2>1, <2>2, <2>3, <2>4 DEF TracerInv, TracerTyped
<1>9. OwnTraces'
  <2>1. \A o \in Requests : own'[o] = 0 <=> tracing'[o] = "idle"
    BY <1>1, <1>4 DEF TracerInv, OwnTraces
  <2>2. \A o \in Requests : span'[o] = 0 <=> tracing'[o] # "in span"
    BY <1>2, <1>4 DEF TracerInv, OwnTraces
  <2>3. \A o, p \in Requests : own'[o] = own'[p] /\ own'[o] # 0 => o = p
    <3>1. \A o, p \in Requests : own[o] = own[p] /\ own[o] # 0 => o = p
      BY DEF TracerInv, OwnTraces
    <3>2. \A o \in Requests : own[o] # new
      BY <1>1, <1>4
    <3> QED
      BY <1>4, <3>1, <3>2
  <2> QED
    BY <2>1, <2>2, <2>3 DEF OwnTraces
<1>10. StoredOnce'
  <2>1. new \notin ToSet(traces)
    BY <1>1 DEF TracerInv, StoredOnce
  <2> QED
    BY <1>1, <1>2, <1>4, <2>1 DEF TracerInv, StoredOnce
<1>11. AloneIsAlone'
  <2>1. \A o \in Requests : own'[o] \in alone' => o = r
    BY <1>1, <1>4, <1>6
  <2>2. \A o \in Requests : span'[o] \in alone' => span[o] \in alone /\ own[o] # span[o]
    BY <1>1, <1>2, <1>4, <1>6
  <2>3. span'[r] = 0
    BY <1>2 DEF TracerInv, OwnTraces
  <2> QED
    BY <1>2, <1>4, <1>7, <2>1, <2>2, <2>3 DEF TracerInv, AloneIsAlone, Others
<1>12. AloneCounts'
  <2>1. events[new] = 0 /\ happened[new] = 0
    BY <1>1 DEF TracerInv, AloneCounts
  <2>2. \A k \in Numbers : k > new => k > started
    BY <1>1 DEF new, Numbers
  <2>3. \A o \in Requests : own'[o] \in alone' => o = r
    BY <1>1, <1>4, <1>6
  <2>4. ~Adding(r)'
    BY <1>4 DEF Adding
  <2>5. \A k \in alone' : (\A o \in Requests : own'[o] # k) => events[k] = happened[k]
    BY <1>4, <1>6 DEF TracerInv, AloneCounts
  <2> QED
    BY <1>2, <1>4, <2>1, <2>2, <2>3, <2>4, <2>5 DEF TracerInv, AloneCounts
<1> QED
  BY <1>8, <1>9, <1>10, <1>11, <1>12 DEF TracerInv

\* Of two requests in handlers neither is alone with its trace.
LEMMA InHandler ==
    ASSUME TracerInv, NEW r \in Requests, tracing[r] # "idle"
    PROVE  /\ own[r] \in Numbers /\ own[r] \in 1..started /\ own[r] # 0
           /\ \A o \in Requests : own[o] \in alone => o = r
           /\ current \in alone => current = own[r]
           /\ 0 \notin alone /\ alone \subseteq Numbers
<1>1. own[r] \in 0..started /\ started \in Nat /\ started <= MaxStarted /\ own[r] # 0
      /\ alone \subseteq 1..started
  BY DEF TracerInv, TracerTyped, OwnTraces
<1>2. own[r] \in Numbers /\ own[r] \in 1..started /\ 0 \notin alone /\ alone \subseteq Numbers
  BY <1>1, TracerAssumption DEF Numbers
<1>3. \A o \in Requests : own[o] \in alone => o = r
  BY DEF TracerInv, AloneIsAlone, Others
<1>4. current \in alone => current = own[r]
  BY <1>3 DEF TracerInv, AloneIsAlone
<1> QED
  BY <1>1, <1>2, <1>3, <1>4

LEMMA LookStays ==
    ASSUME TracerInv, NEW r \in Requests, NEW s \in {"event", "span"}, Look(r, s)
    PROVE  TracerInv'
<1>1. /\ tracing[r] = "open" /\ happened' = [happened EXCEPT ![own[r]] = @ + 1]
      /\ tracing' = [tracing EXCEPT ![r] = IF current = 0 THEN "open" ELSE s]
      /\ UNCHANGED <<current, traces, own, span, started, events, alone>>
  BY DEF Look, RequestGoes
<1>2. /\ own[r] \in Numbers /\ own[r] \in 1..started /\ own[r] # 0
      /\ \A o \in Requests : own[o] \in alone => o = r
  BY <1>1, InHandler
<1>3. /\ tracing'[r] = (IF current = 0 THEN "open" ELSE s)
      /\ \A o \in Requests \ {r} : tracing'[o] = tracing[o]
      /\ happened'[own[r]] = happened[own[r]] + 1
      /\ \A k \in Numbers \ {own[r]} : happened'[k] = happened[k]
      /\ tracing'[r] # "idle" /\ tracing'[r] # "in span" /\ tracing'[r] # "log"
  BY <1>1, <1>2 DEF TracerInv, TracerTyped
<1>4. TracerTyped'
  <2>1. tracing' \in [Requests -> Traced]
    BY <1>1 DEF TracerInv, TracerTyped, Traced
  <2>2. happened' \in [Numbers -> Nat]
    BY <1>1, <1>2 DEF TracerInv, TracerTyped
  <2> QED
    BY <1>1, <2>1, <2>2 DEF TracerInv, TracerTyped
<1>5. OwnTraces' /\ StoredOnce'
  <2>1. OwnTraces /\ StoredOnce
    BY DEF TracerInv
  <2>2. OwnTraces'
    BY <1>1, <1>2, <1>3, <2>1 DEF OwnTraces
  <2>3. StoredOnce'
    BY <1>1, <1>2, <1>3, <2>1 DEF StoredOnce
  <2> QED
    BY <2>2, <2>3
<1>6. AloneIsAlone'
  <2>1. \A o \in Requests : own[o] \in alone =>
            /\ current = own[o] /\ \A p \in Others(o) : tracing[p] = "idle"
            /\ span[o] \in {0, own[o]}
    BY DEF TracerInv, AloneIsAlone
  <2>2. \A p \in Others(r) : tracing'[p] = tracing[p]
    BY <1>3 DEF Others
  <2>3. \A o \in Requests : own'[o] \in alone' =>
            /\ current' = own'[o] /\ \A p \in Others(o) : tracing'[p] = "idle"
            /\ span'[o] \in {0, own'[o]}
    BY <1>1, <1>2, <2>1, <2>2
  <2> QED
    BY <1>1, <2>3 DEF TracerInv, AloneIsAlone
<1>7. AloneCounts'
  <2>1. own[r] \in alone => happened[own[r]] = events[own[r]]
    BY <1>1 DEF TracerInv, AloneCounts, Adding
  <2>2. own[r] \in alone => current # 0
    BY <1>2 DEF TracerInv, AloneIsAlone
  <2>3. own[r] \in alone => Adding(r)'
    BY <1>3, <2>2 DEF Adding
  <2>4. \A k \in Numbers : k > started => k # own[r]
    BY <1>2 DEF TracerInv, TracerTyped, Numbers
  <2>5. \A k \in alone : k \in Numbers
    BY <1>1, InHandler
  <2> QED
    BY <1>1, <1>2, <1>3, <2>1, <2>3, <2>4, <2>5 DEF TracerInv, AloneCounts
<1> QED
  BY <1>4, <1>5, <1>6, <1>7 DEF TracerInv

LEMMA AddStays ==
    ASSUME TracerInv, NEW r \in Requests, AddEvent(r)
    PROVE  TracerInv'
<1>1. /\ tracing[r] = "event"
      /\ \/ /\ current # 0 /\ events' = [events EXCEPT ![current] = @ + 1]
            /\ tracing' = [tracing EXCEPT ![r] = "open"]
         \/ current = 0 /\ events' = events /\ tracing' = [tracing EXCEPT ![r] = "end"]
      /\ UNCHANGED <<current, traces, own, span, started, happened, alone>>
  BY DEF AddEvent, RequestGoes
<1>2. /\ own[r] \in Numbers /\ own[r] # 0 /\ 0 \notin alone /\ alone \subseteq Numbers
      /\ \A o \in Requests : own[o] \in alone => o = r
      /\ current \in alone => current = own[r]
  BY <1>1, InHandler
<1>3. /\ tracing'[r] \in {"open", "end"}
      /\ \A o \in Requests \ {r} : tracing'[o] = tracing[o]
  BY <1>1 DEF TracerInv, TracerTyped
<1>4. current # 0 => current \in Numbers /\ current <= started
  BY TracerAssumption DEF TracerInv, TracerTyped, Numbers
<1>5. /\ current # 0 => events'[current] = events[current] + 1
      /\ \A k \in Numbers \ {current} : events'[k] = events[k]
  BY <1>1, <1>4 DEF TracerInv, TracerTyped
<1>6. TracerTyped'
  <2>1. tracing' \in [Requests -> Traced]
    BY <1>1 DEF TracerInv, TracerTyped, Traced
  <2>2. events' \in [Numbers -> Nat]
    BY <1>1, <1>4 DEF TracerInv, TracerTyped
  <2> QED
    BY <1>1, <2>1, <2>2 DEF TracerInv, TracerTyped
<1>7. OwnTraces' /\ StoredOnce'
  <2>1. OwnTraces /\ StoredOnce
    BY DEF TracerInv
  <2>2. OwnTraces'
    BY <1>1, <1>2, <1>3, <2>1 DEF OwnTraces
  <2>3. StoredOnce'
    BY <1>1, <1>2, <1>3, <2>1 DEF StoredOnce
  <2> QED
    BY <2>2, <2>3
<1>8. AloneIsAlone'
  BY <1>1, <1>2, <1>3 DEF TracerInv, AloneIsAlone, Others
<1>9. AloneCounts'
  <2>1. own[r] \in alone => happened[own[r]] = events[own[r]] + 1 /\ current = own[r]
    BY <1>1 DEF TracerInv, AloneCounts, AloneIsAlone, Adding
  <2>2. ~Adding(r)'
    BY <1>3 DEF Adding
  <2>3. \A k \in Numbers : k > started => k # current
    BY <1>4 DEF TracerInv, TracerTyped, Numbers
  <2>4. \A k \in Numbers : k > started => events'[k] = 0 /\ happened'[k] = 0
    BY <1>1, <1>5, <2>3 DEF TracerInv, AloneCounts
  <2>5. \A o \in Requests : own'[o] \in alone' =>
            happened'[own'[o]] = IF Adding(o)' THEN events'[own'[o]] + 1 ELSE events'[own'[o]]
    BY <1>1, <1>2, <1>5, <2>1, <2>2
  <2>6. \A k \in alone : (\A o \in Requests : own[o] # k) => k \in Numbers \ {current}
    BY <1>2
  <2>7. \A k \in alone' : (\A o \in Requests : own'[o] # k) => events'[k] = happened'[k]
    BY <1>1, <1>5, <2>6 DEF TracerInv, AloneCounts
  <2> QED
    BY <1>1, <2>4, <2>5, <2>7 DEF AloneCounts
<1> QED
  BY <1>6, <1>7, <1>8, <1>9 DEF TracerInv

LEMMA EnterStays ==
    ASSUME TracerInv, NEW r \in Requests, EnterSpan(r)
    PROVE  TracerInv'
<1>1. /\ tracing[r] = "span"
      /\ \/ /\ current # 0 /\ span' = [span EXCEPT ![r] = current]
            /\ tracing' = [tracing EXCEPT ![r] = "in span"]
         \/ current = 0 /\ span' = span /\ tracing' = [tracing EXCEPT ![r] = "end"]
      /\ UNCHANGED <<current, traces, own, started, events, happened, alone>>
  BY DEF EnterSpan, RequestGoes
<1>2. /\ own[r] \in Numbers /\ own[r] # 0 /\ 0 \notin alone
      /\ \A o \in Requests : own[o] \in alone => o = r
      /\ current \in alone => current = own[r]
  BY <1>1, InHandler
<1>3. /\ \A o \in Requests \ {r} : tracing'[o] = tracing[o] /\ span'[o] = span[o]
      /\ \/ current # 0 /\ span'[r] = current /\ tracing'[r] = "in span"
         \/ current = 0 /\ span'[r] = span[r] /\ tracing'[r] = "end"
      /\ span[r] = 0
  BY <1>1 DEF TracerInv, TracerTyped, OwnTraces
<1>4. TracerTyped'
  <2>1. tracing' \in [Requests -> Traced]
    BY <1>1 DEF TracerInv, TracerTyped, Traced
  <2>2. span' \in [Requests -> 0..started]
    BY <1>1 DEF TracerInv, TracerTyped
  <2> QED
    BY <1>1, <2>1, <2>2 DEF TracerInv, TracerTyped
<1>5. OwnTraces'
  <2>1. \A o \in Requests : span'[o] = 0 <=> tracing'[o] # "in span"
    BY <1>3 DEF TracerInv, OwnTraces
  <2>2. \A o \in Requests : own'[o] = 0 <=> tracing'[o] = "idle"
    BY <1>1, <1>2, <1>3 DEF TracerInv, OwnTraces
  <2> QED
    BY <1>1, <2>1, <2>2 DEF TracerInv, OwnTraces
<1>6. StoredOnce'
  BY <1>1, <1>3 DEF TracerInv, StoredOnce
<1>7. AloneIsAlone'
  <2>1. own[r] \in alone => current = own[r] /\ \A o \in Others(r) : tracing[o] = "idle"
    BY DEF TracerInv, AloneIsAlone
  <2>2. \A o \in Requests : own'[o] \in alone' =>
            /\ current' = own'[o] /\ \A p \in Others(o) : tracing'[p] = "idle"
            /\ span'[o] \in {0, own'[o]}
    BY <1>1, <1>2, <1>3, <2>1 DEF Others
  <2>3. \A o \in Requests : span'[o] \in alone' => own'[o] = span'[o]
    BY <1>1, <1>2, <1>3 DEF TracerInv, AloneIsAlone
  <2> QED
    BY <1>1, <2>2, <2>3 DEF TracerInv, AloneIsAlone
<1>8. AloneCounts'
  <2>1. own[r] \in alone => Adding(r) /\ Adding(r)'
    BY <1>1, <1>2, <1>3 DEF TracerInv, AloneIsAlone, Adding
  <2> QED
    BY <1>1, <1>2, <2>1 DEF TracerInv, AloneCounts
<1> QED
  BY <1>4, <1>5, <1>6, <1>7, <1>8 DEF TracerInv

LEMMA ExitStays ==
    ASSUME TracerInv, NEW r \in Requests, ExitSpan(r)
    PROVE  TracerInv'
<1>1. /\ tracing[r] = "in span" /\ events' = [events EXCEPT ![span[r]] = @ + 1]
      /\ span' = [span EXCEPT ![r] = 0]
      /\ UNCHANGED <<current, traces, own, started, happened, alone>>
  BY DEF ExitSpan
<1>a. \/ tracing' = [tracing EXCEPT ![r] = "open"]
      \/ tracing' = [tracing EXCEPT ![r] = "end"]
  BY DEF ExitSpan, RequestGoes
<1>2. /\ own[r] \in Numbers /\ own[r] # 0 /\ 0 \notin alone /\ alone \subseteq Numbers
      /\ \A o \in Requests : own[o] \in alone => o = r
  BY <1>1, InHandler
<1>3. /\ \A o \in Requests \ {r} : tracing'[o] = tracing[o] /\ span'[o] = span[o]
      /\ tracing'[r] \in {"open", "end"} /\ span'[r] = 0
  <2>1. span'[r] = 0 /\ \A o \in Requests \ {r} : span'[o] = span[o]
    BY <1>1 DEF TracerInv, TracerTyped
  <2>2. tracing'[r] \in {"open", "end"} /\ \A o \in Requests \ {r} : tracing'[o] = tracing[o]
    BY <1>a DEF TracerInv, TracerTyped
  <2> QED
    BY <2>1, <2>2
<1>4. span[r] \in Numbers /\ span[r] <= started
  <2>1. span[r] \in 0..started /\ span[r] # 0 /\ started \in Nat /\ started <= MaxStarted
    BY <1>1 DEF TracerInv, TracerTyped, OwnTraces
  <2> QED
    BY <2>1, TracerAssumption DEF Numbers
<1>5. /\ events'[span[r]] = events[span[r]] + 1
      /\ \A k \in Numbers \ {span[r]} : events'[k] = events[k]
  BY <1>1, <1>4 DEF TracerInv, TracerTyped
<1>6. TracerTyped'
  <2>1. tracing' \in [Requests -> Traced]
    BY <1>a DEF TracerInv, TracerTyped, Traced
  <2>2. events' \in [Numbers -> Nat]
    <3>1. events \in [Numbers -> Nat] /\ events' = [events EXCEPT ![span[r]] = @ + 1]
      BY <1>1 DEF TracerInv, TracerTyped
    <3> QED
      BY ONLY <3>1, <1>4
  <2>3. span' \in [Requests -> 0..started]
    <3>1. /\ span \in [Requests -> 0..started] /\ started \in Nat
          /\ span' = [span EXCEPT ![r] = 0]
      BY <1>1 DEF TracerInv, TracerTyped
    <3> QED
      BY ONLY <3>1
  <2> QED
    BY <1>1, <2>1, <2>2, <2>3 DEF TracerInv, TracerTyped
<1>7. OwnTraces' /\ StoredOnce'
  <2>1. OwnTraces /\ StoredOnce
    BY DEF TracerInv
  <2>2. OwnTraces'
    BY <1>1, <1>2, <1>3, <2>1 DEF OwnTraces
  <2>3. StoredOnce'
    BY <1>1, <1>2, <1>3, <2>1 DEF StoredOnce
  <2> QED
    BY <2>2, <2>3
<1>8. AloneIsAlone'
  <2>1. \A o \in Requests : own'[o] \in alone' =>
            /\ current' = own'[o] /\ \A p \in Others(o) : tracing'[p] = "idle"
            /\ span'[o] \in {0, own'[o]}
    BY <1>1, <1>2, <1>3 DEF TracerInv, AloneIsAlone, Others
  <2>2. \A o \in Requests : span'[o] \in alone' => own'[o] = span'[o]
    <3>1. \A o \in Requests : span[o] \in alone => own[o] = span[o]
      BY DEF TracerInv, AloneIsAlone
    <3>2. own' = own /\ alone' = alone
      BY <1>1
    <3> QED
      BY <1>2, <1>3, <3>1, <3>2
  <2> QED
    BY <1>1, <2>1, <2>2 DEF TracerInv, AloneIsAlone
<1>9. AloneCounts'
  <2>1. own[r] \in alone => happened[own[r]] = events[own[r]] + 1 /\ span[r] = own[r]
    BY <1>1 DEF TracerInv, AloneCounts, AloneIsAlone, OwnTraces, Adding
  <2>2. ~Adding(r)'
    BY <1>3 DEF Adding
  <2>3. \A k \in Numbers : k > started => k # span[r]
    BY <1>4 DEF TracerInv, TracerTyped, Numbers
  <2>4. \A k \in Numbers : k > started => events'[k] = 0 /\ happened'[k] = 0
    BY <1>1, <1>5, <2>3 DEF TracerInv, AloneCounts
  <2>5. \A o \in Requests : own'[o] \in alone' =>
            happened'[own'[o]] = IF Adding(o)' THEN events'[own'[o]] + 1 ELSE events'[own'[o]]
    BY <1>1, <1>2, <1>5, <2>1, <2>2
  <2>6. \A k \in alone : (\A o \in Requests : own[o] # k) => k \in Numbers \ {span[r]}
    BY <1>2 DEF TracerInv, AloneIsAlone
  <2>7. \A k \in alone' : (\A o \in Requests : own'[o] # k) => events'[k] = happened'[k]
    BY <1>1, <1>5, <2>6 DEF TracerInv, AloneCounts
  <2> QED
    BY <1>1, <2>4, <2>5, <2>7 DEF AloneCounts
<1> QED
  BY <1>6, <1>7, <1>8, <1>9 DEF TracerInv

LEMMA StoreStays ==
    ASSUME TracerInv, NEW r \in Requests, StoreTrace(r)
    PROVE  TracerInv'
<1>1. /\ tracing[r] \in {"open", "end"} /\ tracing' = [tracing EXCEPT ![r] = "log"]
      /\ UNCHANGED <<current, own, span, started, events, happened, alone>>
  BY DEF StoreTrace, RequestGoes
<1>2. /\ own[r] \in 1..started /\ own[r] # 0 /\ \A o \in Requests : own[o] \in alone => o = r
  BY <1>1, InHandler
<1>3. tracing'[r] = "log" /\ \A o \in Requests \ {r} : tracing'[o] = tracing[o]
  BY <1>1 DEF TracerInv, TracerTyped
<1>4. /\ traces' \in Seq(Nat) /\ IsInjective(traces')
      /\ ToSet(traces') \subseteq ToSet(traces) \cup {own[r]}
  <2>1. IsInjective(traces) /\ own[r] \notin ToSet(traces) /\ TracerTyped
    BY <1>1 DEF TracerInv, StoredOnce
  <2> QED
    BY <2>1, StoringIsOnce
<1>5. TracerTyped'
  <2>1. tracing' \in [Requests -> Traced]
    BY <1>1 DEF TracerInv, TracerTyped, Traced
  <2> QED
    BY <1>1, <1>4, <2>1 DEF TracerInv, TracerTyped
<1>6. OwnTraces'
  BY <1>1, <1>2, <1>3 DEF TracerInv, OwnTraces
<1>7. StoredOnce'
  <2>1. ToSet(traces') \subseteq 1..started'
    BY <1>1, <1>2, <1>4 DEF TracerInv, StoredOnce
  <2>2. \A o \in Requests \ {r} : own[o] # own[r]
    BY <1>2 DEF TracerInv, OwnTraces
  <2>3. \A o \in Requests : own'[o] \in ToSet(traces') => tracing'[o] = "log"
    BY <1>1, <1>3, <1>4, <2>2 DEF TracerInv, StoredOnce
  <2> QED
    BY <1>4, <2>1, <2>3 DEF StoredOnce
<1>8. AloneIsAlone'
  BY <1>1, <1>2, <1>3 DEF TracerInv, AloneIsAlone, Others
<1>9. AloneCounts'
  <2>1. ~Adding(r) /\ ~Adding(r)'
    BY <1>1, <1>3 DEF Adding
  <2> QED
    BY <1>1, <1>2, <2>1 DEF TracerInv, AloneCounts
<1> QED
  BY <1>5, <1>6, <1>7, <1>8, <1>9 DEF TracerInv

LEMMA EndStays ==
    ASSUME TracerInv, NEW r \in Requests, EndTrace(r)
    PROVE  TracerInv'
<1>1. /\ tracing[r] = "log" /\ tracing' = [tracing EXCEPT ![r] = "idle"]
      /\ current' = 0 /\ own' = [own EXCEPT ![r] = 0]
      /\ alone' = alone \ {own[o] : o \in Others(r)}
      /\ UNCHANGED <<traces, span, started, events, happened>>
  BY DEF EndTrace, RequestGoes, Meet
<1>2. 0 \notin alone /\ \A o \in Requests : own[o] \in alone => o = r
  BY <1>1, InHandler
<1>3. /\ tracing'[r] = "idle" /\ own'[r] = 0
      /\ \A o \in Others(r) : tracing'[o] = tracing[o] /\ own'[o] = own[o] /\ own[o] \notin alone'
      /\ Others(r) = Requests \ {r}
  BY <1>1 DEF TracerInv, TracerTyped, Others
<1>4. \A o \in Requests : own'[o] \notin alone'
  BY <1>1, <1>2, <1>3
<1>5. TracerTyped'
  <2>1. tracing' \in [Requests -> Traced]
    BY <1>1 DEF TracerInv, TracerTyped, Traced
  <2>2. own' \in [Requests -> 0..started] /\ current' \in 0..started
    BY <1>1 DEF TracerInv, TracerTyped
  <2> QED
    BY <1>1, <2>1, <2>2 DEF TracerInv, TracerTyped
<1>6. OwnTraces'
  <2>1. OwnTraces
    BY DEF TracerInv
  <2>2. \A o \in Requests : own'[o] = 0 <=> tracing'[o] = "idle"
    BY <1>3, <2>1 DEF OwnTraces
  <2>3. \A o \in Requests : span'[o] = 0 <=> tracing'[o] # "in span"
    BY <1>1, <1>3, <2>1 DEF OwnTraces
  <2>4. \A o, p \in Requests : own'[o] = own'[p] /\ own'[o] # 0 => o = p
    BY <1>3, <2>1 DEF OwnTraces
  <2> QED
    BY <2>2, <2>3, <2>4 DEF OwnTraces
<1>7. StoredOnce'
  <2>1. 0 \notin ToSet(traces)
    BY DEF TracerInv, StoredOnce, TracerTyped
  <2> QED
    BY <1>1, <1>3, <2>1 DEF TracerInv, StoredOnce
<1>8. AloneIsAlone'
  <2>1. span[r] = 0
    BY <1>1 DEF TracerInv, OwnTraces
  <2>2. \A o \in Requests : span[o] \notin alone'
    BY <1>1, <1>2, <1>3, <2>1 DEF TracerInv, AloneIsAlone
  <2> QED
    BY <1>1, <1>2, <1>4, <2>2 DEF AloneIsAlone
<1>9. AloneCounts'
  <2>1. own[r] \in alone => happened[own[r]] = events[own[r]]
    BY <1>1 DEF TracerInv, AloneCounts, Adding
  <2>2. \A k \in alone' : k \in alone /\ \A o \in Requests \ {r} : own[o] # k
    BY <1>1, <1>3
  <2>3. \A k \in alone' : events[k] = happened[k]
    BY <2>1, <2>2 DEF TracerInv, AloneCounts
  <2> QED
    BY <1>1, <1>4, <2>3 DEF TracerInv, AloneCounts
<1> QED
  BY <1>5, <1>6, <1>7, <1>8, <1>9 DEF TracerInv

LEMMA InterruptionStays ==
    ASSUME TracerInv, NEW r \in Requests, Interrupted(r)
    PROVE  TracerInv'
<1>1. /\ tracing[r] = "open" /\ tracing' = [tracing EXCEPT ![r] = "idle"]
      /\ own' = [own EXCEPT ![r] = 0] /\ alone' = alone \ {own[r]}
      /\ UNCHANGED <<current, traces, span, started, events, happened>>
  BY DEF Interrupted, RequestGoes
<1>2. /\ 0 \notin alone /\ \A o \in Requests : own[o] \in alone => o = r
      /\ current \in alone => current = own[r]
  BY <1>1, InHandler
<1>3. /\ tracing'[r] = "idle" /\ own'[r] = 0
      /\ \A o \in Requests \ {r} : tracing'[o] = tracing[o] /\ own'[o] = own[o]
  BY <1>1 DEF TracerInv, TracerTyped
<1>4. /\ \A o \in Requests : own'[o] \notin alone'
      /\ current \notin alone'
  BY <1>1, <1>2, <1>3
<1>5. TracerTyped'
  <2>1. tracing' \in [Requests -> Traced]
    BY <1>1 DEF TracerInv, TracerTyped, Traced
  <2>2. own' \in [Requests -> 0..started]
    BY <1>1 DEF TracerInv, TracerTyped
  <2> QED
    BY <1>1, <2>1, <2>2 DEF TracerInv, TracerTyped
<1>6. OwnTraces'
  <2>1. OwnTraces
    BY DEF TracerInv
  <2>2. \A o \in Requests : own'[o] = 0 <=> tracing'[o] = "idle"
    BY <1>3, <2>1 DEF OwnTraces
  <2>3. \A o \in Requests : span'[o] = 0 <=> tracing'[o] # "in span"
    BY <1>1, <1>3, <2>1 DEF OwnTraces
  <2>4. \A o, p \in Requests : own'[o] = own'[p] /\ own'[o] # 0 => o = p
    BY <1>3, <2>1 DEF OwnTraces
  <2> QED
    BY <2>2, <2>3, <2>4 DEF OwnTraces
<1>7. StoredOnce'
  <2>1. 0 \notin ToSet(traces)
    BY DEF TracerInv, StoredOnce, TracerTyped
  <2> QED
    BY <1>1, <1>3, <2>1 DEF TracerInv, StoredOnce
<1>8. AloneIsAlone'
  <2>1. \A o \in Requests : span[o] \notin alone'
    BY <1>1, <1>2 DEF TracerInv, AloneIsAlone
  <2> QED
    BY <1>1, <1>4, <2>1 DEF AloneIsAlone
<1>9. AloneCounts'
  <2>1. \A k \in alone' : k \in alone /\ \A o \in Requests : own[o] # k
    BY <1>1, <1>2
  <2> QED
    BY <1>1, <1>4, <2>1 DEF TracerInv, AloneCounts
<1> QED
  BY <1>5, <1>6, <1>7, <1>8, <1>9 DEF TracerInv

LEMMA TracerStays == TracerInv /\ [TraceNext]_tracerVars => TracerInv'
<1> SUFFICES ASSUME TracerInv, [TraceNext]_tracerVars PROVE TracerInv'
  OBVIOUS
<1>1. CASE UNCHANGED tracerVars
  <2>1. TracerTyped'
    BY <1>1 DEF tracerVars, TracerInv, TracerTyped
  <2>2. OwnTraces' /\ StoredOnce'
    BY <1>1 DEF tracerVars, TracerInv, OwnTraces, StoredOnce
  <2>3. AloneIsAlone'
    BY <1>1 DEF tracerVars, TracerInv, AloneIsAlone, Others
  <2>4. AloneCounts'
    BY <1>1 DEF tracerVars, TracerInv, AloneCounts, Adding
  <2> QED
    BY <2>1, <2>2, <2>3, <2>4 DEF TracerInv
<1>2. CASE ClearTraces
  <2>1. traces' = <<>> /\ UNCHANGED <<current, tracing, own, span, started, events, happened, alone>>
    BY <1>2 DEF ClearTraces
  <2>2. ToSet(traces') = {} /\ IsInjective(traces')
    <3>1. DOMAIN traces' = {}
      BY <2>1
    <3> QED
      BY <2>1, <3>1 DEF ToSet, IsInjective
  <2>3. TracerTyped'
    BY <2>1 DEF TracerInv, TracerTyped
  <2>4. StoredOnce'
    BY <2>1, <2>2 DEF StoredOnce
  <2> QED
    BY <2>1, <2>3, <2>4 DEF TracerInv, OwnTraces, AloneIsAlone, AloneCounts, Adding
<1>3. ASSUME NEW r \in Requests, Look(r, "event") \/ Look(r, "span") PROVE TracerInv'
  BY <1>3, LookStays
<1>4. ASSUME NEW r \in Requests,
             \/ StartTrace(r) \/ AddEvent(r) \/ EnterSpan(r) \/ ExitSpan(r) \/ StoreTrace(r)
             \/ EndTrace(r) \/ Interrupted(r)
      PROVE  TracerInv'
  BY <1>4, StartStays, AddStays, EnterStays, ExitStays, StoreStays, EndStays, InterruptionStays
<1> QED
  BY <1>1, <1>2, <1>3, <1>4 DEF TraceNext

\* However many handlers are traced, and however they overlap, fail or are interrupted: no
\* trace is stored twice, and a stored trace that no other handler has met has every event
\* of its own and no other.
THEOREM TracesStayTrue == TraceSpec => []TracesAreTrue
<1>1. TracerInv => TracesAreTrue
  <2> SUFFICES ASSUME TracerInv PROVE TracesAreTrue
    OBVIOUS
  <2>1. ASSUME NEW k \in ToSet(traces) \cap alone PROVE events[k] = happened[k]
    <3>1. CASE \A r \in Requests : own[r] # k
      BY <2>1, <3>1 DEF TracerInv, AloneCounts
    <3>2. ASSUME NEW r \in Requests, own[r] = k PROVE events[k] = happened[k]
      <4>1. tracing[r] = "log"
        BY <2>1, <3>2 DEF TracerInv, StoredOnce
      <4> QED
        BY <2>1, <3>2, <4>1 DEF TracerInv, AloneCounts, Adding
    <3> QED
      BY <3>1, <3>2
  <2> QED
    BY <2>1 DEF TracerInv, StoredOnce, TracesAreTrue
<1> QED
  BY <1>1, TracerBegins, TracerStays, PTL DEF TraceSpec

(***************************************************************************)
(* The costs.                                                              *)
(***************************************************************************)
CostTyped == total \in Nat /\ returned \in Nat /\ cost \in [Spenders -> Nat]

\* What track has let pass has been counted, and it let nothing pass over the budget.
CostInv == CostTyped /\ returned <= total /\ returned <= BudgetLimit

LEMMA CostBegins == CostInit => CostInv
BY CostAssumption DEF CostInit, CostInv, CostTyped

LEMMA CostStays == CostInv /\ [CostNext]_costVars => CostInv'
<1> SUFFICES ASSUME CostInv, [CostNext]_costVars PROVE CostInv'
  OBVIOUS
<1> USE CostAssumption DEF CostInv, CostTyped
<1>1. CASE UNCHANGED costVars
  BY <1>1 DEF costVars
<1>2. ASSUME NEW c \in Spenders, NEW s, NEW x \in Nat, SpenderCalls(c, s, x)
      PROVE  CostInv'
  BY <1>2 DEF SpenderCalls
<1>3. ASSUME NEW c \in Spenders, Track(c) PROVE CostInv'
  <2>1. cost[c] \in Nat /\ total' = total + cost[c] /\ cost' = cost
    BY <1>3 DEF Track
  <2>2. \/ returned' = returned
        \/ returned' = returned + cost[c] /\ total' <= BudgetLimit
    BY <1>3 DEF Track
  <2> QED
    BY <2>1, <2>2
<1>4. ASSUME NEW c \in Spenders, GetStats(c) \/ ResetCosts(c) PROVE CostInv'
  BY <1>4 DEF GetStats, ResetCosts
<1> QED
  BY <1>1, <1>2, <1>3, <1>4 DEF CostNext, CostStep

\* However many threads track their calls, of whatever cost, while others read the
\* statistics or wait for ever in a reset: what track has let pass is within the budget.
THEOREM BudgetIsKept == CostSpec => []PassedIsWithinBudget
<1>1. CostInv => PassedIsWithinBudget
  BY DEF CostInv, PassedIsWithinBudget
<1> QED
  BY <1>1, CostBegins, CostStays, PTL DEF CostSpec

----------------------------------------------------------------------------
(* The best of what the tiers find                                         *)

\* A strict order that tells any two places apart, as a set of pairs.
TotalOrder(less, S) ==
    /\ \A i \in S : <<i, i>> \notin less
    /\ \A i, j \in S : i # j => <<i, j>> \in less \/ <<j, i>> \in less
    /\ \A i, j, k \in S : <<i, j>> \in less /\ <<j, k>> \in less => <<i, k>> \in less

Under(i, less, S) == {j \in S : <<j, i>> \in less}
PlaceAt(n, less, S) == CHOOSE i \in S : Cardinality(Under(i, less, S)) = n - 1

\* One place has no place before it, one has one, and so on: they are in a row.
LEMMA PlacesInARow ==
    ASSUME NEW S, IsFiniteSet(S), NEW less, TotalOrder(less, S)
    PROVE  /\ Cardinality(S) \in Nat
           /\ \A n \in 1 .. Cardinality(S) : PlaceAt(n, less, S) \in S
           /\ \A i \in S : \E n \in 1 .. Cardinality(S) : PlaceAt(n, less, S) = i
           /\ \A n, m \in 1 .. Cardinality(S) : n < m =>
                <<PlaceAt(n, less, S), PlaceAt(m, less, S)>> \in less
<1> DEFINE N == Cardinality(S)
           U(i) == Under(i, less, S)
           rank == [i \in S |-> Cardinality(U(i))]
           At(n) == PlaceAt(n, less, S)
<1>1. N \in Nat  BY FS_CardinalityType
<1>2. ASSUME NEW i \in S
      PROVE  IsFiniteSet(U(i)) /\ Cardinality(U(i)) \in Nat /\ Cardinality(U(i)) < N
  <2>1. U(i) \subseteq S /\ U(i) # S  BY DEF TotalOrder, Under
  <2> HIDE DEF U
  <2>2. /\ IsFiniteSet(U(i)) /\ Cardinality(U(i)) <= N
        /\ N = Cardinality(U(i)) => S = U(i)
    BY <2>1, FS_Subset
  <2>3. Cardinality(U(i)) \in Nat  BY <2>2, FS_CardinalityType
  <2> QED  BY <1>1, <2>1, <2>2, <2>3
<1>3. ASSUME NEW i \in S, NEW j \in S, <<i, j>> \in less
      PROVE  Cardinality(U(i)) < Cardinality(U(j))
  <2>1. U(i) \subseteq U(j)  BY <1>3 DEF TotalOrder, Under
  <2>2. i \in U(j) /\ i \notin U(i)  BY <1>3 DEF TotalOrder, Under
  <2> HIDE DEF U
  <2>3. IsFiniteSet(U(j)) /\ Cardinality(U(i)) \in Nat /\ Cardinality(U(j)) \in Nat  BY <1>2
  <2>4. /\ Cardinality(U(i)) <= Cardinality(U(j))
        /\ Cardinality(U(j)) = Cardinality(U(i)) => U(j) = U(i)
    BY <2>1, <2>3, FS_Subset
  <2> QED  BY <2>2, <2>3, <2>4
<1>4. \A i \in S : rank[i] = Cardinality(U(i))  OBVIOUS
<1>5. rank \in [S -> 0 .. N - 1]
  <2>1. \A i \in S : Cardinality(U(i)) \in 0 .. N - 1  BY <1>1, <1>2
  <2> QED  BY <2>1
<1> HIDE DEF rank, U, N
<1>6. \A i, j \in S : rank[i] = rank[j] => i = j
  <2> SUFFICES ASSUME NEW i \in S, NEW j \in S, rank[i] = rank[j], i # j PROVE FALSE
    OBVIOUS
  <2>1. <<i, j>> \in less \/ <<j, i>> \in less  BY DEF TotalOrder
  <2>2. Cardinality(U(i)) \in Nat /\ Cardinality(U(j)) \in Nat
        /\ Cardinality(U(i)) = Cardinality(U(j))
    BY <1>2, <1>4
  <2> QED  BY <2>1, <2>2, <1>3
<1>7. rank \in Injection(S, 0 .. N - 1)
  BY <1>5, <1>6 DEF Injection, IsInjective
<1>8. IsFiniteSet(0 .. N - 1) /\ Cardinality(0 .. N - 1) = N
  <2>1. 0 \in Int /\ N - 1 \in Int  BY <1>1
  <2>2. /\ IsFiniteSet(0 .. N - 1)
        /\ Cardinality(0 .. N - 1) = IF 0 > N - 1 THEN 0 ELSE (N - 1) - 0 + 1
    BY ONLY <2>1, FS_Interval
  <2> QED  BY <1>1, <2>2
<1>9. rank \in Surjection(S, 0 .. N - 1)
  <2>1. Cardinality(S) = Cardinality(0 .. N - 1)  BY <1>8 DEF N
  <2> QED  BY ONLY <1>7, <1>8, <2>1, FS_Injection
<1>10. ASSUME NEW n \in 1 .. N PROVE At(n) \in S /\ rank[At(n)] = n - 1
  <2>1. n - 1 \in 0 .. N - 1  BY <1>1
  <2>2. PICK i \in S : rank[i] = n - 1  BY <1>9, <2>1 DEF Surjection
  <2>3. Cardinality(Under(i, less, S)) = n - 1  BY <2>2, <1>4 DEF U
  <2>4. At(n) \in S /\ Cardinality(Under(At(n), less, S)) = n - 1
    BY <2>3 DEF PlaceAt
  <2> QED  BY <2>4, <1>4 DEF U
<1> HIDE DEF At
<1>11. \A i \in S : \E n \in 1 .. N : At(n) = i
  <2> TAKE i \in S
  <2>1. rank[i] \in 0 .. N - 1  BY <1>5
  <2>2. rank[i] + 1 \in 1 .. N /\ (rank[i] + 1) - 1 = rank[i]  BY <1>1, <2>1
  <2>3. At(rank[i] + 1) \in S /\ rank[At(rank[i] + 1)] = rank[i]  BY <1>10, <2>2
  <2>4. At(rank[i] + 1) = i  BY <2>3, <1>6
  <2> QED  BY <2>2, <2>4
<1>12. \A n, m \in 1 .. N : n < m => <<At(n), At(m)>> \in less
  <2> SUFFICES ASSUME NEW n \in 1 .. N, NEW m \in 1 .. N, n < m,
                      <<At(n), At(m)>> \notin less
               PROVE  FALSE
    OBVIOUS
  <2>1. At(n) \in S /\ At(m) \in S /\ rank[At(n)] = n - 1 /\ rank[At(m)] = m - 1  BY <1>10
  <2>2. n - 1 < m - 1 /\ n - 1 \in Nat /\ m - 1 \in Nat  BY <1>1
  <2>3. At(n) # At(m)  BY ONLY <2>1, <2>2
  <2>4. <<At(m), At(n)>> \in less  BY <2>1, <2>3 DEF TotalOrder
  <2>5. m - 1 < n - 1  BY <1>3, <1>4, <2>1, <2>4
  <2> QED  BY ONLY <2>2, <2>5
<1> QED  BY <1>1, <1>10, <1>11, <1>12 DEF At, N

\* The first place of what is at p.
LEMMA FirstPlaceOf ==
    ASSUME NEW R, NEW s \in Seq(R), NEW p \in DOMAIN s
    PROVE  \E q \in FirstPlaces(s) : s[q].thing = s[p].thing
<1> DEFINE same == {q \in DOMAIN s : s[q].thing = s[p].thing}
<1>1. DOMAIN s = 1 .. Len(s) /\ Len(s) \in Nat  BY LenProperties
<1>2. same # {} /\ same \subseteq Nat  BY <1>1
<1>3. PICK q \in same : \A u \in same : ~(<<u, q>> \in OpToRel(<, Nat))
  BY <1>2, NatLessThanWellFounded, WFMin
<1>4. \A u \in same : ~(u < q)  BY <1>2, <1>3 DEF OpToRel
<1>5. q \in DOMAIN s /\ s[q].thing = s[p].thing  BY <1>3
<1>6. ASSUME NEW u \in 1 .. q - 1, s[u].thing = s[q].thing PROVE FALSE
  <2>1. q \in Nat /\ q <= Len(s)  BY <1>1, <1>5
  <2>2. u \in DOMAIN s /\ u < q  BY <1>1, <2>1
  <2>3. u \in same  BY <2>2, <1>5, <1>6
  <2> QED  BY <2>2, <2>3, <1>4
<1> QED  BY <1>5, <1>6 DEF FirstPlaces

\* Sorting keeps one of each thing, and what is cut off scores no more than what is kept.
LEMMA RankedIsBest ==
    ASSUME NEW R, \A r \in R : r.score \in Nat, NEW s \in Seq(R), Fetch \in Nat,
           \A p, q \in DOMAIN s : s[p].thing = s[q].thing => s[p] = s[q]
    PROVE  /\ DOMAIN Ranked(s) = 1 .. Len(Ranked(s)) /\ Len(Ranked(s)) \in Nat
           /\ \A i, j \in DOMAIN Ranked(s) : Ranked(s)[i].thing = Ranked(s)[j].thing => i = j
           /\ \A p \in DOMAIN s :
                \/ \E j \in DOMAIN Ranked(s) : Ranked(s)[j] = s[p]
                \/ Len(Ranked(s)) = Fetch
                   /\ \A j \in DOMAIN Ranked(s) : Ranked(s)[j].score >= s[p].score
<1> DEFINE S == FirstPlaces(s)
           N == Cardinality(S)
           less == {p \in S \X S : Better(s, p[1], p[2])}
           At(n) == PlaceAt(n, less, S)
           all == Arranged(s, S, less)
           r == Ranked(s)
           K == IF N < Fetch THEN N ELSE Fetch
<1>1. DOMAIN s = 1 .. Len(s) /\ Len(s) \in Nat  BY LenProperties
<1>2. \A p \in DOMAIN s : s[p] \in R /\ s[p].score \in Nat /\ p \in Nat  BY <1>1, ElementOfSeq
<1>3. S \subseteq 1 .. Len(s)  BY <1>1 DEF FirstPlaces
<1>4. IsFiniteSet(S)
  <2>1. IsFiniteSet(1 .. Len(s))  BY <1>1, FS_Interval
  <2> QED  BY <1>3, <2>1, FS_Subset
<1>5. \A i, j \in S : <<i, j>> \in less <=> Better(s, i, j)  OBVIOUS
<1>6. \A i \in S : s[i].score \in Nat /\ i \in Nat  BY <1>1, <1>2, <1>3
<1> HIDE DEF less
<1>7. TotalOrder(less, S)
  <2>1. \A i \in S : ~ Better(s, i, i)  BY <1>6 DEF Better
  <2>2. \A i, j \in S : i # j => Better(s, i, j) \/ Better(s, j, i)  BY <1>6 DEF Better
  <2>3. \A i, j, k \in S : Better(s, i, j) /\ Better(s, j, k) => Better(s, i, k)  BY <1>6 DEF Better
  <2> HIDE DEF S
  <2> QED  BY <1>5, <2>1, <2>2, <2>3 DEF TotalOrder
<1>8. /\ N \in Nat
      /\ \A n \in 1 .. N : At(n) \in S
      /\ \A i \in S : \E n \in 1 .. N : At(n) = i
      /\ \A n, m \in 1 .. N : n < m => <<At(n), At(m)>> \in less
  BY <1>4, <1>7, PlacesInARow
<1>9. all = [n \in 1 .. N |-> s[At(n)]]
  BY DEF Arranged, PlaceAt, Under
<1> HIDE DEF At, S, N
<1>10. \A n \in 1 .. N : s[At(n)] \in R
  BY <1>1, <1>2, <1>3, <1>8
<1>11. all \in Seq(R) /\ Len(all) = N /\ \A n \in 1 .. N : all[n] = s[At(n)]
  <2>1. \A n \in 1 .. N : all[n] = s[At(n)]  BY ONLY <1>9
  <2>2. all \in [1 .. N -> R]  BY ONLY <1>9, <1>10
  <2> HIDE DEF all
  <2>3. all \in Seq(R) /\ Len(all) = N  BY ONLY <2>2, <1>8
  <2> QED  BY <2>1, <2>3
<1>12. r = SubSeq(all, 1, K)
  <2>1. r = First(all, Fetch)  BY DEF Ranked, S, all, less
  <2> QED  BY <1>11, <2>1 DEF First
<1> HIDE DEF all, r
<1>13. K \in Nat /\ K <= N /\ K <= Fetch  BY <1>8
<1>14. r \in Seq(R) /\ Len(r) = K /\ DOMAIN r = 1 .. K /\ \A n \in 1 .. K : r[n] = s[At(n)]
  <2>1. \A i \in 1 .. K : all[i] \in R  BY <1>8, <1>10, <1>11, <1>13
  <2>2. 1 \in Int /\ K \in Int  BY <1>13
  <2>3. /\ r \in Seq(R)
        /\ Len(r) = IF 1 <= K THEN K - 1 + 1 ELSE 0
        /\ \A i \in 1 .. K - 1 + 1 : r[i] = all[1 + i - 1]
    BY ONLY <2>1, <2>2, <1>12, SubSeqProperties
  <2>4. Len(r) = K  BY ONLY <1>13, <2>3
  <2>5. \A n \in 1 .. K : r[n] = all[n]
    <3> TAKE n \in 1 .. K
    <3>1. n \in 1 .. K - 1 + 1 /\ 1 + n - 1 = n  BY ONLY <1>13, n \in 1 .. K
    <3> QED  BY <3>1, <2>3
  <2>6. DOMAIN r = 1 .. K  BY <2>3, <2>4, LenProperties
  <2> QED  BY <2>3, <2>4, <2>5, <2>6, <1>8, <1>11, <1>13
<1> HIDE DEF K
<1>15. \A n \in 1 .. K : n \in 1 .. N  BY <1>8, <1>13
<1>16. \A i, j \in S : s[i].thing = s[j].thing => i = j
  <2> SUFFICES ASSUME NEW i \in S, NEW j \in S, i < j, s[i].thing = s[j].thing PROVE FALSE
    BY <1>6
  <2>1. i \in 1 .. j - 1  BY <1>1, <1>3
  <2> QED  BY <2>1 DEF S, FirstPlaces
<1>17. \A i, j \in 1 .. N : At(i) = At(j) => i = j
  <2> SUFFICES ASSUME NEW i \in 1 .. N, NEW j \in 1 .. N, i < j, At(i) = At(j) PROVE FALSE
    BY <1>8
  <2>1. <<At(i), At(j)>> \in less /\ At(i) \in S  BY <1>8
  <2> QED  BY <2>1, <1>7 DEF TotalOrder
<1>18. ASSUME NEW i \in 1 .. K, NEW j \in 1 .. K, r[i].thing = r[j].thing PROVE i = j
  <2>1. i \in 1 .. N /\ j \in 1 .. N  BY <1>15
  <2>2. s[At(i)].thing = s[At(j)].thing  BY <1>14, <1>18
  <2>3. At(i) \in S /\ At(j) \in S  BY <2>1, <1>8
  <2>4. At(i) = At(j)  BY <2>2, <2>3, <1>16
  <2> QED  BY <2>1, <2>4, <1>17
<1>19. ASSUME NEW p \in DOMAIN s, \A j \in 1 .. K : r[j] # s[p]
       PROVE  K = Fetch /\ \A j \in 1 .. K : r[j].score >= s[p].score
  <2>1. PICK q \in S : s[q].thing = s[p].thing  BY FirstPlaceOf DEF S
  <2>2. s[q] = s[p]  BY <2>1, <1>1, <1>3
  <2>3. PICK n \in 1 .. N : At(n) = q  BY <1>8
  <2>4. ~ (n <= K)
    <3> SUFFICES ASSUME n <= K PROVE FALSE  OBVIOUS
    <3>1. n \in 1 .. K  BY <1>8, <1>13
    <3> QED  BY <3>1, <2>2, <2>3, <1>14, <1>19
  <2>5. n \in Nat /\ n <= N  BY <1>8
  <2>6. K = Fetch  BY ONLY <2>4, <2>5, <1>8, Fetch \in Nat DEF K
  <2>7. ASSUME NEW j \in 1 .. K PROVE r[j].score >= s[p].score
    <3>1. j < n /\ j \in 1 .. N  BY <2>4, <2>5, <1>13, <1>15
    <3>2. <<At(j), At(n)>> \in less /\ At(j) \in S  BY <3>1, <1>8
    <3>3. Better(s, At(j), q)  BY <3>2, <2>3, <1>5
    <3>4. s[At(j)].score \in Nat /\ s[q].score \in Nat  BY <3>2, <1>6
    <3>5. s[At(j)].score >= s[q].score  BY <3>3, <3>4 DEF Better
    <3> QED  BY <3>5, <2>2, <1>14
  <2> QED  BY <2>6, <2>7
<1> QED  BY <1>13, <1>14, <1>18, <1>19 DEF r

\* What a tier can give to a search of all of them.
Space(t) ==
    CASE t = "warm" -> Entities [] t = "cold" -> Documents [] t = "archive" -> Notes
      [] OTHER -> {}
InAll(t, thing) ==
    [tier |-> t, thing |-> thing, fields |-> IF t = "cold" THEN {"type"} ELSE {},
     score |-> CASE t = "cold" -> 7 [] t = "archive" -> 6 [] OTHER -> 0]
Gives(t) == {InAll(t, thing) : thing \in Space(t)}

SearchInv ==
    /\ docs \subseteq Documents
    /\ DOMAIN answers = Tiers
    /\ at = "idle" => \A t \in Tiers : answers[t] = <<>>
    /\ kind = "all" /\ at # "idle" =>
          at \in {"ask", "merge", "done"} /\ \A t \in Tiers : answers[t] \in Seq(Gives(t))
    /\ kind = "all" /\ at = "done" => results = Ranked(AllAnswers)

\* A thing is of one tier and has one score there.
LEMMA OneResultOfAThing ==
    ASSUME NEW t \in {"warm", "cold", "archive"}, NEW u \in {"warm", "cold", "archive"},
           NEW x \in Gives(t), NEW y \in Gives(u), x.thing = y.thing
    PROVE  x = y
<1>1. PICK a \in Space(t) : x = InAll(t, a)  BY DEF Gives
<1>2. PICK b \in Space(u) : y = InAll(u, b)  BY DEF Gives
<1>3. a = b  BY <1>1, <1>2 DEF InAll
<1>4. t = u  BY <1>3, SearchAssumption DEF Space
<1> QED  BY <1>1, <1>2, <1>3, <1>4

LEMMA FoundIsGiven ==
    ASSUME docs \subseteq Documents, at = "ask", kind = "all", Fetch \in Nat,
           NEW t \in {"warm", "cold", "archive"}, NEW s \in Found(t, Fetch) \cup {<<>>}
    PROVE  s \in Seq(Gives(t))
<1> DEFINE T == Things(t)
<1>1. CASE s = <<>>  BY <1>1
<1>2. CASE s \in Found(t, Fetch)
  <2>1. \A n : \A q \in Lists(T, n) : q \in Seq(T)  BY DEF Lists
  <2>2. ASSUME NEW q \in Seq(T) PROVE Twice(q) \in Seq(T)
    <3>1. CASE q = <<>>  BY <3>1 DEF Twice
    <3>2. CASE q # <<>>
      <4>1. Head(q) \in T  BY <3>2, HeadTailProperties
      <4>2. <<Head(q)>> \in Seq(T)  BY <4>1
      <4>3. <<Head(q)>> \o q \in Seq(T)  BY <4>2, ConcatProperties
      <4> QED  BY <3>2, <4>3 DEF Twice
    <3> QED  BY <3>1, <3>2
  <2>3. PICK q \in Seq(T) : s = [i \in DOMAIN q |-> Result(t, q[i])]
    <3> HIDE DEF T
    <3>1. PICK q \in Lists(T, Fetch)
                   \cup IF t = "warm" THEN {Twice(l) : l \in Lists(T, Fetch - 1)} ELSE {} :
             s = [i \in DOMAIN q |-> Result(t, q[i])]
      BY <1>2 DEF Found, T
    <3>2. q \in Seq(T)  BY <3>1, <2>1, <2>2
    <3> QED  BY <3>1, <3>2
  <2>4. T \subseteq Space(t)  BY DEF Things, Space
  <2>5. ASSUME NEW a \in T PROVE Result(t, a) \in Gives(t)
    <3>1. Result(t, a) = InAll(t, a)  BY DEF Result, InAll
    <3> QED  BY <3>1, <2>4 DEF Gives
  <2> HIDE DEF T
  <2>6. DOMAIN q = 1 .. Len(q) /\ Len(q) \in Nat /\ \A i \in 1 .. Len(q) : q[i] \in T
    BY LenProperties, ElementOfSeq
  <2>7. s \in [1 .. Len(q) -> Gives(t)]  BY <2>3, <2>5, <2>6
  <2> QED  BY ONLY <2>6, <2>7
<1> QED  BY <1>1, <1>2

LEMMA SearchStarts == SearchInit => SearchInv
BY DEF SearchInit, SearchInv

LEMMA SearchGoesOn == SearchInv /\ [SearchNext]_searchVars => SearchInv'
<1> SUFFICES ASSUME SearchInv, [SearchNext]_searchVars PROVE SearchInv'  OBVIOUS
<1> USE DEF SearchInv
<1>1. CASE UNCHANGED searchVars
  BY <1>1 DEF searchVars, Ranked, AllAnswers, Fetch
<1>2. ASSUME NEW d \in Documents, Store(d) PROVE SearchInv'
  BY <1>2 DEF Store, Ranked, AllAnswers, Fetch
<1>3. ASSUME NEW d \in Documents, Delete(d) PROVE SearchInv'
  BY <1>3 DEF Delete, Ranked, AllAnswers, Fetch
<1>4. ASSUME NEW k \in Kinds, NEW f \in Filters, Search(k, f) PROVE SearchInv'
  <2>1. at = "idle" /\ at' = "ask" /\ UNCHANGED <<docs, answers>>  BY <1>4 DEF Search
  <2>2. \A t : <<>> \in Seq(Gives(t))  OBVIOUS
  <2>3. \A t \in Tiers : answers[t] \in Seq(Gives(t))  BY <2>1, <2>2
  <2> QED  BY <2>1, <2>3
<1>5. ASSUME NEW t \in Tiers, AskNext(t) PROVE SearchInv'
  <2>1. at = "ask" /\ at' \in {"ask", "filter"} /\ kind # "all" /\ UNCHANGED <<docs, kind>>
    BY <1>5 DEF AskNext, Parallel
  <2>2. DOMAIN answers' = Tiers  BY <1>5 DEF AskNext
  <2> QED  BY <2>1, <2>2
<1>6. ASSUME NEW t \in Tiers, Answer(t) PROVE SearchInv'
  <2>1. at = "ask" /\ at' \in {"ask", "merge"} /\ UNCHANGED <<docs, kind>>
    BY <1>6 DEF Answer
  <2>2. PICK s \in Found(t, Fetch) \cup {<<>>} : answers' = [answers EXCEPT ![t] = s]
    BY <1>6 DEF Answer
  <2>3. CASE kind = "all"
    <3>1. t \in {"warm", "cold", "archive"}
      BY <1>6, <2>3 DEF Answer, NotAsked, Asks, ToSet
    <3>2. Fetch \in Nat  BY <2>3, SearchAssumption DEF Fetch
    <3>3. s \in Seq(Gives(t))  BY <2>1, <2>3, <3>1, <3>2, FoundIsGiven
    <3>4. \A u \in Tiers : answers'[u] \in Seq(Gives(u))  BY <2>1, <2>2, <2>3, <3>3
    <3> QED  BY <2>1, <2>2, <3>4
  <2>4. CASE kind # "all"  BY <2>1, <2>2, <2>4
  <2> QED  BY <2>3, <2>4
<1>7. CASE Merge
  BY <1>7 DEF Merge, Ranked, AllAnswers, Fetch
<1>8. CASE Fallback \/ AskSqlite \/ FilterResults \/ Answered
  BY <1>8 DEF Fallback, AskSqlite, FilterResults, Answered
<1> QED  BY <1>1, <1>2, <1>3, <1>4, <1>5, <1>6, <1>7, <1>8 DEF SearchNext

LEMMA BestOfAllAnswers == SearchInv => BestAreGiven
<1> SUFFICES ASSUME SearchInv, at = "done", kind = "all"
             PROVE  /\ \A i, j \in DOMAIN results : results[i].thing = results[j].thing => i = j
                    /\ \A t \in Tiers : \A i \in DOMAIN answers[t] :
                         \/ InResults(answers[t][i])
                         \/ Len(results) = Limit
                            /\ \A j \in DOMAIN results : results[j].score >= answers[t][i].score
  BY DEF BestAreGiven
<1> DEFINE W == answers["warm"]
           C == answers["cold"]
           A == answers["archive"]
           R == Gives("warm") \cup Gives("cold") \cup Gives("archive")
           all == W \o C \o A
<1>1. Fetch = Limit /\ Fetch \in Nat  BY SearchAssumption DEF Fetch
<1>2. results = Ranked(all)  BY DEF SearchInv, AllAnswers
<1>3. /\ W \in Seq(Gives("warm")) /\ C \in Seq(Gives("cold"))
      /\ A \in Seq(Gives("archive")) /\ answers["code"] \in Seq(Gives("code"))
  BY DEF SearchInv, Tiers
<1>4. W \in Seq(R) /\ C \in Seq(R) /\ A \in Seq(R)  BY <1>3, SeqMonotonic
<1> HIDE DEF W, C, A, R
<1>5. W \o C \in Seq(R) /\ Len(W \o C) = Len(W) + Len(C)
      /\ \A i \in 1 .. Len(W) + Len(C) :
           (W \o C)[i] = IF i <= Len(W) THEN W[i] ELSE C[i - Len(W)]
  BY <1>4, ConcatProperties
<1>6. all \in Seq(R) /\ Len(all) = Len(W) + Len(C) + Len(A)
      /\ \A i \in 1 .. Len(W) + Len(C) + Len(A) :
           all[i] = IF i <= Len(W) + Len(C) THEN (W \o C)[i] ELSE A[i - (Len(W) + Len(C))]
  <2>1. all = (W \o C) \o A  OBVIOUS
  <2> QED  BY <1>4, <1>5, <2>1, ConcatProperties
<1> HIDE DEF all
<1>7. /\ DOMAIN W = 1 .. Len(W) /\ DOMAIN C = 1 .. Len(C) /\ DOMAIN A = 1 .. Len(A)
      /\ DOMAIN all = 1 .. Len(W) + Len(C) + Len(A)
      /\ Len(W) \in Nat /\ Len(C) \in Nat /\ Len(A) \in Nat
  BY <1>4, <1>6, LenProperties
<1>8. \A r \in R : r.score \in Nat  BY DEF R, Gives, InAll
<1>9. \A x, y \in R : x.thing = y.thing => x = y
  BY OneResultOfAThing DEF R
<1>10. \A p \in DOMAIN all : all[p] \in R  BY <1>6, ElementOfSeq, LenProperties
<1>11. \A p, q \in DOMAIN all : all[p].thing = all[q].thing => all[p] = all[q]
  BY <1>9, <1>10
<1>12. ASSUME NEW t \in Tiers, NEW i \in DOMAIN answers[t]
       PROVE  \E p \in DOMAIN all : all[p] = answers[t][i]
  <2>1. CASE t = "warm"
    <3>1. i \in 1 .. Len(W) /\ answers[t][i] = W[i]  BY <1>7, <2>1 DEF W
    <3>2. i \in 1 .. Len(W) + Len(C) /\ i \in 1 .. Len(W) + Len(C) + Len(A)
          /\ i <= Len(W) /\ i <= Len(W) + Len(C)
      BY ONLY <1>7, <3>1
    <3>3. all[i] = W[i]  BY <3>2, <1>5, <1>6
    <3> QED  BY <3>1, <3>2, <3>3, <1>7
  <2>2. CASE t = "cold"
    <3> DEFINE p == Len(W) + i
    <3>1. i \in 1 .. Len(C) /\ answers[t][i] = C[i]  BY <1>7, <2>2 DEF C
    <3>2. p \in 1 .. Len(W) + Len(C) /\ p \in 1 .. Len(W) + Len(C) + Len(A)
          /\ ~ (p <= Len(W)) /\ p <= Len(W) + Len(C) /\ p - Len(W) = i
      BY ONLY <1>7, <3>1
    <3>3. all[p] = C[i]  BY <3>2, <1>5, <1>6
    <3> QED  BY <3>1, <3>2, <3>3, <1>7
  <2>3. CASE t = "archive"
    <3> DEFINE p == Len(W) + Len(C) + i
    <3>1. i \in 1 .. Len(A) /\ answers[t][i] = A[i]  BY <1>7, <2>3 DEF A
    <3>2. p \in 1 .. Len(W) + Len(C) + Len(A)
          /\ ~ (p <= Len(W) + Len(C)) /\ p - (Len(W) + Len(C)) = i
      BY ONLY <1>7, <3>1
    <3>3. all[p] = A[i]  BY <3>2, <1>6
    <3> QED  BY <3>1, <3>2, <3>3, <1>7
  <2>4. CASE t = "code"
    <3>1. Gives("code") = {}  BY DEF Gives, Space
    <3>2. answers[t][i] \in Gives("code")  BY <1>3, <2>4, ElementOfSeq, LenProperties
    <3> QED  BY <3>1, <3>2
  <2> QED  BY <2>1, <2>2, <2>3, <2>4 DEF Tiers
<1>13. /\ \A i, j \in DOMAIN results : results[i].thing = results[j].thing => i = j
       /\ \A p \in DOMAIN all :
            \/ \E j \in DOMAIN results : results[j] = all[p]
            \/ Len(results) = Fetch
               /\ \A j \in DOMAIN results : results[j].score >= all[p].score
  BY ONLY <1>1, <1>2, <1>6, <1>8, <1>11, RankedIsBest
<1>14. ASSUME NEW t \in Tiers, NEW i \in DOMAIN answers[t]
       PROVE  \/ InResults(answers[t][i])
              \/ Len(results) = Limit
                 /\ \A j \in DOMAIN results : results[j].score >= answers[t][i].score
  <2>1. PICK p \in DOMAIN all : all[p] = answers[t][i]  BY <1>12
  <2> QED  BY <2>1, <1>1, <1>13 DEF InResults
<1> QED  BY <1>13, <1>14

\* search_all_tiers_parallel gives the best: whatever the tiers answer, in whichever order
\* and however many of them fail, no thing is given twice, and what was answered and is not
\* given scores no more than anything that is.
THEOREM TheBestIsGiven == SearchSpec => []BestAreGiven
BY SearchStarts, SearchGoesOn, BestOfAllAnswers, PTL DEF SearchSpec
=============================================================================
