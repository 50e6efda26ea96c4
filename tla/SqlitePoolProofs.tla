-------------------------- MODULE SqlitePoolProofs --------------------------
(***************************************************************************)
(* Proof that a refused insert is the only way to a connection that is     *)
(* left in a transaction, and that one process which stores documents by   *)
(* upsert never takes it, for any pool, threads and documents; and that    *)
(* each connection is in one place.                                        *)
(***************************************************************************)
EXTENDS SqlitePool, FiniteSetTheorems, TLAPS

(* What makes it inductive.  Before the first refusal a connection at rest *)
(* is in no transaction, so nobody is locked out and every read sees the   *)
(* current table.  The writer alone changes rows, unless another process   *)
(* does, so the row its lookup missed is still missing when the insert of  *)
(* the same upsert runs.                                                   *)

NoOpenTransaction == \A c \in Conns : tx[c].state \in {"closed", "none"}

LookupStillHolds ==
    calls[Writer].op = "insert" => Current[calls[Writer].doc] = 0

ReadersOnlyGet == \A t \in Readers : calls[t].op \in {"idle", "get"}

Ops == {"get", "lookup", "insert", "update", "delete"}
CallType == [op : Ops \cup {"idle"}, doc : Docs \cup {NoDoc}, conn : Conns \cup {NoConn}]

CallsTyped ==
    /\ calls \in [Threads -> CallType]
    /\ DOMAIN tx = Conns
    /\ pool \in Seq(Conns)
    /\ DOMAIN outcome = Threads

UntilLeaked == ~leaked => NoOpenTransaction

UntilStrayed ==
    ~strays => /\ ~leaked
               /\ LookupStillHolds
               /\ \A t \in Threads : outcome[t] # "refused"

PoolInv ==
    CallsTyped /\ ReadersOnlyGet /\ UntilLeaked /\ UntilStrayed /\ OnlyRefusalsLeak

----------------------------------------------------------------------------

\* A thread takes a connection from the pool or opens one, and in either case
\* opens no transaction.
LEMMA TakesNothingOpen ==
    ASSUME CallsTyped,
           NEW t \in Threads, NEW op \in Ops, NEW d \in Docs \cup {NoDoc},
           Takes(t, op, d)
    PROVE  /\ DOMAIN tx' = Conns
           /\ NoOpenTransaction => NoOpenTransaction'
           /\ pool' \in Seq(Conns)
           /\ \E c \in Conns : calls' = [calls EXCEPT ![t] = Call(op, d, c)]
<1>1. CASE pool # <<>> /\ pool' = Tail(pool) /\ UNCHANGED tx
              /\ calls' = [calls EXCEPT ![t] = Call(op, d, Head(pool))]
  <2>1. Head(pool) \in Conns /\ Tail(pool) \in Seq(Conns)
    BY <1>1 DEF CallsTyped
  <2> QED
    BY <1>1, <2>1 DEF CallsTyped, NoOpenTransaction
<1>2. CASE /\ UNCHANGED pool
           /\ \E c \in Conns : /\ tx' = [tx EXCEPT ![c] = Tx("none", 0)]
                              /\ calls' = [calls EXCEPT ![t] = Call(op, d, c)]
  <2>1. PICK c \in Conns : /\ tx' = [tx EXCEPT ![c] = Tx("none", 0)]
                          /\ calls' = [calls EXCEPT ![t] = Call(op, d, c)]
    BY <1>2
  <2>2. Tx("none", 0).state = "none"
    BY DEF Tx
  <2> QED
    BY <1>2, <2>1, <2>2 DEF CallsTyped, NoOpenTransaction
<1> QED
  BY <1>1, <1>2 DEF Takes

\* A connection that is given back with no transaction leaves none.
LEMMA ReturnsNothingOpen ==
    ASSUME CallsTyped,
           NEW t \in Threads, calls[t].conn \in Conns, NEW after, NEW result,
           Returns(t, after, result)
    PROVE  /\ DOMAIN tx' = Conns
           /\ NoOpenTransaction /\ after.state \in {"closed", "none"} => NoOpenTransaction'
           /\ pool' \in Seq(Conns)
           /\ outcome' = [outcome EXCEPT ![t] = result]
<1> DEFINE c == calls[t].conn
<1>1. Tx("closed", 0).state = "closed"
  BY DEF Tx
<1>2. CASE pool' = Append(pool, c) /\ tx' = [tx EXCEPT ![c] = after]
  BY <1>2 DEF CallsTyped, NoOpenTransaction, Returns
<1>3. CASE tx' = [tx EXCEPT ![c] = Tx("closed", 0)] /\ UNCHANGED pool
  BY <1>1, <1>3 DEF CallsTyped, NoOpenTransaction, Returns
<1> QED
  BY <1>2, <1>3 DEF Returns

\* With no transaction open nobody is locked out...
LEMMA NobodyLockedOut ==
    ASSUME NoOpenTransaction, NEW c \in Conns
    PROVE  ~LockedOut(c)
BY DEF NoOpenTransaction, LockedOut

\* ...and a read sees the current table and opens nothing.
LEMMA ReadsSeeCurrent ==
    ASSUME NoOpenTransaction, NEW c \in Conns
    PROVE  Seen(c) = Current /\ AfterReadOn(c).state \in {"closed", "none"}
BY DEF NoOpenTransaction, Seen, AfterReadOn

\* The end of a call, good or bad, keeps the invariant when a bad one happens
\* after a leak only.
LEMMA EndsWell ==
    ASSUME PoolInv,
           NEW t \in Threads, calls[t].conn \in Conns, NEW after, NEW result,
           ~leaked' => /\ ~leaked
                       /\ after.state \in {"closed", "none"}
                       /\ result \notin {"stale", "locked"},
           ~strays' => ~strays /\ ~leaked' /\ result # "refused",
           Returns(t, after, result), calls' = [calls EXCEPT ![t] = Idle],
           t = Writer \/ UNCHANGED log
    PROVE  PoolInv'
<1>1. /\ DOMAIN tx' = Conns
      /\ NoOpenTransaction /\ after.state \in {"closed", "none"} => NoOpenTransaction'
      /\ pool' \in Seq(Conns)
      /\ outcome' = [outcome EXCEPT ![t] = result]
  BY ReturnsNothingOpen DEF PoolInv
<1>2. Idle \in CallType /\ Idle.op = "idle"
  BY DEF Idle, Call, CallType
<1>3. CallsTyped'
  BY <1>1, <1>2 DEF PoolInv, CallsTyped
<1>4. ReadersOnlyGet'
  BY <1>2 DEF PoolInv, CallsTyped, ReadersOnlyGet, Threads
<1>5. UntilLeaked'
  BY <1>1 DEF PoolInv, UntilLeaked
<1>6. ~strays' => LookupStillHolds'
  <2>1. CASE t = Writer
    BY <2>1, <1>2 DEF PoolInv, CallsTyped, LookupStillHolds
  <2>2. CASE t # Writer /\ UNCHANGED log
    BY <2>2 DEF PoolInv, CallsTyped, UntilStrayed, LookupStillHolds, Current, Threads
  <2> QED
    BY <2>1, <2>2
<1>7. UntilStrayed'
  BY <1>1, <1>6 DEF PoolInv, CallsTyped, UntilStrayed
<1>8. OnlyRefusalsLeak'
  BY <1>1 DEF PoolInv, CallsTyped, OnlyRefusalsLeak
<1> QED
  BY <1>3, <1>4, <1>5, <1>7, <1>8 DEF PoolInv

\* Starting a call, or the second half of an upsert.
LEMMA TakesWell ==
    ASSUME PoolInv,
           NEW t \in Threads, NEW op \in Ops, NEW d \in Docs \cup {NoDoc},
           t = Writer \/ op = "get",
           ~strays' => ~strays /\ (t = Writer /\ op = "insert" => Current[d] = 0),
           Takes(t, op, d), UNCHANGED <<log, outcome, leaked>>
    PROVE  PoolInv'
<1>1. /\ DOMAIN tx' = Conns
      /\ NoOpenTransaction => NoOpenTransaction'
      /\ pool' \in Seq(Conns)
      /\ \E c \in Conns : calls' = [calls EXCEPT ![t] = Call(op, d, c)]
  BY TakesNothingOpen DEF PoolInv
<1>2. PICK c \in Conns : calls' = [calls EXCEPT ![t] = Call(op, d, c)]
  BY <1>1
<1>3. Call(op, d, c) \in CallType /\ Call(op, d, c).op = op /\ Call(op, d, c).doc = d
  BY DEF Call, CallType
<1>4. CallsTyped'
  BY <1>1, <1>2, <1>3 DEF PoolInv, CallsTyped
<1>5. ReadersOnlyGet'
  BY <1>2, <1>3, PoolAssumption DEF PoolInv, CallsTyped, ReadersOnlyGet, Threads
<1>6. UntilLeaked'
  BY <1>1 DEF PoolInv, UntilLeaked
<1>7. ~strays' => LookupStillHolds'
  BY <1>2, <1>3 DEF PoolInv, CallsTyped, UntilStrayed, LookupStillHolds, Current
<1>8. UntilStrayed'
  BY <1>7 DEF PoolInv, UntilStrayed
<1>9. OnlyRefusalsLeak'
  BY DEF PoolInv, OnlyRefusalsLeak
<1> QED
  BY <1>4, <1>5, <1>6, <1>8, <1>9 DEF PoolInv

\* The first half of an upsert finds the row or not, and then lets go.
LEMMA LooksUpWell ==
    ASSUME PoolInv, NEW t \in Threads, RunLookup(t)
    PROVE  PoolInv'
<1> DEFINE d == calls[t].doc
           k == calls[t].conn
           op == IF Seen(k)[d] = 0 THEN "insert" ELSE "update"
<1>1. k \in Conns /\ d \in Docs \cup {NoDoc} /\ t = Writer
  BY DEF RunLookup, Holding, PoolInv, CallsTyped, CallType, ReadersOnlyGet, Threads
<1>2. NoOpenTransaction => Seen(k) = Current /\ AfterReadOn(k).state \in {"closed", "none"}
  BY <1>1, ReadsSeeCurrent
<1>3. /\ DOMAIN tx' = Conns
      /\ NoOpenTransaction => NoOpenTransaction'
      /\ pool' \in Seq(Conns)
      /\ outcome' = [outcome EXCEPT ![t] = outcome[t]]
  <2>1. Returns(t, AfterReadOn(k), outcome[t])
    BY DEF RunLookup
  <2> QED
    BY <1>1, <1>2, <2>1, ReturnsNothingOpen DEF PoolInv
<1>4. calls' = [calls EXCEPT ![t] = Call(op, d, NoConn)] /\ UNCHANGED <<log, strays, leaked>>
  BY DEF RunLookup
<1>5. /\ Call(op, d, NoConn) \in CallType
      /\ Call(op, d, NoConn).op = op
      /\ Call(op, d, NoConn).doc = d
  BY <1>1 DEF Call, CallType, Ops
<1>6. CallsTyped'
  BY <1>3, <1>4, <1>5 DEF PoolInv, CallsTyped
<1>7. ReadersOnlyGet'
  BY <1>1, <1>4, PoolAssumption DEF PoolInv, CallsTyped, ReadersOnlyGet, Threads
<1>8. UntilLeaked'
  BY <1>3, <1>4 DEF PoolInv, UntilLeaked
<1>9. ~strays' => LookupStillHolds'
  <2>1. SUFFICES ASSUME ~strays PROVE LookupStillHolds'
    BY <1>4
  <2>2. Seen(k) = Current
    BY <2>1, <1>2 DEF PoolInv, UntilStrayed, UntilLeaked
  <2>3. calls'[Writer].op = op /\ calls'[Writer].doc = d
    BY <1>1, <1>4, <1>5 DEF PoolInv, CallsTyped, Threads
  <2>4. Current' = Current
    BY <1>4 DEF Current
  <2> QED
    BY <2>2, <2>3, <2>4 DEF LookupStillHolds
<1>10. UntilStrayed'
  BY <1>3, <1>4, <1>9 DEF PoolInv, CallsTyped, UntilStrayed
<1>11. OnlyRefusalsLeak'
  BY <1>3, <1>4 DEF PoolInv, CallsTyped, OnlyRefusalsLeak
<1> QED
  BY <1>6, <1>7, <1>8, <1>10, <1>11 DEF PoolInv

\* Every step keeps the invariant.
LEMMA PoolInvStep ==
    ASSUME PoolInv, [Next]_vars
    PROVE  PoolInv'
<1> USE DEF Holding, Ops
<1>0. \A t \in Threads : /\ calls[t].conn # NoConn => calls[t].conn \in Conns
                         /\ calls[t].doc \in Docs \cup {NoDoc}
                         /\ calls[t].op \in {"insert", "update", "delete", "lookup"} => t = Writer
  BY DEF PoolInv, CallsTyped, CallType, ReadersOnlyGet, Threads
<1>1. CASE UNCHANGED vars
  BY <1>1 DEF vars, PoolInv, CallsTyped, NoOpenTransaction, LookupStillHolds, ReadersOnlyGet,
              UntilLeaked, UntilStrayed, OnlyRefusalsLeak, Current
<1>2. ASSUME NEW d \in Docs, Insert(d) PROVE PoolInv'
  BY <1>2, TakesWell DEF Insert, Begin, Threads
<1>3. ASSUME NEW d \in Docs, OtherWrites(d) PROVE PoolInv'
  BY <1>3 DEF OtherWrites, PoolInv, CallsTyped, NoOpenTransaction, ReadersOnlyGet,
              UntilLeaked, UntilStrayed, OnlyRefusalsLeak
<1>4. ASSUME NEW d \in Docs, Delete(d) PROVE PoolInv'
  BY <1>4, TakesWell DEF Delete, Begin, Threads
<1>5. ASSUME NEW d \in Docs, Upsert(d) PROVE PoolInv'
  BY <1>5, TakesWell DEF Upsert, Begin, Threads
<1>6. ASSUME NEW t \in Threads, NEW d \in Docs, Get(t, d) PROVE PoolInv'
  BY <1>6, TakesWell DEF Get, Begin
<1>7. ASSUME NEW t \in Threads, Continue(t) PROVE PoolInv'
  <2>1. t = Writer /\ calls[t].doc \in Docs \cup {NoDoc} /\ calls[t].op \in Ops
    BY <1>0, <1>7 DEF Continue
  <2>2. ~strays' => /\ ~strays
                    /\ t = Writer /\ calls[t].op = "insert" => Current[calls[t].doc] = 0
    BY <1>7, <2>1 DEF Continue, PoolInv, UntilStrayed, LookupStillHolds
  <2>3. Takes(t, calls[t].op, calls[t].doc) /\ UNCHANGED <<log, outcome, leaked>>
    BY <1>7 DEF Continue
  <2> QED
    BY <2>1, <2>2, <2>3, TakesWell
<1>8. ASSUME NEW t \in Threads, RunGet(t) PROVE PoolInv'
  <2> DEFINE k == calls[t].conn
             result == IF Seen(k)[calls[t].doc] = Current[calls[t].doc] THEN "read" ELSE "stale"
  <2>1. /\ k \in Conns
        /\ Returns(t, AfterReadOn(k), result)
        /\ calls' = [calls EXCEPT ![t] = Idle]
        /\ UNCHANGED <<log, strays, leaked>>
    BY <1>0, <1>8 DEF RunGet
  <2>2. ~leaked => AfterReadOn(k).state \in {"closed", "none"} /\ result = "read"
    BY <2>1, ReadsSeeCurrent DEF PoolInv, UntilLeaked
  <2>3. result # "refused" /\ (~strays => ~leaked)
    BY DEF PoolInv, UntilStrayed
  <2> HIDE DEF result
  <2> QED
    BY <2>1, <2>2, <2>3, EndsWell
<1>9. ASSUME NEW t \in Threads, RunLookup(t) PROVE PoolInv'
  BY <1>9, LooksUpWell
<1>10. ASSUME NEW t \in Threads, RunLockedOut(t) PROVE PoolInv'
  <2>1. /\ calls[t].conn \in Conns
        /\ t = Writer
        /\ Returns(t, AfterLockedOut(calls[t].conn), "locked")
        /\ calls' = [calls EXCEPT ![t] = Idle]
        /\ UNCHANGED <<log, strays, leaked>>
    BY <1>0, <1>10 DEF RunLockedOut
  <2>2. leaked /\ strays
    BY <1>10, <2>1, NobodyLockedOut DEF RunLockedOut, PoolInv, UntilLeaked, UntilStrayed
  <2> QED
    BY <2>1, <2>2, EndsWell
<1>11. ASSUME NEW t \in Threads, RunDuplicate(t) PROVE PoolInv'
  <2>1. /\ calls[t].conn \in Conns
        /\ t = Writer
        /\ Returns(t, Tx("write", 0), "refused")
        /\ calls' = [calls EXCEPT ![t] = Idle]
        /\ leaked'
        /\ UNCHANGED <<log, strays>>
    BY <1>0, <1>11 DEF RunDuplicate
  <2>2. strays
    BY <1>11, <2>1 DEF RunDuplicate, PoolInv, UntilStrayed, LookupStillHolds
  <2> QED
    BY <2>1, <2>2, EndsWell
<1>12. Tx("none", 0).state = "none"
  BY DEF Tx
<1>13. ~strays => ~leaked
  BY DEF PoolInv, UntilStrayed
<1>14. ASSUME NEW t \in Threads, RunInsert(t) PROVE PoolInv'
  <2>1. /\ calls[t].conn \in Conns
        /\ t = Writer
        /\ Returns(t, Tx("none", 0), "done")
        /\ calls' = [calls EXCEPT ![t] = Idle]
        /\ UNCHANGED <<strays, leaked>>
    BY <1>0, <1>14 DEF RunInsert
  <2> QED
    BY <1>12, <1>13, <2>1, EndsWell
<1>15. ASSUME NEW t \in Threads, RunUpdateOrDelete(t) PROVE PoolInv'
  <2>1. /\ calls[t].conn \in Conns
        /\ t = Writer
        /\ calls' = [calls EXCEPT ![t] = Idle]
        /\ UNCHANGED <<strays, leaked>>
    BY <1>0, <1>15 DEF RunUpdateOrDelete
  <2>2. PICK result \in {"missing", "done"} : Returns(t, Tx("none", 0), result)
    BY <1>15 DEF RunUpdateOrDelete
  <2> QED
    BY <1>12, <1>13, <2>1, <2>2, EndsWell
<1> QED
  BY <1>1, <1>2, <1>3, <1>4, <1>5, <1>6, <1>7, <1>8, <1>9, <1>10, <1>11, <1>14,
     <1>15 DEF Next

LEMMA PoolInvInit ==
    ASSUME Init
    PROVE  PoolInv
<1>1. Idle \in CallType /\ Idle.op = "idle"
  BY DEF Idle, Call, CallType
<1>2. DOMAIN tx = Conns /\ NoOpenTransaction
  BY DEF Init, Tx, NoOpenTransaction
<1>3. pool \in Seq(Conns)
  BY PoolAssumption DEF Init
<1> QED
  BY <1>1, <1>2, <1>3 DEF Init, PoolInv, CallsTyped, LookupStillHolds, ReadersOnlyGet,
                          UntilLeaked, UntilStrayed, OnlyRefusalsLeak, Threads

LEMMA PoolInvHolds == Spec => []PoolInv
<1>1. Init => PoolInv
  BY PoolInvInit
<1>2. PoolInv /\ [Next]_vars => PoolInv'
  BY PoolInvStep
<1> QED
  BY <1>1, <1>2, PTL DEF Spec

\* A process that inserts no id that is there and has the file to itself
\* reads what was last committed, is never refused a lock and loses no upsert,
\* for any number of connections, threads and documents.
THEOREM UpsertOnlyIsSafe == Spec => []UpsertsAreSafe
<1>1. PoolInv => UpsertsAreSafe
  BY DEF PoolInv, UntilStrayed, OnlyRefusalsLeak, UpsertsAreSafe
<1> QED
  BY <1>1, PoolInvHolds, PTL

\* Whatever other processes and races do, the pool is sound until the first
\* insert is refused: nothing else leaves a transaction behind.
THEOREM RefusalIsTheOnlyLeak == Spec => []OnlyRefusalsLeak
<1>1. PoolInv => OnlyRefusalsLeak
  BY DEF PoolInv
<1> QED
  BY <1>1, PoolInvHolds, PTL

----------------------------------------------------------------------------
(* Each connection is in one place.  The property counts the connections   *)
(* that are held; the invariant says the same of every two threads, so     *)
(* that it can be shown step by step.                                      *)

Inside(s, c) == \E i \in 1 .. Len(s) : s[i] = c
Distinct(s) == \A i, j \in 1 .. Len(s) : s[i] = s[j] => i = j
HeldBy(t, c) == calls[t].conn = c

OnePlace ==
    /\ Len(pool) <= PoolSize /\ Distinct(pool)
    /\ \A t, u \in Threads : calls[t].conn # NoConn /\ HeldBy(u, calls[t].conn) => t = u
    /\ \A t \in Threads : ~Inside(pool, calls[t].conn)
    /\ \A c \in Conns :
          tx[c].state # "closed" <=> Inside(pool, c) \/ \E t \in Threads : HeldBy(t, c)
    /\ \A t \in Threads : calls[t].op = "idle" => calls[t].conn = NoConn

\* The first of a sequence without repetitions is not in the rest of it.
LEMMA TailIsDistinct ==
    ASSUME NEW s \in Seq(Conns), s # <<>>, Distinct(s)
    PROVE  /\ Tail(s) \in Seq(Conns) /\ Len(Tail(s)) <= Len(s) /\ Distinct(Tail(s))
           /\ Head(s) \in Conns /\ Inside(s, Head(s)) /\ ~Inside(Tail(s), Head(s))
           /\ \A c : Inside(s, c) <=> Inside(Tail(s), c) \/ c = Head(s)
<1>1. /\ Tail(s) \in Seq(Conns) /\ Len(Tail(s)) = Len(s) - 1 /\ Len(s) \in Nat /\ Len(s) # 0
      /\ Head(s) = s[1] /\ s[1] \in Conns /\ 1 \in 1 .. Len(s)
      /\ \A i \in 1 .. Len(Tail(s)) : Tail(s)[i] = s[i + 1] /\ i + 1 \in 1 .. Len(s) /\ i + 1 # 1
  OBVIOUS
<1>2. Distinct(Tail(s))
  BY <1>1 DEF Distinct
<1>3. \A i \in 1 .. Len(s) : i # 1 => i - 1 \in 1 .. Len(Tail(s)) /\ Tail(s)[i - 1] = s[i]
  BY <1>1
<1>4. ~Inside(Tail(s), Head(s))
  <2>1. ASSUME NEW i \in 1 .. Len(Tail(s)), Tail(s)[i] = Head(s) PROVE FALSE
    <3>1. s[i + 1] = s[1] /\ i + 1 \in 1 .. Len(s) /\ i + 1 # 1
      BY <1>1, <2>1
    <3> QED
      BY <3>1, <1>1 DEF Distinct
  <2> QED
    BY <2>1 DEF Inside
<1>5. ASSUME NEW c PROVE Inside(s, c) <=> Inside(Tail(s), c) \/ c = Head(s)
  <2>1. ASSUME NEW i \in 1 .. Len(s), s[i] = c PROVE Inside(Tail(s), c) \/ c = Head(s)
    <3>1. CASE i = 1
      BY <1>1, <2>1, <3>1
    <3>2. CASE i # 1
      BY <1>3, <2>1, <3>2 DEF Inside
    <3> QED
      BY <3>1, <3>2
  <2>2. Inside(Tail(s), c) => Inside(s, c)
    BY <1>1 DEF Inside
  <2>3. c = Head(s) => Inside(s, c)
    BY <1>1 DEF Inside
  <2> QED
    BY <2>1, <2>2, <2>3 DEF Inside
<1> QED
  BY <1>1, <1>2, <1>4, <1>5

\* What is appended to a sequence that does not have it is in it once.
LEMMA AppendIsDistinct ==
    ASSUME NEW s \in Seq(Conns), NEW e \in Conns, Distinct(s), ~Inside(s, e)
    PROVE  /\ Append(s, e) \in Seq(Conns) /\ Len(Append(s, e)) = Len(s) + 1
           /\ Distinct(Append(s, e))
           /\ \A c : Inside(Append(s, e), c) <=> Inside(s, c) \/ c = e
<1>1. /\ Append(s, e) \in Seq(Conns) /\ Len(Append(s, e)) = Len(s) + 1 /\ Len(s) \in Nat
      /\ \A i \in 1 .. Len(s) : Append(s, e)[i] = s[i] /\ i \in 1 .. Len(Append(s, e))
      /\ Append(s, e)[Len(s) + 1] = e /\ Len(s) + 1 \in 1 .. Len(Append(s, e))
      /\ \A i \in 1 .. Len(Append(s, e)) : i \in 1 .. Len(s) \/ i = Len(s) + 1
  OBVIOUS
<1>2. Distinct(Append(s, e))
  BY <1>1 DEF Distinct, Inside
<1>3. ASSUME NEW c PROVE Inside(Append(s, e), c) <=> Inside(s, c) \/ c = e
  BY <1>1 DEF Inside
<1> QED
  BY <1>1, <1>2, <1>3

\* A thread that holds none takes one that nobody holds.
LEMMA TakesOnePlace ==
    ASSUME CallsTyped, OnePlace,
           NEW t \in Threads, calls[t].conn = NoConn, NEW op \in Ops, NEW d, Takes(t, op, d)
    PROVE  OnePlace'
<1> DEFINE Taken(c) == calls' = [calls EXCEPT ![t] = Call(op, d, c)]
<1>1. ASSUME NEW c \in Conns, Taken(c)
      PROVE  /\ calls'[t].conn = c /\ calls'[t].op # "idle" /\ c # NoConn
             /\ \A u \in Threads \ {t} : calls'[u] = calls[u]
  BY <1>1, PoolAssumption DEF Call, CallsTyped, Ops
<1>2. CASE pool # <<>> /\ pool' = Tail(pool) /\ UNCHANGED tx /\ Taken(Head(pool))
  <2>1. /\ Len(Tail(pool)) <= Len(pool) /\ Distinct(Tail(pool)) /\ Head(pool) \in Conns
        /\ Inside(pool, Head(pool)) /\ ~Inside(Tail(pool), Head(pool))
        /\ \A c : Inside(pool, c) <=> Inside(Tail(pool), c) \/ c = Head(pool)
        /\ Len(Tail(pool)) \in Nat /\ Len(pool) \in Nat
    BY <1>2, TailIsDistinct DEF CallsTyped, OnePlace
  <2>2. /\ calls'[t].conn = Head(pool) /\ calls'[t].op # "idle" /\ Head(pool) # NoConn
        /\ \A u \in Threads \ {t} : calls'[u] = calls[u]
    BY <1>1, <1>2, <2>1
  <2>3. Len(pool') <= PoolSize /\ Distinct(pool')
    BY <1>2, <2>1, PoolAssumption DEF OnePlace
  <2>4. \A u, v \in Threads : calls'[u].conn # NoConn /\ HeldBy(v, calls[u].conn)' => u = v
    BY <2>1, <2>2 DEF OnePlace, HeldBy
  <2>5. \A u \in Threads : ~Inside(pool', calls'[u].conn)
    BY <1>2, <2>1, <2>2 DEF OnePlace
  <2>6. ASSUME NEW c \in Conns
        PROVE  tx'[c].state # "closed" <=> Inside(pool', c) \/ \E u \in Threads : HeldBy(u, c)'
    BY <1>2, <2>1, <2>2, PoolAssumption DEF OnePlace, HeldBy
  <2>7. \A u \in Threads : calls'[u].op = "idle" => calls'[u].conn = NoConn
    BY <2>2 DEF OnePlace
  <2> QED
    BY <2>3, <2>4, <2>5, <2>6, <2>7 DEF OnePlace
<1>3. CASE /\ UNCHANGED pool
           /\ \E c \in Conns : /\ tx[c].state = "closed"
                              /\ tx' = [tx EXCEPT ![c] = Tx("none", 0)] /\ Taken(c)
  <2>1. PICK k \in Conns : /\ tx[k].state = "closed"
                          /\ tx' = [tx EXCEPT ![k] = Tx("none", 0)] /\ Taken(k)
    BY <1>3
  <2>2. /\ calls'[t].conn = k /\ calls'[t].op # "idle" /\ k # NoConn
        /\ \A u \in Threads \ {t} : calls'[u] = calls[u]
    BY <1>1, <2>1
  <2>3. tx'[k].state # "closed" /\ \A c \in Conns \ {k} : tx'[c] = tx[c]
    BY <2>1 DEF Tx, CallsTyped
  <2>4. ~Inside(pool, k) /\ \A u \in Threads : calls[u].conn # k
    BY <2>1 DEF OnePlace, HeldBy
  <2>5. \A u, v \in Threads : calls'[u].conn # NoConn /\ HeldBy(v, calls[u].conn)' => u = v
    BY <2>2, <2>4 DEF OnePlace, HeldBy
  <2>6. \A u \in Threads : ~Inside(pool', calls'[u].conn)
    BY <1>3, <2>2, <2>4 DEF OnePlace
  <2>7. ASSUME NEW c \in Conns
        PROVE  tx'[c].state # "closed" <=> Inside(pool', c) \/ \E u \in Threads : HeldBy(u, c)'
    BY <1>3, <2>2, <2>3, PoolAssumption DEF OnePlace, HeldBy
  <2>8. \A u \in Threads : calls'[u].op = "idle" => calls'[u].conn = NoConn
    BY <2>2 DEF OnePlace
  <2> QED
    BY <1>3, <2>5, <2>6, <2>7, <2>8 DEF OnePlace
<1> QED
  BY <1>2, <1>3 DEF Takes

\* What a thread gives back is in the pool, or closed, and in nobody's hands.
LEMMA ReturnsOnePlace ==
    ASSUME CallsTyped, OnePlace,
           NEW t \in Threads, calls[t].conn # NoConn, NEW after, NEW result, NEW call,
           after.state # "closed", call.conn = NoConn,
           Returns(t, after, result), calls' = [calls EXCEPT ![t] = call]
    PROVE  OnePlace'
<1> DEFINE k == calls[t].conn
<1>1. k \in Conns /\ k # NoConn /\ ~Inside(pool, k) /\ \A u \in Threads \ {t} : calls[u].conn # k
  BY DEF CallsTyped, CallType, OnePlace, HeldBy
<1>2. calls'[t].conn = NoConn /\ \A u \in Threads \ {t} : calls'[u] = calls[u]
  BY DEF CallsTyped
<1>3. \A u, v \in Threads : calls'[u].conn # NoConn /\ HeldBy(v, calls[u].conn)' => u = v
  BY <1>2 DEF OnePlace, HeldBy
<1>4. \A u \in Threads : calls'[u].op = "idle" => calls'[u].conn = NoConn
  BY <1>2 DEF OnePlace
<1>5. ~Inside(pool, NoConn)
  BY PoolAssumption DEF Inside, CallsTyped
<1>6. CASE Len(pool) < PoolSize /\ pool' = Append(pool, k) /\ tx' = [tx EXCEPT ![k] = after]
  <2>1. /\ Len(pool') = Len(pool) + 1 /\ Distinct(pool') /\ Len(pool) \in Nat
        /\ \A c : Inside(pool', c) <=> Inside(pool, c) \/ c = k
    BY <1>1, <1>6, AppendIsDistinct DEF CallsTyped, OnePlace
  <2>2. tx'[k].state # "closed" /\ \A c \in Conns \ {k} : tx'[c] = tx[c]
    BY <1>1, <1>6 DEF CallsTyped
  <2>3. Len(pool') <= PoolSize
    BY <1>6, <2>1, PoolAssumption
  <2>4. \A u \in Threads : ~Inside(pool', calls'[u].conn)
    BY <1>1, <1>2, <1>5, <2>1 DEF OnePlace
  <2>5. ASSUME NEW c \in Conns
        PROVE  tx'[c].state # "closed" <=> Inside(pool', c) \/ \E u \in Threads : HeldBy(u, c)'
    BY <1>1, <1>2, <2>1, <2>2, PoolAssumption DEF OnePlace, HeldBy
  <2> QED
    BY <1>3, <1>4, <2>1, <2>3, <2>4, <2>5 DEF OnePlace
<1>7. CASE UNCHANGED pool /\ tx' = [tx EXCEPT ![k] = Tx("closed", 0)]
  <2>1. tx'[k].state = "closed" /\ \A c \in Conns \ {k} : tx'[c] = tx[c]
    BY <1>1, <1>7 DEF CallsTyped, Tx
  <2>2. \A u \in Threads : ~Inside(pool', calls'[u].conn)
    BY <1>2, <1>5, <1>7 DEF OnePlace
  <2>3. ASSUME NEW c \in Conns
        PROVE  tx'[c].state # "closed" <=> Inside(pool', c) \/ \E u \in Threads : HeldBy(u, c)'
    BY <1>1, <1>2, <1>7, <2>1, PoolAssumption DEF OnePlace, HeldBy
  <2> QED
    BY <1>3, <1>4, <1>7, <2>2, <2>3 DEF OnePlace
<1> QED
  BY <1>6, <1>7 DEF Returns

\* Every step leaves each connection in one place.
LEMMA OnePlaceStep ==
    ASSUME PoolInv, OnePlace, [Next]_vars
    PROVE  OnePlace'
<1>1. CallsTyped /\ Idle.conn = NoConn
  BY DEF PoolInv, Idle, Call
<1>2. ASSUME NEW t \in Threads, NEW op \in Ops, NEW d, Begin(t, op, d) PROVE OnePlace'
  BY <1>1, <1>2, TakesOnePlace DEF Begin, OnePlace
<1>3. ASSUME NEW d \in Docs, Insert(d) \/ Delete(d) \/ Upsert(d) PROVE OnePlace'
  BY <1>2, <1>3 DEF Insert, Delete, Upsert, Ops, Threads
<1>4. ASSUME NEW d \in Docs, OtherWrites(d) PROVE OnePlace'
  BY <1>4 DEF OtherWrites, OnePlace, HeldBy
<1>5. ASSUME NEW t \in Threads, NEW d \in Docs, Get(t, d) PROVE OnePlace'
  BY <1>2, <1>5 DEF Get, Ops
<1>6. ASSUME NEW t \in Threads, Continue(t) PROVE OnePlace'
  BY <1>1, <1>6, TakesOnePlace DEF Continue, Ops
<1>7. ASSUME NEW t \in Threads, calls[t].conn # NoConn
      PROVE  /\ tx[calls[t].conn].state # "closed"
             /\ AfterReadOn(calls[t].conn).state # "closed"
             /\ AfterLockedOut(calls[t].conn).state # "closed"
  <2>1. calls[t].conn \in Conns
    BY <1>1, <1>7 DEF CallsTyped, CallType
  <2>2. tx[calls[t].conn].state # "closed"
    BY <2>1 DEF OnePlace, HeldBy
  <2> QED
    BY <2>2 DEF AfterReadOn, AfterLockedOut, Tx
<1>8. Tx("none", 0).state # "closed" /\ Tx("write", 0).state # "closed"
  BY DEF Tx
<1>9. ASSUME NEW t \in Threads, RunGet(t) PROVE OnePlace'
  <2> DEFINE k == calls[t].conn
             result == IF Seen(k)[calls[t].doc] = Current[calls[t].doc] THEN "read" ELSE "stale"
  <2>1. /\ k # NoConn /\ Returns(t, AfterReadOn(k), result)
        /\ calls' = [calls EXCEPT ![t] = Idle]
    BY <1>9 DEF RunGet, Holding
  <2> HIDE DEF result
  <2> QED
    BY <1>1, <1>7, <2>1, ReturnsOnePlace
<1>10. ASSUME NEW t \in Threads, RunLookup(t) PROVE OnePlace'
  <2> DEFINE k == calls[t].conn
             call == Call(IF Seen(k)[calls[t].doc] = 0 THEN "insert" ELSE "update",
                          calls[t].doc, NoConn)
  <2>1. /\ k # NoConn /\ Returns(t, AfterReadOn(k), outcome[t])
        /\ calls' = [calls EXCEPT ![t] = call]
    BY <1>10 DEF RunLookup, Holding
  <2>2. call.conn = NoConn
    BY DEF Call
  <2> HIDE DEF call
  <2> QED
    BY <1>1, <1>7, <2>1, <2>2, ReturnsOnePlace
<1>11. ASSUME NEW t \in Threads, RunLockedOut(t) PROVE OnePlace'
  <2>1. /\ calls[t].conn # NoConn /\ calls' = [calls EXCEPT ![t] = Idle]
        /\ Returns(t, AfterLockedOut(calls[t].conn), "locked")
    BY <1>11 DEF RunLockedOut, Holding
  <2> QED
    BY <1>1, <1>7, <2>1, ReturnsOnePlace
<1>12. ASSUME NEW t \in Threads, RunDuplicate(t) PROVE OnePlace'
  <2>1. /\ calls[t].conn # NoConn /\ calls' = [calls EXCEPT ![t] = Idle]
        /\ Returns(t, Tx("write", 0), "refused")
    BY <1>12 DEF RunDuplicate, Holding
  <2> QED
    BY <1>1, <1>8, <2>1, ReturnsOnePlace
<1>13. ASSUME NEW t \in Threads, RunInsert(t) \/ RunUpdateOrDelete(t) PROVE OnePlace'
  <2>1. /\ calls[t].conn # NoConn /\ calls' = [calls EXCEPT ![t] = Idle]
        /\ \E result \in {"done", "missing"} : Returns(t, Tx("none", 0), result)
    BY <1>13 DEF RunInsert, RunUpdateOrDelete, Holding
  <2> QED
    BY <1>1, <1>8, <2>1, ReturnsOnePlace
<1>14. CASE UNCHANGED vars
  BY <1>14 DEF vars, OnePlace, HeldBy
<1> QED
  BY <1>3, <1>4, <1>5, <1>6, <1>9, <1>10, <1>11, <1>12, <1>13, <1>14 DEF Next

LEMMA OnePlaceInit ==
    ASSUME Init
    PROVE  OnePlace
<1>1. Idle.conn = NoConn /\ pool \in Seq(Conns) /\ Len(pool) = PoolSize
      /\ DOMAIN pool = 1 .. Len(pool)
  BY PoolAssumption DEF Init, Idle, Call
<1>2. ~Inside(pool, NoConn) /\ Distinct(pool)
  BY <1>1, PoolAssumption DEF Init, Inside, Distinct, IsInjective
<1>3. ASSUME NEW c \in Conns PROVE tx[c].state # "closed" <=> Inside(pool, c)
  BY <1>1 DEF Init, Inside, ToSet, Tx
<1> QED
  BY <1>1, <1>2, <1>3, PoolAssumption DEF Init, OnePlace, HeldBy

\* As many connections are held as there are threads that hold one.
LEMMA HeldAreCounted ==
    ASSUME CallsTyped, OnePlace
    PROVE  Cardinality(Held) = InUse
<1> DEFINE Holders == {t \in Threads : calls[t].conn # NoConn}
           f == [t \in Holders |-> calls[t].conn]
<1>1. IsFiniteSet(Holders)
  <2>1. IsFiniteSet(Threads)
    BY PoolAssumption, FS_Singleton, FS_Union DEF Threads
  <2> QED
    BY <2>1, FS_Subset
<1>2. Held = {calls[t].conn : t \in Holders}
  BY DEF Held
<1>3. f \in [Holders -> Held] /\ \A c \in Held : \E t \in Holders : f[t] = c
  BY <1>2
<1>4. \A t, u \in Holders : f[t] = f[u] => t = u
  BY DEF OnePlace, HeldBy
<1>5. f \in Bijection(Holders, Held)
  BY <1>3, <1>4 DEF Bijection, Injection, Surjection, IsInjective
<1>6. Cardinality(Held) = Cardinality(Holders)
  BY <1>1, <1>5, FS_Bijection DEF ExistsBijection
<1> QED
  BY <1>6 DEF InUse

\* A connection is in the pool, or with one thread, or closed: for any number of
\* connections and threads none is shared and none is lost, although statements raise.
THEOREM ConnectionsAreOwned == Spec => []OneOwnerPerConnection
<1>1. Init => PoolInv /\ OnePlace
  BY PoolInvInit, OnePlaceInit
<1>2. (PoolInv /\ OnePlace) /\ [Next]_vars => (PoolInv /\ OnePlace)'
  BY PoolInvStep, OnePlaceStep
<1>3. PoolInv /\ OnePlace => OneOwnerPerConnection
  <2> SUFFICES ASSUME PoolInv, OnePlace PROVE OneOwnerPerConnection
    OBVIOUS
  <2>1. CallsTyped /\ DOMAIN pool = 1 .. Len(pool) /\ \A t \in Threads :
           calls[t].conn # NoConn => calls[t].conn \in Conns
    BY DEF PoolInv, CallsTyped, CallType
  <2>2. \A c : c \in ToSet(pool) <=> Inside(pool, c)
    BY <2>1 DEF ToSet, Inside
  <2>3. \A c : c \in Held <=> c # NoConn /\ \E t \in Threads : HeldBy(t, c)
    BY DEF Held, HeldBy
  <2>4. Held \cap ToSet(pool) = {}
    BY <2>2, <2>3 DEF OnePlace, HeldBy
  <2>5. \A c \in ToSet(pool) : c \in Conns
    BY <2>1 DEF ToSet, CallsTyped
  <2>6. Held \cup ToSet(pool) = {c \in Conns : tx[c].state # "closed"}
    BY <2>1, <2>2, <2>3, <2>5, PoolAssumption DEF OnePlace, HeldBy
  <2>7. IsInjective(pool)
    BY <2>1 DEF OnePlace, Distinct, IsInjective
  <2> QED
    BY <2>1, <2>4, <2>6, <2>7, HeldAreCounted DEF OnePlace, OneOwnerPerConnection
<1> QED
  BY <1>1, <1>2, <1>3, PTL DEF Spec
=============================================================================
