----------------------------- MODULE SqlitePool -----------------------------
(***************************************************************************)
(* The cold tier: sqlite_index.SQLiteConnectionPool and the operations of  *)
(* SQLiteIndex on it.  A call takes a connection, runs its statement,      *)
(* commits and gives the connection back; upsert does so twice.            *)
(*                                                                         *)
(* SQLite itself, and Python's sqlite3 module on top of it, are outside    *)
(* the program: a data-changing statement first opens a transaction, which *)
(* stays open until the code commits, also when the statement has failed.  *)
(* What an open transaction does to the connection is what matters here.   *)
(***************************************************************************)
EXTENDS Naturals, FiniteSets, Sequences, SequencesExt

CONSTANTS Docs,      \* document ids
          Conns,     \* connections; a closed one stands for any new one
          PoolSize,  \* SQLiteConnectionPool.pool_size
          Writer,    \* the thread of the event loop
          Readers,   \* worker threads of asyncio.to_thread, which only get
          MaxWrites, \* bound: commits that change a row
          NoConn,
          NoDoc

Threads == {Writer} \cup Readers

ASSUME PoolAssumption ==
    /\ PoolSize \in Nat \ {0}
    /\ MaxWrites \in Nat
    /\ Writer \notin Readers
    /\ IsFiniteSet(Conns) /\ IsFiniteSet(Readers)
    /\ Cardinality(Conns) >= PoolSize + Cardinality(Threads)
    /\ NoConn \notin Conns /\ NoDoc \notin Docs

VARIABLES log,     \* the committed states of the table, the last is current
          tx,      \* the transaction of each connection
          pool,    \* SQLiteConnectionPool._pool, first in first out
          calls,   \* what each thread is doing
          outcome, \* history: how the last call of each thread ended
          strays,  \* history: a known id was inserted, or another process wrote
          leaked   \* history: an insert was refused for its id

vars == <<log, tx, pool, calls, outcome, strays, leaked>>

\* A row is the number of the commit that wrote it; 0 is no row.
Table == [Docs -> 0 .. MaxWrites]
Current == Last(log)

\* "begun": BEGIN was executed and no page read; "snapshot": it reads the
\* table as it was at log[snap]; "write": it holds the write lock.
Tx(state, snap) == [state |-> state, snap |-> snap]
States == {"closed", "none", "begun", "snapshot", "write"}

\* "lookup" is the get of an upsert; between it and the insert or update that
\* follows, the call holds no connection.
Call(op, doc, conn) == [op |-> op, doc |-> doc, conn |-> conn]
Idle == Call("idle", NoDoc, NoConn)

Init ==
    /\ log = <<[d \in Docs |-> 0]>>
    /\ pool \in [1 .. PoolSize -> Conns]
    /\ IsInjective(pool)
    /\ tx = [c \in Conns |-> IF c \in ToSet(pool) THEN Tx("none", 0) ELSE Tx("closed", 0)]
    /\ calls = [t \in Threads |-> Idle]
    /\ outcome = [t \in Threads |-> "none"]
    /\ strays = FALSE
    /\ leaked = FALSE

----------------------------------------------------------------------------
(* get_connection                                                          *)

\* Mutant: a thread that finds the pool empty shares a connection in use.
TakesShared(t, op, doc) ==
    \/ /\ pool # <<>>
       /\ calls' = [calls EXCEPT ![t] = Call(op, doc, Head(pool))]
       /\ pool' = Tail(pool)
       /\ UNCHANGED tx
    \/ /\ pool = <<>>
       /\ \E c \in {calls[u].conn : u \in Threads} \ {NoConn} :
             calls' = [calls EXCEPT ![t] = Call(op, doc, c)]
       /\ UNCHANGED <<pool, tx>>

\* The first of the pool or, when it has been empty for 0.1 s, a new one.
Takes(t, op, doc) ==
    \/ /\ pool # <<>>
       /\ calls' = [calls EXCEPT ![t] = Call(op, doc, Head(pool))]
       /\ pool' = Tail(pool)
       /\ UNCHANGED tx
    \/ /\ pool = <<>>
       /\ \E c \in Conns :
             /\ tx[c].state = "closed"
             /\ tx' = [tx EXCEPT ![c] = Tx("none", 0)]
             /\ calls' = [calls EXCEPT ![t] = Call(op, doc, c)]
       /\ UNCHANGED pool

\* The finally of get_connection: back to the pool with the transaction it is
\* left in, or closed, which rolls back, when the pool is full.
Returns(t, after, result) ==
    LET c == calls[t].conn
    IN  /\ outcome' = [outcome EXCEPT ![t] = result]
        /\ IF Len(pool) < PoolSize
           THEN /\ pool' = Append(pool, c)
                /\ tx' = [tx EXCEPT ![c] = after]
           ELSE /\ tx' = [tx EXCEPT ![c] = Tx("closed", 0)]
                /\ UNCHANGED pool

----------------------------------------------------------------------------
(* What SQLite makes of a statement on connection c                        *)

\* The table a read on c sees.
Seen(c) == IF tx[c].state = "snapshot" THEN log[tx[c].snap] ELSE Current

AfterReadOn(c) ==
    IF tx[c].state = "begun" THEN Tx("snapshot", Len(log)) ELSE tx[c]

\* A write cannot get the lock while another connection keeps it past the
\* busy timeout, or when c reads a state that is no longer the current one.
\* A thread that is about to commit is waited for, so only a connection that
\* was left in a transaction can refuse it.
LockedOut(c) ==
    \/ \E o \in Conns \ {c} : tx[o].state = "write"
    \/ tx[c].state = "snapshot" /\ tx[c].snap # Len(log)

AfterLockedOut(c) ==
    IF tx[c].state = "none" THEN Tx("begun", 0) ELSE tx[c]

WithRow(d, row) == Append(log, [Current EXCEPT ![d] = row])

----------------------------------------------------------------------------
(* The operations of SQLiteIndex                                           *)

Begin(t, op, d) ==
    /\ calls[t].op = "idle"
    /\ Takes(t, op, d)
    /\ UNCHANGED <<log, outcome, leaked>>

Get(t, d) == Begin(t, "get", d) /\ UNCHANGED strays
Delete(d) == Begin(Writer, "delete", d) /\ UNCHANGED strays
Upsert(d) == Begin(Writer, "lookup", d) /\ UNCHANGED strays
Insert(d) == Begin(Writer, "insert", d) /\ strays' = (strays \/ Current[d] # 0)

\* The second half of an upsert.
Continue(t) ==
    /\ calls[t].op \in {"insert", "update"}
    /\ calls[t].conn = NoConn
    /\ Takes(t, calls[t].op, calls[t].doc)
    /\ UNCHANGED <<log, outcome, strays, leaked>>

Holding(t, ops) == calls[t].op \in ops /\ calls[t].conn # NoConn

RunGet(t) ==
    /\ Holding(t, {"get"})
    /\ LET c == calls[t].conn
           d == calls[t].doc
       IN  Returns(t, AfterReadOn(c), IF Seen(c)[d] = Current[d] THEN "read" ELSE "stale")
    /\ calls' = [calls EXCEPT ![t] = Idle]
    /\ UNCHANGED <<log, strays, leaked>>

\* Mutant: an upsert that does not look whether the row is there.
RunLookupBlind(t) ==
    /\ Holding(t, {"lookup"})
    /\ Returns(t, AfterReadOn(calls[t].conn), outcome[t])
    /\ calls' = [calls EXCEPT ![t] = Call("insert", calls[t].doc, NoConn)]
    /\ UNCHANGED <<log, strays, leaked>>

RunLookup(t) ==
    /\ Holding(t, {"lookup"})
    /\ LET c == calls[t].conn
           d == calls[t].doc
       IN  /\ Returns(t, AfterReadOn(c), outcome[t])
           /\ calls' = [calls EXCEPT ![t] =
                 Call(IF Seen(c)[d] = 0 THEN "insert" ELSE "update", d, NoConn)]
    /\ UNCHANGED <<log, strays, leaked>>

\* OperationalError "database is locked", which nobody handles here.
RunLockedOut(t) ==
    /\ Holding(t, {"insert", "update", "delete"})
    /\ LockedOut(calls[t].conn)
    /\ Returns(t, AfterLockedOut(calls[t].conn), "locked")
    /\ calls' = [calls EXCEPT ![t] = Idle]
    /\ UNCHANGED <<log, strays, leaked>>

\* insert of an id that is there: IntegrityError, False, and no commit.
RunDuplicate(t) ==
    /\ Holding(t, {"insert"})
    /\ ~LockedOut(calls[t].conn)
    /\ Current[calls[t].doc] # 0
    /\ Returns(t, Tx("write", 0), "refused")
    /\ calls' = [calls EXCEPT ![t] = Idle]
    /\ leaked' = TRUE
    /\ UNCHANGED <<log, strays>>

RunInsert(t) ==
    /\ Holding(t, {"insert"})
    /\ ~LockedOut(calls[t].conn)
    /\ Current[calls[t].doc] = 0
    /\ Len(log) <= MaxWrites
    /\ log' = WithRow(calls[t].doc, Len(log))
    /\ Returns(t, Tx("none", 0), "done")
    /\ calls' = [calls EXCEPT ![t] = Idle]
    /\ UNCHANGED <<strays, leaked>>

\* Mutant: only a statement that changed a row is committed.
RunUpdateOrDeleteUncommitted(t) ==
    /\ Holding(t, {"update", "delete"})
    /\ ~LockedOut(calls[t].conn)
    /\ LET d == calls[t].doc
       IN  IF Current[d] = 0
           THEN /\ UNCHANGED log
                /\ Returns(t, Tx("write", 0), "missing")
           ELSE /\ Len(log) <= MaxWrites
                /\ log' = WithRow(d, IF calls[t].op = "delete" THEN 0 ELSE Len(log))
                /\ Returns(t, Tx("none", 0), "done")
    /\ calls' = [calls EXCEPT ![t] = Idle]
    /\ UNCHANGED <<strays, leaked>>

\* update and delete commit whether a row was there or not.
RunUpdateOrDelete(t) ==
    /\ Holding(t, {"update", "delete"})
    /\ ~LockedOut(calls[t].conn)
    /\ LET d == calls[t].doc
       IN  IF Current[d] = 0
           THEN /\ UNCHANGED log
                /\ Returns(t, Tx("none", 0), "missing")
           ELSE /\ Len(log) <= MaxWrites
                /\ log' = WithRow(d, IF calls[t].op = "delete" THEN 0 ELSE Len(log))
                /\ Returns(t, Tx("none", 0), "done")
    /\ calls' = [calls EXCEPT ![t] = Idle]
    /\ UNCHANGED <<strays, leaked>>

----------------------------------------------------------------------------
(* The environment                                                         *)

\* Another process commits a change to the same file.
OtherWrites(d) ==
    /\ \A c \in Conns : tx[c].state # "write"
    /\ Len(log) <= MaxWrites
    /\ \E row \in {0, Len(log)} : row # Current[d] /\ log' = WithRow(d, row)
    /\ strays' = TRUE
    /\ UNCHANGED <<tx, pool, calls, outcome, leaked>>

Next ==
    \/ \E d \in Docs : Insert(d) \/ Delete(d) \/ Upsert(d) \/ OtherWrites(d)
    \/ \E t \in Threads, d \in Docs : Get(t, d)
    \/ \E t \in Threads :
          \/ Continue(t) \/ RunGet(t) \/ RunLookup(t) \/ RunLockedOut(t)
          \/ RunDuplicate(t) \/ RunInsert(t) \/ RunUpdateOrDelete(t)

Spec == Init /\ [][Next]_vars

----------------------------------------------------------------------------
(* Properties                                                              *)

Held == {calls[t].conn : t \in {u \in Threads : calls[u].conn # NoConn}}
InUse == Cardinality({t \in Threads : calls[t].conn # NoConn})

\* A connection is open while it is in the pool or in the hands of one thread,
\* and in one place only: nothing leaks when a statement raises, and no two
\* threads share a connection.  The pool does not outgrow its size by the
\* temporary ones that are given back.
OneOwnerPerConnection ==
    /\ Len(pool) <= PoolSize
    /\ IsInjective(pool)
    /\ Cardinality(Held) = InUse
    /\ Held \cap ToSet(pool) = {}
    /\ Held \cup ToSet(pool) = {c \in Conns : tx[c].state # "closed"}

\* Where one process writes, and inserts no id that is there, every get returns
\* the current row, every write gets the lock and no upsert is refused, in
\* whatever order threads take connections.
UpsertsAreSafe ==
    ~strays => \A t \in Threads : outcome[t] \notin {"stale", "locked", "refused"}

\* A refused insert is the only way to a connection left in a transaction:
\* before the first, no get is stale and no write is locked out, whatever
\* other processes write and however an upsert races with them.
OnlyRefusalsLeak ==
    ~leaked => \A t \in Threads : outcome[t] \notin {"stale", "locked"}
=============================================================================
