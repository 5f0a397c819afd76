------------------------------- MODULE SqliteDB --------------------------------
(***************************************************************************)
(* The SQLite adapter (db/sqlite.py): one connection that all tasks share, *)
(* made on first use and again in a new event loop; a lock for writers,    *)
(* which create_index and late initialisers do without.  The connection's  *)
(* thread runs one statement at a time, a step, and whoever commits on it  *)
(* commits what all tasks have written.  The n-th call writes the value n. *)
(***************************************************************************)
EXTENDS Naturals, FiniteSets

CONSTANTS Tasks, None,
          MaxId,            \* ids are 1..MaxId; a batch writes them in order
          Memory,           \* db_path is ":memory:"
          Used,             \* a call has made the connection before
          Ops,              \* the operations that tasks call
          Alike,            \* ids of records with one value in the field that is indexed
          Faults,           \* statements may fail
          Abandons,         \* tasks may be cancelled
          MaxConns, MaxCalls, MaxLoops      \* bounds

Assumptions == /\ {MaxId, MaxConns, MaxCalls, MaxLoops} \subseteq Nat
               /\ {Memory, Used, Faults, Abandons} \subseteq BOOLEAN /\ None \notin Nat
               /\ Ops \subseteq {"save", "delete", "bulk", "get", "index", "close"}

Ids == 1..MaxId
Conns == 1..MaxConns
Nothing == 0                \* no record

VARIABLES stored,           \* per database: its committed rows, and whether it has table and index
          txn,              \* per connection: the transaction that is open, with what it wrote
          alive,            \* per connection: "new", "open" or "closed"
          connection,       \* _connection
          owner,            \* _owning_loop
          initialized,      \* _initialized
          created,          \* _created_indexes: "none", "empty", or "index" if that was made
          lock,             \* the task that has _lock
          loop,             \* the event loop that runs
          call, calls,
          must,             \* history: what an id may hold, by the calls that returned
          raised            \* history: batches that raised

database == <<stored, txn, alive>>
adapter == <<connection, owner, initialized, created>>
vars == <<database, adapter, lock, loop, call, calls, must, raised>>

Data == [rows : [Ids -> 0..MaxCalls], table : BOOLEAN, index : BOOLEAN]
Empty == [rows |-> [i \in Ids |-> Nothing], table |-> FALSE, index |-> FALSE]
NoTxn == [open |-> FALSE, dirty |-> FALSE, data |-> Empty]
Resting == [op |-> "none", pc |-> "done", n |-> 0, id |-> 1, conn |-> None]
Writers == {"save", "delete", "bulk"}

Db(c) == IF Memory THEN c ELSE 0
Dbs == IF Memory THEN Conns ELSE {0}

TypeOK ==
    /\ stored \in [Dbs -> Data] /\ alive \in [Conns -> {"new", "open", "closed"}]
    /\ \A c \in Conns : txn[c].data \in Data /\ (txn[c].dirty => txn[c].open)
    /\ connection \in Conns \cup {None} /\ owner \in 0..MaxLoops
    /\ initialized \in BOOLEAN /\ created \in {"none", "empty", "index"}
    /\ lock \in Tasks \cup {None} /\ loop \in 1..MaxLoops /\ calls \in 0..MaxCalls
    /\ \A t \in Tasks : call[t].conn \in Conns \cup {None} /\ call[t].n \in 0..MaxCalls
    /\ \A i \in Ids : must[i] \subseteq 0..MaxCalls
    /\ raised \subseteq 1..MaxCalls

Init ==
    /\ stored = [d \in Dbs |-> [Empty EXCEPT !.table = Used /\ (Memory => d = 1)]]
    /\ txn = [c \in Conns |-> NoTxn]
    /\ alive = [c \in Conns |-> IF Used /\ c = 1 THEN "open" ELSE "new"]
    /\ connection = IF Used THEN 1 ELSE None
    /\ owner = IF Used THEN 1 ELSE 0
    /\ initialized = Used /\ created = "none" /\ lock = None /\ loop = 1
    /\ call = [t \in Tasks |-> Resting] /\ calls = 0
    /\ must = [i \in Ids |-> {Nothing}] /\ raised = {}
-----------------------------------------------------------------------------
At(t, pc) == call[t].pc = pc
Go(t, pc) == call' = [call EXCEPT ![t].pc = pc]
Open(c) == c # None /\ alive[c] = "open"
View(c) == IF txn[c].dirty THEN txn[c].data ELSE stored[Db(c)]
Locked(c) == \E d \in Conns \ {c} : Db(d) = Db(c) /\ txn[d].dirty    \* by another connection

(* The end of a call, which leaves the with-block of the lock.             *)
End(t) == /\ call' = [call EXCEPT ![t] = Resting]
          /\ lock' = IF lock = t THEN None ELSE lock
Raise(t) == /\ End(t)
            /\ raised' = IF call[t].op = "bulk" THEN raised \cup {call[t].n} ELSE raised

(* What c reads after data is written: at once, or on commit.              *)
Write(c, data) == txn' = [txn EXCEPT ![c] = [open |-> TRUE, dirty |-> TRUE, data |-> data]]
Commit(c) == /\ stored' = [stored EXCEPT ![Db(c)] = View(c)]
             /\ txn' = [txn EXCEPT ![c] = NoTxn] /\ UNCHANGED alive
Define(c, data) ==                            \* DDL: in the open transaction, else by itself
    IF txn[c].open THEN Write(c, data) /\ UNCHANGED <<stored, alive>>
    ELSE stored' = [stored EXCEPT ![Db(c)] = data] /\ UNCHANGED <<txn, alive>>
-----------------------------------------------------------------------------
(* _get_connection: where a call goes on once there is a connection.       *)
Body(op) == CASE op \in {"save", "delete"} -> "insert" [] op = "bulk" -> "begin"
              [] op = "get" -> "read" [] op = "index" -> "look"

Prepared(t, c) ==
    IF initialized THEN call' = [call EXCEPT ![t].conn = c, ![t].pc = Body(call[t].op)]
    ELSE Go(t, "create")

Begin(t, op, i) ==
    /\ At(t, "done") /\ op \in Ops \ {"close"} /\ calls < MaxCalls
    /\ calls' = calls + 1
    /\ call' = [call EXCEPT ![t] = [op |-> op, n |-> calls + 1, id |-> i, conn |-> None,
                                    pc |-> IF op \in Writers THEN "acquire" ELSE "connect"]]
    /\ UNCHANGED <<database, adapter, lock, loop, must, raised>>

Acquire(t) ==
    /\ At(t, "acquire") /\ lock = None
    /\ lock' = t /\ Go(t, "connect")
    /\ UNCHANGED <<database, adapter, loop, calls, must, raised>>

Use(t) ==
    /\ At(t, "connect")
    /\ LET abandon == connection # None /\ owner # loop /\ ~Memory
       IN IF connection = None \/ abandon
          THEN /\ connection' = None /\ initialized' = IF abandon THEN FALSE ELSE initialized
               /\ owner' = IF abandon THEN 0 ELSE owner
               /\ created' = IF abandon THEN "none" ELSE created
               /\ Go(t, "connecting")
          ELSE Prepared(t, connection) /\ UNCHANGED adapter
    /\ UNCHANGED <<database, lock, loop, calls, must, raised>>

Connected(t) ==
    /\ At(t, "connecting")
    /\ \E c \in Conns :
        /\ alive[c] = "new" /\ \A d \in 1..(c - 1) : alive[d] # "new"
        /\ alive' = [alive EXCEPT ![c] = "open"] /\ connection' = c /\ owner' = loop
    /\ Go(t, "pragma")
    /\ UNCHANGED <<stored, txn, initialized, created, lock, loop, calls, must, raised>>

(* The PRAGMAs raise in a transaction; a call whose connection was closed  *)
(* meanwhile raises in this and every later step.                          *)
Pragmas(t) ==
    /\ At(t, "pragma")
    /\ IF Open(connection) /\ ~txn[connection].open
       THEN Prepared(t, connection) /\ UNCHANGED <<lock, raised>>
       ELSE Raise(t)
    /\ UNCHANGED <<database, adapter, loop, calls, must>>

Create(t) ==
    /\ At(t, "create")
    /\ \/ /\ Open(connection) /\ (View(connection).table \/ ~Locked(connection))
          /\ IF View(connection).table THEN UNCHANGED database
             ELSE Define(connection, [View(connection) EXCEPT !.table = TRUE])
          /\ Go(t, "settle") /\ UNCHANGED <<lock, raised>>
       \/ (~Open(connection) \/ Locked(connection)) /\ Raise(t) /\ UNCHANGED database
    /\ UNCHANGED <<adapter, loop, calls, must>>

Settle(t) ==
    /\ At(t, "settle")
    /\ IF Open(connection) THEN Commit(connection) /\ Go(t, "repair") /\ UNCHANGED <<lock, raised>>
       ELSE Raise(t) /\ UNCHANGED database
    /\ UNCHANGED <<adapter, loop, calls, must>>

(* _repair_non_partial_unique_indexes finds nothing of older versions.     *)
Repair(t) ==
    /\ At(t, "repair")
    /\ initialized' = TRUE
    /\ call' = [call EXCEPT ![t].conn = connection, ![t].pc = Body(call[t].op)]
    /\ UNCHANGED <<database, connection, owner, created, lock, loop, calls, must, raised>>
-----------------------------------------------------------------------------
(* save and delete.  INSERT OR REPLACE removes the rows that a unique      *)
(* index finds alike.  A statement opens a transaction if none is, waits   *)
(* for another connection's to end, and raises when it has waited long.    *)
Put(data, i, v) ==
    [data EXCEPT !.rows = [j \in Ids |->
        IF j = i THEN v
        ELSE IF data.index /\ v # Nothing /\ {i, j} \subseteq Alike THEN Nothing ELSE @[j]]]

Value(t) == IF call[t].op = "delete" THEN Nothing ELSE call[t].n
Writes(t) == IF call[t].op = "bulk" THEN Ids ELSE {call[t].id}
May(t) == [i \in Ids |-> IF i \in Writes(t) THEN must[i] \cup {Value(t)} ELSE must[i]]

Ready(c) == Open(c) /\ View(c).table /\ ~Locked(c)

Insert(t) ==
    /\ At(t, "insert")
    /\ LET c == call[t].conn
       IN \/ /\ Ready(c) /\ Write(c, Put(View(c), call[t].id, Value(t)))
             /\ must' = May(t) /\ Go(t, "commit") /\ UNCHANGED <<lock, raised>>
          \/ /\ ~Ready(c) /\ Raise(t) /\ UNCHANGED must
             /\ txn' = IF Open(c) /\ View(c).table THEN [txn EXCEPT ![c].open = TRUE] ELSE txn
          \/ Faults /\ Ready(c) /\ Write(c, View(c)) /\ Raise(t) /\ UNCHANGED must
    /\ UNCHANGED <<stored, alive, adapter, loop, calls>>

(* A commit that fails may have rolled back.                               *)
CommitFails(t, pc) ==
    /\ At(t, "commit") /\ pc = (IF call[t].op = "bulk" THEN "rollback" ELSE "raise")
    /\ LET c == call[t].conn
       IN \/ ~Open(c) /\ UNCHANGED database
          \/ Faults /\ Open(c) /\ UNCHANGED <<stored, alive>>
             /\ txn' \in {txn, [txn EXCEPT ![c] = NoTxn]}
    /\ IF pc = "raise" THEN Raise(t) ELSE Go(t, pc) /\ UNCHANGED <<lock, raised>>
    /\ UNCHANGED <<adapter, loop, calls, must>>

CommittedEarly(t) ==                          \* mutant of Committed: save returns before its commit
    /\ At(t, "commit") /\ Open(call[t].conn)
    /\ must' = [i \in Ids |-> IF i \in Writes(t) THEN {Value(t)} ELSE must[i]]
    /\ End(t) /\ UNCHANGED <<database, adapter, loop, calls, raised>>
Committed(t) ==
    /\ At(t, "commit") /\ Open(call[t].conn)
    /\ Commit(call[t].conn)
    /\ must' = [i \in Ids |-> IF i \in Writes(t) THEN {Value(t)} ELSE must[i]]
    /\ End(t) /\ UNCHANGED <<adapter, loop, calls, raised>>

(* bulk_save: an explicit BEGIN, which raises in an open transaction.      *)
BulkBegin(t) ==
    /\ At(t, "begin")
    /\ LET c == call[t].conn
       IN IF Open(c) /\ ~txn[c].open
          THEN txn' = [txn EXCEPT ![c].open = TRUE] /\ Go(t, "many")
          ELSE Go(t, "rollback") /\ UNCHANGED txn
    /\ UNCHANGED <<stored, alive, adapter, lock, loop, calls, must, raised>>

PutAll(data, k, v) ==                         \* the first k records, one by one
    LET rows[j \in 0..k] == IF j = 0 THEN data ELSE Put(rows[j - 1], j, v) IN rows[k]

BulkInsert(t) ==
    /\ At(t, "many")
    /\ LET c == call[t].conn
       IN \/ /\ Ready(c) /\ Write(c, PutAll(View(c), MaxId, Value(t)))
             /\ Go(t, "commit") /\ must' = May(t)
          \/ \E k \in 1..(MaxId - 1) : /\ Faults /\ Ready(c) /\ Write(c, PutAll(View(c), k, Value(t)))
                                       /\ Go(t, "rollback") /\ must' = May(t)
          \/ ~Ready(c) /\ Go(t, "rollback") /\ UNCHANGED <<txn, must>>
    /\ UNCHANGED <<stored, alive, adapter, lock, loop, calls, raised>>

RollbackForgotten(t) ==                       \* mutant of Rollback
    At(t, "rollback") /\ Raise(t) /\ UNCHANGED <<database, adapter, loop, calls, must>>
Rollback(t) ==
    /\ At(t, "rollback")
    /\ txn' = IF Open(call[t].conn) THEN [txn EXCEPT ![call[t].conn] = NoTxn] ELSE txn
    /\ Raise(t) /\ UNCHANGED <<stored, alive, adapter, loop, calls, must>>

(* get, find and count read what is written, committed or not.             *)
Read(t) ==
    /\ At(t, "read")
    /\ End(t) /\ UNCHANGED <<database, adapter, loop, calls, must, raised>>
-----------------------------------------------------------------------------
(* create_index, without the lock; errors are logged.                      *)
Look(t) ==
    /\ At(t, "look")
    /\ LET c == call[t].conn
       IN IF ~Open(c) THEN Raise(t) /\ UNCHANGED created
          ELSE IF created = "index" THEN End(t) /\ UNCHANGED <<created, raised>>
          ELSE IF View(c).index THEN created' = "index" /\ End(t) /\ UNCHANGED raised
          ELSE created' = "empty" /\ Go(t, "make") /\ UNCHANGED <<lock, raised>>
    /\ UNCHANGED <<database, connection, owner, initialized, loop, calls, must>>

Unlike(data) == \A i, j \in Alike : data.rows[i] # Nothing /\ data.rows[j] # Nothing => i = j

Make(t) ==
    /\ At(t, "make")
    /\ LET c == call[t].conn
       IN \/ /\ Ready(c) /\ Unlike(View(c))
             /\ Define(c, [View(c) EXCEPT !.index = TRUE]) /\ Go(t, "keep") /\ UNCHANGED lock
          \/ (Faults \/ ~Ready(c) \/ ~Unlike(View(c))) /\ End(t) /\ UNCHANGED database
    /\ UNCHANGED <<adapter, loop, calls, must, raised>>

Keep(t) ==
    /\ At(t, "keep")
    /\ LET c == call[t].conn
       IN \/ /\ Open(c) /\ Commit(c)
             /\ created' = IF created = "none" THEN "none" ELSE "index"      \* a KeyError is logged
          \/ (Faults \/ ~Open(c)) /\ UNCHANGED <<database, created>>
    /\ End(t) /\ UNCHANGED <<connection, owner, initialized, loop, calls, must, raised>>

(* close rolls back what is open.                                          *)
Close(t) ==
    /\ At(t, "done") /\ "close" \in Ops /\ connection # None
    /\ call' = [call EXCEPT ![t] = [Resting EXCEPT !.op = "close", !.pc = "shut", !.conn = connection]]
    /\ UNCHANGED <<database, adapter, lock, loop, calls, must, raised>>

Shut(t) ==
    /\ At(t, "shut")
    /\ alive' = [alive EXCEPT ![call[t].conn] = "closed"]
    /\ txn' = [txn EXCEPT ![call[t].conn] = NoTxn]
    /\ Go(t, "clear") /\ UNCHANGED <<stored, adapter, lock, loop, calls, must, raised>>

Clear(t) ==
    /\ At(t, "clear")
    /\ connection' = None /\ initialized' = FALSE /\ created' = "none" /\ owner' = 0
    /\ End(t) /\ UNCHANGED <<database, loop, calls, must, raised>>
-----------------------------------------------------------------------------
(* A cancelled task rolls nothing back; its statement may yet be run.      *)
Cancel(t) ==
    /\ Abandons /\ ~At(t, "done")
    /\ \/ UNCHANGED database
       \/ At(t, "commit") /\ Open(call[t].conn) /\ Commit(call[t].conn)
    /\ End(t) /\ UNCHANGED <<adapter, loop, calls, must, raised>>

(* A new event loop: the tasks of the old one are gone, as if cancelled.   *)
NewLoop ==
    /\ loop < MaxLoops /\ loop' = loop + 1
    /\ call' = [t \in Tasks |-> Resting] /\ lock' = None
    /\ UNCHANGED <<database, adapter, calls, must, raised>>

Next ==
    \/ NewLoop
    \/ \E t \in Tasks :
        \/ \E op \in Ops, i \in Ids : Begin(t, op, i)
        \/ Acquire(t) \/ Use(t) \/ Connected(t) \/ Pragmas(t) \/ Create(t) \/ Settle(t) \/ Repair(t)
        \/ Insert(t) \/ Committed(t) \/ BulkBegin(t) \/ BulkInsert(t) \/ Rollback(t) \/ Read(t)
        \/ CommitFails(t, "raise") \/ CommitFails(t, "rollback")
        \/ Look(t) \/ Make(t) \/ Keep(t) \/ Close(t) \/ Shut(t) \/ Clear(t) \/ Cancel(t)

Spec == Init /\ [][Next]_vars
-----------------------------------------------------------------------------
\* What a save, delete or bulk_save returned for is in the file, until another
\* call writes the id, whatever calls raised, were cancelled or closed the
\* connection meanwhile (sqlite.py:493, 589).
SavedKept == ~Memory => \A i \in Ids : stored[0].rows[i] \in must[i]

\* "Either every record in records is persisted or none are" (sqlite.py:568).
BatchWhole == \A d \in Dbs, i \in Ids : stored[d].rows[i] \notin raised

\* An index that is remembered as made is in the database once what is open is
\* committed (sqlite.py:430).
IndexThere == created = "index" /\ ~Memory /\ Open(connection) /\ ~txn[connection].open => stored[0].index

\* LIMIT: get reads what was committed.
ReadsCommitted == \A t \in Tasks : At(t, "read") /\ Open(call[t].conn) =>
    View(call[t].conn).rows[call[t].id] = stored[Db(call[t].conn)].rows[call[t].id]

\* LIMIT: a batch raises for an open transaction only if it is its own.
BeginsClean == \A t \in Tasks : At(t, "begin") /\ Open(call[t].conn) => ~txn[call[t].conn].open

\* LIMIT: a connection that is ready has the table.
TableThere == initialized /\ Open(connection) => stored[Db(connection)].table \/ txn[connection].open
=============================================================================
