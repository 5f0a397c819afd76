------------------------------ MODULE MCRecords ------------------------------
(***************************************************************************)
(* What databases answer, on small instances: QueryTranslation, GraphReads, *)
(* DynamoBatch, DynamoFind, Paging, SqliteDB and MongoDB.  They share no   *)
(* state; scene says of which a behaviour is, with which constants.        *)
(*   queries  every query of the shapes below, on every record that updates *)
(*            make of two fields                                           *)
(*   graphs   a node among three, of two classes, up to three edges        *)
(*   batches  batches of two, of up to three records                       *)
(*   indexes  one process that makes indexes, saves, finds and counts      *)
(*   overlaps a process that saves and deletes, another that finds         *)
(*   pages    one reader in each mode, up to two writes                    *)
(*   sqlite   two tasks make, share and close connections to a file, and    *)
(*            may be cancelled; two event loops                            *)
(*   rollback two tasks on one connection, statements that fail             *)
(*   mongo    two tasks, two records, connections that break               *)
(*   sessions the same with transactions, cancelled tasks, two event loops *)
(*   options  two tasks make an index that exists with other options or    *)
(*            another name                                                 *)
(***************************************************************************)
EXTENDS QueryTranslation, TLC

CONSTANTS c1, c2, x, y, None, reader

VARIABLES scene,
          classOf, there, edges,
          items, wanted, op, left, tries, got, told, refused, saved,
          table, gsis, known, call, puts,
          value, mode, dir, size, cursor, at, out, pager, still, writes,
          stored, txn, alive, connection, owner, initialized, created, mutex, loop, req, reqs, must, raised,
          docs, held, index, client, since, open, probe

reading == <<classOf, there, edges>>
batching == <<items, wanted, op, left, tries, got, told, refused, saved>>
indexing == <<table, gsis, known, call, puts>>
paging == <<value, mode, dir, size, cursor, at, out, pager, still, writes>>
filing == <<stored, txn, alive, connection, owner, initialized, created, mutex, loop, req, reqs, must, raised,
            docs, held, index, client, since, open, probe>>
-----------------------------------------------------------------------------
Num(n) == [type |-> "int", val |-> n]
Bool(n) == [type |-> "bool", val |-> n]
Str(n) == [type |-> "str", val |-> n]
SomeValues == {Null, Num(0), Num(1), Num(2), Bool(0), Bool(1), Str(1), Str(2)}

Cond(operator, args) == [op |-> operator, args |-> args, conds |-> << >>]
Not(conds) == [op |-> "$not", args |-> << >>, conds |-> conds]
Lists == {<< >>, <<Num(0), Num(1)>>, <<Str(1)>>, <<Num(1), Str(1)>>, <<Bool(1)>>, <<Null, Num(1)>>}
Conditions == {Cond(o, <<v>>) : o \in {"$eq", "$ne"} \cup Orders, v \in SomeValues}
              \cup {Cond(o, list) : o \in {"$in", "$nin"}, list \in Lists}
              \cup {Cond("$exists", <<Bool(0)>>), Cond("$exists", <<Bool(1)>>),
                    Cond("$mod", <<Num(2), Num(1)>>)}
Alternatives == UNION {{<<c>>, <<Not(<<c>>)>>, <<Cond("$gte", <<Num(0)>>), c>>} : c \in Conditions}
                \cup {<< >>}

Field(f, conds) == [key |-> f, conds |-> conds, subs |-> << >>]
Logic(key, subs) == [key |-> key, conds |-> << >>, subs |-> subs]
OnA == {<<Field("a", conds)>> : conds \in Alternatives}
OnB == {<<Field("b", <<c>>)>> : c \in {Cond("$ne", <<Str(1)>>), Cond("$gt", <<Num(0)>>)}}
SomeQueries ==
    OnA \cup {<<Logic("$not", <<m>>)>> : m \in OnA} \cup {m \o n : m \in OnA, n \in OnB} \cup {<< >>}
    \cup {<<Logic(key, <<m, n>>)>> : key \in {"$and", "$or", "$nor"}, m \in OnA, n \in OnB}
    \cup {<<Logic("$and", <<<<Logic("$or", <<m, n>>)>>, n>>)>> : m \in OnA, n \in OnB}

SomeUpdates == {[op |-> "$set", field |-> "a", val |-> v] : v \in SomeValues}
               \cup {[op |-> "$set", field |-> "b", val |-> v] : v \in {Null, Num(0), Num(1), Str(1)}}
               \cup {[op |-> o, field |-> f, val |-> Num(1)] :
                       o \in {"$unset", "$inc", "$setOnInsert"}, f \in {"a", "b"}}

Towns == {<<"City", "City">>, <<"Town", "Town">>, <<"Town", "City">>}
Reads == INSTANCE GraphReads WITH
    Nodes <- {c1, x, y}, Classes <- {"City", "Town"}, IsA <- Towns, EdgeNames <- {"Road", "Rail"},
    MaxDepth <- 3, MaxEdges <- 3

Batches == INSTANCE DynamoBatch WITH
    table <- items, asked <- wanted, Callers <- {c1}, MaxId <- 3, BatchSize <- 2, Faults <- TRUE

Row(a, b, c) == [a |-> a, b |-> b, c |-> c]
Rows == {Row(0, 0, 0), Row(0, 0, 1), Row(0, 1, 0)}
Asked == {[a |-> 0, b |-> 0], [a |-> 0, c |-> 0], [c |-> 0], [a |-> 0, b |-> 0, c |-> 0]}
Alone == INSTANCE DynamoFind WITH
    Callers <- {c1}, AdapterOf <- c1 :> x, MaxId <- 2, Datas <- Rows, Queries <- Asked,
    Limits <- {0, 1}, Indexed <- {"a", "b"}, MaxPuts <- 3
Overlaps == INSTANCE DynamoFind WITH
    Callers <- {c1, c2}, AdapterOf <- c1 :> x @@ c2 :> y, MaxId <- 2,
    Datas <- {Row(0, 0, 0), Row(0, 0, 1)}, Queries <- {[a |-> 0, c |-> 0], [a |-> 0]},
    Limits <- {0}, Indexed <- {"a"}, MaxPuts <- 3

Pages == INSTANCE Paging WITH
    Readers <- {reader}, MaxId <- 3, MaxValue <- 2, Sizes <- {1, 2},
    Modes <- {"iter", "page", "after", "number"}, MaxWrites <- 2

Files == INSTANCE SqliteDB WITH
    lock <- mutex, call <- req, calls <- reqs, Tasks <- {c1, c2}, MaxId <- 2, Memory <- FALSE,
    Used <- FALSE, Ops <- {"save", "get", "index", "close"}, Alike <- {}, Faults <- FALSE,
    Abandons <- TRUE, MaxConns <- 2, MaxCalls <- 2, MaxLoops <- 2
Rollbacks == INSTANCE SqliteDB WITH
    lock <- mutex, call <- req, calls <- reqs, Tasks <- {c1, c2}, MaxId <- 2, Memory <- FALSE,
    Used <- TRUE, Ops <- {"save", "delete", "bulk", "get"}, Alike <- {}, Faults <- TRUE,
    Abandons <- FALSE, MaxConns <- 1, MaxCalls <- 3, MaxLoops <- 1

Mongo == INSTANCE MongoDB WITH
    made <- since, call <- req, calls <- reqs, Tasks <- {c1, c2}, Ids <- {x, y},
    Ops <- {"save", "delete", "bulk", "update", "take", "find", "close"}, Replica <- FALSE,
    Faults <- TRUE, Abandons <- FALSE, MaxClients <- 2, MaxCalls <- 2, MaxLoops <- 1
Sessions == INSTANCE MongoDB WITH
    made <- since, call <- req, calls <- reqs, Tasks <- {c1, c2}, Ids <- {x, y},
    Ops <- {"save", "txn", "close"}, Replica <- TRUE,
    Faults <- TRUE, Abandons <- TRUE, MaxClients <- 2, MaxCalls <- 2, MaxLoops <- 2
Options == INSTANCE MongoDB WITH
    made <- since, call <- req, calls <- reqs, Tasks <- {c1, c2}, Ids <- {x},
    Ops <- {"index", "deprecated", "close"}, Replica <- FALSE,
    Faults <- FALSE, Abandons <- FALSE, MaxClients <- 3, MaxCalls <- 3, MaxLoops <- 1

ASSUME /\ Assumptions /\ Reads!Assumptions /\ Batches!Assumptions /\ Alone!Assumptions /\ Overlaps!Assumptions
       /\ Pages!Assumptions /\ Files!Assumptions /\ Rollbacks!Assumptions
       /\ Mongo!Assumptions /\ Sessions!Assumptions /\ Options!Assumptions
-----------------------------------------------------------------------------
(* The state of the modules that a scene is not about.                     *)
NoBatch ==
    /\ items = None /\ wanted = None /\ op = None /\ left = None /\ tries = None
    /\ got = None /\ told = None /\ refused = None /\ saved = None
NoTable == table = None /\ gsis = None /\ known = None /\ call = None /\ puts = None
NoPages ==
    /\ value = None /\ mode = None /\ dir = None /\ size = None /\ cursor = None /\ at = None
    /\ out = None /\ pager = None /\ still = None /\ writes = None
NoFile ==
    /\ stored = None /\ txn = None /\ alive = None /\ connection = None /\ owner = None
    /\ initialized = None /\ mutex = None /\ raised = None
NoServer ==
    /\ docs = None /\ held = None /\ index = None /\ client = None /\ since = None
    /\ open = None /\ probe = None
NoCall == created = None /\ loop = None /\ req = None /\ reqs = None /\ must = None
NoGraph == classOf = None /\ there = None /\ edges = None
NoQuery == doc = [f \in {} |-> Null] /\ query = << >>

RecordsInit ==
    /\ scene \in {"queries", "graphs", "batches", "indexes", "overlaps", "pages",
                "sqlite", "rollback", "mongo", "sessions", "options"}
    /\ IF scene = "queries" THEN Init ELSE NoQuery
    /\ IF scene = "graphs" THEN Reads!Init /\ classOf[c1] = "City" ELSE NoGraph
    /\ IF scene = "batches" THEN Batches!Init ELSE NoBatch
    /\ CASE scene = "indexes" -> Alone!Init
         [] scene = "overlaps" -> Overlaps!Init
         [] OTHER -> NoTable
    /\ IF scene = "pages" THEN Pages!Init ELSE NoPages
    /\ CASE scene = "sqlite" -> Files!Init /\ NoServer
         [] scene = "rollback" -> Rollbacks!Init /\ NoServer
         [] scene = "mongo" -> Mongo!Init /\ NoFile
         [] scene = "sessions" -> Sessions!Init /\ NoFile
         [] scene = "options" -> Options!Init /\ NoFile
         [] OTHER -> NoFile /\ NoServer /\ NoCall

Selecting ==
    /\ scene = "queries"
    /\ UNCHANGED <<reading, batching, indexing, paging, filing>>
    /\ Next

\* The names of edges are of no matter: there are as many of one as of the other,
\* or more; nor is which of the two neighbours is lost.
More(n, m) ==
    Cardinality({e \in edges' : e.name = m}) <= Cardinality({e \in edges' : e.name = n})
Neighbouring ==
    /\ scene = "graphs"
    /\ UNCHANGED <<vars, batching, indexing, paging, filing>>
    /\ Reads!Next /\ {c1, y} \subseteq there' /\ More("Road", "Rail")

Batching ==
    /\ scene = "batches"
    /\ UNCHANGED <<vars, reading, indexing, paging, filing>>
    /\ Batches!Next

Finding ==
    /\ scene \in {"indexes", "overlaps"}
    /\ UNCHANGED <<vars, reading, batching, paging, filing>>
    /\ \/ scene = "indexes" /\ Alone!Next
       \/ scene = "overlaps" /\ Overlaps!Next
          /\ call'[c1].op \in {"none", "save", "delete"}
          /\ call'[c2].op \in {"none", "find", "count"}

Leafing ==
    /\ scene = "pages"
    /\ UNCHANGED <<vars, reading, batching, indexing, filing>>
    /\ Pages!Next

Filing ==
    /\ scene \in {"sqlite", "rollback"}
    /\ UNCHANGED <<vars, reading, batching, indexing, paging,
                   docs, held, index, client, since, open, probe>>
    /\ \/ scene = "sqlite" /\ Files!Next
       \/ scene = "rollback" /\ Rollbacks!Next

Serving ==
    /\ scene \in {"mongo", "sessions", "options"}
    /\ UNCHANGED <<vars, reading, batching, indexing, paging,
                   stored, txn, alive, connection, owner, initialized, mutex, raised>>
    /\ \/ scene = "mongo" /\ Mongo!Next
       \/ scene = "sessions" /\ Sessions!Next
       \/ scene = "options" /\ Options!Next

RecordsNext ==
    /\ UNCHANGED scene
    /\ (Selecting \/ Neighbouring \/ Batching \/ Finding \/ Leafing \/ Filing \/ Serving)

RecordsSpec == RecordsInit /\ [][RecordsNext]_<<scene, vars, reading, batching, indexing, paging, filing>>
-----------------------------------------------------------------------------
\* The types of all modules: what is known, found and counted is of the tables.
RecordTypes ==
    /\ scene = "queries" => TypeOK
    /\ scene = "graphs" => Reads!TypeOK
    /\ scene = "batches" => Batches!TypeOK
    /\ scene = "indexes" => Alone!TypeOK
    /\ scene = "overlaps" => Overlaps!TypeOK
    /\ scene = "pages" => Pages!TypeOK
    /\ scene = "sqlite" => Files!TypeOK
    /\ scene = "rollback" => Rollbacks!TypeOK
    /\ scene = "mongo" => Mongo!TypeOK
    /\ scene = "sessions" => Sessions!TypeOK
    /\ scene = "options" => Options!TypeOK

\* SQLite and PostgreSQL select what QueryEngine.match does, of records of the
\* query's types (db/_sqlite_translate.py:157, db/_postgres_translate.py:250), and
\* filters of nodes too; by join, scan, batch, hops or a recursive query the same
\* neighbours of a node are found (core/entities/node.py:686, db/postgres.py:1641).
SelectsSame == /\ scene = "queries" => SqliteAgrees /\ PgAgrees /\ CriteriaAgree
               /\ scene = "graphs" => Reads!ReadsAgree(c1)

\* A bulk call of DynamoDB that returns has dealt with every record, unless the
\* service left it unprocessed each time (db/dynamodb.py:760, 658).  In a file of
\* SQLite is what a call returned for, though others are cancelled, raise or
\* close the connection; a batch that raised left nothing, and an index that is
\* remembered is there (db/sqlite.py:493, 589, 430).  In MongoDB a record holds
\* what the last call or transaction to return wrote, or one that is under way,
\* though calls are repeated; an index noted as created is there (db/mongodb.py:221,
\* 692, db/transaction.py:218).
BatchesKept == /\ scene = "batches" => Batches!BatchesKept
               /\ scene = "sqlite" => Files!SavedKept /\ Files!IndexThere
               /\ scene = "rollback" => Rollbacks!SavedKept /\ Rollbacks!BatchWhole
               /\ scene = "mongo" => Mongo!SavedKept
               /\ scene = "sessions" => Sessions!SavedKept
               /\ scene = "options" => Options!IndexThere

\* By index, filter or scan, however the pages are cut, a find that no write
\* overlapped returns the matching records in their order, and one that writes
\* overlapped none twice (db/dynamodb.py:1191).  A reader that goes on from the last
\* record misses none, and reads none twice, of the records that did not change
\* meanwhile (db/database.py:361).
FindsMatching == /\ scene = "indexes" => Alone!FindsMatching /\ Alone!NoneTwice
                 /\ scene = "overlaps" => Overlaps!FindsMatching /\ Overlaps!NoneTwice
                 /\ scene = "pages" => Pages!PagesComplete
=============================================================================
