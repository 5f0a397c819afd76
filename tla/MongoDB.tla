------------------------------- MODULE MongoDB -------------------------------
(***************************************************************************)
(* The MongoDB adapter (db/mongodb.py) and its transactions                *)
(* (db/transaction.py): tasks of one event loop share a client, which is   *)
(* made on first use, dropped after an error of the connection, and made   *)
(* again in a new event loop.  After such an error, before which the       *)
(* server may have done what it was asked, a call is made once more.  A    *)
(* step is what runs between two awaits, or what the server does.  The     *)
(* n-th call writes the value n, or deletes by writing -n.                 *)
(***************************************************************************)
EXTENDS Integers, FiniteSets

CONSTANTS Tasks, Ids, None,
          Ops,              \* what tasks call
          Replica,          \* the deployment has transactions
          Faults,           \* connections break, the server refuses
          Abandons,         \* tasks may be cancelled
          MaxClients, MaxCalls, MaxLoops    \* bounds

Assumptions ==
    /\ {MaxClients, MaxCalls, MaxLoops} \subseteq Nat /\ {Replica, Faults, Abandons} \subseteq BOOLEAN
    /\ Ops \subseteq {"save", "delete", "find", "bulk", "update", "take", "txn", "index", "deprecated", "close"}
    /\ None \notin Nat \cup Tasks

Clients == 1..MaxClients
Writers == {"save", "delete", "bulk", "update", "take"}
Absent == 0                 \* no record yet
Left == "left"              \* held by a transaction that nobody ends

VARIABLES docs,             \* the records
          held,             \* per record: the task whose transaction has written it
          index,            \* the index: "none", "made", "old" options, or under an "alias"
          client,           \* _client and _db
          made,             \* per client: the loop it was made in, 0 for none
          open,             \* clients that are not closed
          probe,            \* _transactional_probe: "unknown", "yes", "no"
          created,          \* the index is among _created_indexes
          loop, call, calls,
          must              \* history: what a record may hold, by the calls that ended

server == <<docs, held, index>>
adapter == <<client, made, open, probe, created>>
vars == <<server, adapter, loop, call, calls, must>>

Resting == [op |-> "none", pc |-> "done", n |-> 0, id |-> None, tries |-> 0, client |-> None,
            todo |-> {}, got |-> FALSE, times |-> 0, old |-> [i \in Ids |-> {}]]

TypeOK ==
    /\ docs \in [Ids -> (-MaxCalls)..MaxCalls] /\ held \in [Ids -> Tasks \cup {None, Left}]
    /\ index \in {"none", "made", "old", "alias"} /\ probe \in {"unknown", "yes", "no"}
    /\ client \in Clients \cup {None} /\ made \in [Clients -> 0..MaxLoops] /\ open \subseteq Clients
    /\ created \in BOOLEAN /\ loop \in 1..MaxLoops /\ calls \in 0..MaxCalls
    /\ \A t \in Tasks : /\ call[t].op \in Ops \cup {"none"} /\ call[t].tries \in 0..2
                        /\ call[t].client \in Clients \cup {None} /\ call[t].todo \subseteq Ids
    /\ must \in [Ids -> SUBSET ((-MaxCalls)..MaxCalls)]

Init ==
    /\ docs = [i \in Ids |-> Absent] /\ held = [i \in Ids |-> None]
    /\ index \in IF "index" \in Ops THEN {"none", "made", "old", "alias"} ELSE {"none"}
    /\ client = None /\ made = [c \in Clients |-> 0] /\ open = {}
    /\ probe = "unknown" /\ created = FALSE
    /\ loop = 1 /\ call = [t \in Tasks |-> Resting] /\ calls = 0
    /\ must = [i \in Ids |-> {Absent}]
-----------------------------------------------------------------------------
At(t, pc) == call[t].pc = pc
Go(t, pc) == call' = [call EXCEPT ![t].pc = pc]
End(t) == call' = [call EXCEPT ![t] = Resting]
Value(t) == IF call[t].op \in {"delete", "take"} THEN -call[t].n ELSE call[t].n
Targets(op, i) == IF op = "bulk" THEN Ids ELSE {i}
Lost(t) == Faults \/ call[t].client \notin open   \* an error of the connection is possible

(* What a record may hold and a call that begins now overwrites: nothing   *)
(* that a call under way may still write.                                  *)
UnderWay == {Value(t) : t \in {u \in Tasks : ~At(u, "done")}}
Overwritten(t, ids) == [i \in Ids |-> IF i \in ids THEN must[i] \ call[t].old[i] ELSE must[i]]

Begin(t, op, i) ==
    /\ At(t, "done") /\ op \in Ops \ {"close", "deprecated"} /\ calls < MaxCalls
    /\ calls' = calls + 1
    /\ call' = [call EXCEPT ![t] = [Resting EXCEPT
                   !.op = op, !.pc = "connect", !.n = calls + 1, !.id = i,
                   !.todo = IF op = "bulk" THEN Ids ELSE {},
                   !.old = [j \in Ids |-> must[j] \ UnderWay]]]
    /\ must' = [j \in Ids |-> IF op \in Writers /\ j \in Targets(op, i)
                              THEN must[j] \cup {IF op \in {"delete", "take"} THEN -calls - 1 ELSE calls + 1}
                              ELSE must[j]]
    /\ UNCHANGED <<server, adapter, loop>>

(* _ensure_connected: the client of this loop, or a new one; that of       *)
(* another loop is closed.                                                 *)
Makes(c) ==
    /\ made[c] = 0 /\ \A d \in 1..(c - 1) : made[d] # 0
    /\ client' = c /\ made' = [made EXCEPT ![c] = loop]
_ensure_connected(c) ==
    IF client # None /\ made[client] = loop
    THEN c = client /\ UNCHANGED <<client, made, open>>
    ELSE Makes(c) /\ open' = (open \ {client}) \cup {c}

Sends(op) == CASE op = "index" -> "create"
               [] op = "txn" -> IF probe = "unknown" THEN "hello" ELSE IF probe = "yes" THEN "session" ELSE "plain"
               [] OTHER -> "sent"

Connect(t) ==
    /\ At(t, "connect")
    /\ \E c \in Clients :
        /\ _ensure_connected(c)
        /\ IF call[t].op = "index" /\ created THEN End(t)
           ELSE call' = [call EXCEPT ![t].client = c, ![t].pc = Sends(call[t].op), ![t].tries = @ + 1]
    /\ UNCHANGED <<server, probe, created, loop, calls, must>>
-----------------------------------------------------------------------------
(* The server's part of a call; a record that a transaction has written is *)
(* left alone until that ends.                                             *)
Writable(i) == held[i] = None
Finds(t) == docs[call[t].id] > 0
Changes(t) == call[t].op \in {"save", "delete", "bulk"} \/ (call[t].op \in {"update", "take"} /\ Finds(t))

Serve(t) ==
    /\ At(t, "sent") /\ call[t].client \in open /\ call[t].op # "bulk"
    /\ Changes(t) => Writable(call[t].id)
    /\ docs' = IF Changes(t) THEN [docs EXCEPT ![call[t].id] = Value(t)] ELSE docs
    /\ call' = [call EXCEPT ![t].pc = "answer", ![t].got = Finds(t),
                            ![t].times = IF Changes(t) THEN @ + 1 ELSE @]
    /\ UNCHANGED <<held, index, adapter, loop, calls, must>>

ServeNext(t, i) ==                            \* bulk_save, unordered
    /\ At(t, "sent") /\ call[t].client \in open
    /\ i \in call[t].todo /\ Writable(i)
    /\ docs' = [docs EXCEPT ![i] = call[t].n]
    /\ call' = [call EXCEPT ![t].todo = @ \ {i}, ![t].pc = IF call[t].todo = {i} THEN "answer" ELSE "sent"]
    /\ UNCHANGED <<held, index, adapter, loop, calls, must>>

Return(t) ==
    /\ At(t, "answer") /\ call[t].client \in open
    /\ must' = IF call[t].op \in {"save", "delete", "bulk"} \/ (call[t].op \in {"update", "take"} /\ call[t].got)
               THEN Overwritten(t, Targets(call[t].op, call[t].id)) ELSE must
    /\ End(t) /\ UNCHANGED <<server, adapter, loop, calls>>

(* An error of the connection: once more, after a pause in which others    *)
(* may make the new client, or at once.                                    *)
Breaks(t) == call[t].pc \in {"sent", "answer"} /\ Lost(t)

Retry(t) ==
    /\ Breaks(t) /\ call[t].tries = 1 /\ call[t].op \in {"save", "delete", "find"}
    /\ client' = None /\ Go(t, "connect")
    /\ UNCHANGED <<server, made, open, probe, created, loop, calls, must>>

RetryAtOnce(t) ==
    /\ Breaks(t) /\ call[t].tries = 1 /\ call[t].op \in {"bulk", "update", "take"}
    /\ \E c \in Clients :
        /\ Makes(c) /\ open' = open \cup {c}
        /\ call' = [call EXCEPT ![t].client = c, ![t].tries = 2, ![t].pc = "sent",
                                ![t].todo = IF call[t].op = "bulk" THEN Ids ELSE {}]
    /\ UNCHANGED <<server, probe, created, loop, calls, must>>

GiveUp(t) ==
    /\ Breaks(t) /\ call[t].tries = 2
    /\ End(t) /\ UNCHANGED <<server, adapter, loop, calls, must>>

BreakSwallowed(t) ==                          \* mutant of Refuse: the error is taken for an answer
    /\ At(t, "sent") /\ Lost(t)
    /\ Go(t, "answer") /\ UNCHANGED <<server, adapter, loop, calls, must>>
Refuse(t) ==                                  \* any other error
    /\ At(t, "sent") /\ Lost(t)
    /\ End(t) /\ UNCHANGED <<server, adapter, loop, calls, must>>

close(t) ==
    /\ At(t, "done") /\ "close" \in Ops /\ client # None
    /\ open' = open \ {client} /\ client' = None /\ created' = FALSE
    /\ UNCHANGED <<server, made, probe, loop, call, calls, must>>
-----------------------------------------------------------------------------
(* transaction_context: is_transactional asks the server once and keeps    *)
(* the answer; with no transaction the caller writes without one.          *)
Hello(t) ==
    /\ At(t, "hello")
    /\ \/ probe' = (IF Replica THEN "yes" ELSE "no")
       \/ Lost(t) /\ probe' = "no"
    /\ Go(t, IF probe' = "yes" THEN "session" ELSE "plain")
    /\ UNCHANGED <<server, client, made, open, created, loop, calls, must>>

Session(t) ==
    /\ At(t, "session")
    /\ \/ /\ client # None /\ client \in open
          /\ call' = [call EXCEPT ![t].pc = "body", ![t].client = client] /\ UNCHANGED probe
       \/ (client = None \/ Faults) /\ probe' = "no" /\ Go(t, "plain")
    /\ UNCHANGED <<server, client, made, open, created, loop, calls, must>>

NoTransaction(t) ==
    At(t, "plain") /\ End(t) /\ UNCHANGED <<server, adapter, loop, calls, must>>

(* The handle's save names the session.                                    *)
HandleSave(t, i) ==
    /\ At(t, "body") /\ i \notin call[t].todo
    /\ call' = [call EXCEPT ![t].pc = "put", ![t].id = i]
    /\ UNCHANGED <<server, adapter, loop, calls, must>>

PutPlain(t) ==                                \* mutant of Put: without the session
    /\ At(t, "put") /\ call[t].client \in open /\ held[call[t].id] = None
    /\ docs' = [docs EXCEPT ![call[t].id] = call[t].n]
    /\ call' = [call EXCEPT ![t].pc = "body", ![t].todo = @ \cup {call[t].id}]
    /\ UNCHANGED <<held, index, adapter, loop, calls, must>>
Put(t) ==
    /\ At(t, "put") /\ call[t].client \in open /\ held[call[t].id] = None
    /\ held' = [held EXCEPT ![call[t].id] = t]
    /\ call' = [call EXCEPT ![t].pc = "body", ![t].todo = @ \cup {call[t].id}]
    /\ UNCHANGED <<docs, index, adapter, loop, calls, must>>

BodyRaises(t) ==                              \* a conflict, or any other error
    /\ call[t].pc \in {"put", "body"} /\ Go(t, "abort") /\ UNCHANGED <<server, adapter, loop, calls, must>>

Leave(t) ==
    /\ At(t, "body") /\ Go(t, "commit")
    /\ must' = [i \in Ids |-> IF i \in call[t].todo THEN must[i] \cup {call[t].n} ELSE must[i]]
    /\ UNCHANGED <<server, adapter, loop, calls>>

Freed(t, holder) == [i \in Ids |-> IF held[i] = t THEN holder ELSE held[i]]

CommitTransaction(t) ==
    /\ At(t, "commit") /\ call[t].client \in open
    /\ docs' = [i \in Ids |-> IF held[i] = t THEN call[t].n ELSE docs[i]]
    /\ held' = Freed(t, None) /\ Go(t, "committed")
    /\ UNCHANGED <<index, adapter, loop, calls, must>>

Committed(t) ==
    /\ At(t, "committed") /\ call[t].client \in open
    /\ must' = Overwritten(t, call[t].todo)
    /\ End(t) /\ UNCHANGED <<server, adapter, loop, calls>>

(* After a commit that raised, the rollback raises too.                    *)
CommitRaises(t) ==
    /\ call[t].pc \in {"commit", "committed"} /\ Lost(t)
    /\ held' = Freed(t, Left)
    /\ End(t) /\ UNCHANGED <<docs, index, adapter, loop, calls, must>>

Rollback(t) ==
    /\ At(t, "abort")
    /\ held' \in {Freed(t, None)} \cup (IF Lost(t) THEN {Freed(t, Left)} ELSE {})
    /\ End(t) /\ UNCHANGED <<docs, index, adapter, loop, calls, must>>

Expire(i) ==                                  \* the server ends a transaction that lasts
    /\ held[i] = Left /\ held' = [held EXCEPT ![i] = None]
    /\ UNCHANGED <<docs, index, adapter, loop, call, calls, must>>
-----------------------------------------------------------------------------
(* create_index: one of the same name with other options, and one of       *)
(* another name with the same keys, are dropped.                           *)
CreateIndex(t) ==
    /\ call[t].pc \in {"create", "again"} /\ call[t].client \in open
    /\ IF index \in {"none", "made"} THEN index' = "made" /\ Go(t, "note")
       ELSE /\ UNCHANGED index
            /\ IF At(t, "again") THEN End(t) ELSE Go(t, IF index = "old" THEN "drop" ELSE "info")
    /\ UNCHANGED <<docs, held, adapter, loop, calls, must>>

DropIndex(t) ==
    /\ At(t, "drop") /\ call[t].client \in open
    /\ index' = IF index \in {"old", "made"} THEN "none" ELSE index
    /\ Go(t, "again") /\ UNCHANGED <<docs, held, adapter, loop, calls, must>>

FindAlias(t) ==
    /\ At(t, "info") /\ Go(t, IF index = "alias" THEN "alias" ELSE "again")
    /\ UNCHANGED <<server, adapter, loop, calls, must>>

DropAlias(t) ==
    /\ At(t, "alias") /\ call[t].client \in open
    /\ IF index = "alias" THEN index' = "none" /\ Go(t, "again") ELSE End(t) /\ UNCHANGED index
    /\ UNCHANGED <<docs, held, adapter, loop, calls, must>>

NotedEarly(t) ==                              \* mutant of Noted: noted before it is made
    /\ At(t, "create") /\ created' = TRUE
    /\ UNCHANGED <<server, client, made, open, probe, loop, call, calls, must>>
Noted(t) ==
    /\ At(t, "note") /\ call[t].client \in open /\ created' = TRUE
    /\ End(t) /\ UNCHANGED <<server, client, made, open, probe, loop, calls, must>>

Indexing == {"create", "drop", "info", "alias", "again", "note"}
IndexRaises(t) ==
    /\ call[t].pc \in Indexing /\ Lost(t)
    /\ End(t) /\ UNCHANGED <<server, adapter, loop, calls, must>>

drop_deprecated_indexes(t) ==                 \* the index had another name before
    /\ At(t, "done") /\ "deprecated" \in Ops /\ index = "alias" /\ index' = "none"
    /\ UNCHANGED <<docs, held, adapter, loop, call, calls, must>>
-----------------------------------------------------------------------------
(* A task that is cancelled ends no transaction.  What the server was sent *)
(* it has done by then, or never does, as when a connection breaks.        *)
Cancel(t) ==
    /\ Abandons /\ ~At(t, "done")
    /\ held' = Freed(t, Left) /\ End(t)
    /\ UNCHANGED <<docs, index, adapter, loop, calls, must>>

NewLoop ==                                    \* the tasks of the old loop are gone
    /\ loop < MaxLoops /\ loop' = loop + 1
    /\ call' = [t \in Tasks |-> Resting]
    /\ held' = [i \in Ids |-> IF held[i] = None THEN None ELSE Left]
    /\ UNCHANGED <<docs, index, adapter, calls, must>>

Next ==
    \/ NewLoop
    \/ \E i \in Ids : Expire(i)
    \/ \E t \in Tasks :
        \/ \E op \in Ops, i \in Ids : Begin(t, op, i)
        \/ \E i \in Ids : ServeNext(t, i) \/ HandleSave(t, i)
        \/ Connect(t) \/ Serve(t) \/ Return(t) \/ Retry(t) \/ RetryAtOnce(t) \/ GiveUp(t)
        \/ Refuse(t) \/ close(t)
        \/ Hello(t) \/ Session(t) \/ NoTransaction(t) \/ Put(t) \/ BodyRaises(t) \/ Leave(t)
        \/ CommitTransaction(t) \/ Committed(t) \/ CommitRaises(t) \/ Rollback(t)
        \/ CreateIndex(t) \/ DropIndex(t) \/ FindAlias(t) \/ DropAlias(t) \/ Noted(t)
        \/ IndexRaises(t) \/ drop_deprecated_indexes(t) \/ Cancel(t)

Spec == Init /\ [][Next]_vars
-----------------------------------------------------------------------------
\* A record holds what the last call wrote that returned, or a call that no
\* later one returned over: what a transaction wrote is there from its commit
\* on, and retries bring nothing back (db/mongodb.py:221, db/transaction.py:218).
SavedKept == \A i \in Ids : docs[i] \in must[i]

\* An index that is noted as created is there, while nobody creates it.
IndexThere == created /\ (\A t \in Tasks : call[t].pc \notin Indexing) => index = "made"

\* LIMIT: an update is applied once (find_one_and_update is sent again, mongodb.py:552).
AppliedOnce == \A t \in Tasks : call[t].op = "update" => call[t].times <= 1

\* LIMIT: a call that deletes a record returns it (find_one_and_delete, mongodb.py:455).
TakenTold == \A t \in Tasks : call[t].op = "take" /\ At(t, "answer") /\ call[t].times > 0 => call[t].got

\* LIMIT: the adapter keeps one client (_drop_connection_on_retry closes none, mongodb.py:218).
OneClient == Cardinality(open) <= 1

\* LIMIT: a deployment with transactions is known as one (mongodb.py:771).
ProbeRight == Replica => probe # "no"
=============================================================================
