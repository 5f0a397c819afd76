------------------------------ MODULE DynamoFind ------------------------------
(***************************************************************************)
(* Records and secondary indexes of the DynamoDB adapter (db/dynamodb.py)  *)
(* on one table: put and deleted one by one, with an attribute for each    *)
(* field that the adapter of the process knows to be indexed, and found or *)
(* counted by an index or a scan, page by page.  The service answers every *)
(* request from the table as it is then.                                   *)
(***************************************************************************)
EXTENDS Naturals, Sequences, SequencesExt, FiniteSets

CONSTANTS Callers, AdapterOf,   \* coroutines, and the adapter each one uses
          MaxId,                \* ids are 1..MaxId, in the order of the sort key
          Datas,                \* records: functions from fields to values
          Queries,              \* equalities: functions from some fields to values
          Limits,               \* limits of find, 0 for none
          Indexed,              \* the fields that may be indexed
          None,
          MaxPuts               \* bound: puts and deletes begun

Assumptions ==
    /\ {MaxId, MaxPuts} \subseteq Nat /\ Limits \subseteq Nat
    /\ \A d \in Datas : Indexed \subseteq DOMAIN d
    /\ \A q \in Queries, d \in Datas : DOMAIN q \subseteq DOMAIN d

Ids == 1..MaxId
Adapters == {AdapterOf[c] : c \in Callers}

VARIABLES table,        \* the items: the record, and the fields it has attributes for
          gsis,         \* GlobalSecondaryIndexes: "none", "creating", "active"
          known,        \* _indexed_fields, {None} before the table is looked up
          call,         \* per caller: the call it makes
          puts

vars == <<table, gsis, known, call, puts>>

NoItem == [data |-> None, marks |-> {}]
Resting == [op |-> "none", at |-> "done", id |-> 1, item |-> NoItem, q |-> << >>, limit |-> 0,
            last |-> FALSE, via |-> None, filter |-> {}, pos |-> 0, found |-> << >>, calm |-> TRUE]

TypeOK ==
    /\ \A i \in Ids : table[i].data \in Datas \cup {None} /\ table[i].marks \subseteq Indexed
    /\ gsis \in [Indexed -> {"none", "creating", "active"}]
    /\ \A a \in Adapters : known[a] = {None} \/ known[a] \subseteq Indexed
    /\ \A c \in Callers :
        /\ call[c].op \in {"none", "save", "delete", "find", "count"}
        /\ call[c].at \in {"done", "put", "page", "error"}
        /\ call[c].pos \in 0..MaxId /\ call[c].found \in Seq(Ids)
        /\ call[c].via \in Indexed \cup {None} /\ call[c].filter \subseteq Indexed
    /\ puts \in 0..MaxPuts

Init ==
    /\ table = [i \in Ids |-> NoItem] /\ gsis = [f \in Indexed |-> "none"]
    /\ known = [a \in Adapters |-> {None}] /\ call = [c \in Callers |-> Resting]
    /\ puts = 0
-----------------------------------------------------------------------------
(* _ensure_table_exists: the first use of the table finds its indexes.     *)
_ensure_table_exists(a) ==
    /\ known[a] = {None}
    /\ known' = [known EXCEPT ![a] = {f \in Indexed : gsis[f] # "none"}]
    /\ UNCHANGED <<table, gsis, call, puts>>

(* create_index adds the index to the table; the items stay as they are.   *)
create_index(a, f) ==
    /\ known[a] # {None} /\ f \notin known[a]
    /\ known' = [known EXCEPT ![a] = @ \cup {f}]
    /\ gsis' = [gsis EXCEPT ![f] = IF @ = "none" THEN "creating" ELSE @]
    /\ UNCHANGED <<table, call, puts>>

Activate(f) ==
    /\ gsis[f] = "creating" /\ gsis' = [gsis EXCEPT ![f] = "active"]
    /\ UNCHANGED <<table, known, call, puts>>

KnownTo(c) == known[AdapterOf[c]]
Ready(c) == call[c].at \in {"done", "error"} /\ KnownTo(c) # {None}

(* The attributes of an item are made before it is put.                    *)
_extract_indexed_fields(c) == KnownTo(c)

save(c, i, d) ==
    /\ Ready(c) /\ puts < MaxPuts /\ puts' = puts + 1
    /\ call' = [call EXCEPT ![c] = [Resting EXCEPT !.op = "save", !.at = "put", !.id = i,
                  !.item = [data |-> d, marks |-> _extract_indexed_fields(c)]]]
    /\ UNCHANGED <<table, gsis, known>>

delete(c, i) ==
    /\ Ready(c) /\ puts < MaxPuts /\ puts' = puts + 1
    /\ call' = [call EXCEPT ![c] = [Resting EXCEPT !.op = "delete", !.at = "put", !.id = i]]
    /\ UNCHANGED <<table, gsis, known>>

Put(c) ==
    /\ call[c].at = "put"
    /\ table' = [table EXCEPT ![call[c].id] = call[c].item]
    /\ call' = [d \in Callers |-> IF d = c THEN Resting ELSE [call[d] EXCEPT !.calm = FALSE]]
    /\ UNCHANGED <<gsis, known, puts>>
-----------------------------------------------------------------------------
(* find, and count, which reads the pages of the same request and adds up  *)
(* their counts: by the index of one of the fields asked for, if the       *)
(* adapter knows one, else by a scan; the other fields with an attribute   *)
(* are in the filter of the request.  A limit is sent with every page,     *)
(* unless the result is to be sorted.                                      *)
Needed(c) == DOMAIN call[c].q
PushedAll(c, q, via) == DOMAIN q \ {via}   \* mutant of Pushed: fields with no attribute as well
Pushed(c, q, via) == (DOMAIN q \cap KnownTo(c)) \ {via}

Begin(c, op, q, limit, last) ==
    /\ Ready(c)
    /\ \E via \in IF DOMAIN q \cap KnownTo(c) = {} THEN {None} ELSE DOMAIN q \cap KnownTo(c) :
        call' = [call EXCEPT ![c] = [Resting EXCEPT !.op = op, !.at = "page", !.q = q,
                   !.limit = limit, !.last = last, !.via = via, !.filter = Pushed(c, q, via)]]
    /\ UNCHANGED <<table, gsis, known, puts>>

find(c, q, limit, last) == Begin(c, "find", q, limit, last)
count(c, q) == Begin(c, "count", q, 0, FALSE)

Has(i, f, v) == table[i].data # None /\ f \in table[i].marks /\ table[i].data[f] = v

(* What the service reads: in an index, the items that have its attribute. *)
Evaluated(c, from, to) ==
    {i \in (from + 1)..to : /\ table[i].data # None
                            /\ call[c].via # None => Has(i, call[c].via, call[c].q[call[c].via])}
(* What it returns, and what is kept of that: the record itself is matched *)
(* only if the request had no filter.                                      *)
Answered(c, i) == \A f \in call[c].filter : Has(i, f, call[c].q[f])
match(i, q) == table[i].data # None /\ \A f \in DOMAIN q : table[i].data[f] = q[f]
Kept(c, i) == Answered(c, i) /\ (call[c].filter = {} => match(i, call[c].q))

Fetch(c) == IF call[c].last THEN 0 ELSE call[c].limit
Room(c) == Fetch(c) - Len(call[c].found)
Ascending(ids) == SetToSortSeq(ids, LAMBDA i, j : i < j)

finalize_find_results(c, ids) ==        \* sorted by the id backwards, if it is to be sorted
    LET all == IF call[c].last THEN Reverse(ids) ELSE ids
    IN IF call[c].limit > 0 /\ Len(all) > call[c].limit THEN SubSeq(all, 1, call[c].limit) ELSE all

(* A page ends where the service likes, but reads no more than its limit.  *)
Page(c) ==
    /\ call[c].at = "page" /\ (call[c].via # None => gsis[call[c].via] = "active")
    /\ \E to \in call[c].pos..MaxId :
        LET ids == Evaluated(c, call[c].pos, to)
            found == call[c].found \o Ascending({i \in ids : Kept(c, i)})
            more == to < MaxId /\ (Fetch(c) > 0 => Len(found) < Fetch(c))
        IN /\ Fetch(c) > 0 => Cardinality(ids) <= Room(c)
           /\ to > call[c].pos \/ to = MaxId
           /\ call' = [call EXCEPT ![c].pos = to, ![c].at = IF more THEN "page" ELSE "done",
                 ![c].found = IF more THEN found ELSE finalize_find_results(c, found)]
    /\ UNCHANGED <<table, gsis, known, puts>>

(* An index that is still being built: the error is not a ClientError any  *)
(* more when find could fall back to a scan.  Any request may raise.       *)
Fail(c) ==
    /\ call[c].at = "page"
    /\ call' = [call EXCEPT ![c] = [Resting EXCEPT !.at = "error"]]
    /\ UNCHANGED <<table, gsis, known, puts>>

Next ==
    \/ \E a \in Adapters : _ensure_table_exists(a) \/ \E f \in Indexed : create_index(a, f)
    \/ \E f \in Indexed : Activate(f)
    \/ \E c \in Callers :
        \/ \E i \in Ids : delete(c, i) \/ \E d \in Datas : save(c, i, d)
        \/ \E q \in Queries : \/ count(c, q)
                              \/ \E limit \in Limits, last \in BOOLEAN : find(c, q, limit, last)
        \/ Put(c) \/ Page(c) \/ Fail(c)

Spec == Init /\ [][Next]_vars
-----------------------------------------------------------------------------
Found(c) == call[c].op \in {"find", "count"} /\ call[c].at = "done"

(* Records that the query's index fields do not find: saved by an adapter  *)
(* that did not know them.                                                 *)
Unmarked(c) == {i \in Ids : ~((Needed(c) \cap Indexed) \subseteq table[i].marks)}
(* Every field was in the request, or the record itself was matched.       *)
Checked(c) == call[c].filter = {} \/ Needed(c) = call[c].filter \cup {call[c].via}

Reference(c) ==
    LET ids == Ascending({i \in Ids : match(i, call[c].q)})
        all == IF call[c].last THEN Reverse(ids) ELSE ids
    IN IF call[c].limit > 0 /\ Len(all) > call[c].limit THEN SubSeq(all, 1, call[c].limit) ELSE all

\* A find or count that no put or delete overlapped is the same by index, by
\* filter or by scan, however the pages are cut: the records that match, each
\* once, and with a limit the first of them in the order asked for
\* (dynamodb.py:1191, 1010), provided that every record was saved when its
\* process knew the index, and that no field was left to check.
FindsMatching ==
    \A c \in Callers : Found(c) /\ call[c].calm /\ Checked(c)
                       /\ (call[c].via # None => \A i \in Ids : table[i].data # None => i \notin Unmarked(c)) =>
        call[c].found = Reference(c)

\* However many writes overlap it, no record is returned twice, and no more
\* records than the limit.
NoneTwice ==
    \A c \in Callers : Found(c) =>
        /\ IsInjective(call[c].found)
        /\ call[c].limit > 0 => Len(call[c].found) <= call[c].limit

\* "Find records matching a query" (dynamodb.py:1096).
FindMatchesOnly ==
    \A c \in Callers : Found(c) /\ call[c].calm =>
        \A k \in DOMAIN call[c].found : match(call[c].found[k], call[c].q)
=============================================================================
