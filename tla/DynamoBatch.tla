----------------------------- MODULE DynamoBatch ------------------------------
(***************************************************************************)
(* bulk_save and find_many of the DynamoDB adapter (db/dynamodb.py): the   *)
(* records are sent in batches side by side, of each of which the service  *)
(* may leave a part unprocessed.  That part is sent again, three times     *)
(* when writing and once when reading.                                     *)
(***************************************************************************)
EXTENDS Naturals, FiniteSets

CONSTANTS Callers,
          MaxId,            \* ids are 1..MaxId
          BatchSize,        \* 25 for writes, 100 for reads
          Faults            \* a request may raise, after its own retries

Assumptions == /\ {MaxId, BatchSize} \subseteq Nat \ {0} /\ Faults \in BOOLEAN

Ids == 1..MaxId
BatchOf(i) == (i - 1) \div BatchSize
Batches == {BatchOf(i) : i \in Ids}

VARIABLES table,            \* the ids in the table
          asked,            \* per caller: the ids of its call
          op,               \* "none", "bulk_save", "find_many"
          left,             \* the ids whose request was not processed yet
          tries,            \* the requests sent, per batch
          got,              \* find_many: the records returned
          told,             \* how the call ended: "none" while it runs, "ok", "error"
          refused,          \* history: how often the service left an id unprocessed
          saved             \* history: what a call has written, or seen in the table all along

vars == <<table, asked, op, left, tries, got, told, refused, saved>>

TypeOK ==
    /\ table \subseteq Ids
    /\ op \in [Callers -> {"none", "bulk_save", "find_many"}]
    /\ {asked, left, got, saved} \subseteq [Callers -> SUBSET Ids]
    /\ tries \in [Callers -> [Batches -> 0..4]] /\ refused \in [Callers -> [Ids -> 0..4]]
    /\ told \in [Callers -> {"none", "ok", "error"}]

Init ==
    /\ table = {} /\ op = [c \in Callers |-> "none"] /\ told = [c \in Callers |-> "ok"]
    /\ asked = [c \in Callers |-> {}] /\ left = asked /\ got = asked /\ saved = asked
    /\ tries = [c \in Callers |-> [b \in Batches |-> 0]]
    /\ refused = [c \in Callers |-> [i \in Ids |-> 0]]
-----------------------------------------------------------------------------
MaxTries(kind) == IF kind = "bulk_save" THEN 4 ELSE 2

Part(c, b) == {i \in left[c] : BatchOf(i) = b}
Open(c, b) == Part(c, b) # {} /\ tries[c][b] < MaxTries(op[c])
Idle(c) == told[c] # "none" /\ \A b \in Batches : ~Open(c, b)

Call(c, kind, ids) ==
    /\ Idle(c) /\ ids # {}
    /\ op' = [op EXCEPT ![c] = kind] /\ told' = [told EXCEPT ![c] = "none"]
    /\ asked' = [asked EXCEPT ![c] = ids] /\ left' = [left EXCEPT ![c] = ids]
    /\ got' = [got EXCEPT ![c] = {}]
    /\ tries' = [tries EXCEPT ![c] = [b \in Batches |-> 0]]
    /\ refused' = [refused EXCEPT ![c] = [i \in Ids |-> 0]]
    /\ saved' = [saved EXCEPT ![c] = IF kind = "bulk_save" THEN {} ELSE ids \cap table]
    /\ UNCHANGED table

bulk_save(c, ids) == Call(c, "bulk_save", ids)
find_many(c, ids) == Call(c, "find_many", ids)

(* A request for what is left of a batch.                                  *)
UnprocessedNone(c, b, done) == {i \in left[c] : BatchOf(i) # b}  \* mutant: UnprocessedItems is not read
Unprocessed(c, b, done) == left[c] \ done

batch_write(c, b) ==
    /\ op[c] = "bulk_save" /\ Open(c, b)
    /\ \E done \in SUBSET Part(c, b) :
        /\ table' = table \cup done
        /\ left' = [left EXCEPT ![c] = Unprocessed(c, b, done)]
        /\ saved' = [saved EXCEPT ![c] = @ \cup done]
        /\ refused' = [refused EXCEPT ![c] =
             [i \in Ids |-> IF i \in Part(c, b) \ done THEN @[i] + 1 ELSE @[i]]]
    /\ tries' = [tries EXCEPT ![c][b] = @ + 1]
    /\ UNCHANGED <<asked, op, got, told>>

batch_get(c, b) ==
    /\ op[c] = "find_many" /\ Open(c, b)
    /\ \E done \in SUBSET Part(c, b) :
        /\ got' = [got EXCEPT ![c] = @ \cup (done \cap table)]
        /\ left' = [left EXCEPT ![c] = Unprocessed(c, b, done)]
        /\ refused' = [refused EXCEPT ![c] =
             [i \in Ids |-> IF i \in Part(c, b) \ done THEN @[i] + 1 ELSE @[i]]]
    /\ tries' = [tries EXCEPT ![c][b] = @ + 1]
    /\ UNCHANGED <<table, asked, op, told, saved>>

(* A request that raises ends its batch and the call; the other batches,   *)
(* which run on their own, go on.                                          *)
Raises(c, b) ==
    /\ Faults /\ Open(c, b)
    /\ tries' = [tries EXCEPT ![c][b] = MaxTries(op[c])]
    /\ told' = [told EXCEPT ![c] = IF @ = "none" THEN "error" ELSE @]
    /\ UNCHANGED <<table, asked, op, left, got, refused, saved>>

(* When no batch is left to send, the call returns; what was never         *)
(* processed is logged when writing, and dropped when reading.             *)
Return(c) ==
    /\ told[c] = "none" /\ \A b \in Batches : ~Open(c, b)
    /\ told' = [told EXCEPT ![c] = "ok"]
    /\ UNCHANGED <<table, asked, op, left, tries, got, refused, saved>>

delete(i) ==
    /\ i \in table /\ table' = table \ {i}
    /\ saved' = [c \in Callers |-> IF op[c] = "find_many" THEN saved[c] \ {i} ELSE saved[c]]
    /\ UNCHANGED <<asked, op, left, tries, got, told, refused>>

Next ==
    \/ \E c \in Callers :
        \/ \E ids \in SUBSET Ids : bulk_save(c, ids) \/ find_many(c, ids)
        \/ \E b \in Batches : batch_write(c, b) \/ batch_get(c, b) \/ Raises(c, b)
        \/ Return(c)
    \/ \E i \in Ids : delete(i)

Spec == Init /\ [][Next]_vars
-----------------------------------------------------------------------------
Done(c) == op[c] # "none" /\ told[c] = "ok"

\* A call that returns has dealt with each of its records, in whichever batch,
\* unless the service left that one unprocessed in every request: four times
\* for a save, twice for a read (dynamodb.py:760, 658).
BatchesKept ==
    \A c \in Callers : Done(c) =>
        /\ \A i \in asked[c] :
            \/ refused[c][i] = (IF op[c] = "bulk_save" THEN 4 ELSE 2)
            \/ op[c] = "bulk_save" /\ i \in saved[c]
            \/ op[c] = "find_many" /\ (i \in saved[c] => i \in got[c])
        /\ got[c] \subseteq asked[c]

\* "Raises: DatabaseError: If batch write fails after retries"
\* (dynamodb.py:704): a bulk_save that does not raise has saved every record.
RaisesWhenLost ==
    \A c \in Callers : Done(c) /\ op[c] = "bulk_save" => asked[c] \subseteq saved[c]
=============================================================================
