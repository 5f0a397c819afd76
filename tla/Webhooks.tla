------------------------------ MODULE Webhooks -------------------------------
(***************************************************************************)
(* Deliveries of one webhook with one idempotency key (api/integrations/   *)
(* webhooks/middleware.py, utils.py, models.py).  A delivery is answered   *)
(* from a record marked processed, or handled.  The middleware itself      *)
(* stores no response: what call_next returns is a stream, and no record   *)
(* is there to mark.  A handler may do it with the functions of models.py  *)
(* and utils.py.  Records are read and saved whole, with awaits between.   *)
(***************************************************************************)
EXTENDS Naturals, Sequences, FiniteSets

CONSTANTS Deliveries,     \* requests
          StoringHandler, \* the handler makes the record, and stores the response
          Async,          \* async_processing, outside serverless mode
          Faults,         \* database calls about keys, and handlers, may raise
          MaxRecords,     \* bound: records made for the key
          MaxRepeats      \* bound: how often each request is delivered again

Assumptions == /\ {StoringHandler, Async, Faults} \subseteq BOOLEAN
               /\ {MaxRecords, MaxRepeats} \subseteq Nat

VARIABLES records,        \* WebhookIdempotencyKey: processed?, expired?
          memory,         \* the fallback cache has a response: "none", "fresh", "old"
          at,             \* per request: where its delivery is
          copy,           \* the record it read: its place, and whether it was processed
          repeats,
          handled,        \* history: deliveries handled to the end
          stored,         \* history: a response is stored, no older copy is to be saved
          late            \* history: requests delivered when a response was stored

vars == <<records, memory, at, copy, repeats, handled, stored, late>>

Places == {"new", "check", "handle", "read", "save", "work", "mark", "marked", "answered"}

Made == {records[i].made : i \in DOMAIN records}

TypeOK ==
    /\ Cardinality(Made) = Len(records)
    /\ records \in Seq([done : BOOLEAN, old : BOOLEAN, made : 1..MaxRecords])
    /\ memory \in {"none", "fresh", "old"}
    /\ at \in [Deliveries -> Places] /\ copy \in [Deliveries -> [made : 0..MaxRecords, done : BOOLEAN]]
    /\ repeats \in [Deliveries -> 0..MaxRepeats]
    /\ handled \in [Deliveries -> 0..(MaxRepeats + 1)]
    /\ stored \in BOOLEAN /\ late \subseteq Deliveries

NoCopy == [made |-> 0, done |-> FALSE]

Init ==
    /\ records = << >> /\ memory = "none"
    /\ at = [d \in Deliveries |-> "new"] /\ copy = [d \in Deliveries |-> NoCopy]
    /\ repeats = [d \in Deliveries |-> 0] /\ handled = [d \in Deliveries |-> 0]
    /\ stored = FALSE /\ late = {}
-----------------------------------------------------------------------------
GoesOn(d, place) == at' = [at EXCEPT ![d] = place]

Deliver(d) ==
    /\ at[d] = "new" \/ (at[d] = "answered" /\ repeats[d] < MaxRepeats)
    /\ GoesOn(d, "check")
    /\ repeats' = IF at[d] = "new" THEN repeats ELSE [repeats EXCEPT ![d] = @ + 1]
    /\ late' = IF stored THEN late \cup {d} ELSE late \ {d}
    /\ UNCHANGED <<records, memory, copy, handled, stored>>

ProcessedNot == \E i \in DOMAIN records : records[i].done /\ ~records[i].old   \* mutant of Processed
Processed == \E i \in DOMAIN records : records[i].done

(* check_idempotency: any record marked processed, expired or not; on an   *)
(* error the cache in memory.                                              *)
check_idempotency(d) ==
    /\ at[d] = "check"
    /\ \/ GoesOn(d, IF Processed THEN "answered" ELSE "handle") /\ UNCHANGED memory
       \/ /\ Faults
          /\ memory' = IF memory = "old" THEN "none" ELSE memory
          /\ GoesOn(d, IF memory = "fresh" THEN "answered" ELSE "handle")
    /\ UNCHANGED <<records, copy, repeats, handled, stored, late>>

(* Queued processing: the task's coroutine is not awaited, so it cannot be *)
(* part of the response, and the sender is told of an error.               *)
_queue_async_processing(d) ==
    /\ at[d] = "handle" /\ Async /\ GoesOn(d, "answered")
    /\ UNCHANGED <<records, memory, copy, repeats, handled, stored, late>>

CallHandler(d) ==
    /\ at[d] = "handle" /\ ~Async
    /\ GoesOn(d, IF StoringHandler THEN "read" ELSE "work")
    /\ UNCHANGED <<records, memory, copy, repeats, handled, stored, late>>
-----------------------------------------------------------------------------
(* get_or_create_idempotency_key: the first record of the key is read; it  *)
(* is saved again as it was read, or a new one is saved.                   *)
FirstRecord == IF records = << >> THEN NoCopy
               ELSE [made |-> records[1].made, done |-> records[1].done]
Read(d) ==
    /\ at[d] = "read" /\ GoesOn(d, "save")
    /\ copy' = [copy EXCEPT ![d] = FirstRecord]
    /\ UNCHANGED <<records, memory, repeats, handled, stored, late>>

Again(record) == Append(records, [done |-> record.done, old |-> TRUE, made |-> record.made])
WriteAgain(record) == Again(record)            \* mutant of Write
Write(record) ==                              \* over the one with its id, or again after cleanup
    IF record.made \in Made
    THEN [i \in DOMAIN records |-> IF records[i].made = record.made
                                   THEN [records[i] EXCEPT !.done = record.done] ELSE records[i]]
    ELSE Again(record)

Save(d) ==
    /\ at[d] = "save" /\ GoesOn(d, "work")
    /\ \/ copy[d] # NoCopy /\ records' = Write(copy[d])
       \/ /\ copy[d] = NoCopy
          /\ \E m \in 1..MaxRecords \ Made :
                records' = Append(records, [done |-> FALSE, old |-> FALSE, made |-> m])
    /\ UNCHANGED <<memory, copy, repeats, handled, stored, late>>

(* The handler's own work, which may raise: then nothing is stored.        *)
Work(d) ==
    /\ at[d] = "work"
    /\ \/ /\ GoesOn(d, IF StoringHandler THEN "mark" ELSE "answered")
          /\ handled' = [handled EXCEPT ![d] = @ + 1]
       \/ Faults /\ GoesOn(d, "answered") /\ UNCHANGED handled
    /\ UNCHANGED <<records, memory, copy, repeats, stored, late>>

(* mark_idempotency_key_processed: the first record of the key is read and *)
(* saved; there may be none.  On an error memory has the response.         *)
MarkRead(d) ==
    /\ at[d] = "mark" /\ GoesOn(d, "marked")
    /\ copy' = [copy EXCEPT ![d] = FirstRecord]
    /\ UNCHANGED <<records, memory, repeats, handled, stored, late>>

Mark(d) ==
    /\ at[d] = "marked" /\ GoesOn(d, "answered")
    /\ \/ /\ copy[d] # NoCopy /\ records' = Write([copy[d] EXCEPT !.done = TRUE])
          /\ stored' = \A e \in Deliveries : at[e] # "save"
          /\ UNCHANGED memory
       \/ copy[d] = NoCopy /\ UNCHANGED <<records, memory, stored>>
       \/ Faults /\ memory' = "fresh" /\ UNCHANGED <<records, stored>>
    /\ UNCHANGED <<copy, repeats, handled, late>>

(* Time passes for a record, or for the cache.                             *)
Age ==
    /\ \/ /\ \E i \in DOMAIN records : records' = [records EXCEPT ![i].old = TRUE]
          /\ UNCHANGED memory
       \/ memory = "fresh" /\ memory' = "old" /\ UNCHANGED records
    /\ UNCHANGED <<at, copy, repeats, handled, stored, late>>

(* The records found expired are deleted one by one, with awaits between.  *)
Without(i) == [j \in 1..(Len(records) - 1) |-> IF j < i THEN records[j] ELSE records[j + 1]]
cleanup_expired_webhook_data ==
    /\ \E i \in DOMAIN records : records[i].old /\ records' = Without(i)
    /\ stored' = FALSE /\ late' = {}
    /\ UNCHANGED <<memory, at, copy, repeats, handled>>

Next ==
    \/ \E d \in Deliveries :
        \/ Deliver(d) \/ check_idempotency(d) \/ _queue_async_processing(d) \/ CallHandler(d)
        \/ Read(d) \/ Save(d) \/ Work(d) \/ MarkRead(d) \/ Mark(d)
    \/ Age \/ cleanup_expired_webhook_data

Spec == Init /\ [][Next]_vars
-----------------------------------------------------------------------------
\* A request delivered after a response was stored for its key is answered, not
\* handled, until cleanup deletes the record; a delivery that read the record
\* before may still save it as it was (models.py:312).
LateAnswered ==
    ~Faults => \A d \in late : at[d] \in {"new", "check", "answered"}

\* "Duplicate requests (same idempotency key) return cached response"
\* (src/docs/md/webhooks-quickstart.md:168).
HandledOnce == \A d \in Deliveries : handled[d] <= 1
=============================================================================
