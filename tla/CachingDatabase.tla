-------------------------- MODULE CachingDatabase --------------------------
(***************************************************************************)
(* The read-through record cache (db/_cache.py).  A call suspends at the   *)
(* await of the wrapped database, and only there: it runs up to the await  *)
(* (Call), the database does its work at some later moment (Inner), and    *)
(* the call runs to its end (Return).  Other calls, and writers that go    *)
(* round this cache, run in between.                                       *)
(*                                                                         *)
(* Times are ages: left is what remains until an entry's deadline, and     *)
(* stale counts the ticks since the database last held a value.            *)
(***************************************************************************)
EXTENDS Integers, Sequences, FiniteSets

CONSTANTS Calls,        \* calls in progress at a time
          Keys, Vals, Absent, NoAck,
          MaxEntries,   \* max_entries, at least 1: at 0 the cache is off
          TTL,          \* ttl_seconds in ticks; 0 means no deadline
          Latency,      \* ticks that pass while a call awaits the database
          Outside,      \* may other processes write the database?
          BulkFails     \* may single records of a bulk_save fail?

Assumptions ==
    /\ MaxEntries \in Nat \ {0} /\ TTL \in Nat /\ Latency \in Nat
    /\ Outside \in BOOLEAN /\ BulkFails \in BOOLEAN
    /\ Absent \notin Vals /\ NoAck \notin Vals \cup {Absent}

Contents == Vals \cup {Absent}
NoEntry == [left |-> -2, val |-> Absent]       \* -1 is an expired entry
Horizon == TTL + Latency + 2                   \* ages are capped here

VARIABLES db,      \* the wrapped database
          cache,   \* _cache: record -> [val, left] or NoEntry
          order,   \* the order of the OrderedDict, least recent first
          call,    \* call -> what it does and how far it is
          stale,   \* record -> contents -> age of the last moment it was true
          acked,   \* record -> what the last write left, if it overlapped no
                   \* other write and none was called since
          quiet    \* record -> since the last write was called, none of the
                   \* reads that went to the database overlapped a write

vars == <<db, cache, order, call, stale, acked, quiet>>

Idle == [op |-> "none", ks |-> {}, val |-> Absent, at |-> "idle", got |-> <<>>, age |-> 0,
         lone |-> TRUE]

\* The records in the OrderedDict.
Cached == {k \in Keys : cache[k] # NoEntry}

Reads == {"get", "find_many"}
Ops == Reads \cup {"save", "delete", "update", "take", "bulk_save"}
Finds == {"update", "take"}         \* find_one_and_update, find_one_and_delete

TypeOK ==
    /\ db \in [Keys -> Contents]
    /\ cache \in [Keys -> [val : Contents, left : -2..TTL]]
    /\ order \in Seq(Keys) /\ {order[i] : i \in 1..Len(order)} = Cached
    /\ Len(order) = Cardinality(Cached) /\ Len(order) <= MaxEntries
    /\ \A c \in Calls : /\ call[c].op \in Ops \cup {"none"}
                        /\ call[c].ks \subseteq Keys
                        /\ call[c].at \in {"idle", "await", "back"}
                        /\ call[c].age \in 0..Latency

Init ==
    /\ db = [k \in Keys |-> Absent]
    /\ cache = [k \in Keys |-> NoEntry]
    /\ order = <<>>
    /\ call = [c \in Calls |-> Idle]
    /\ stale = [k \in Keys |-> [v \in Contents |-> IF v = Absent THEN 0 ELSE Horizon]]
    /\ acked = [k \in Keys |-> Absent]
    /\ quiet = [k \in Keys |-> TRUE]
-----------------------------------------------------------------------------
\* The cache.
Live(k) == k \in Cached /\ (TTL = 0 \/ cache[k].left >= 0)

Dropped(s, K) == SelectSeq(s, LAMBDA k : k \notin K)

\* Mutant of Touched: a hit renews the deadline.
TouchedSliding(K) ==
    LET dead == {k \in K \cap Cached : ~Live(k)}
        hits == SelectSeq(order, LAMBDA k : k \in K \ dead)
    IN  /\ cache' = [k \in Keys |-> IF k \in dead THEN NoEntry
                                    ELSE IF k \in K /\ Live(k) THEN [cache[k] EXCEPT !.left = TTL]
                                    ELSE cache[k]]
        /\ order' = Dropped(order, K) \o hits

\* _cache_get for the records K: the live ones become the most recent, the
\* expired ones go.
Touched(K) ==
    LET dead == {k \in K \cap Cached : ~Live(k)}
        hits == SelectSeq(order, LAMBDA k : k \in K \ dead)
    IN  /\ cache' = [k \in Keys |-> IF k \in dead THEN NoEntry ELSE cache[k]]
        /\ order' = Dropped(order, K) \o hits

\* The LRU cap after the entries of s became the most recent ones.
Capped(s) == IF Len(s) > MaxEntries THEN SubSeq(s, Len(s) - MaxEntries + 1, Len(s)) ELSE s

\* Mutant of Put: the cap is tested before the insertion.
PutLate(seq, new) ==
    LET K == {seq[i] : i \in DOMAIN seq}
        s == Capped(Dropped(order, K)) \o seq
    IN  /\ order' = s
        /\ cache' = [k \in Keys |-> IF k \in K THEN [val |-> new[k], left |-> TTL]
                                    ELSE IF \E i \in 1..Len(s) : s[i] = k THEN cache[k]
                                    ELSE NoEntry]

\* _cache_put of new[k] for the records of seq, in that order, with eviction.
Put(seq, new) ==
    LET K == {seq[i] : i \in DOMAIN seq}
        s == Capped(Dropped(order, K) \o seq)
        kept == {s[i] : i \in 1..Len(s)}
    IN  /\ order' = s
        /\ cache' = [k \in Keys |-> IF k \notin kept THEN NoEntry
                                    ELSE IF k \in K THEN [val |-> new[k], left |-> TTL]
                                    ELSE cache[k]]

\* Mutant of Invalidate: the entry stays.
InvalidateNot(K) == UNCHANGED <<order, cache>>

\* _invalidate.
Invalidate(K) ==
    /\ order' = Dropped(order, K)
    /\ cache' = [k \in Keys |-> IF k \in K THEN NoEntry ELSE cache[k]]
-----------------------------------------------------------------------------
\* The database changes to d: what was true of a record until now is 0 old.
Write(d) ==
    /\ db' = d
    /\ stale' = [k \in Keys |-> [stale[k] EXCEPT ![db[k]] = 0, ![d[k]] = 0]]

Busy(k) == {c \in Calls : k \in call[c].ks}
Writers(k) == {c \in Busy(k) : call[c].op \notin Reads}

\* A read is called: served from the cache, or the rest goes to the database.
CallRead(c, op, K) ==
    LET misses == {k \in K : ~Live(k)} IN
    /\ call[c] = Idle
    /\ op \in Reads /\ (op = "get" => Cardinality(K) = 1)
    /\ Touched(K)
    /\ IF misses = {}
       THEN UNCHANGED <<call, quiet>>
       ELSE /\ call' = [call EXCEPT ![c] = [Idle EXCEPT !.op = op, !.ks = misses, !.at = "await"]]
            /\ quiet' = [k \in Keys |-> quiet[k] /\ ~(k \in misses /\ Writers(k) # {})]
    /\ UNCHANGED <<db, stale, acked>>

\* save, delete, find_one_and_update, find_one_and_delete of one record, and
\* bulk_save of several; val is Absent for the deletes.
CallWrite(c, op, K, v) ==
    /\ call[c] = Idle
    /\ op \in Ops \ Reads
    /\ op = "bulk_save" \/ Cardinality(K) = 1
    /\ op \in {"delete", "take"} <=> v = Absent
    /\ call' = [d \in Calls |->
                  IF d = c THEN [Idle EXCEPT !.op = op, !.ks = K, !.val = v, !.at = "await",
                                             !.lone = \A k \in K : Writers(k) = {}]
                  ELSE [call[d] EXCEPT !.lone = @ /\ call[d].ks \cap K = {}]]
    /\ acked' = [k \in Keys |-> IF k \in K THEN NoAck ELSE acked[k]]
    /\ quiet' = [k \in Keys |-> IF k \notin K THEN quiet[k]
                                ELSE Busy(k) = {} /\ (op \in Finds => quiet[k])]
    /\ UNCHANGED <<db, cache, order, stale>>

\* The wrapped database answers; a Find of a missing record changes nothing and
\* finds nothing, a bulk_save writes each record on its own.
Inner(c) ==
    LET o == call[c] IN
    /\ o.at = "await"
    /\ \E done \in IF o.op = "bulk_save" /\ BulkFails THEN SUBSET o.ks
                   ELSE IF o.op \in Finds THEN {{k \in o.ks : db[k] # Absent}}
                   ELSE {o.ks} :
          /\ IF o.op \in Reads
             THEN UNCHANGED <<db, stale>>
             ELSE Write([k \in Keys |-> IF k \in done THEN o.val ELSE db[k]])
          /\ call' = [call EXCEPT ![c].at = "back",
                        ![c].got = [k \in o.ks |->
                            IF o.op \in Reads \cup {"take"} \/ (o.op = "update" /\ k \notin done)
                            THEN db[k] ELSE o.val]]
    /\ UNCHANGED <<cache, order, acked, quiet>>

\* The call runs to its end: fetched records, and absences, are cached; a save,
\* update or bulk_save caches what it was given; a delete invalidates; a Find that
\* found nothing leaves the cache alone.
Return(c) ==
    LET o == call[c] IN
    /\ o.at = "back"
    /\ IF o.op \in Finds /\ \A k \in o.ks : o.got[k] = Absent THEN UNCHANGED <<cache, order>>
       ELSE IF o.op \in {"delete", "take"} THEN Invalidate(o.ks)
       ELSE \E seq \in [1..Cardinality(o.ks) -> o.ks] :
                /\ {seq[i] : i \in DOMAIN seq} = o.ks
                /\ Put(seq, o.got)
    /\ call' = [call EXCEPT ![c] = Idle]
    /\ acked' = [k \in Keys |-> IF k \in o.ks /\ o.op \notin Reads /\ o.lone
                                THEN db[k] ELSE acked[k]]
    /\ UNCHANGED <<db, stale, quiet>>

\* A writer that does not go through this cache.
WriteOutside(k, v) ==
    /\ Outside
    /\ v # db[k]
    /\ Write([db EXCEPT ![k] = v])
    /\ acked' = [acked EXCEPT ![k] = NoAck]
    /\ UNCHANGED <<cache, order, call, quiet>>

\* clear_cache().
ClearCache ==
    /\ cache' = [k \in Keys |-> NoEntry]
    /\ order' = <<>>
    /\ UNCHANGED <<db, call, stale, acked, quiet>>

\* Time passes; the database answers within Latency.
Tick ==
    /\ \A c \in Calls : call[c] # Idle => call[c].age < Latency
    /\ call' = [c \in Calls |-> IF call[c] = Idle THEN Idle ELSE [call[c] EXCEPT !.age = @ + 1]]
    /\ cache' = [k \in Keys |-> IF cache[k].left >= 0 THEN [cache[k] EXCEPT !.left = @ - 1]
                                ELSE cache[k]]
    /\ stale' = [k \in Keys |-> [v \in Contents |->
                   IF db[k] = v \/ stale[k][v] = Horizon THEN stale[k][v] ELSE stale[k][v] + 1]]
    /\ UNCHANGED <<db, order, acked, quiet>>
-----------------------------------------------------------------------------
Next ==
    \/ \E c \in Calls : \/ \E op \in Reads, K \in SUBSET Keys \ {{}} : CallRead(c, op, K)
                        \/ \E op \in Ops \ Reads, K \in SUBSET Keys \ {{}}, v \in Contents :
                              CallWrite(c, op, K, v)
                        \/ Inner(c) \/ Return(c)
    \/ \E k \in Keys, v \in Contents : WriteOutside(k, v)
    \/ ClearCache
    \/ Tick

Spec == Init /\ [][Next]_vars
-----------------------------------------------------------------------------
\* "ttl_seconds: Maximum age of a cached entry" (db/_cache.py:64), under any
\* interleaving of calls and of writers elsewhere: what is served was true in
\* the database at most TTL and one database call ago.
AgeBound ==
    TTL > 0 => \A k \in Keys :
                  Live(k) => stale[k][cache[k].val] <= (TTL - cache[k].left) + Latency

\* As long as no read of a record that went to the database overlapped a write
\* of it, the cache serves what the last write left.
QuietCoherent ==
    \A k \in Keys : quiet[k] /\ acked[k] # NoAck /\ Live(k) => cache[k].val = acked[k]

\* "Auto-invalidates on save and delete" (SPEC.md:604): once a write that
\* overlapped no other write has returned, the cache serves nothing older.
AutoInvalidates ==
    \A k \in Keys : acked[k] # NoAck /\ Live(k) => cache[k].val = acked[k]

\* "Negative caching is bounded by the same TTL so a record created right after
\* a miss becomes visible at most ttl later" (db/_cache.py:49-50).
NegativeBound ==
    TTL > 0 => \A k \in Keys :
                  Live(k) /\ cache[k].val = Absent => stale[k][Absent] <= TTL
-----------------------------------------------------------------------------
Gots == {<<>>} \cup (UNION {[K -> Contents] : K \in SUBSET Keys})
Call == [op : Ops \cup {"none"}, ks : SUBSET Keys, val : Contents, at : {"idle", "await", "back"},
         got : Gots, age : 0..Latency, lone : BOOLEAN]
Entry == [val : Contents, left : -2..TTL]

\* A call that is not idle is one of the operations, and one that is back has an
\* answer for each of its records.
Typed ==
    /\ db \in [Keys -> Contents]
    /\ cache \in [Keys -> Entry]
    /\ stale \in [Keys -> [Contents -> 0..Horizon]]
    /\ quiet \in [Keys -> BOOLEAN]
    /\ DOMAIN acked = Keys
    /\ call \in [Calls -> Call]
    /\ \A c \in Calls :
          /\ call[c].at = "idle" => call[c] = Idle
          /\ call[c].at # "idle" => call[c].op \in Ops
          /\ call[c].at = "back" => call[c].got \in [call[c].ks -> Contents]
          /\ call[c].op = "update" => call[c].val # Absent
          /\ call[c].op \in {"delete", "take"} => call[c].val = Absent

\* An entry goes, is filled anew, or stays as it is.
Drops == \A k \in Keys : cache'[k] = cache[k] \/ cache'[k] = NoEntry
Fills(K, new) == \A k \in Keys : \/ cache'[k] = NoEntry
                                 \/ k \in K /\ cache'[k] = [val |-> new[k], left |-> TTL]
                                 \/ k \notin K /\ cache'[k] = cache[k]

\* What the database did for a call: the records it changed, and its answers.
Answers(o, got, d) ==
    \E done \in SUBSET o.ks :
        /\ o.op \in Finds => done = {k \in o.ks : db[k] # Absent}
        /\ ~BulkFails /\ o.op \notin Finds => done = o.ks
        /\ d = IF o.op \in Reads THEN db ELSE [k \in Keys |-> IF k \in done THEN o.val ELSE db[k]]
        /\ got = [k \in o.ks |->
                    IF o.op \in Reads \cup {"take"} \/ (o.op = "update" /\ k \notin done)
                    THEN db[k] ELSE o.val]

\* An entry is no older than the time it has used of its ttl and one call of the
\* database, and what a call brings back no older than the call.
Aged ==
    /\ \A k \in Keys : stale[k][db[k]] = 0
    /\ \A k \in Keys : cache[k].left >= 0
                          => stale[k][cache[k].val] <= (TTL - cache[k].left) + Latency
    /\ \A c \in Calls : call[c].at = "back"
                          => \A k \in call[c].ks : stale[k][call[c].got[k]] <= call[c].age

\* While its reads keep clear of its writes, a record that is in the cache is there
\* as it is in the database: unless a write of it is under way, and for a Find also
\* until it is answered.  Of two writes of a record neither is alone.
Serves(k) == Live(k) => cache[k].val = db[k]
Writes(c) == call[c].op \notin Reads \cup {"none"}

Acked == /\ \A k \in Keys : acked[k] # NoAck => db[k] = acked[k]
         /\ \A c \in Calls : Writes(c) => \A k \in call[c].ks : acked[k] = NoAck
         /\ \A c, d \in Calls : c # d /\ Writes(c) /\ Writes(d)
                                 => ~call[c].lone \/ call[c].ks \cap call[d].ks = {}

Calm(k) ==
    /\ (\A c \in Calls : Writes(c) => k \notin call[c].ks) => Serves(k)
    /\ \A c, d \in Calls : Writes(c) /\ k \in call[c].ks /\ k \in call[d].ks => c = d
    /\ \A c \in Calls : k \in call[c].ks =>
          /\ call[c].at = "await" /\ call[c].op \in Finds => Serves(k)
          /\ call[c].at = "back" =>
                /\ call[c].op \notin {"delete", "take"} => call[c].got[k] = db[k]
                /\ call[c].op \in {"delete", "take"} => db[k] = Absent
                /\ call[c].op \in Finds /\ call[c].got[k] = Absent => Serves(k)

Quieted == Acked /\ \A k \in Keys : quiet[k] => Calm(k)
=============================================================================
