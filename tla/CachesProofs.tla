---------------------------- MODULE CachesProofs ----------------------------
(***************************************************************************)
(* The record cache, the entity caches of graph contexts, and the lease of *)
(* a record: for every number of callers, contexts and workers, every ttl  *)
(* and lease time, and clocks that differ by any bounded amount.           *)
(***************************************************************************)
EXTENDS WorkClaim, Sequences, FiniteSets, TLAPS

CONSTANTS Absent, NoAck,
          Tasks, Main, Contexts, Private, Dbs, Jvdb, Ids, Vals

VARIABLES db, cache, order, reading, stale, acked, quiet,
          slot, scopes, heirs, running, fallback, unmade, strays, configured,
          manager, base, held, store, written, asked, count

\* The record cache, for callers, records and settings x.
Keeps(x) == INSTANCE CachingDatabase WITH
    Calls <- x.calls, Keys <- x.keys, Vals <- x.vals, MaxEntries <- x.size, TTL <- x.ttl,
    Latency <- x.latency, Outside <- x.outside, BulkFails <- x.fails, call <- reading

\* The contexts of tasks, with settings x.
Graph(x) == INSTANCE Contexts WITH
    Names <- x.names, Does <- x.does, Faults <- x.faults, Batched <- x.batched,
    Overlap <- x.mixed, Shared <- x.mixed, MaxCalls <- x.calls
-----------------------------------------------------------------------------
(* The record cache: what it serves is not too old, and while the reads of   *)
(* a record keep clear of its writes, as the last write left it.             *)

LEMMA EntryType ==
  ASSUME NEW g, Keeps(g)!Assumptions
  PROVE  /\ Keeps(g)!NoEntry \in Keeps(g)!Entry
         /\ \A v \in Keeps(g)!Contents : [val |-> v, left |-> g.ttl] \in Keeps(g)!Entry
BY DEF Keeps!Assumptions, Keeps!NoEntry, Keeps!Entry, Keeps!Contents

\* What a call that began, one that was answered and one that ended look like.
LEMMA CallTypes ==
    ASSUME NEW g, Keeps(g)!Assumptions
    PROVE  /\ Keeps(g)!Idle \in Keeps(g)!Call
           /\ \A op \in Keeps(g)!Ops, K \in SUBSET g.keys, v \in Keeps(g)!Contents, l \in BOOLEAN :
                 [Keeps(g)!Idle EXCEPT !.op = op, !.ks = K, !.val = v, !.at = "await", !.lone = l] \in Keeps(g)!Call
           /\ \A op \in Keeps(g)!Ops, K \in SUBSET g.keys :
                 [Keeps(g)!Idle EXCEPT !.op = op, !.ks = K, !.at = "await"] \in Keeps(g)!Call
           /\ \A o \in Keeps(g)!Call : \A got \in [o.ks -> Keeps(g)!Contents] :
                 [o EXCEPT !.at = "back", !.got = got] \in Keeps(g)!Call
           /\ \A o \in Keeps(g)!Call : \A l \in BOOLEAN : [o EXCEPT !.lone = l] \in Keeps(g)!Call
           /\ \A o \in Keeps(g)!Call : o.age < g.latency => [o EXCEPT !.age = @ + 1] \in Keeps(g)!Call
<1>1. /\ Keeps(g)!Idle \in Keeps(g)!Call
      /\ Keeps(g)!Idle = [op |-> "none", ks |-> {}, val |-> Absent, at |-> "idle", got |-> <<>>,
                                                          age |-> 0, lone |-> TRUE]
  <2>1. <<>> \in Keeps(g)!Gots
    BY DEF Keeps!Gots
  <2>2. 0 \in 0..g.latency /\ Absent \in Keeps(g)!Contents /\ {} \in SUBSET g.keys
    BY DEF Keeps!Assumptions, Keeps!Contents
  <2> QED
    BY <2>1, <2>2 DEF Keeps!Idle, Keeps!Call
<1>2. \A o \in Keeps(g)!Call : \A got \in [o.ks -> Keeps(g)!Contents] : got \in Keeps(g)!Gots
  BY DEF Keeps!Call, Keeps!Gots
<1>3. \A o \in Keeps(g)!Call : \A got \in [o.ks -> Keeps(g)!Contents] :
         [o EXCEPT !.at = "back", !.got = got] \in Keeps(g)!Call
  BY <1>2 DEF Keeps!Call
<1>4. \A o \in Keeps(g)!Call : o.age < g.latency => [o EXCEPT !.age = @ + 1] \in Keeps(g)!Call
  BY DEF Keeps!Call, Keeps!Assumptions
<1>5. \A o \in Keeps(g)!Call : \A l \in BOOLEAN : [o EXCEPT !.lone = l] \in Keeps(g)!Call
  BY DEF Keeps!Call
<1>6. /\ \A op \in Keeps(g)!Ops, K \in SUBSET g.keys, v \in Keeps(g)!Contents, l \in BOOLEAN :
            [Keeps(g)!Idle EXCEPT !.op = op, !.ks = K, !.val = v, !.at = "await", !.lone = l] \in Keeps(g)!Call
      /\ \A op \in Keeps(g)!Ops, K \in SUBSET g.keys :
            [Keeps(g)!Idle EXCEPT !.op = op, !.ks = K, !.at = "await"] \in Keeps(g)!Call
  BY <1>1 DEF Keeps!Call
<1> QED
  BY <1>1, <1>3, <1>4, <1>5, <1>6

LEMMA InitTyped == ASSUME NEW g, Keeps(g)!Assumptions, Keeps(g)!Init PROVE Keeps(g)!Typed
<1>1. reading \in [g.calls -> Keeps(g)!Call] /\ \A c \in g.calls : reading[c] = Keeps(g)!Idle
  BY CallTypes DEF Keeps!Init
<1>2. /\ db \in [g.keys -> Keeps(g)!Contents] /\ cache \in [g.keys -> Keeps(g)!Entry]
      /\ quiet \in [g.keys -> BOOLEAN]
      /\ DOMAIN acked = g.keys
  BY EntryType DEF Keeps!Init, Keeps!Contents
<1>3. stale \in [g.keys -> [Keeps(g)!Contents -> 0..Keeps(g)!Horizon]]
  <2>1. Keeps(g)!Horizon \in Nat
    BY DEF Keeps!Assumptions, Keeps!Horizon
  <2>2. 0 \in 0..Keeps(g)!Horizon /\ Keeps(g)!Horizon \in 0..Keeps(g)!Horizon
    BY <2>1
  <2> QED
    BY <2>2 DEF Keeps!Init
<1>4. Keeps(g)!Idle.at = "idle" /\ Keeps(g)!Idle.op = "none"
  BY DEF Keeps!Idle
<1> QED
  BY <1>1, <1>2, <1>3, <1>4 DEF Keeps!Typed

\* What a read finds in the cache only goes, when it is past its ttl.
LEMMA TouchedDrops == ASSUME NEW g, Keeps(g)!Typed, NEW K, Keeps(g)!Touched(K) PROVE Keeps(g)!Drops
BY DEF Keeps!Touched, Keeps!Drops, Keeps!Typed

LEMMA PutFills ==
    ASSUME NEW g, Keeps(g)!Typed, NEW seq, NEW new, NEW K, K = {seq[i] : i \in DOMAIN seq},
           Keeps(g)!Put(seq, new)
    PROVE  Keeps(g)!Fills(K, new)
BY DEF Keeps!Put, Keeps!Fills, Keeps!Typed

LEMMA InvalidateDrops ==
    ASSUME NEW g, Keeps(g)!Typed, NEW K, Keeps(g)!Invalidate(K)
    PROVE  Keeps(g)!Drops /\ \A k \in g.keys \cap K : cache'[k] = Keeps(g)!NoEntry
BY DEF Keeps!Invalidate, Keeps!Drops, Keeps!Typed

LEMMA InnerAnswers ==
    ASSUME NEW g, Keeps(g)!Assumptions, Keeps(g)!Typed, NEW c \in g.calls, Keeps(g)!Inner(c)
    PROVE  /\ reading[c].at = "await" /\ db' \in [g.keys -> Keeps(g)!Contents]
           /\ \E got \in [reading[c].ks -> Keeps(g)!Contents] :
                 /\ Keeps(g)!Answers(reading[c], got, db')
                 /\ reading' = [reading EXCEPT ![c].at = "back", ![c].got = got]
           /\ (db' = db /\ stale' = stale) \/ Keeps(g)!Write(db')
           /\ UNCHANGED <<cache, acked, quiet>>
<1> DEFINE o == reading[c]
<1>1. /\ o \in Keeps(g)!Call /\ o.ks \subseteq g.keys /\ o.val \in Keeps(g)!Contents
      /\ db \in [g.keys -> Keeps(g)!Contents]
      /\ o.at = "await"
  BY DEF Keeps!Typed, Keeps!Call, Keeps!Inner
<1>2. PICK wrote : 
        /\ wrote \in IF o.op = "bulk_save" /\ g.fails THEN SUBSET o.ks
                     ELSE IF o.op \in Keeps(g)!Finds THEN {{k \in o.ks : db[k] # Absent}}
                     ELSE {o.ks}
        /\ IF o.op \in Keeps(g)!Reads THEN UNCHANGED <<db, stale>>
           ELSE Keeps(g)!Write([k \in g.keys |-> IF k \in wrote THEN o.val ELSE db[k]])
        /\ reading' = [reading EXCEPT ![c].at = "back",
                        ![c].got = [k \in o.ks |->
                             IF o.op \in Keeps(g)!Reads \cup {"take"} \/ (o.op = "update" /\ k \notin wrote)
                             THEN db[k] ELSE o.val]]
  BY DEF Keeps!Inner
<1> DEFINE got == [k \in o.ks |->
                     IF o.op \in Keeps(g)!Reads \cup {"take"} \/ (o.op = "update" /\ k \notin wrote)
                     THEN db[k] ELSE o.val]
<1>3. wrote \in SUBSET o.ks
  BY <1>2
<1>4. /\ o.op \in Keeps(g)!Finds => wrote = {k \in o.ks : db[k] # Absent}
      /\ ~g.fails /\ o.op \notin Keeps(g)!Finds => wrote = o.ks
  BY <1>2 DEF Keeps!Finds
<1>5. got \in [o.ks -> Keeps(g)!Contents]
  BY <1>1
<1>6. /\ db' = IF o.op \in Keeps(g)!Reads THEN db ELSE [k \in g.keys |-> IF k \in wrote THEN o.val ELSE db[k]]
      /\ (db' = db /\ stale' = stale) \/ Keeps(g)!Write(db')
  BY <1>2 DEF Keeps!Write
<1>7. db' \in [g.keys -> Keeps(g)!Contents]
  BY <1>1, <1>6
<1>8. Keeps(g)!Answers(o, got, db')
  BY <1>3, <1>4, <1>6 DEF Keeps!Answers
<1>9. UNCHANGED <<cache, acked, quiet>>
  BY DEF Keeps!Inner
<1> QED
  BY <1>1, <1>2, <1>5, <1>6, <1>7, <1>8, <1>9

\* What a step does to the calls and to the entries keeps their types.
LEMMA KeptStep ==
  ASSUME NEW g, Keeps(g)!Assumptions, Keeps(g)!Typed, [Keeps(g)!Next]_(Keeps(g)!vars)
  PROVE  Keeps(g)!Typed'
<1>1. /\ \A c \in g.calls : /\ reading[c] \in Keeps(g)!Call /\ reading[c].ks \subseteq g.keys
                            /\ reading[c].val \in Keeps(g)!Contents
      /\ reading \in [g.calls -> Keeps(g)!Call] /\ g.latency \in Nat /\ g.ttl \in Nat
  BY DEF Keeps!Typed, Keeps!Call, Keeps!Assumptions
<1> DEFINE Calling == /\ reading \in [g.calls -> Keeps(g)!Call]
                      /\ \A c \in g.calls :
                            /\ reading[c].at = "idle" => reading[c] = Keeps(g)!Idle
                            /\ reading[c].at # "idle" => reading[c].op \in Keeps(g)!Ops
                            /\ reading[c].at = "back" => reading[c].got \in [reading[c].ks -> Keeps(g)!Contents]
                            /\ reading[c].op = "update" => reading[c].val # Absent
                            /\ reading[c].op \in {"delete", "take"} => reading[c].val = Absent
           Caching == cache \in [g.keys -> Keeps(g)!Entry]
           Data == /\ db \in [g.keys -> Keeps(g)!Contents] /\ stale \in [g.keys -> [Keeps(g)!Contents -> 0..Keeps(g)!Horizon]]
           Ghosts == quiet \in [g.keys -> BOOLEAN] /\ DOMAIN acked = g.keys
<1>t. Keeps(g)!Typed' <=> (Calling /\ Caching /\ Data /\ Ghosts)'
  BY DEF Keeps!Typed
<1>2. Calling /\ Caching /\ Data /\ Ghosts
  BY DEF Keeps!Typed
<1>3. ASSUME Keeps(g)!Drops, DOMAIN cache' = g.keys, cache' = [k \in g.keys |-> cache'[k]]
      PROVE  Caching'
  BY <1>2, <1>3, EntryType DEF Keeps!Drops
<1>4. ASSUME NEW d \in [g.keys -> Keeps(g)!Contents], Keeps(g)!Write(d) PROVE Data'
  <2>1. 0 \in 0..Keeps(g)!Horizon
    BY DEF Keeps!Assumptions, Keeps!Horizon
  <2> QED
    BY <1>2, <1>4, <2>1 DEF Keeps!Write
<1>5. ASSUME NEW c \in g.calls, NEW op \in Keeps(g)!Reads, NEW K \in SUBSET g.keys,
             Keeps(g)!CallRead(c, op, K)
      PROVE  Keeps(g)!Typed'
  <2>1. Caching'
    BY <1>2, <1>5, EntryType DEF Keeps!CallRead, Keeps!Touched
  <2>2. Calling'
    <3> DEFINE m == {k \in K : ~Keeps(g)!Live(k)}
               o == [Keeps(g)!Idle EXCEPT !.op = op, !.ks = m, !.at = "await"]
    <3>1. op \in Keeps(g)!Ops /\ m \in SUBSET g.keys
      BY DEF Keeps!Ops
    <3>2. o \in Keeps(g)!Call
      BY <3>1, CallTypes
    <3>3. o.at = "await" /\ o.op = op
      BY DEF Keeps!Idle
    <3>4. reading' = reading \/ reading' = [reading EXCEPT ![c] = o]
      BY <1>5 DEF Keeps!CallRead
    <3> HIDE DEF o
    <3> QED
      BY <1>2, <3>1, <3>2, <3>3, <3>4 DEF Keeps!Reads
  <2>3. Data'
    BY <1>2, <1>5 DEF Keeps!CallRead
  <2>4. Ghosts'
    BY <1>2, <1>5 DEF Keeps!CallRead
  <2> QED
    BY <1>t, <2>1, <2>2, <2>3, <2>4
<1>6. ASSUME NEW c \in g.calls, NEW op \in Keeps(g)!Ops \ Keeps(g)!Reads, NEW K \in SUBSET g.keys,
             NEW v \in Keeps(g)!Contents,
             Keeps(g)!CallWrite(c, op, K, v)
      PROVE  Keeps(g)!Typed'
  <2>1. Caching' /\ Data' /\ Ghosts'
    BY <1>2, <1>6 DEF Keeps!CallWrite
  <2>2. Calling'
    <3> DEFINE l == \A k \in K : Keeps(g)!Writers(k) = {}
               o == [Keeps(g)!Idle EXCEPT !.op = op, !.ks = K, !.val = v, !.at = "await", !.lone = l]
    <3>1. o \in Keeps(g)!Call
      <4>1. l \in BOOLEAN
        OBVIOUS
      <4> HIDE DEF l
      <4> QED
        BY <4>1, CallTypes
    <3>2. o.at = "await" /\ o.op = op /\ o.val = v
      BY DEF Keeps!Idle
    <3>3. /\ \A d \in g.calls \ {c} : reading'[d] = [reading[d] EXCEPT !.lone = @ /\ reading[d].ks \cap K = {}]
          /\ reading'[c] = o /\ DOMAIN reading' = g.calls
          /\ reading' = [d \in g.calls |-> reading'[d]]
      BY <1>6 DEF Keeps!CallWrite
    <3>4. op \in {"delete", "take"} <=> v = Absent
      BY <1>6 DEF Keeps!CallWrite
    <3> HIDE DEF o
    <3>5. ASSUME NEW d \in g.calls \ {c}
          PROVE  /\ reading'[d] \in Keeps(g)!Call /\ reading'[d].at = reading[d].at /\ reading'[d].op = reading[d].op
                 /\ reading'[d].val = reading[d].val /\ reading'[d].ks = reading[d].ks
                 /\ reading'[d].got = reading[d].got
                 /\ reading[d] = Keeps(g)!Idle => reading'[d] = Keeps(g)!Idle
      <4>1. (reading[d].lone /\ reading[d].ks \cap K = {}) \in BOOLEAN
        OBVIOUS
      <4>3. /\ reading[d] \in Keeps(g)!Call
            /\ reading'[d] = [reading[d] EXCEPT !.lone = reading[d].lone /\ reading[d].ks \cap K = {}]
        BY <1>1, <3>3
      <4>2. reading'[d] \in Keeps(g)!Call
        <5> DEFINE m == reading[d].lone /\ reading[d].ks \cap K = {}
        <5>1. reading'[d] = [reading[d] EXCEPT !.lone = m] /\ m \in BOOLEAN
          BY <4>1, <4>3
        <5>2. \A x \in BOOLEAN : [reading[d] EXCEPT !.lone = x] \in Keeps(g)!Call
          BY <4>3, CallTypes
        <5> HIDE DEF m
        <5> QED
          BY <5>1, <5>2
      <4>4. reading[d] = Keeps(g)!Idle => reading[d].ks = {} /\ reading[d].lone = TRUE
        BY DEF Keeps!Idle
      <4> QED
        BY <4>2, <4>3, <4>4 DEF Keeps!Call
    <3> QED
      BY <1>2, <3>1, <3>2, <3>3, <3>4, <3>5
  <2> QED
    BY <1>t, <2>1, <2>2
<1>7. ASSUME NEW c \in g.calls, Keeps(g)!Inner(c) PROVE Keeps(g)!Typed'
  <2>1. PICK got \in [reading[c].ks -> Keeps(g)!Contents] :
           reading' = [reading EXCEPT ![c].at = "back", ![c].got = got]
    BY <1>7, InnerAnswers
  <2>2. Calling'
    <3> DEFINE o == [reading[c] EXCEPT !.at = "back", !.got = got]
    <3>1. o \in Keeps(g)!Call
      BY <1>1, CallTypes
    <3>2. /\ o.at = "back" /\ o.op = reading[c].op /\ o.ks = reading[c].ks /\ o.val = reading[c].val
          /\ o.got = got /\ reading[c].at # "idle"
      BY <1>1, <1>7, InnerAnswers DEF Keeps!Call
    <3>3. reading' = [reading EXCEPT ![c] = o]
      BY <1>1, <2>1
    <3> HIDE DEF o
    <3> QED
      BY <1>2, <3>1, <3>2, <3>3
  <2>3. Data'
    BY <1>2, <1>4, <1>7, InnerAnswers
  <2>4. Caching' /\ Ghosts'
    BY <1>2, <1>7 DEF Keeps!Inner
  <2> QED
    BY <1>t, <2>2, <2>3, <2>4
<1>8. ASSUME NEW c \in g.calls, Keeps(g)!Return(c) PROVE Keeps(g)!Typed'
  <2>1. Calling'
    <3>1. reading' = [reading EXCEPT ![c] = Keeps(g)!Idle]
      BY <1>8 DEF Keeps!Return
    <3>2. Keeps(g)!Idle.at = "idle" /\ Keeps(g)!Idle.op = "none"
      BY DEF Keeps!Idle
    <3> QED
      BY <1>2, <3>1, <3>2, CallTypes
  <2>2. Data' /\ Ghosts'
    BY <1>2, <1>8 DEF Keeps!Return
  <2>3. Caching'
    <3> DEFINE o == reading[c]
    <3>1. o.got \in [o.ks -> Keeps(g)!Contents] /\ o.ks \subseteq g.keys
      BY <1>1, <1>2, <1>8 DEF Keeps!Return
    <3>2. CASE UNCHANGED cache
      BY <1>2, <3>2
    <3>3. CASE Keeps(g)!Invalidate(o.ks)
      BY <1>2, <3>3, EntryType DEF Keeps!Invalidate
    <3>4. ASSUME NEW seq, {seq[i] : i \in DOMAIN seq} = o.ks, Keeps(g)!Put(seq, o.got)
          PROVE  Caching'
      BY <1>2, <3>1, <3>4, EntryType DEF Keeps!Put
    <3> QED
      BY <1>8, <3>2, <3>3, <3>4 DEF Keeps!Return
  <2> QED
    BY <1>t, <2>1, <2>2, <2>3
<1>9. ASSUME NEW k \in g.keys, NEW v \in Keeps(g)!Contents, Keeps(g)!WriteOutside(k, v)
      PROVE  Keeps(g)!Typed'
  <2>1. [db EXCEPT ![k] = v] \in [g.keys -> Keeps(g)!Contents]
    BY <1>2
  <2>2. Data'
    BY <1>4, <1>9, <2>1 DEF Keeps!WriteOutside
  <2> QED
    BY <1>t, <1>2, <1>9, <2>2 DEF Keeps!WriteOutside
<1>10. CASE Keeps(g)!ClearCache
  BY <1>t, <1>2, <1>10, EntryType DEF Keeps!ClearCache
<1>11. CASE Keeps(g)!Tick
  <2>1. Caching'
    <3>1. ASSUME NEW e \in Keeps(g)!Entry, e.left >= 0
          PROVE  [e EXCEPT !.left = @ - 1] \in Keeps(g)!Entry
      BY <1>1, <3>1 DEF Keeps!Entry
    <3> QED
      BY <1>2, <1>11, <3>1 DEF Keeps!Tick
  <2>2. Data'
    <3>1. \A k \in g.keys, v \in Keeps(g)!Contents : stale[k][v] \in 0..Keeps(g)!Horizon
      BY <1>2
    <3>2. Keeps(g)!Horizon \in Nat
      BY DEF Keeps!Horizon, Keeps!Assumptions
    <3>3. \A x \in 0..Keeps(g)!Horizon : x # Keeps(g)!Horizon => x + 1 \in 0..Keeps(g)!Horizon
      BY <3>2
    <3>4. ASSUME NEW k \in g.keys, NEW v \in Keeps(g)!Contents
          PROVE  (IF db[k] = v \/ stale[k][v] = Keeps(g)!Horizon THEN stale[k][v] ELSE stale[k][v] + 1)
                     \in 0..Keeps(g)!Horizon
      BY <3>1, <3>3
    <3>5. stale' \in [g.keys -> [Keeps(g)!Contents -> 0..Keeps(g)!Horizon]]
      BY <1>11, <3>4 DEF Keeps!Tick
    <3> QED
      BY <1>2, <1>11, <3>5 DEF Keeps!Tick
  <2>3. Calling'
    <3>1. ASSUME NEW c \in g.calls, reading[c] # Keeps(g)!Idle
          PROVE  /\ reading'[c] = [reading[c] EXCEPT !.age = @ + 1] /\ reading'[c] \in Keeps(g)!Call
                 /\ reading'[c].at = reading[c].at /\ reading'[c].op = reading[c].op
                 /\ reading'[c].val = reading[c].val /\ reading'[c].ks = reading[c].ks
                 /\ reading'[c].got = reading[c].got
      <4>1. reading[c] \in Keeps(g)!Call /\ reading[c].age < g.latency /\ reading[c].age \in Nat
        BY <1>1, <1>11, <3>1 DEF Keeps!Tick, Keeps!Call
      <4>2. reading'[c] = [reading[c] EXCEPT !.age = @ + 1]
        BY <1>11, <3>1 DEF Keeps!Tick
      <4>3. reading'[c] \in Keeps(g)!Call
        BY <4>1, <4>2, CallTypes
      <4> QED
        BY <4>1, <4>2, <4>3 DEF Keeps!Call
    <3>2. ASSUME NEW c \in g.calls, reading[c] = Keeps(g)!Idle PROVE reading'[c] = Keeps(g)!Idle
      BY <1>11, <3>2 DEF Keeps!Tick
    <3>3. reading' = [c \in g.calls |-> reading'[c]]
      BY <1>11 DEF Keeps!Tick
    <3>4. \A c \in g.calls : reading'[c] \in Keeps(g)!Call
      BY <1>1, <3>1, <3>2
    <3>5. ASSUME NEW c \in g.calls
          PROVE  /\ reading'[c].at = "idle" => reading'[c] = Keeps(g)!Idle
                 /\ reading'[c].at # "idle" => reading'[c].op \in Keeps(g)!Ops
                 /\ reading'[c].at = "back" => reading'[c].got \in [reading'[c].ks -> Keeps(g)!Contents]
                 /\ reading'[c].op = "update" => reading'[c].val # Absent
                 /\ reading'[c].op \in {"delete", "take"} => reading'[c].val = Absent
      <4>1. CASE reading[c] = Keeps(g)!Idle
        <5>1. Keeps(g)!Idle.at = "idle" /\ Keeps(g)!Idle.op = "none"
          BY DEF Keeps!Idle
        <5> QED
          BY <3>2, <4>1, <5>1
      <4>2. CASE reading[c] # Keeps(g)!Idle
        BY <1>2, <3>1, <4>2
      <4> QED
        BY <4>1, <4>2
    <3> QED
      BY <3>3, <3>4, <3>5
  <2> QED
    BY <1>t, <1>2, <1>11, <2>1, <2>2, <2>3 DEF Keeps!Tick
<1>12. CASE UNCHANGED Keeps(g)!vars
  BY <1>12 DEF Keeps!vars, Keeps!Typed
<1> QED
  BY <1>5, <1>6, <1>7, <1>8, <1>9, <1>10, <1>11, <1>12 DEF Keeps!Next

\* A write only makes what was true just now, and what is true from now on, younger.
LEMMA WriteYounger ==
    ASSUME NEW g, Keeps(g)!Assumptions, Keeps(g)!Typed, NEW d \in [g.keys -> Keeps(g)!Contents],
           Keeps(g)!Write(d)
    PROVE  /\ \A k \in g.keys : \A v \in Keeps(g)!Contents : stale'[k][v] <= stale[k][v]
           /\ \A k \in g.keys : stale'[k][db[k]] = 0 /\ stale'[k][d[k]] = 0 /\ db' = d
<1>1. Keeps(g)!Horizon \in Nat /\ stale \in [g.keys -> [Keeps(g)!Contents -> Nat]]
  BY DEF Keeps!Typed, Keeps!Assumptions, Keeps!Horizon
<1>2. \A k \in g.keys : db[k] \in Keeps(g)!Contents /\ d[k] \in Keeps(g)!Contents
  BY DEF Keeps!Typed
<1> QED
  BY <1>1, <1>2 DEF Keeps!Write

\* The calls of a step that only drops entries, or none, and lets nothing get older.
LEMMA AgedKept ==
    ASSUME NEW g, Keeps(g)!Assumptions, Keeps(g)!Typed, Keeps(g)!Typed', Keeps(g)!Aged,
           Keeps(g)!Drops, db' = db, stale' = stale,
           \A c \in g.calls : reading'[c].at = "back" => reading'[c].ks = reading[c].ks /\ reading'[c].got = reading[c].got
                                         /\ reading'[c].age = reading[c].age
                                         /\ reading[c].at = "back"
    PROVE  Keeps(g)!Aged'
<1>1. \A k \in g.keys : cache'[k].left >= 0
                        => stale'[k][cache'[k].val] <= (g.ttl - cache'[k].left) + g.latency
  BY DEF Keeps!Drops, Keeps!Aged, Keeps!NoEntry
<1> QED
  BY <1>1 DEF Keeps!Aged

LEMMA AgedStep ==
  ASSUME NEW g, Keeps(g)!Assumptions, ~g.fails, Keeps(g)!Typed, Keeps(g)!Typed', Keeps(g)!Aged,
         [Keeps(g)!Next]_(Keeps(g)!vars)
  PROVE  Keeps(g)!Aged'
<1>1. /\ \A c \in g.calls : reading[c] \in Keeps(g)!Call
      /\ reading \in [g.calls -> Keeps(g)!Call] /\ g.latency \in Nat /\ g.ttl \in Nat
      /\ \A k \in g.keys : cache[k] \in Keeps(g)!Entry /\ cache[k].val \in Keeps(g)!Contents /\ cache[k].left \in Int
      /\ \A k \in g.keys : \A v \in Keeps(g)!Contents : stale[k][v] \in Nat
  BY DEF Keeps!Typed, Keeps!Assumptions, Keeps!Entry, Keeps!Horizon
<1>2. ASSUME NEW c \in g.calls, NEW op \in Keeps(g)!Reads, NEW K \in SUBSET g.keys,
             Keeps(g)!CallRead(c, op, K)
      PROVE  Keeps(g)!Aged'
  <2>1. Keeps(g)!Drops
    BY <1>2, TouchedDrops DEF Keeps!CallRead
  <2>2. \A d \in g.calls : reading'[d] = reading[d] \/ reading'[d].at = "await"
    BY <1>1, <1>2 DEF Keeps!CallRead, Keeps!Idle
  <2>3. db' = db /\ stale' = stale
    BY <1>2 DEF Keeps!CallRead
  <2> QED
    BY <2>1, <2>2, <2>3, AgedKept
<1>3. ASSUME NEW c \in g.calls, NEW op \in Keeps(g)!Ops \ Keeps(g)!Reads, NEW K \in SUBSET g.keys,
             NEW v \in Keeps(g)!Contents,
             Keeps(g)!CallWrite(c, op, K, v)
      PROVE  Keeps(g)!Aged'
  <2>1. Keeps(g)!Drops /\ db' = db /\ stale' = stale
    BY <1>3 DEF Keeps!CallWrite, Keeps!Drops
  <2>2. reading'[c].at = "await"
    BY <1>3 DEF Keeps!CallWrite, Keeps!Idle
  <2>3. ASSUME NEW d \in g.calls \ {c}
        PROVE  reading'[d].at = reading[d].at /\ reading'[d].ks = reading[d].ks /\ reading'[d].got = reading[d].got
               /\ reading'[d].age = reading[d].age
    <3>1. reading'[d] = [reading[d] EXCEPT !.lone = @ /\ reading[d].ks \cap K = {}]
      BY <1>3 DEF Keeps!CallWrite
    <3> QED
      BY <1>1, <3>1 DEF Keeps!Call
  <2>4. \A d \in g.calls : reading'[d].at = "back" => d # c
    BY <2>2
  <2> QED
    BY <2>1, <2>3, <2>4, AgedKept
<1>4. ASSUME NEW c \in g.calls, Keeps(g)!Inner(c) PROVE Keeps(g)!Aged'
  <2> DEFINE o == reading[c]
  <2>1. PICK got \in [o.ks -> Keeps(g)!Contents] :
            Keeps(g)!Answers(o, got, db') /\ reading' = [reading EXCEPT ![c].at = "back", ![c].got = got]
    BY <1>4, InnerAnswers
  <2>2. (db' = db /\ stale' = stale) \/ Keeps(g)!Write(db')
    BY <1>4, InnerAnswers
  <2>3. /\ db' \in [g.keys -> Keeps(g)!Contents] /\ UNCHANGED cache
        /\ o.ks \subseteq g.keys
    BY <1>1, <1>4, InnerAnswers DEF Keeps!Call
  <2>4. /\ \A k \in g.keys : \A v \in Keeps(g)!Contents : stale'[k][v] <= stale[k][v] /\ stale'[k][v] \in Nat
        /\ \A k \in g.keys : stale'[k][db[k]] = 0 /\ stale'[k][db'[k]] = 0
    <3>1. \A k \in g.keys : \A v \in Keeps(g)!Contents : stale'[k][v] \in Nat
      BY DEF Keeps!Typed, Keeps!Horizon, Keeps!Assumptions
    <3>2. CASE db' = db /\ stale' = stale
      BY <1>1, <3>1, <3>2 DEF Keeps!Aged
    <3>3. CASE Keeps(g)!Write(db')
      BY <2>3, <3>1, <3>3, WriteYounger
    <3> QED
      BY <2>2, <3>2, <3>3
  <2>5. \A k \in o.ks : got[k] \in {db[k], db'[k]}
    BY <2>1, <2>3 DEF Keeps!Answers, Keeps!Reads, Keeps!Finds
  <2>6. /\ \A d \in g.calls \ {c} : reading'[d] = reading[d]
        /\ reading'[c].ks = o.ks /\ reading'[c].got = got /\ reading'[c].age \in Nat
    BY <1>1, <2>1 DEF Keeps!Call
  <2>7. ASSUME NEW k \in g.keys, cache'[k].left >= 0
        PROVE  stale'[k][cache'[k].val] <= (g.ttl - cache'[k].left) + g.latency
    <3>1. stale[k][cache[k].val] <= (g.ttl - cache[k].left) + g.latency
      BY <2>3, <2>7 DEF Keeps!Aged
    <3>2. stale'[k][cache[k].val] <= stale[k][cache[k].val]
      BY <1>1, <2>4
    <3> QED
      BY <1>1, <2>3, <2>4, <3>1, <3>2
  <2>8. ASSUME NEW d \in g.calls, reading'[d].at = "back", NEW k \in reading'[d].ks
        PROVE  stale'[k][reading'[d].got[k]] <= reading'[d].age
    <3>1. CASE d = c
      BY <2>3, <2>4, <2>5, <2>6, <3>1
    <3>2. CASE d # c
      <4>1. reading[d].got \in [reading[d].ks -> Keeps(g)!Contents] /\ k \in g.keys /\ reading[d].age \in Nat
        BY <1>1, <2>6, <2>8, <3>2 DEF Keeps!Typed, Keeps!Call
      <4>2. stale[k][reading[d].got[k]] <= reading[d].age
        BY <2>6, <2>8, <3>2 DEF Keeps!Aged
      <4> QED
        BY <1>1, <2>4, <2>6, <2>8, <3>2, <4>1, <4>2
    <3> QED
      BY <3>1, <3>2
  <2> QED
    BY <2>4, <2>7, <2>8 DEF Keeps!Aged
<1>5. ASSUME NEW c \in g.calls, Keeps(g)!Return(c) PROVE Keeps(g)!Aged'
  <2> DEFINE o == reading[c]
  <2>1. /\ o.got \in [o.ks -> Keeps(g)!Contents] /\ o.ks \subseteq g.keys /\ o.age \in 0..g.latency
        /\ \A k \in o.ks : stale[k][o.got[k]] <= o.age
    BY <1>1, <1>5 DEF Keeps!Return, Keeps!Typed, Keeps!Call, Keeps!Aged
  <2>2. /\ \A d \in g.calls \ {c} : reading'[d] = reading[d]
        /\ reading'[c].at = "idle" /\ db' = db /\ stale' = stale
    BY <1>1, <1>5 DEF Keeps!Return, Keeps!Idle
  <2>3. CASE Keeps(g)!Drops
    BY <2>2, <2>3, AgedKept
  <2>4. ASSUME Keeps(g)!Fills(o.ks, o.got) PROVE Keeps(g)!Aged'
    <3>1. ASSUME NEW k \in g.keys, cache'[k].left >= 0
          PROVE  stale'[k][cache'[k].val] <= (g.ttl - cache'[k].left) + g.latency
      <4>1. CASE cache'[k] = Keeps(g)!NoEntry
        BY <3>1, <4>1 DEF Keeps!NoEntry
      <4>2. CASE k \in o.ks /\ cache'[k] = [val |-> o.got[k], left |-> g.ttl]
        <5>1. o.got[k] \in Keeps(g)!Contents /\ stale[k][o.got[k]] <= o.age
          BY <2>1, <4>2
        <5> QED
          BY <1>1, <2>1, <2>2, <4>2, <5>1
      <4>3. CASE cache'[k] = cache[k]
        BY <2>2, <3>1, <4>3 DEF Keeps!Aged
      <4> QED
        BY <2>4, <4>1, <4>2, <4>3 DEF Keeps!Fills
    <3> QED
      BY <2>2, <3>1 DEF Keeps!Aged
  <2>5. CASE UNCHANGED cache \/ Keeps(g)!Invalidate(o.ks)
    BY <2>3, <2>5, InvalidateDrops DEF Keeps!Drops
  <2>6. ASSUME NEW seq, {seq[i] : i \in DOMAIN seq} = o.ks, Keeps(g)!Put(seq, o.got)
        PROVE  Keeps(g)!Fills(o.ks, o.got)
    BY <2>6, PutFills
  <2> QED
    BY <1>5, <2>4, <2>5, <2>6 DEF Keeps!Return
<1>6. ASSUME NEW k \in g.keys, NEW v \in Keeps(g)!Contents, Keeps(g)!WriteOutside(k, v)
      PROVE  Keeps(g)!Aged'
  <2> DEFINE d == [db EXCEPT ![k] = v]
  <2>1. d \in [g.keys -> Keeps(g)!Contents] /\ Keeps(g)!Write(d) /\ UNCHANGED <<cache, reading>>
    BY <1>6 DEF Keeps!WriteOutside, Keeps!Typed
  <2>2. /\ \A l \in g.keys : \A u \in Keeps(g)!Contents : stale'[l][u] <= stale[l][u] /\ stale'[l][u] \in Nat
        /\ \A l \in g.keys : stale'[l][db'[l]] = 0
    <3>1. /\ \A l \in g.keys : \A u \in Keeps(g)!Contents : stale'[l][u] <= stale[l][u]
          /\ \A l \in g.keys : stale'[l][d[l]] = 0 /\ db' = d
      <4> HIDE DEF d
      <4> QED
        BY <2>1, WriteYounger
    <3>2. \A l \in g.keys : \A u \in Keeps(g)!Contents : stale'[l][u] \in Nat
      BY DEF Keeps!Typed, Keeps!Horizon, Keeps!Assumptions
    <3> HIDE DEF d
    <3>3. \A l \in g.keys : stale'[l][db'[l]] = 0
      BY <3>1
    <3> QED
      BY <3>1, <3>2, <3>3
  <2>3. ASSUME NEW l \in g.keys, cache'[l].left >= 0
        PROVE  stale'[l][cache'[l].val] <= (g.ttl - cache'[l].left) + g.latency
    <3>1. stale[l][cache[l].val] <= (g.ttl - cache[l].left) + g.latency
      BY <2>1, <2>3 DEF Keeps!Aged
    <3>2. stale'[l][cache[l].val] <= stale[l][cache[l].val] /\ stale'[l][cache[l].val] \in Nat
      BY <1>1, <2>2
    <3> QED
      BY <1>1, <2>1, <3>1, <3>2
  <2>4. ASSUME NEW c \in g.calls, reading'[c].at = "back", NEW l \in reading'[c].ks
        PROVE  stale'[l][reading'[c].got[l]] <= reading'[c].age
    <3>1. /\ l \in g.keys /\ reading[c].got[l] \in Keeps(g)!Contents /\ reading[c].age \in Nat
          /\ stale[l][reading[c].got[l]] <= reading[c].age
      BY <1>1, <2>1, <2>4 DEF Keeps!Aged, Keeps!Typed, Keeps!Call
    <3> QED
      BY <1>1, <2>1, <2>2, <3>1
  <2> QED
    BY <2>2, <2>3, <2>4 DEF Keeps!Aged
<1>7. CASE Keeps(g)!ClearCache
  <2>1. Keeps(g)!Drops /\ UNCHANGED <<db, stale, reading>>
    BY <1>7 DEF Keeps!ClearCache, Keeps!Drops
  <2> QED
    BY <2>1, AgedKept
<1>8. CASE Keeps(g)!Tick
  <2>1. ASSUME NEW k \in g.keys, NEW v \in Keeps(g)!Contents
        PROVE  /\ stale'[k][v] <= stale[k][v] + 1 /\ stale'[k][v] \in Nat
               /\ db[k] = v => stale'[k][v] = stale[k][v]
    BY <1>1, <1>8 DEF Keeps!Tick
  <2>2. ASSUME NEW k \in g.keys, cache'[k].left >= 0
        PROVE  stale'[k][cache'[k].val] <= (g.ttl - cache'[k].left) + g.latency
    <3>1. /\ cache[k].left >= 0 /\ cache'[k].left = cache[k].left - 1
          /\ cache'[k].val = cache[k].val
      BY <1>1, <1>8, <2>2 DEF Keeps!Tick, Keeps!Entry
    <3>2. stale[k][cache[k].val] <= (g.ttl - cache[k].left) + g.latency
      BY <3>1 DEF Keeps!Aged
    <3> QED
      BY <1>1, <2>1, <3>1, <3>2
  <2>3. ASSUME NEW c \in g.calls, reading'[c].at = "back", NEW k \in reading'[c].ks
        PROVE  stale'[k][reading'[c].got[k]] <= reading'[c].age
    <3>1. /\ reading'[c] = [reading[c] EXCEPT !.age = @ + 1] /\ reading'[c].ks = reading[c].ks
          /\ reading'[c].got = reading[c].got /\ reading'[c].age = reading[c].age + 1
          /\ reading[c].at = "back"
      BY <1>1, <1>8, <2>3 DEF Keeps!Tick, Keeps!Call, Keeps!Idle
    <3>2. k \in g.keys /\ reading[c].got[k] \in Keeps(g)!Contents /\ reading[c].age \in Nat
      BY <1>1, <2>3, <3>1 DEF Keeps!Typed, Keeps!Call
    <3>3. stale[k][reading[c].got[k]] <= reading[c].age
      BY <2>3, <3>1 DEF Keeps!Aged
    <3> QED
      BY <1>1, <2>1, <3>1, <3>2, <3>3
  <2>4. \A k \in g.keys : stale'[k][db'[k]] = 0
    BY <1>8, <2>1 DEF Keeps!Tick, Keeps!Aged, Keeps!Typed
  <2> QED
    BY <2>2, <2>3, <2>4 DEF Keeps!Aged
<1>9. CASE UNCHANGED Keeps(g)!vars
  BY <1>9 DEF Keeps!vars, Keeps!Aged
<1> QED
  BY <1>2, <1>3, <1>4, <1>5, <1>6, <1>7, <1>8, <1>9 DEF Keeps!Next

\* The data has its types, whatever the calls do and however they overlap.
THEOREM KeptTypes == ASSUME NEW g, Keeps(g)!Assumptions PROVE Keeps(g)!Spec => []Keeps(g)!Typed
<1>1. Keeps(g)!Typed /\ [Keeps(g)!Next]_(Keeps(g)!vars) => Keeps(g)!Typed'
  BY KeptStep
<1> QED
  BY <1>1, InitTyped, PTL DEF Keeps!Spec

LEMMA AgedInit == ASSUME NEW g, Keeps(g)!Init PROVE Keeps(g)!Aged
<1>1. \A k \in g.keys : db[k] = Absent /\ stale[k][Absent] = 0 /\ ~(cache[k].left >= 0)
  BY DEF Keeps!Init, Keeps!Contents, Keeps!NoEntry
<1>2. \A c \in g.calls : reading[c].at = "idle"
  BY DEF Keeps!Init, Keeps!Idle
<1> QED
  BY <1>1, <1>2 DEF Keeps!Aged

LEMMA AgedServes == ASSUME NEW g, Keeps(g)!Assumptions, Keeps(g)!Aged PROVE Keeps(g)!AgeBound
BY DEF Keeps!Aged, Keeps!AgeBound, Keeps!Live, Keeps!Assumptions

\* AgeBound, for every ttl, size and latency and any writers elsewhere: nothing is
\* served past its ttl and one database call (db/_cache.py:64), as long as no single
\* record of a bulk_save fails, which the code caches as if it had been saved.
THEOREM Freshness ==
  ASSUME NEW g, Keeps(g)!Assumptions, ~g.fails
  PROVE  Keeps(g)!Spec => []Keeps(g)!AgeBound
<1>1. Keeps(g)!Init => Keeps(g)!Typed /\ Keeps(g)!Aged
  BY InitTyped, AgedInit
<1>2. Keeps(g)!Typed /\ Keeps(g)!Aged /\ [Keeps(g)!Next]_(Keeps(g)!vars)
        => Keeps(g)!Typed' /\ Keeps(g)!Aged'
  BY KeptStep, AgedStep
<1>3. Keeps(g)!Aged => Keeps(g)!AgeBound
  BY AgedServes
<1> QED
  BY <1>1, <1>2, <1>3, PTL DEF Keeps!Spec

\* The writers of the model are the calls that write.
LEMMA WritersWrite ==
    ASSUME NEW g, Keeps(g)!Typed, NEW k
    PROVE  /\ Keeps(g)!Writers(k) = {c \in g.calls : Keeps(g)!Writes(c) /\ k \in reading[c].ks}
           /\ \A c \in g.calls : k \in reading[c].ks => reading[c].at # "idle" /\ reading[c].op \in Keeps(g)!Ops
<1>1. \A c \in g.calls : k \in reading[c].ks => reading[c].at # "idle" /\ reading[c].op \in Keeps(g)!Ops
  BY DEF Keeps!Typed, Keeps!Idle
<1>2. "none" \notin Keeps(g)!Ops
  BY DEF Keeps!Ops, Keeps!Reads
<1> QED
  BY <1>1, <1>2 DEF Keeps!Writers, Keeps!Busy, Keeps!Writes

LEMMA QuietInit == ASSUME NEW g, Keeps(g)!Assumptions, Keeps(g)!Init PROVE Keeps(g)!Quieted
<1>1. /\ \A c \in g.calls : reading[c].op = "none" /\ reading[c].ks = {} /\ reading[c].at = "idle"
      /\ \A k \in g.keys : db[k] = Absent /\ acked[k] = Absent /\ cache[k] = Keeps(g)!NoEntry
  BY DEF Keeps!Init, Keeps!Idle
<1>2. Keeps(g)!Acked
  BY <1>1 DEF Keeps!Acked, Keeps!Writes
<1>3. \A k \in g.keys : Keeps(g)!Calm(k)
  BY <1>1 DEF Keeps!Calm, Keeps!Serves, Keeps!Live, Keeps!Cached
<1> QED
  BY <1>2, <1>3 DEF Keeps!Quieted

\* Entries that go, or stay as they are, serve what they served.
LEMMA DropsServe ==
    ASSUME NEW g, Keeps(g)!Assumptions, Keeps(g)!Typed, Keeps(g)!Drops, NEW k \in g.keys,
           Keeps(g)!Serves(k), db'[k] = db[k]
    PROVE  Keeps(g)!Serves(k)'
BY DEF Keeps!Drops, Keeps!Serves, Keeps!Live, Keeps!Cached

\* A step that changes neither the calls of a record nor what it is.
LEMMA CalmKept ==
    ASSUME NEW g, NEW k \in g.keys, Keeps(g)!Calm(k), Keeps(g)!Serves(k) => Keeps(g)!Serves(k)',
           db'[k] = db[k],
           \A c \in g.calls : /\ k \in reading'[c].ks <=> k \in reading[c].ks
                              /\ k \in reading[c].ks => /\ reading'[c].op = reading[c].op
                                                        /\ reading'[c].at = reading[c].at
                                                        /\ reading'[c].got = reading[c].got
    PROVE  Keeps(g)!Calm(k)'
BY DEF Keeps!Calm, Keeps!Writes

LEMMA QuietStep ==
    ASSUME NEW g, Keeps(g)!Assumptions, ~g.outside, ~g.fails, Keeps(g)!Typed, Keeps(g)!Quieted,
           [Keeps(g)!Next]_(Keeps(g)!vars)
    PROVE  Keeps(g)!Quieted'
<1>1. /\ \A c \in g.calls : reading[c] \in Keeps(g)!Call
      /\ reading \in [g.calls -> Keeps(g)!Call]
      /\ \A c \in g.calls, k \in g.keys : k \in reading[c].ks => reading[c].at # "idle" /\ reading[c].op \in Keeps(g)!Ops
      /\ DOMAIN acked = g.keys
  BY WritersWrite DEF Keeps!Typed
<1>2. ASSUME NEW c \in g.calls, NEW op \in Keeps(g)!Reads, NEW K \in SUBSET g.keys,
             Keeps(g)!CallRead(c, op, K)
      PROVE  Keeps(g)!Quieted'
  <2> DEFINE m == {k \in K : ~Keeps(g)!Live(k)}
  <2>1. /\ Keeps(g)!Drops /\ db' = db /\ acked' = acked /\ reading[c] = Keeps(g)!Idle
        /\ \A d \in g.calls \ {c} : reading'[d] = reading[d]
    BY <1>1, <1>2, TouchedDrops DEF Keeps!CallRead
  <2>2. /\ reading[c].ks = {} /\ reading[c].op = "none"
        /\ reading' = reading \/ (reading'[c].ks = m /\ reading'[c].op = op /\ reading'[c].at = "await")
    <3>1. reading' = reading \/ reading'[c] = [Keeps(g)!Idle EXCEPT !.op = op, !.ks = m, !.at = "await"]
      BY <1>1, <1>2 DEF Keeps!CallRead
    <3> HIDE DEF m
    <3>2. LET o == [Keeps(g)!Idle EXCEPT !.op = op, !.ks = m, !.at = "await"]
          IN  o.ks = m /\ o.op = op /\ o.at = "await"
      BY DEF Keeps!Idle
    <3>3. Keeps(g)!Idle.ks = {} /\ Keeps(g)!Idle.op = "none"
      BY DEF Keeps!Idle
    <3> QED
      BY <2>1, <3>1, <3>2, <3>3
  <2>3. Keeps(g)!Acked'
    <3>1. \A d \in g.calls : Keeps(g)!Writes(d)' => d # c
      BY <2>2 DEF Keeps!Writes
    <3> QED
      BY <2>1, <3>1 DEF Keeps!Quieted, Keeps!Acked, Keeps!Writes
  <2>4. ASSUME NEW k \in g.keys, quiet'[k] PROVE Keeps(g)!Calm(k)'
    <3>1. quiet[k] /\ (reading' # reading /\ k \in m => Keeps(g)!Writers(k) = {})
      BY <1>2, <2>4 DEF Keeps!CallRead
    <3>2. Keeps(g)!Calm(k) /\ (Keeps(g)!Serves(k) => Keeps(g)!Serves(k)')
      BY <2>1, <3>1, DropsServe DEF Keeps!Quieted
    <3>3. CASE reading' = reading \/ k \notin m
      BY <2>1, <2>2, <3>2, <3>3, CalmKept
    <3>4. CASE reading' # reading /\ k \in m
      <4>1. \A d \in g.calls : Keeps(g)!Writes(d) => k \notin reading[d].ks
        BY <3>1, <3>4, WritersWrite
      <4>2. \A d \in g.calls : Keeps(g)!Writes(d)' => k \notin reading'[d].ks
        BY <2>1, <2>2, <3>4, <4>1 DEF Keeps!Writes
      <4>3. \A d \in g.calls \ {c} : k \in reading'[d].ks =>
               /\ reading'[d].at = "await" /\ reading'[d].op \in Keeps(g)!Finds
                    => Keeps(g)!Serves(k)'
               /\ reading'[d].at = "back" =>
                     /\ reading'[d].op \notin {"delete", "take"} => reading'[d].got[k] = db'[k]
                     /\ reading'[d].op \in {"delete", "take"} => db'[k] = Absent
                     /\ reading'[d].op \in Keeps(g)!Finds /\ reading'[d].got[k] = Absent
                          => Keeps(g)!Serves(k)'
        BY <2>1, <3>2 DEF Keeps!Calm
      <4>4. reading'[c].at = "await" /\ reading'[c].op \notin Keeps(g)!Finds
        BY <2>2, <3>4 DEF Keeps!Reads, Keeps!Finds
      <4>5. Keeps(g)!Serves(k)'
        BY <3>2, <4>1 DEF Keeps!Calm
      <4> QED
        BY <4>2, <4>3, <4>4, <4>5 DEF Keeps!Calm
    <3> QED
      BY <3>3, <3>4
  <2> QED
    BY <2>3, <2>4 DEF Keeps!Quieted
<1>3. ASSUME NEW c \in g.calls, NEW op \in Keeps(g)!Ops \ Keeps(g)!Reads, NEW K \in SUBSET g.keys,
             NEW v \in Keeps(g)!Contents,
             Keeps(g)!CallWrite(c, op, K, v)
      PROVE  Keeps(g)!Quieted'
  <2>1. /\ UNCHANGED <<db, cache>> /\ reading[c].ks = {} /\ reading[c].op = "none"
        /\ reading'[c].ks = K /\ reading'[c].op = op /\ reading'[c].at = "await"
        /\ reading'[c].lone => \A k \in K : Keeps(g)!Writers(k) = {}
    <3> DEFINE l == \A k \in K : Keeps(g)!Writers(k) = {}
    <3>1. /\ UNCHANGED <<db, cache>> /\ reading[c] = Keeps(g)!Idle
          /\ reading'[c] = [Keeps(g)!Idle EXCEPT !.op = op, !.ks = K, !.val = v, !.at = "await", !.lone = l]
      BY <1>3 DEF Keeps!CallWrite
    <3> HIDE DEF l
    <3>2. /\ reading'[c].ks = K /\ reading'[c].op = op /\ reading'[c].at = "await"
          /\ reading'[c].lone = l
          /\ reading[c].ks = {} /\ reading[c].op = "none"
      BY <3>1 DEF Keeps!Idle
    <3> QED
      BY <3>1, <3>2 DEF l
  <2>2. ASSUME NEW d \in g.calls \ {c}
        PROVE  /\ reading'[d].at = reading[d].at /\ reading'[d].ks = reading[d].ks /\ reading'[d].got = reading[d].got
               /\ reading'[d].op = reading[d].op
               /\ reading'[d].lone => reading[d].lone /\ reading[d].ks \cap K = {}
    <3>1. reading'[d] = [reading[d] EXCEPT !.lone = @ /\ reading[d].ks \cap K = {}]
      BY <1>3 DEF Keeps!CallWrite
    <3> QED
      BY <1>1, <3>1 DEF Keeps!Call
  <2>3. /\ \A k \in g.keys : acked'[k] = IF k \in K THEN NoAck ELSE acked[k]
        /\ \A k \in K : quiet'[k] => Keeps(g)!Busy(k) = {} /\ (op \in Keeps(g)!Finds => quiet[k])
        /\ \A k \in g.keys \ K : quiet'[k] => quiet[k]
    BY <1>3 DEF Keeps!CallWrite
  <2>4. \A d \in g.calls \ {c} : Keeps(g)!Writes(d)' <=> Keeps(g)!Writes(d)
    BY <2>2 DEF Keeps!Writes
  <2>5. Keeps(g)!Acked'
    <3>1. \A k \in g.keys : acked'[k] # NoAck => db'[k] = acked'[k]
      BY <2>1, <2>3 DEF Keeps!Quieted, Keeps!Acked
    <3>2. \A d \in g.calls : reading'[d].ks \subseteq g.keys
      BY <1>1, <2>1, <2>2 DEF Keeps!Call
    <3>3. \A d \in g.calls : Keeps(g)!Writes(d)' => \A k \in reading'[d].ks : acked'[k] = NoAck
      BY <2>1, <2>2, <2>3, <2>4, <3>2 DEF Keeps!Quieted, Keeps!Acked
    <3>4. ASSUME NEW d \in g.calls, NEW e \in g.calls, d # e, Keeps(g)!Writes(d)',
                 Keeps(g)!Writes(e)', reading'[d].lone
          PROVE  reading'[d].ks \cap reading'[e].ks = {}
      <4>1. CASE d = c
        <5>1. \A k \in K : e \notin Keeps(g)!Writers(k)
          BY <2>1, <3>4, <4>1
        <5> QED
          BY <2>1, <2>2, <2>4, <3>4, <4>1, <5>1, WritersWrite
      <4>2. CASE e = c
        BY <2>1, <2>2, <3>4, <4>2
      <4>3. CASE d # c /\ e # c
        BY <2>2, <2>4, <3>4, <4>3 DEF Keeps!Quieted, Keeps!Acked
      <4> QED
        BY <4>1, <4>2, <4>3
    <3> QED
      BY <3>1, <3>3, <3>4 DEF Keeps!Acked
  <2>6. ASSUME NEW k \in g.keys, quiet'[k] PROVE Keeps(g)!Calm(k)'
    <3>1. CASE k \notin K
      <4>1. Keeps(g)!Calm(k) /\ (Keeps(g)!Serves(k) => Keeps(g)!Serves(k)')
        BY <2>1, <2>3, <2>6, <3>1 DEF Keeps!Quieted, Keeps!Serves, Keeps!Live, Keeps!Cached
      <4> QED
        BY <2>1, <2>2, <3>1, <4>1, CalmKept
    <3>2. CASE k \in K
      <4>1. \A d \in g.calls : k \notin reading[d].ks
        BY <2>3, <2>6, <3>2 DEF Keeps!Busy
      <4>2. op \in Keeps(g)!Finds => Keeps(g)!Serves(k)
        BY <2>3, <2>6, <3>2, <4>1 DEF Keeps!Quieted, Keeps!Calm
      <4>3. op \in Keeps(g)!Finds => Keeps(g)!Serves(k)'
        BY <2>1, <4>2 DEF Keeps!Serves, Keeps!Live, Keeps!Cached
      <4>4. \A d \in g.calls : k \in reading'[d].ks => d = c
        BY <2>2, <4>1
      <4>5. Keeps(g)!Writes(c)'
        BY <2>1 DEF Keeps!Writes, Keeps!Ops, Keeps!Reads
      <4> QED
        BY <2>1, <3>2, <4>3, <4>4, <4>5 DEF Keeps!Calm
    <3> QED
      BY <3>1, <3>2
  <2> QED
    BY <2>5, <2>6 DEF Keeps!Quieted
<1>4. ASSUME NEW c \in g.calls, Keeps(g)!Inner(c) PROVE Keeps(g)!Quieted'
  <2> DEFINE o == reading[c]
  <2>1. PICK got \in [o.ks -> Keeps(g)!Contents] :
            Keeps(g)!Answers(o, got, db') /\ reading' = [reading EXCEPT ![c].at = "back", ![c].got = got]
    BY <1>4, InnerAnswers
  <2>2. o.at = "await" /\ UNCHANGED <<cache, acked, quiet>>
    BY <1>4, InnerAnswers
  <2>3. PICK wrote \in SUBSET o.ks :
            /\ o.op \in Keeps(g)!Finds => wrote = {k \in o.ks : db[k] # Absent}
            /\ o.op \notin Keeps(g)!Finds => wrote = o.ks
            /\ db' = IF o.op \in Keeps(g)!Reads THEN db ELSE [k \in g.keys |-> IF k \in wrote THEN o.val ELSE db[k]]
            /\ got = [k \in o.ks |->
                        IF o.op \in Keeps(g)!Reads \cup {"take"} \/ (o.op = "update" /\ k \notin wrote)
                        THEN db[k] ELSE o.val]
    BY <2>1 DEF Keeps!Answers
  <2>4. /\ \A d \in g.calls \ {c} : reading'[d] = reading[d]
        /\ reading'[c].ks = o.ks /\ reading'[c].op = o.op /\ reading'[c].got = got
        /\ reading'[c].at = "back"
        /\ reading'[c].lone = o.lone
        /\ o.ks \subseteq g.keys /\ o.op \in Keeps(g)!Ops
        /\ \A d \in g.calls : Keeps(g)!Writes(d)' <=> Keeps(g)!Writes(d)
    <3>1. reading[c] \in Keeps(g)!Call /\ o.op \in Keeps(g)!Ops
      BY <1>1, <2>2 DEF Keeps!Typed
    <3>2. reading'[c] = [o EXCEPT !.at = "back", !.got = got] /\ \A d \in g.calls \ {c} : reading'[d] = reading[d]
      BY <1>1, <2>1
    <3> QED
      BY <3>1, <3>2 DEF Keeps!Call, Keeps!Writes
  <2>5. \A k \in g.keys : db'[k] # db[k] => k \in o.ks /\ Keeps(g)!Writes(c)
    BY <2>3, <2>4 DEF Keeps!Writes, Keeps!Ops, Keeps!Reads, Keeps!Typed
  <2>6. Keeps(g)!Acked'
    <3>1. \A k \in g.keys : acked[k] # NoAck => db'[k] = acked[k]
      BY <2>5 DEF Keeps!Quieted, Keeps!Acked
    <3> QED
      BY <2>2, <2>4, <3>1 DEF Keeps!Quieted, Keeps!Acked
  <2>7. ASSUME NEW k \in g.keys, quiet'[k] PROVE Keeps(g)!Calm(k)'
    <3>1. Keeps(g)!Calm(k)
      BY <2>2, <2>7 DEF Keeps!Quieted
    <3>2. db'[k] = db[k] /\ Keeps(g)!Serves(k) => Keeps(g)!Serves(k)'
      BY <2>2 DEF Keeps!Serves, Keeps!Live, Keeps!Cached
    <3>3. CASE k \notin o.ks
      BY <2>4, <2>5, <3>1, <3>2, <3>3, CalmKept
    <3>4. CASE k \in o.ks /\ o.op \in Keeps(g)!Reads
      <4>1. db'[k] = db[k] /\ got[k] = db[k] /\ ~Keeps(g)!Writes(c)
        BY <2>3, <3>4 DEF Keeps!Writes
      <4>2. o.op \notin Keeps(g)!Finds /\ o.op \notin {"delete", "take"}
        BY <3>4 DEF Keeps!Reads, Keeps!Finds
      <4> QED
        BY <2>4, <3>1, <3>2, <3>4, <4>1, <4>2 DEF Keeps!Calm
    <3>5. CASE k \in o.ks /\ o.op \notin Keeps(g)!Reads
      <4>1. Keeps(g)!Writes(c) /\ \A d \in g.calls : k \in reading'[d].ks => d = c
        <5>1. Keeps(g)!Writes(c)
          BY <2>4, <3>5 DEF Keeps!Writes, Keeps!Ops, Keeps!Reads
        <5> QED
          BY <2>4, <3>1, <3>5, <5>1 DEF Keeps!Calm
      <4>2. db'[k] = IF k \in wrote THEN o.val ELSE db[k]
        BY <2>3, <3>5
      <4>3. /\ o.op = "update" => o.val # Absent
            /\ o.op \in {"delete", "take"} => o.val = Absent
        BY DEF Keeps!Typed
      <4>4. o.op \notin {"delete", "take"} => got[k] = db'[k]
        BY <2>3, <3>5, <4>2 DEF Keeps!Reads, Keeps!Finds
      <4>5. o.op \in {"delete", "take"} => db'[k] = Absent
        BY <2>3, <3>5, <4>2, <4>3 DEF Keeps!Finds
      <4>6. o.op \in Keeps(g)!Finds => Keeps(g)!Serves(k)
        BY <2>2, <3>1, <3>5 DEF Keeps!Calm
      <4>7. o.op \in Keeps(g)!Finds /\ got[k] = Absent => db'[k] = db[k]
        BY <2>3, <3>5, <4>2, <4>3 DEF Keeps!Finds, Keeps!Reads
      <4> QED
        BY <2>4, <3>2, <3>5, <4>1, <4>4, <4>5, <4>6, <4>7 DEF Keeps!Calm
    <3> QED
      BY <3>3, <3>4, <3>5
  <2> QED
    BY <2>6, <2>7 DEF Keeps!Quieted
<1>5. ASSUME NEW c \in g.calls, Keeps(g)!Return(c) PROVE Keeps(g)!Quieted'
  <2> DEFINE o == reading[c]
  <2>1. /\ o.at = "back" /\ o.op \in Keeps(g)!Ops /\ o.ks \subseteq g.keys
        /\ UNCHANGED <<db, quiet>>
        /\ \A d \in g.calls \ {c} : reading'[d] = reading[d]
        /\ reading'[c].ks = {} /\ reading'[c].op = "none"
        /\ Keeps(g)!Writes(c) <=> o.op \notin Keeps(g)!Reads
    <3>1. o.at = "back" /\ reading' = [reading EXCEPT ![c] = Keeps(g)!Idle] /\ UNCHANGED <<db, quiet>>
      BY <1>5 DEF Keeps!Return
    <3>2. o \in Keeps(g)!Call /\ o.op \in Keeps(g)!Ops
      BY <1>1, <3>1 DEF Keeps!Typed
    <3>3. Keeps(g)!Writes(c) <=> o.op \notin Keeps(g)!Reads
      BY <3>2 DEF Keeps!Writes, Keeps!Ops, Keeps!Reads
    <3> QED
      BY <1>1, <3>1, <3>2, <3>3 DEF Keeps!Idle, Keeps!Call
  <2>2. Keeps(g)!Acked'
    <3>1. \A k \in g.keys : acked'[k] = IF k \in o.ks /\ o.op \notin Keeps(g)!Reads /\ o.lone THEN db[k] ELSE acked[k]
      BY <1>5 DEF Keeps!Return
    <3>2. \A d \in g.calls : Keeps(g)!Writes(d)' =>
             Keeps(g)!Writes(d) /\ d # c /\ reading'[d] = reading[d] /\ reading[d].ks \subseteq g.keys
      BY <1>1, <2>1 DEF Keeps!Writes, Keeps!Call
    <3>3. ASSUME NEW d \in g.calls, Keeps(g)!Writes(d)', NEW k \in reading'[d].ks
          PROVE  acked'[k] = NoAck
      <4>1. acked[k] = NoAck /\ k \in g.keys
        BY <3>2, <3>3 DEF Keeps!Quieted, Keeps!Acked
      <4>2. ~(k \in o.ks /\ o.op \notin Keeps(g)!Reads /\ o.lone)
        BY <2>1, <3>2, <3>3 DEF Keeps!Quieted, Keeps!Acked
      <4> QED
        BY <3>1, <4>1, <4>2
    <3>4. \A k \in g.keys : acked'[k] # NoAck => db'[k] = acked'[k]
      BY <2>1, <3>1 DEF Keeps!Quieted, Keeps!Acked
    <3>5. \A d, e \in g.calls : d # e /\ Keeps(g)!Writes(d)' /\ Keeps(g)!Writes(e)'
                                 => ~reading'[d].lone \/ reading'[d].ks \cap reading'[e].ks = {}
      BY <3>2 DEF Keeps!Quieted, Keeps!Acked
    <3> QED
      BY <3>3, <3>4, <3>5 DEF Keeps!Acked
  <2>3. \/ Keeps(g)!Drops /\ o.op \in Keeps(g)!Finds /\ \A k \in o.ks : o.got[k] = Absent
        \/ Keeps(g)!Drops /\ o.op \in {"delete", "take"} /\ \A k \in o.ks : cache'[k] = Keeps(g)!NoEntry
        \/ Keeps(g)!Fills(o.ks, o.got) /\ o.op # "delete" /\ o.op # "take"
    <3>1. ASSUME NEW seq, {seq[i] : i \in DOMAIN seq} = o.ks, Keeps(g)!Put(seq, o.got)
          PROVE  Keeps(g)!Fills(o.ks, o.got)
      BY <3>1, PutFills
    <3>2. Keeps(g)!Invalidate(o.ks) => Keeps(g)!Drops /\ \A k \in o.ks : cache'[k] = Keeps(g)!NoEntry
      BY <2>1, InvalidateDrops
    <3>3. UNCHANGED cache => Keeps(g)!Drops
      BY DEF Keeps!Drops
    <3> QED
      BY <1>5, <3>1, <3>2, <3>3 DEF Keeps!Return
  <2>4. ASSUME NEW k \in g.keys \ o.ks, Keeps(g)!Serves(k) PROVE Keeps(g)!Serves(k)'
    <3>1. cache'[k] = cache[k] \/ cache'[k] = Keeps(g)!NoEntry
      BY <2>3 DEF Keeps!Drops, Keeps!Fills
    <3> QED
      BY <2>1, <2>4, <3>1 DEF Keeps!Serves, Keeps!Live, Keeps!Cached
  <2>5. ASSUME NEW k \in o.ks, Keeps(g)!Calm(k) PROVE Keeps(g)!Serves(k)'
    <3>0. k \in g.keys
      BY <2>1
    <3>1. CASE Keeps(g)!Drops /\ o.op \in Keeps(g)!Finds /\ o.got[k] = Absent
      <4>1. Keeps(g)!Serves(k)
        BY <2>1, <2>5, <3>1 DEF Keeps!Calm
      <4> QED
        BY <2>1, <3>0, <3>1, <4>1, DropsServe
    <3>2. CASE cache'[k] = Keeps(g)!NoEntry
      BY <3>2 DEF Keeps!Serves, Keeps!Live, Keeps!Cached
    <3>3. CASE cache'[k] = [val |-> o.got[k], left |-> g.ttl] /\ o.op \notin {"delete", "take"}
      <4>1. o.got[k] = db[k]
        BY <2>1, <2>5, <3>3 DEF Keeps!Calm
      <4> QED
        BY <2>1, <3>3, <4>1 DEF Keeps!Serves
    <3> QED
      BY <2>3, <2>5, <3>0, <3>1, <3>2, <3>3 DEF Keeps!Fills
  <2>6. ASSUME NEW k \in g.keys, quiet'[k] PROVE Keeps(g)!Calm(k)'
    <3>1. Keeps(g)!Calm(k)
      BY <2>1, <2>6 DEF Keeps!Quieted
    <3>2. CASE k \notin o.ks
      BY <2>1, <2>4, <3>1, <3>2, CalmKept
    <3>3. CASE k \in o.ks
      <4>1. Keeps(g)!Serves(k)'
        BY <2>5, <3>1, <3>3
      <4>2. \A d \in g.calls : k \in reading'[d].ks => d # c /\ reading'[d] = reading[d]
        BY <2>1
      <4> QED
        BY <2>1, <3>1, <4>1, <4>2 DEF Keeps!Calm, Keeps!Writes
    <3> QED
      BY <3>2, <3>3
  <2> QED
    BY <2>2, <2>6 DEF Keeps!Quieted
<1>6. ASSUME NEW k \in g.keys, NEW v \in Keeps(g)!Contents, Keeps(g)!WriteOutside(k, v)
      PROVE  Keeps(g)!Quieted'
  BY <1>6 DEF Keeps!WriteOutside
<1>7. CASE Keeps(g)!ClearCache
  <2>1. Keeps(g)!Drops /\ UNCHANGED <<db, reading, acked, quiet>>
    BY <1>7 DEF Keeps!ClearCache, Keeps!Drops
  <2>2. Keeps(g)!Acked'
    BY <2>1 DEF Keeps!Quieted, Keeps!Acked, Keeps!Writes
  <2>3. \A k \in g.keys : quiet'[k] => Keeps(g)!Calm(k)'
    BY <2>1, DropsServe, CalmKept DEF Keeps!Quieted
  <2> QED
    BY <2>2, <2>3 DEF Keeps!Quieted
<1>8. CASE Keeps(g)!Tick
  <2>1. ASSUME NEW c \in g.calls
        PROVE  /\ reading'[c].op = reading[c].op /\ reading'[c].ks = reading[c].ks /\ reading'[c].at = reading[c].at
               /\ reading'[c].got = reading[c].got /\ reading'[c].lone = reading[c].lone
    <3>1. CASE reading[c] = Keeps(g)!Idle
      BY <1>8, <3>1 DEF Keeps!Tick
    <3>2. CASE reading[c] # Keeps(g)!Idle
      BY <1>1, <1>8, <3>2 DEF Keeps!Tick, Keeps!Call
    <3> QED
      BY <3>1, <3>2
  <2>2. UNCHANGED <<db, acked, quiet>>
    BY <1>8 DEF Keeps!Tick
  <2>3. ASSUME NEW k \in g.keys PROVE Keeps(g)!Serves(k) => Keeps(g)!Serves(k)'
    <3>1. /\ cache[k] \in Keeps(g)!Entry
          /\ cache'[k] = IF cache[k].left >= 0 THEN [cache[k] EXCEPT !.left = @ - 1] ELSE cache[k]
      BY <1>8 DEF Keeps!Tick, Keeps!Typed
    <3>2. cache'[k].val = cache[k].val
      BY <3>1 DEF Keeps!Entry
    <3>3. g.ttl = 0 \/ cache'[k].left >= 0 => g.ttl = 0 \/ cache[k].left >= 0
      BY <3>1 DEF Keeps!Entry
    <3>4. cache'[k] # Keeps(g)!NoEntry => cache[k] # Keeps(g)!NoEntry
      BY <3>1 DEF Keeps!NoEntry
    <3> QED
      BY <2>2, <3>2, <3>3, <3>4 DEF Keeps!Serves, Keeps!Live, Keeps!Cached
  <2>4. Keeps(g)!Acked'
    BY <2>1, <2>2 DEF Keeps!Quieted, Keeps!Acked, Keeps!Writes
  <2>5. \A k \in g.keys : quiet'[k] => Keeps(g)!Calm(k)'
    BY <2>1, <2>2, <2>3, CalmKept DEF Keeps!Quieted
  <2> QED
    BY <2>4, <2>5 DEF Keeps!Quieted
<1>9. CASE UNCHANGED Keeps(g)!vars
  BY <1>9 DEF Keeps!vars, Keeps!Quieted, Keeps!Acked, Keeps!Calm, Keeps!Serves, Keeps!Live,
     Keeps!Cached, Keeps!Writes
<1> QED
  BY <1>2, <1>3, <1>4, <1>5, <1>6, <1>7, <1>8, <1>9 DEF Keeps!Next

LEMMA QuietServes == ASSUME NEW g, Keeps(g)!Typed, Keeps(g)!Quieted PROVE Keeps(g)!QuietCoherent
<1> SUFFICES ASSUME NEW k \in g.keys, quiet[k], acked[k] # NoAck, Keeps(g)!Live(k)
             PROVE  cache[k].val = acked[k]
  BY DEF Keeps!QuietCoherent
<1>1. \A c \in g.calls : Keeps(g)!Writes(c) => k \notin reading[c].ks
  BY DEF Keeps!Quieted, Keeps!Acked
<1> QED
  BY <1>1 DEF Keeps!Quieted, Keeps!Acked, Keeps!Calm, Keeps!Serves

\* QuietCoherent: a record whose reads overlapped none of its writes is served as the
\* last write left it, for any records, callers and size of the cache, and also when
\* writes overlap each other (SPEC.md:604).
THEOREM Coherence ==
  ASSUME NEW g, Keeps(g)!Assumptions, ~g.outside, ~g.fails
  PROVE  Keeps(g)!Spec => []Keeps(g)!QuietCoherent
<1>1. Keeps(g)!Init => Keeps(g)!Typed /\ Keeps(g)!Quieted
  BY InitTyped, QuietInit
<1>2. Keeps(g)!Typed /\ Keeps(g)!Quieted /\ [Keeps(g)!Next]_(Keeps(g)!vars)
        => Keeps(g)!Typed' /\ Keeps(g)!Quieted'
  BY KeptStep, QuietStep
<1>3. Keeps(g)!Typed /\ Keeps(g)!Quieted => Keeps(g)!QuietCoherent
  BY QuietServes
<1> QED
  BY <1>1, <1>2, <1>3, PTL DEF Keeps!Spec
-----------------------------------------------------------------------------
(* The contexts of Graph, for every number of tasks, contexts, databases,    *)
(* ids and contents and every setting g: what is cached was written, and     *)
(* matches the context's database while calls do not overlap.                *)

\* The manager that is there, or is made, has its databases.
LEMMA ManagerType ==
  ASSUME NEW g, Graph(g)!Assumptions, Graph(g)!Types
  PROVE  /\ Graph(g)!get_instance \in Graph(g)!Managers
         /\ Graph(g)!get_instance.made
         /\ {"prime", Graph(g)!get_instance.current} \subseteq DOMAIN Graph(g)!get_instance.dbs
<1>1. CASE manager.made
  BY <1>1 DEF Graph!get_instance, Graph!Types
<1>2. CASE ~manager.made
  <2>1. [n \in {"prime"} |-> Jvdb] \in [{"prime"} -> Dbs]
    BY DEF Graph!Assumptions
  <2>2. [n \in {"prime"} |-> Jvdb] \in UNION {[S -> Dbs] : S \in SUBSET (g.names \cup {"prime"})}
    BY <2>1
  <2>3. Graph(g)!get_instance = [made |-> TRUE, auto |-> TRUE, current |-> "prime",
                                 dbs |-> [n \in {"prime"} |-> Jvdb]]
    BY <1>2 DEF Graph!get_instance
  <2> QED
    BY <2>2, <2>3 DEF Graph!Managers
<1> QED
  BY <1>1, <1>2

\* A manager that is made has a current database.
LEMMA CurrentType ==
  ASSUME NEW g, NEW m \in Graph(g)!Managers, "prime" \in DOMAIN m.dbs
  PROVE  /\ Graph(g)!get_current_database(m) \in Dbs
         /\ \A n \in DOMAIN m.dbs : m.dbs[n] \in Dbs
<1>1. PICK S \in SUBSET (g.names \cup {"prime"}) : m.dbs \in [S -> Dbs]
  BY DEF Graph!Managers
<1> QED
  BY <1>1 DEF Graph!get_current_database

\* A name more leaves a manager well formed.
LEMMA WithType ==
  ASSUME NEW g, NEW m \in Graph(g)!Managers, NEW n \in g.names \cup {"prime"}, NEW d \in Dbs
  PROVE  /\ Graph(g)!With(m, n, d) \in Graph(g)!Managers
         /\ DOMAIN Graph(g)!With(m, n, d).dbs = DOMAIN m.dbs \cup {n}
         /\ Graph(g)!With(m, n, d).made = m.made
         /\ Graph(g)!With(m, n, d).current = m.current
<1> DEFINE f == [x \in DOMAIN m.dbs \cup {n} |-> IF x = n THEN d ELSE m.dbs[x]]
<1>1. PICK S \in SUBSET (g.names \cup {"prime"}) : m.dbs \in [S -> Dbs]
  BY DEF Graph!Managers
<1>2. f \in [S \cup {n} -> Dbs] /\ DOMAIN f = DOMAIN m.dbs \cup {n}
  BY <1>1
<1>3. S \cup {n} \in SUBSET (g.names \cup {"prime"})
  OBVIOUS
<1>4. f \in UNION {[X -> Dbs] : X \in SUBSET (g.names \cup {"prime"})}
  BY <1>2, <1>3
<1>5. Graph(g)!With(m, n, d) = [m EXCEPT !.dbs = f]
  BY DEF Graph!With
<1> HIDE DEF f
<1> QED
  BY <1>2, <1>4, <1>5 DEF Graph!Managers

\* A context that is made when needed is one of those not made yet.
LEMMA FreshType ==
  ASSUME NEW g, unmade \ Private # {} PROVE Graph(g)!Fresh \in unmade \ Private
  BY DEF Graph!Fresh

\* What a task gets as its default is a context, not made before or known.
LEMMA DefaultType ==
  ASSUME NEW g, Graph(g)!Types, NEW t1 \in Tasks, Graph(g)!Available(t1)
  PROVE  Graph(g)!get_default_context(t1) \in Contexts
  BY FreshType DEF Graph!Types, Graph!Available, Graph!get_default_context, Graph!Maybe

\* A lookup keeps the defaults typed.
LEMMA BoundType ==
  ASSUME NEW g, Graph(g)!Types, NEW t1 \in Tasks, Graph(g)!Available(t1), Graph(g)!Bound(t1)
  PROVE  /\ slot' \in [Tasks -> Graph(g)!Maybe(Contexts)] /\ unmade' \subseteq unmade
         /\ UNCHANGED <<scopes, running, fallback>>
  BY DefaultType DEF Graph!Bound, Graph!Types, Graph!Maybe

\* The database that a context turns out to have is one.
LEMMA KnownType ==
  ASSUME NEW g, Graph(g)!Assumptions, Graph(g)!Types, NEW c \in Contexts, Graph(g)!Known(c)
  PROVE  /\ base' \in [Contexts -> Graph(g)!Maybe(Dbs)] /\ base'[c] \in Dbs
         /\ manager' \in Graph(g)!Managers
         /\ manager'.made => {"prime", manager'.current} \subseteq DOMAIN manager'.dbs
<1>1. CASE base[c] # Absent /\ UNCHANGED <<manager, base>>
  BY <1>1 DEF Graph!Types, Graph!Maybe
<1>2. CASE /\ base' = [base EXCEPT ![c] = Graph(g)!get_current_database(Graph(g)!get_instance)]
           /\ manager' = Graph(g)!get_instance
  BY <1>2, ManagerType, CurrentType DEF Graph!Types, Graph!Maybe
<1> QED
  BY <1>1, <1>2 DEF Graph!Known

\* Scopes that are overruled are still scopes.
LEMMA OverruledType ==
  ASSUME NEW g, Graph(g)!Types, NEW t1 \in Tasks
  PROVE  Graph(g)!Overruled(t1) \in [Tasks -> Seq(Graph(g)!Scopes)]
<1> DEFINE q == [k \in DOMAIN scopes[t1] |-> [scopes[t1][k] EXCEPT !.own = FALSE]]
<1>1. scopes[t1] \in Seq(Graph(g)!Scopes)
  BY DEF Graph!Types
<1>2. DOMAIN scopes[t1] = 1..Len(scopes[t1]) /\ Len(scopes[t1]) \in Nat
      /\ \A k \in DOMAIN scopes[t1] : scopes[t1][k] \in Graph(g)!Scopes
  BY <1>1
<1>3. \A k \in DOMAIN scopes[t1] : [scopes[t1][k] EXCEPT !.own = FALSE] \in Graph(g)!Scopes
  BY <1>2 DEF Graph!Scopes
<1>4. q \in Seq(Graph(g)!Scopes)
  BY <1>2, <1>3
<1>5. Graph(g)!Overruled(t1) = [scopes EXCEPT ![t1] = q]
  BY DEF Graph!Overruled
<1> HIDE DEF q
<1> QED
  BY <1>4, <1>5 DEF Graph!Types

\* Names come and go, and the prime database stays.
LEMMA ManageType ==
  ASSUME NEW g, Graph(g)!Assumptions, Graph(g)!Types, Graph(g)!Manage
  PROVE  /\ manager' \in Graph(g)!Managers
         /\ manager'.made => {"prime", manager'.current} \subseteq DOMAIN manager'.dbs
<1> DEFINE Good(m) == /\ m \in Graph(g)!Managers
                      /\ m.made => {"prime", m.current} \subseteq DOMAIN m.dbs
<1>0. manager \in Graph(g)!Managers /\ (manager.made => {"prime", manager.current} \subseteq DOMAIN manager.dbs)
  BY DEF Graph!Types
<1>d. PICK S \in SUBSET (g.names \cup {"prime"}) : manager.dbs \in [S -> Dbs]
  BY <1>0 DEF Graph!Managers
<1>1. ASSUME NEW n \in g.names, NEW d \in Dbs, Graph(g)!register_database(n, d)
      PROVE Good(manager')
  BY <1>1, ManagerType, WithType DEF Graph!register_database
<1>2. ASSUME NEW n \in g.names, Graph(g)!unregister_database(n) PROVE Good(manager')
  <2> DEFINE f == [x \in DOMAIN manager.dbs \ {n} |-> manager.dbs[x]]
             e == IF manager.current = n THEN "prime" ELSE manager.current
  <2>1. f \in UNION {[X -> Dbs] : X \in SUBSET (g.names \cup {"prime"})} /\ DOMAIN f = S \ {n}
    <3>1. f \in [S \ {n} -> Dbs] /\ S \ {n} \in SUBSET (g.names \cup {"prime"})
      BY <1>d
    <3> QED
      BY <3>1
  <2>2. manager' = [manager EXCEPT !.dbs = f, !.current = e]
    BY <1>2 DEF Graph!unregister_database
  <2>3. n # "prime" /\ e \in g.names \cup {"prime"}
        /\ (manager.made => {"prime", e} \subseteq DOMAIN f)
    BY <1>0, <1>2, <1>d, <2>1 DEF Graph!Assumptions, Graph!Managers, Graph!unregister_database
  <2> HIDE DEF f, e
  <2> QED
    BY <1>0, <2>1, <2>2, <2>3 DEF Graph!Managers
<1>3. ASSUME NEW n \in g.names \cup {"prime"}, Graph(g)!set_current_database(n) PROVE Good(manager')
  BY <1>0, <1>3 DEF Graph!set_current_database, Graph!Managers
<1>4. ASSUME Graph(g)!reset PROVE Good(manager')
  <2> DEFINE f == [n \in {"prime"} |-> manager.dbs["prime"]]
  <2>1. f \in UNION {[X -> Dbs] : X \in SUBSET (g.names \cup {"prime"})} /\ DOMAIN f = {"prime"}
    <3>1. f \in [{"prime"} -> Dbs] /\ {"prime"} \in SUBSET (g.names \cup {"prime"})
      BY <1>0, <1>4, <1>d DEF Graph!reset
    <3> QED
      BY <3>1
  <2>2. manager' = [manager EXCEPT !.dbs = f, !.current = "prime"]
    BY <1>4 DEF Graph!reset
  <2> HIDE DEF f
  <2> QED
    BY <1>0, <2>1, <2>2 DEF Graph!Managers
<1> QED
  BY <1>1, <1>2, <1>3, <1>4 DEF Graph!Manage

\* What a step does to a call leaves it well formed.
LEMMA CallType ==
  ASSUME NEW g, Graph(g)!Assumptions, Graph(g)!Types, NEW t1 \in Tasks, asked[t1].pc # "idle",
         \/ \E pc \in {"ask", "all", "wrote"} : Graph(g)!At(t1, pc)
         \/ Graph(g)!Done(t1) \/ Graph(g)!Onward(t1)
         \/ \E d \in Dbs : asked' = [asked EXCEPT ![t1].pc = "read", ![t1].read = store[d]]
  PROVE  DOMAIN asked' = Tasks /\ \A u \in Tasks : Graph(g)!Asks(asked'[u])
<1> DEFINE a == asked[t1]
           Answered == DOMAIN asked' = Tasks /\ \A u \in Tasks : Graph(g)!Asks(asked'[u])
<1>0. DOMAIN asked = Tasks /\ \A u \in Tasks : Graph(g)!Asks(asked[u])
  BY DEF Graph!Types
<1>a. /\ DOMAIN a = {"op", "c", "d", "ids", "v", "pc", "read"} /\ a.c \in Contexts /\ a.d \in Dbs
      /\ IF a.op \in {"save", "saves"} THEN a.v \in Vals ELSE a.v = Absent
      /\ a.read \in [Ids -> Graph(g)!Maybe(Vals)]
  BY <1>0 DEF Graph!Asks
<1>b. ASSUME NEW b, asked' = [asked EXCEPT ![t1] = b], Graph(g)!Asks(b) PROVE Answered
  BY <1>0, <1>b
<1>1. ASSUME NEW pc \in {"ask", "all", "wrote"}, Graph(g)!At(t1, pc) PROVE Answered
  <2> DEFINE b == [a EXCEPT !.pc = pc]
  <2>1. Graph(g)!Asks(b)
    BY <1>a DEF Graph!Asks
  <2>2. asked' = [asked EXCEPT ![t1] = b]
    BY <1>1 DEF Graph!At
  <2> HIDE DEF b
  <2> QED
    BY <1>b, <2>1, <2>2
<1>2. ASSUME Graph(g)!Done(t1) PROVE Answered
  <2>1. Graph(g)!Asks(Graph(g)!Idle)
    BY DEF Graph!Asks, Graph!Idle, Graph!None, Graph!Maybe
  <2> QED
    BY <1>2, <1>b, <2>1 DEF Graph!Done
<1>3. ASSUME Graph(g)!Onward(t1) PROVE Answered
  <2>1. CASE Graph(g)!Done(t1)
    BY <1>2, <2>1
  <2>2. CASE asked' = [asked EXCEPT ![t1].ids = Tail(@), ![t1].pc = "ask"]
    <3> DEFINE b == [a EXCEPT !.ids = Tail(a.ids), !.pc = "ask"]
    <3>1. Graph(g)!Asks(b)
      BY <1>a DEF Graph!Asks
    <3>2. asked' = [asked EXCEPT ![t1] = b]
      BY <2>2
    <3> HIDE DEF b
    <3> QED
      BY <1>b, <3>1, <3>2
  <2> QED
    BY <1>3, <2>1, <2>2 DEF Graph!Onward
<1>4. ASSUME NEW d \in Dbs, asked' = [asked EXCEPT ![t1].pc = "read", ![t1].read = store[d]]
      PROVE  Answered
  <2> DEFINE b == [a EXCEPT !.pc = "read", !.read = store[d]]
  <2>1. store[d] \in [Ids -> Graph(g)!Maybe(Vals)]
    BY DEF Graph!Types
  <2>2. Graph(g)!Asks(b)
    BY <1>a, <2>1 DEF Graph!Asks
  <2>3. asked' = [asked EXCEPT ![t1] = b]
    BY <1>4
  <2> HIDE DEF b
  <2> QED
    BY <1>b, <2>2, <2>3
<1> QED
  BY <1>1, <1>2, <1>3, <1>4

\* A write leaves the databases typed.
LEMMA PutType ==
  ASSUME NEW g, Graph(g)!Types, NEW d \in Dbs, NEW I, NEW w \in Graph(g)!Maybe(Vals),
         Graph(g)!Put(d, I, w)
  PROVE  store' \in [Dbs -> [Ids -> Graph(g)!Maybe(Vals)]]
  BY DEF Graph!Put, Graph!Types, Graph!Maybe

\* The steps of a call once it is begun.
LEMMA WorkType ==
  ASSUME NEW g, Graph(g)!Assumptions, Graph(g)!Types, NEW t1 \in Tasks,
         \/ Graph(g)!get(t1) \/ Graph(g)!save(t1) \/ Graph(g)!save_batch(t1) \/ Graph(g)!delete(t1)
  PROVE  Graph(g)!Types'
<1> DEFINE a == asked[t1]
           Written == store' \in [Dbs -> [Ids -> Graph(g)!Maybe(Vals)]]
           Cached == held' \in [Contexts -> [Ids -> Graph(g)!Maybe(Vals)]]
           Answered == DOMAIN asked' = Tasks /\ \A u \in Tasks : Graph(g)!Asks(asked'[u])
<1>0. Graph(g)!Asks(a) /\ Absent \in Graph(g)!Maybe(Vals) /\ a.v \in Graph(g)!Maybe(Vals)
      /\ (a.pc # "idle" => a.c \in Contexts /\ a.d \in Dbs)
      /\ a.read \in [Ids -> Graph(g)!Maybe(Vals)]
  BY DEF Graph!Types, Graph!Asks, Graph!Maybe
<1>h. /\ store \in [Dbs -> [Ids -> Graph(g)!Maybe(Vals)]]
      /\ held \in [Contexts -> [Ids -> Graph(g)!Maybe(Vals)]]
  BY DEF Graph!Types
<1>r. Graph(g)!Rest
  BY DEF Graph!get, Graph!save, Graph!save_batch, Graph!delete
<1>f. ASSUME a.pc = "ask", Graph(g)!Failing(t1) PROVE Written /\ Cached /\ Answered
  BY <1>0, <1>h, <1>f, CallType, PutType DEF Graph!Failing
<1>1. CASE Graph(g)!get(t1)
  <2>1. CASE a.pc = "ask"
    BY <1>0, <1>1, <1>h, <1>r, <2>1, CallType DEF Graph!get, Graph!Rest, Graph!defaults, Graph!Types
  <2>2. CASE a.pc = "read"
    <3> DEFINE f == [i \in Ids |-> IF a.read[i] # Absent /\ \E k \in DOMAIN a.ids : a.ids[k] = i
                                   THEN a.read[i] ELSE held[a.c][i]]
    <3>0. f \in [Ids -> Graph(g)!Maybe(Vals)] /\ held' = [held EXCEPT ![a.c] = f]
      BY <1>0, <1>1, <1>h, <2>2 DEF Graph!get
    <3>1. Cached
      <4> HIDE DEF f
      <4> QED
        BY <1>0, <1>h, <2>2, <3>0
    <3>2. Answered /\ Written
      BY <1>0, <1>1, <1>h, <2>2, CallType DEF Graph!get
    <3> QED
      BY <1>r, <3>1, <3>2 DEF Graph!Rest, Graph!defaults, Graph!Types
  <2> QED
    BY <1>1, <2>1, <2>2 DEF Graph!get
<1>2. CASE Graph(g)!save(t1)
  <2>1. CASE a.pc = "ask" /\ Graph(g)!At(t1, "wrote") /\ UNCHANGED held
             /\ Graph(g)!Put(a.d, {Head(a.ids)}, a.v)
    <3>1. Written /\ Cached /\ Answered
      BY <1>0, <1>h, <2>1, CallType, PutType
    <3> QED
      BY <1>r, <3>1 DEF Graph!Rest, Graph!defaults, Graph!Types
  <2>2. CASE a.pc = "ask" /\ Graph(g)!Failing(t1)
    BY <1>f, <1>r, <2>2 DEF Graph!Rest, Graph!defaults, Graph!Types
  <2>3. CASE a.pc = "wrote" /\ Graph(g)!Onward(t1) /\ UNCHANGED <<store, written>>
             /\ held' = [held EXCEPT ![a.c][Head(a.ids)] = a.v]
    <3>1. Written /\ Cached
      BY <1>0, <1>h, <2>3
    <3>2. Answered
      BY <2>3, CallType
    <3> QED
      BY <1>r, <3>1, <3>2 DEF Graph!Rest, Graph!defaults, Graph!Types
  <2> QED
    BY <1>2, <2>1, <2>2, <2>3 DEF Graph!save
<1>3. CASE Graph(g)!save_batch(t1)
  <2>1. CASE a.pc = "bulk" /\ UNCHANGED held /\ Graph(g)!Put(a.d, Ids, a.v)
             /\ Graph(g)!At(t1, "all")
    <3>1. Written /\ Cached /\ Answered
      BY <1>0, <1>h, <2>1, CallType, PutType
    <3> QED
      BY <1>r, <3>1 DEF Graph!Rest, Graph!defaults, Graph!Types
  <2>2. CASE a.pc = "bulk" /\ UNCHANGED held /\ Graph(g)!At(t1, "ask")
             /\ \E I \in SUBSET Ids : Graph(g)!Put(a.d, I, a.v)
    <3>1. Written /\ Cached /\ Answered
      BY <1>0, <1>h, <2>2, CallType, PutType
    <3> QED
      BY <1>r, <3>1 DEF Graph!Rest, Graph!defaults, Graph!Types
  <2>3. CASE a.pc = "all" /\ Graph(g)!Done(t1) /\ UNCHANGED <<store, written>>
             /\ held' = [held EXCEPT ![a.c] = [i \in Ids |-> a.v]]
    <3>1. Written /\ Cached
      BY <1>0, <1>h, <2>3
    <3>2. Answered
      BY <2>3, CallType
    <3> QED
      BY <1>r, <3>1, <3>2 DEF Graph!Rest, Graph!defaults, Graph!Types
  <2> QED
    BY <1>3, <2>1, <2>2, <2>3 DEF Graph!save_batch, Graph!Doing
<1>4. CASE Graph(g)!delete(t1)
  <2>1. CASE a.pc = "ask" /\ Graph(g)!At(t1, "wrote") /\ UNCHANGED held
             /\ Graph(g)!Put(a.d, {Head(a.ids)}, Absent)
    <3>1. Written /\ Cached /\ Answered
      BY <1>0, <1>h, <2>1, CallType, PutType
    <3> QED
      BY <1>r, <3>1 DEF Graph!Rest, Graph!defaults, Graph!Types
  <2>2. CASE a.pc = "ask" /\ Graph(g)!Failing(t1)
    BY <1>f, <1>r, <2>2 DEF Graph!Rest, Graph!defaults, Graph!Types
  <2>3. CASE a.pc = "wrote" /\ Graph(g)!Onward(t1) /\ UNCHANGED <<store, written>>
             /\ held' = [held EXCEPT ![a.c][Head(a.ids)] = Absent]
    <3>1. Written /\ Cached
      BY <1>0, <1>h, <2>3
    <3>2. Answered
      BY <2>3, CallType
    <3> QED
      BY <1>r, <3>1, <3>2 DEF Graph!Rest, Graph!defaults, Graph!Types
  <2> QED
    BY <1>4, <2>1, <2>2, <2>3 DEF Graph!delete
<1> QED
  BY <1>1, <1>2, <1>3, <1>4

\* A call is begun by a task of the context it finds.
LEMMA BeginType ==
  ASSUME NEW g, Graph(g)!Assumptions, Graph(g)!Types, NEW t1 \in Tasks, Graph(g)!Begin(t1)
  PROVE  Graph(g)!Types'
<1>1. PICK op \in Graph(g)!Ops, w \in Graph(g)!Maybe(Vals) :
         Graph(g)!Call(t1, op, w) /\ IF op \in {"save", "saves"} THEN w \in Vals ELSE w = Absent
  BY DEF Graph!Begin, Graph!Ops, Graph!Maybe
<1> DEFINE c == Graph(g)!get_default_context(t1)
<1>2. c \in Contexts /\ Graph(g)!Bound(t1) /\ Graph(g)!Available(t1)
      /\ UNCHANGED <<held, store, written>>
  BY <1>1, DefaultType DEF Graph!Call
<1>3. CASE UNCHANGED <<manager, base, asked>>
  BY <1>2, <1>3, BoundType DEF Graph!Types
<1>4. CASE /\ Graph(g)!Known(c)
           /\ \E left : asked' = [asked EXCEPT ![t1] =
                [op |-> op, c |-> c, d |-> base'[c], ids |-> left, v |-> w, read |-> Graph(g)!None,
                 pc |-> IF op = "saves" /\ g.batched THEN "bulk" ELSE "ask"]]
  <2>1. PICK left : asked' = [asked EXCEPT ![t1] =
                [op |-> op, c |-> c, d |-> base'[c], ids |-> left, v |-> w, read |-> Graph(g)!None,
                 pc |-> IF op = "saves" /\ g.batched THEN "bulk" ELSE "ask"]]
    BY <1>4
  <2>2. /\ base' \in [Contexts -> Graph(g)!Maybe(Dbs)] /\ base'[c] \in Dbs
        /\ manager' \in Graph(g)!Managers
        /\ manager'.made => {"prime", manager'.current} \subseteq DOMAIN manager'.dbs
    BY <1>2, <1>4, KnownType
  <2>3. Graph(g)!None \in [Ids -> Graph(g)!Maybe(Vals)]
    BY DEF Graph!None, Graph!Maybe
  <2> DEFINE b == [op |-> op, c |-> c, d |-> base'[c], ids |-> left, v |-> w, read |-> Graph(g)!None,
                   pc |-> IF op = "saves" /\ g.batched THEN "bulk" ELSE "ask"]
  <2>4. Graph(g)!Asks(b)
    BY <1>1, <1>2, <2>2, <2>3 DEF Graph!Asks
  <2>5. DOMAIN asked' = Tasks /\ \A u \in Tasks : Graph(g)!Asks(asked'[u])
    <3> HIDE DEF b
    <3> QED
      BY <2>1, <2>4 DEF b, Graph!Types
  <2> QED
    BY <1>2, <2>2, <2>5, BoundType DEF Graph!Types
<1> QED
  BY <1>1, <1>3, <1>4 DEF Graph!Call

\* Setting, clearing, entering and leaving defaults; spawning; changing databases.
LEMMA DefaultsType ==
  ASSUME NEW g, Graph(g)!Assumptions, Graph(g)!Types, NEW t1 \in Tasks, NEW c,
         \/ c \in Contexts /\ Graph(g)!set_default_context(t1, c)
         \/ c \in Contexts /\ Graph(g)!scoped_default_context(t1, c)
         \/ Graph(g)!Left(t1) \/ Graph(g)!clear_default_context(t1)
         \/ Graph(g)!clear_default_context_global(t1) \/ Graph(g)!Spawn(t1)
  PROVE  Graph(g)!Types'
<1>0. Absent \in Graph(g)!Maybe(Contexts) /\ Contexts \subseteq Graph(g)!Maybe(Contexts)
  BY DEF Graph!Maybe
<1>1. CASE c \in Contexts /\ Graph(g)!set_default_context(t1, c)
  BY <1>0, <1>1, OverruledType DEF Graph!set_default_context, Graph!Recorded, Graph!Types
<1>2. CASE c \in Contexts /\ Graph(g)!scoped_default_context(t1, c)
  <2>1. base' \in [Contexts -> Graph(g)!Maybe(Dbs)]
    BY <1>2 DEF Graph!scoped_default_context, Graph!Types, Graph!Maybe
  <2>2. scopes' \in [Tasks -> Seq(Graph(g)!Scopes)]
    <3>1. [c |-> c, old |-> slot[t1], own |-> TRUE] \in Graph(g)!Scopes
      BY <1>2 DEF Graph!scoped_default_context, Graph!Scopes, Graph!Types
    <3> QED
      BY <1>2, <3>1 DEF Graph!scoped_default_context, Graph!Types
  <2> QED
    BY <1>0, <1>2, <2>1, <2>2 DEF Graph!scoped_default_context, Graph!Entered, Graph!Types
<1>3. CASE Graph(g)!Left(t1)
  <2> DEFINE q == scopes[t1]
  <2>1. q \in Seq(Graph(g)!Scopes) /\ q # <<>>
    BY <1>3 DEF Graph!Left, Graph!Types
  <2>2. Len(q) \in DOMAIN q /\ q[Len(q)] \in Graph(g)!Scopes
        /\ SubSeq(q, 1, Len(q) - 1) \in Seq(Graph(g)!Scopes)
    <3> HIDE DEF q
    <3> QED
      BY <2>1
  <2>3. q[Len(q)].old \in Graph(g)!Maybe(Contexts)
    BY <2>2 DEF Graph!Scopes
  <2> QED
    BY <1>3, <2>2, <2>3 DEF Graph!Left, Graph!Types
<1>4. CASE Graph(g)!clear_default_context(t1)
  BY <1>0, <1>4, OverruledType DEF Graph!clear_default_context, Graph!Types
<1>5. CASE Graph(g)!clear_default_context_global(t1)
  BY <1>0, <1>5, OverruledType DEF Graph!clear_default_context_global, Graph!Types
<1>6. CASE Graph(g)!Spawn(t1)
  BY <1>0, <1>6 DEF Graph!Spawn, Graph!Types
<1> QED
  BY <1>1, <1>2, <1>3, <1>4, <1>5, <1>6

LEMMA DatabasesType ==
  ASSUME NEW g, Graph(g)!Assumptions, Graph(g)!Types, NEW t1 \in Tasks,
         \/ Graph(g)!initialize_graph_context(t1)
         \/ \E d \in Dbs : Graph(g)!set_database(t1, d)
         \/ \E n \in g.names \cup {"prime"} : Graph(g)!Switched(t1, n)
  PROVE  Graph(g)!Types'
<1>0. /\ Graph(g)!get_instance \in Graph(g)!Managers
      /\ Graph(g)!get_instance.made
      /\ {"prime", Graph(g)!get_instance.current} \subseteq DOMAIN Graph(g)!get_instance.dbs
  BY ManagerType
<1>1. CASE Graph(g)!initialize_graph_context(t1)
  <2>1. PICK d \in Dbs : LET m == Graph(g)!set_prime_database(d) IN
          /\ manager' = m /\ base' = [base EXCEPT ![Graph(g)!Fresh] = Graph(g)!get_current_database(m)]
          /\ Graph(g)!Recorded(t1, Graph(g)!Fresh)
    BY <1>1 DEF Graph!initialize_graph_context
  <2> DEFINE i == Graph(g)!get_instance
             m == Graph(g)!set_prime_database(d)
             w == Graph(g)!With(i, "prime", d)
  <2>2. /\ w \in Graph(g)!Managers /\ DOMAIN w.dbs = DOMAIN i.dbs \cup {"prime"}
        /\ w.current = i.current
    <3>1. i \in Graph(g)!Managers /\ "prime" \in g.names \cup {"prime"}
      BY <1>0
    <3> HIDE DEF i
    <3> QED
      BY <3>1, WithType
  <2>3. m = [w EXCEPT !.auto = FALSE]
    BY DEF Graph!set_prime_database
  <2>4. m \in Graph(g)!Managers /\ {"prime", m.current} \subseteq DOMAIN m.dbs
    <3>1. i.current \in DOMAIN i.dbs
      BY <1>0
    <3> HIDE DEF m, w, i
    <3> QED
      BY <2>2, <2>3, <3>1 DEF Graph!Managers
  <2>5. Graph(g)!get_current_database(m) \in Dbs
    BY <2>4, CurrentType
  <2>6. Graph(g)!Fresh \in Contexts
    BY <1>1, FreshType DEF Graph!initialize_graph_context, Graph!Types
  <2>7. base' \in [Contexts -> Graph(g)!Maybe(Dbs)]
    BY <2>1, <2>5, <2>6 DEF Graph!Types, Graph!Maybe
  <2>8. slot' \in [Tasks -> Graph(g)!Maybe(Contexts)] /\ fallback' \in Graph(g)!Maybe(Contexts)
        /\ scopes' \in [Tasks -> Seq(Graph(g)!Scopes)] /\ running' \subseteq Tasks
        /\ unmade' \subseteq Contexts
    BY <2>1, <2>6, OverruledType DEF Graph!Recorded, Graph!Types, Graph!Maybe
  <2> QED
    BY <1>1, <2>1, <2>4, <2>7, <2>8 DEF Graph!initialize_graph_context, Graph!Types
<1>2. ASSUME NEW d \in Dbs, Graph(g)!set_database(t1, d) PROVE Graph(g)!Types'
  <2> DEFINE c == Graph(g)!get_default_context(t1)
  <2>1. c \in Contexts /\ Graph(g)!Bound(t1) /\ Graph(g)!Rebased(c, d) /\ Graph(g)!Available(t1)
    BY <1>2, DefaultType DEF Graph!set_database
  <2>2. base' \in [Contexts -> Graph(g)!Maybe(Dbs)] /\ held' \in [Contexts -> [Ids -> Graph(g)!Maybe(Vals)]]
    BY <2>1 DEF Graph!Rebased, Graph!None, Graph!Types, Graph!Maybe
  <2> QED
    BY <1>2, <2>1, <2>2, BoundType DEF Graph!set_database, Graph!Types
<1>3. ASSUME NEW n \in g.names \cup {"prime"}, Graph(g)!Switched(t1, n) PROVE Graph(g)!Types'
  <2> DEFINE c == Graph(g)!get_default_context(t1)
             m == [Graph(g)!get_instance EXCEPT !.current = n]
  <2>1. c \in Contexts /\ Graph(g)!Bound(t1) /\ Graph(g)!Available(t1)
        /\ manager' = m /\ base' = [base EXCEPT ![c] = m.dbs[n]]
        /\ n \in DOMAIN Graph(g)!get_instance.dbs
    BY <1>3, DefaultType DEF Graph!Switched
  <2>2. m \in Graph(g)!Managers /\ {"prime", m.current} \subseteq DOMAIN m.dbs /\ n \in DOMAIN m.dbs
    BY <1>0, <2>1 DEF Graph!Managers
  <2>3. base' \in [Contexts -> Graph(g)!Maybe(Dbs)]
    BY <2>1, <2>2, CurrentType DEF Graph!Types, Graph!Maybe
  <2> QED
    BY <1>3, <2>1, <2>2, <2>3, BoundType DEF Graph!Switched, Graph!Types
<1> QED
  BY <1>1, <1>2, <1>3

\* Whatever is set, switched, cleared, called or answered, the types stay.
LEMMA GraphTypes ==
  ASSUME NEW g, Graph(g)!Assumptions, Graph(g)!Types, [Graph(g)!Next]_(Graph(g)!ctxVars)
  PROVE  Graph(g)!Types'
<1>1. CASE Graph(g)!Manage
  BY <1>1, ManageType DEF Graph!Manage, Graph!defaults, Graph!Types
<1>2. ASSUME NEW t1 \in Tasks, NEW c \in Contexts,
             \/ Graph(g)!set_default_context(t1, c) \/ Graph(g)!scoped_default_context(t1, c)
      PROVE Graph(g)!Types'
  BY <1>2, DefaultsType
<1>3. ASSUME NEW t1 \in Tasks,
             \/ Graph(g)!Left(t1) \/ Graph(g)!clear_default_context(t1)
             \/ Graph(g)!clear_default_context_global(t1) \/ Graph(g)!Spawn(t1)
      PROVE Graph(g)!Types'
  BY <1>3, DefaultsType
<1>4. ASSUME NEW t1 \in Tasks,
             \/ Graph(g)!initialize_graph_context(t1)
             \/ \E d \in Dbs : Graph(g)!set_database(t1, d)
             \/ Graph(g)!switch_database(t1) \/ Graph(g)!use_prime_database(t1)
      PROVE Graph(g)!Types'
  BY <1>4, DatabasesType DEF Graph!switch_database, Graph!use_prime_database
<1>5. ASSUME NEW t1 \in Tasks,
             \/ Graph(g)!Begin(t1) \/ Graph(g)!get(t1) \/ Graph(g)!save(t1)
             \/ Graph(g)!save_batch(t1) \/ Graph(g)!delete(t1)
      PROVE Graph(g)!Types'
  BY <1>5, BeginType, WorkType
<1>6. CASE UNCHANGED Graph(g)!ctxVars
  BY <1>6 DEF Graph!ctxVars, Graph!defaults, Graph!Types
<1> QED
  BY <1>1, <1>2, <1>3, <1>4, <1>5, <1>6 DEF Graph!Next

\* What a write puts into a database is written.
LEMMA PutWritten ==
  ASSUME NEW g, Graph(g)!Types, NEW d \in Dbs, NEW I, NEW w, Graph(g)!Put(d, I, w),
         \A e \in Dbs : \A i \in Ids : Graph(g)!Seen(i, store[e][i])
  PROVE  /\ written \subseteq written'
         /\ \A i \in I : w = Absent \/ <<i, w>> \in written'
         /\ \A e \in Dbs : \A i \in Ids : store'[e][i] = Absent \/ <<i, store'[e][i]>> \in written'
<1>1. written \subseteq written' /\ \A i \in I : w = Absent \/ <<i, w>> \in written'
  BY DEF Graph!Put
<1>2. ASSUME NEW e \in Dbs, NEW i \in Ids
      PROVE  store'[e][i] = Absent \/ <<i, store'[e][i]>> \in written'
  <2>1. store'[e][i] = IF e = d /\ i \in I THEN w ELSE store[e][i]
    BY DEF Graph!Put, Graph!Types
  <2> QED
    BY <1>1, <2>1 DEF Graph!Seen
<1> QED
  BY <1>1, <1>2

\* A call under way carries only what was written, as do databases and caches.
LEMMA WorkWritten ==
  ASSUME NEW g, Graph(g)!Assumptions, Graph(g)!Types, Graph(g)!AllWritten, NEW t1 \in Tasks,
         \/ Graph(g)!get(t1) \/ Graph(g)!save(t1) \/ Graph(g)!save_batch(t1) \/ Graph(g)!delete(t1)
  PROVE  Graph(g)!AllWritten'
<1> DEFINE a == asked[t1]
           InDbs == \A d \in Dbs : \A i \in Ids :
                      store'[d][i] = Absent \/ <<i, store'[d][i]>> \in written'
           InCaches == \A c \in Contexts : \A i \in Ids :
                      held'[c][i] = Absent \/ <<i, held'[c][i]>> \in written'
           Fine(b) == /\ \A i \in Ids : b.read[i] = Absent \/ <<i, b.read[i]>> \in written'
                      /\ b.pc = "wrote" => b.v = Absent \/ <<Head(b.ids), b.v>> \in written'
                      /\ b.pc = "all" => \A i \in Ids : b.v = Absent \/ <<i, b.v>> \in written'
           InCalls == \A u \in Tasks : Fine(asked'[u])
<1>0. /\ Graph(g)!Asks(a) /\ DOMAIN asked = Tasks
      /\ (a.pc # "idle" => a.c \in Contexts /\ a.d \in Dbs)
      /\ DOMAIN a = {"op", "c", "d", "ids", "v", "pc", "read"}
  BY DEF Graph!Types, Graph!Asks
<1>h. held \in [Contexts -> [Ids -> Graph(g)!Maybe(Vals)]]
  BY DEF Graph!Types
<1>s. /\ \A d \in Dbs : \A i \in Ids : Graph(g)!Seen(i, store[d][i])
      /\ \A d \in Dbs : \A i \in Ids : store[d][i] = Absent \/ <<i, store[d][i]>> \in written
      /\ \A c \in Contexts : \A i \in Ids : held[c][i] = Absent \/ <<i, held[c][i]>> \in written
      /\ \A i \in Ids : a.read[i] = Absent \/ <<i, a.read[i]>> \in written
      /\ a.pc = "wrote" => a.v = Absent \/ <<Head(a.ids), a.v>> \in written
      /\ a.pc = "all" => \A i \in Ids : a.v = Absent \/ <<i, a.v>> \in written
  BY DEF Graph!AllWritten, Graph!Seen
<1>w. ASSUME written \subseteq written', NEW b, asked' = [asked EXCEPT ![t1] = b], Fine(b)
      PROVE  InCalls
  <2>1. ASSUME NEW u \in Tasks, u # t1 PROVE Fine(asked'[u])
    <3>1. asked'[u] = asked[u]
      BY <1>w, <2>1
    <3> QED
      BY <1>w, <3>1 DEF Graph!AllWritten, Graph!Seen
  <2>2. asked'[t1] = b
    BY <1>0, <1>w
  <2> HIDE DEF Fine
  <2> QED
    BY <1>w, <2>1, <2>2
<1>i. ASSUME written \subseteq written', Graph(g)!Done(t1) \/ Graph(g)!Onward(t1) PROVE InCalls
  <2>1. CASE Graph(g)!Done(t1)
    <3>1. Fine(Graph(g)!Idle)
      BY DEF Graph!Idle, Graph!None
    <3> HIDE DEF Fine
    <3> QED
      BY <1>i, <1>w, <2>1, <3>1 DEF Graph!Done
  <2>2. CASE asked' = [asked EXCEPT ![t1].ids = Tail(@), ![t1].pc = "ask"]
    <3> DEFINE b == [a EXCEPT !.ids = Tail(a.ids), !.pc = "ask"]
    <3>1. Fine(b)
      BY <1>0, <1>i, <1>s
    <3>2. asked' = [asked EXCEPT ![t1] = b]
      BY <2>2
    <3> HIDE DEF Fine, b
    <3> QED
      BY <1>i, <1>w, <3>1, <3>2
  <2> QED
    BY <1>i, <2>1, <2>2 DEF Graph!Onward
<1>p. ASSUME written \subseteq written', NEW pc, Graph(g)!At(t1, pc),
             pc = "wrote" => a.v = Absent \/ <<Head(a.ids), a.v>> \in written',
             pc = "all" => \A i \in Ids : a.v = Absent \/ <<i, a.v>> \in written'
      PROVE  InCalls
  <2> DEFINE b == [a EXCEPT !.pc = pc]
  <2>1. Fine(b)
    BY <1>0, <1>p, <1>s
  <2>2. asked' = [asked EXCEPT ![t1] = b]
    BY <1>p DEF Graph!At
  <2> HIDE DEF Fine, b
  <2> QED
    BY <1>p, <1>w, <2>1, <2>2
<1>q. ASSUME InDbs, InCaches, InCalls PROVE Graph(g)!AllWritten'
  BY <1>q DEF Graph!AllWritten, Graph!Seen
<1>f. ASSUME a.pc = "ask", Graph(g)!Failing(t1) PROVE InDbs /\ InCaches /\ InCalls
  <2>1. written \subseteq written' /\ InDbs
    BY <1>0, <1>f, <1>s, PutWritten DEF Graph!Failing
  <2>2. InCaches
    BY <1>f, <1>s, <2>1 DEF Graph!Failing
  <2>3. InCalls
    BY <1>f, <1>i, <2>1 DEF Graph!Failing
  <2> QED
    BY <2>1, <2>2, <2>3
<1>1. CASE Graph(g)!get(t1)
  <2>1. CASE a.pc = "ask" /\ UNCHANGED held
             /\ asked' = [asked EXCEPT ![t1].pc = "read", ![t1].read = store[asked[t1].d]]
    <3> DEFINE b == [a EXCEPT !.pc = "read", !.read = store[a.d]]
    <3>1. written' = written /\ store' = store
      BY <1>1 DEF Graph!get
    <3>2. Fine(b)
      BY <1>0, <1>s, <2>1, <3>1
    <3>3. asked' = [asked EXCEPT ![t1] = b]
      BY <2>1
    <3>4. InCalls
      <4> HIDE DEF Fine, b
      <4> QED
        BY <1>w, <3>1, <3>2, <3>3
    <3>5. InDbs /\ InCaches
      BY <1>s, <2>1, <3>1
    <3> QED
      BY <1>q, <3>4, <3>5
  <2>2. CASE a.pc = "read" /\ Graph(g)!Done(t1)
             /\ held' = [held EXCEPT ![a.c] =
                  [i \in Ids |-> IF a.read[i] # Absent
                                    /\ \E k \in DOMAIN a.ids : a.ids[k] = i
                                 THEN a.read[i] ELSE @[i]]]
    <3>1. written' = written /\ store' = store
      BY <1>1 DEF Graph!get
    <3>2. InCaches
      BY <1>0, <1>h, <1>s, <2>2, <3>1
    <3>3. InCalls /\ InDbs
      BY <1>i, <1>s, <2>2, <3>1
    <3> QED
      BY <1>q, <3>2, <3>3
  <2> QED
    BY <1>1, <2>1, <2>2 DEF Graph!get
<1>2. CASE Graph(g)!save(t1)
  <2>1. CASE a.pc = "ask" /\ Graph(g)!At(t1, "wrote") /\ UNCHANGED held
             /\ Graph(g)!Put(a.d, {Head(a.ids)}, a.v)
    <3>1. InDbs /\ written \subseteq written' /\ (a.v = Absent \/ <<Head(a.ids), a.v>> \in written')
      BY <1>0, <1>s, <2>1, PutWritten
    <3>2. InCaches
      BY <1>s, <2>1, <3>1
    <3>3. InCalls
      BY <1>p, <2>1, <3>1
    <3> QED
      BY <1>q, <3>1, <3>2, <3>3
  <2>2. CASE a.pc = "ask" /\ Graph(g)!Failing(t1)
    BY <1>f, <1>q, <2>2
  <2>3. CASE a.pc = "wrote" /\ Graph(g)!Onward(t1) /\ UNCHANGED <<store, written>>
             /\ held' = [held EXCEPT ![a.c][Head(a.ids)] = a.v]
    <3>1. InCaches
      BY <1>0, <1>h, <1>s, <2>3
    <3>2. InDbs /\ InCalls
      BY <1>i, <1>s, <2>3
    <3> QED
      BY <1>q, <3>1, <3>2
  <2> QED
    BY <1>2, <2>1, <2>2, <2>3 DEF Graph!save
<1>3. CASE Graph(g)!save_batch(t1)
  <2>1. CASE a.pc = "bulk" /\ UNCHANGED held /\ Graph(g)!Put(a.d, Ids, a.v)
             /\ Graph(g)!At(t1, "all")
    <3>1. InDbs /\ written \subseteq written'
          /\ \A i \in Ids : a.v = Absent \/ <<i, a.v>> \in written'
      BY <1>0, <1>s, <2>1, PutWritten
    <3>2. InCaches
      BY <1>s, <2>1, <3>1
    <3>3. InCalls
      BY <1>p, <2>1, <3>1
    <3> QED
      BY <1>q, <3>1, <3>2, <3>3
  <2>2. CASE a.pc = "bulk" /\ UNCHANGED held /\ Graph(g)!At(t1, "ask")
             /\ \E I \in SUBSET Ids : Graph(g)!Put(a.d, I, a.v)
    <3>1. InDbs /\ written \subseteq written'
      BY <1>0, <1>s, <2>2, PutWritten
    <3>2. InCaches
      BY <1>s, <2>2, <3>1
    <3>3. InCalls
      BY <1>p, <2>2, <3>1
    <3> QED
      BY <1>q, <3>1, <3>2, <3>3
  <2>3. CASE a.pc = "all" /\ Graph(g)!Done(t1) /\ UNCHANGED <<store, written>>
             /\ held' = [held EXCEPT ![a.c] = [i \in Ids |-> a.v]]
    <3>1. InCaches
      BY <1>0, <1>h, <1>s, <2>3
    <3>2. InDbs /\ InCalls
      BY <1>i, <1>s, <2>3
    <3> QED
      BY <1>q, <3>1, <3>2
  <2> QED
    BY <1>3, <2>1, <2>2, <2>3 DEF Graph!save_batch, Graph!Doing
<1>4. CASE Graph(g)!delete(t1)
  <2>1. CASE a.pc = "ask" /\ Graph(g)!At(t1, "wrote") /\ UNCHANGED held
             /\ Graph(g)!Put(a.d, {Head(a.ids)}, Absent) /\ a.v = Absent
    <3>1. InDbs /\ written \subseteq written'
      BY <1>0, <1>s, <2>1, PutWritten
    <3>2. InCaches
      BY <1>s, <2>1, <3>1
    <3>3. InCalls
      BY <1>p, <2>1, <3>1
    <3> QED
      BY <1>q, <3>1, <3>2, <3>3
  <2>2. CASE a.pc = "ask" /\ Graph(g)!Failing(t1)
    BY <1>f, <1>q, <2>2
  <2>3. CASE a.pc = "wrote" /\ Graph(g)!Onward(t1) /\ UNCHANGED <<store, written>>
             /\ held' = [held EXCEPT ![a.c][Head(a.ids)] = Absent]
    <3>1. InCaches
      BY <1>0, <1>h, <1>s, <2>3
    <3>2. InDbs /\ InCalls
      BY <1>i, <1>s, <2>3
    <3> QED
      BY <1>q, <3>1, <3>2
  <2>4. a.v = Absent
    BY <1>0, <1>4 DEF Graph!Asks, Graph!delete
  <2> QED
    BY <1>4, <2>1, <2>2, <2>3, <2>4 DEF Graph!delete
<1> QED
  BY <1>1, <1>2, <1>3, <1>4

\* Whatever fails, overlaps or switches, nothing is kept that no save wrote.
LEMMA WrittenStep ==
  ASSUME NEW g, Graph(g)!Assumptions, Graph(g)!Types, Graph(g)!AllWritten,
         [Graph(g)!Next]_(Graph(g)!ctxVars)
  PROVE  Graph(g)!AllWritten'
<1>0. ASSUME UNCHANGED <<held, store, written, asked>> PROVE Graph(g)!AllWritten'
  BY <1>0 DEF Graph!AllWritten, Graph!Seen
<1>1. CASE Graph(g)!Manage
  BY <1>0, <1>1 DEF Graph!Manage
<1>2. ASSUME NEW t1 \in Tasks, NEW c \in Contexts,
             \/ Graph(g)!set_default_context(t1, c) \/ Graph(g)!scoped_default_context(t1, c)
      PROVE Graph(g)!AllWritten'
  BY <1>0, <1>2 DEF Graph!set_default_context, Graph!scoped_default_context
<1>3. ASSUME NEW t1 \in Tasks,
             \/ Graph(g)!Left(t1) \/ Graph(g)!clear_default_context(t1)
             \/ Graph(g)!clear_default_context_global(t1) \/ Graph(g)!Spawn(t1)
             \/ Graph(g)!initialize_graph_context(t1)
      PROVE Graph(g)!AllWritten'
  BY <1>0, <1>3 DEF Graph!Left, Graph!clear_default_context, Graph!clear_default_context_global,
     Graph!Spawn, Graph!initialize_graph_context
<1>4. ASSUME NEW t1 \in Tasks, NEW n, Graph(g)!Switched(t1, n) PROVE Graph(g)!AllWritten'
  BY <1>0, <1>4 DEF Graph!Switched
<1>5. ASSUME NEW t1 \in Tasks, NEW d \in Dbs, Graph(g)!set_database(t1, d) PROVE Graph(g)!AllWritten'
  <2>1. /\ held' = [held EXCEPT ![Graph(g)!get_default_context(t1)] = Graph(g)!None]
        /\ UNCHANGED <<store, written, asked>>
    BY <1>5 DEF Graph!set_database, Graph!Rebased
  <2>2. \A c \in Contexts : \A i \in Ids : held'[c][i] = Absent \/ held'[c][i] = held[c][i]
    BY <2>1 DEF Graph!None, Graph!Types
  <2> QED
    BY <2>1, <2>2 DEF Graph!AllWritten, Graph!Seen
<1>6. ASSUME NEW t1 \in Tasks, Graph(g)!Begin(t1) PROVE Graph(g)!AllWritten'
  <2>1. UNCHANGED <<held, store, written>>
    BY <1>6 DEF Graph!Begin, Graph!Call
  <2>2. \/ UNCHANGED asked
        \/ \E b : /\ asked' = [asked EXCEPT ![t1] = b]
                  /\ b.read = Graph(g)!None /\ b.pc \in {"ask", "bulk"}
    <3>1. PICK op, w : Graph(g)!Call(t1, op, w)
      BY <1>6 DEF Graph!Begin
    <3>2. CASE UNCHANGED asked
      BY <3>2
    <3>3. CASE \E left : asked' = [asked EXCEPT ![t1] =
                 [op |-> op, c |-> Graph(g)!get_default_context(t1),
                  d |-> base'[Graph(g)!get_default_context(t1)], ids |-> left, v |-> w,
                  read |-> Graph(g)!None,
                  pc |-> IF op = "saves" /\ g.batched THEN "bulk" ELSE "ask"]]
      <4>1. PICK left : asked' = [asked EXCEPT ![t1] =
                 [op |-> op, c |-> Graph(g)!get_default_context(t1),
                  d |-> base'[Graph(g)!get_default_context(t1)], ids |-> left, v |-> w,
                  read |-> Graph(g)!None,
                  pc |-> IF op = "saves" /\ g.batched THEN "bulk" ELSE "ask"]]
        BY <3>3
      <4> DEFINE b == [op |-> op, c |-> Graph(g)!get_default_context(t1),
                  d |-> base'[Graph(g)!get_default_context(t1)], ids |-> left, v |-> w,
                  read |-> Graph(g)!None,
                  pc |-> IF op = "saves" /\ g.batched THEN "bulk" ELSE "ask"]
      <4>2. b.read = Graph(g)!None /\ b.pc \in {"ask", "bulk"}
        OBVIOUS
      <4> HIDE DEF b
      <4> QED
        BY <4>1, <4>2 DEF b
    <3> QED
      BY <3>1, <3>2, <3>3 DEF Graph!Call
  <2>3. \A u \in Tasks : \/ asked'[u] = asked[u]
                         \/ asked'[u].read = Graph(g)!None /\ asked'[u].pc \in {"ask", "bulk"}
    BY <2>2 DEF Graph!Types
  <2> QED
    BY <2>1, <2>3 DEF Graph!AllWritten, Graph!Seen, Graph!None
<1>7. ASSUME NEW t1 \in Tasks,
             \/ Graph(g)!get(t1) \/ Graph(g)!save(t1)
             \/ Graph(g)!save_batch(t1) \/ Graph(g)!delete(t1)
      PROVE Graph(g)!AllWritten'
  BY <1>7, WorkWritten
<1>8. CASE UNCHANGED Graph(g)!ctxVars
  BY <1>0, <1>8 DEF Graph!ctxVars
<1> QED
  BY <1>1, <1>2, <1>3, <1>4, <1>5, <1>6, <1>7, <1>8
     DEF Graph!Next, Graph!switch_database, Graph!use_prime_database

\* At first nothing is kept, called or configured.
LEMMA GraphInit ==
  ASSUME NEW g, Graph(g)!Assumptions, Graph(g)!Init
  PROVE  Graph(g)!Types /\ Graph(g)!AllWritten
<1>1. manager \in Graph(g)!Managers
  <2>1. [n \in {} |-> Absent] \in [{} -> Dbs] /\ {} \in SUBSET (g.names \cup {"prime"})
    OBVIOUS
  <2>2. [n \in {} |-> Absent] \in UNION {[S -> Dbs] : S \in SUBSET (g.names \cup {"prime"})}
    BY <2>1
  <2> QED
    BY <2>2 DEF Graph!Init, Graph!NoManager, Graph!Managers
<1>2. Graph(g)!Asks(Graph(g)!Idle)
  BY DEF Graph!Asks, Graph!Idle, Graph!None, Graph!Maybe
<1>3. [t1 \in Tasks |-> <<>>] \in [Tasks -> Seq(Graph(g)!Scopes)]
  OBVIOUS
<1>4. Graph(g)!None \in [Ids -> Graph(g)!Maybe(Vals)]
  BY DEF Graph!None, Graph!Maybe
<1>5. Graph(g)!Types
  BY <1>1, <1>2, <1>3, <1>4 DEF Graph!Init, Graph!Types, Graph!Maybe, Graph!NoManager, Graph!Assumptions
<1>6. Graph(g)!AllWritten
  BY DEF Graph!Init, Graph!AllWritten, Graph!Seen, Graph!None, Graph!Idle
<1> QED
  BY <1>5, <1>6

\* For any tasks, contexts and databases, and any of the settings of Contexts, failed
\* and overlapping calls, shared and switched databases included: what the cache of a
\* context holds was written by a save (core/context.py:932).
THEOREM NothingUnwritten ==
  ASSUME NEW g, Graph(g)!Assumptions
  PROVE  Graph(g)!Spec => []Graph(g)!NeverUnwritten
<1>1. Graph(g)!Init => Graph(g)!Types /\ Graph(g)!AllWritten
  BY GraphInit
<1>2. Graph(g)!Types /\ Graph(g)!AllWritten /\ [Graph(g)!Next]_(Graph(g)!ctxVars)
        => Graph(g)!Types' /\ Graph(g)!AllWritten'
  BY GraphTypes, WrittenStep
<1>3. Graph(g)!AllWritten => Graph(g)!NeverUnwritten
  BY DEF Graph!AllWritten, Graph!NeverUnwritten, Graph!Seen
<1> QED
  BY <1>1, <1>2, <1>3, PTL DEF Graph!Spec

(* The cache of a context matches its database while its calls do not overlap. *)
Tidy(g) == /\ Graph(g)!Assumptions /\ ~g.mixed /\ ~g.batched
           /\ "late" \notin g.faults /\ "switch" \notin g.does

\* A call a is one step further, as b: only its database and the cache of its context
\* change, and they match but for what is written and about to be cached.
Further(a, b) ==
    /\ a.pc # "idle" /\ UNCHANGED <<base, unmade>>
    /\ IF b.pc = "idle" THEN b.c = Absent
       ELSE b.c = a.c /\ b.d = a.d /\ b.pc \in {"ask", "read", "wrote"}
    /\ b.pc = "read" => b.read = store'[b.d]
    /\ b.pc = "wrote" => \A i \in Ids : i = Head(b.ids) => store'[b.d][i] = b.v
    /\ \A e \in Dbs \ {a.d} : store'[e] = store[e]
    /\ \A c \in Contexts \ {a.c} : held'[c] = held[c]
    /\ \A i \in Ids : held'[a.c][i] # Absent =>
          held'[a.c][i] = store'[a.d][i] \/ (b.pc = "wrote" /\ Head(b.ids) = i)

\* It leaves the caches of other contexts and the databases of other calls alone.
LEMMA WorkApart ==
  ASSUME NEW g, Tidy(g), Graph(g)!Types, Graph(g)!Apart, Graph(g)!Matching, NEW t1 \in Tasks,
         NEW b, asked' = [asked EXCEPT ![t1] = b], Further(asked[t1], b)
  PROVE  Graph(g)!Apart' /\ Graph(g)!Matching'
<1> DEFINE a == asked[t1]
<1>f. /\ a.pc # "idle" /\ UNCHANGED <<base, unmade>>
      /\ IF b.pc = "idle" THEN b.c = Absent
         ELSE b.c = a.c /\ b.d = a.d /\ b.pc \in {"ask", "read", "wrote"}
      /\ b.pc = "read" => b.read = store'[b.d]
      /\ b.pc = "wrote" => \A i \in Ids : i = Head(b.ids) => store'[b.d][i] = b.v
  BY DEF Further
<1>g. /\ \A e \in Dbs \ {a.d} : store'[e] = store[e]
      /\ \A c \in Contexts \ {a.c} : held'[c] = held[c]
      /\ \A i \in Ids : held'[a.c][i] # Absent =>
            held'[a.c][i] = store'[a.d][i] \/ (b.pc = "wrote" /\ Head(b.ids) = i)
  BY DEF Further
<1>0. /\ DOMAIN asked = Tasks /\ a.c \in Contexts /\ a.d \in Dbs /\ Absent \notin Contexts \cup Dbs
      /\ base[a.c] = a.d /\ asked'[t1] = b /\ base \in [Contexts -> Graph(g)!Maybe(Dbs)]
  BY <1>f DEF Graph!Types, Graph!Asks, Graph!Apart, Tidy, Graph!Assumptions
<1>1. \A u \in Tasks \ {t1} : asked'[u] = asked[u] /\ asked[u].c # a.c
  BY <1>0 DEF Graph!Apart
<1>2. \A u \in Tasks : asked[u].pc # "idle" => asked[u].c \in Contexts /\ asked[u].d \in Dbs
  BY DEF Graph!Types, Graph!Asks
<1>3. \A u \in Tasks \ {t1} : asked[u].pc # "idle" => asked[u].d # a.d
  BY <1>0, <1>1, <1>2 DEF Graph!Apart
<1>4. Graph(g)!Apart'
  <2>1. ASSUME NEW u \in Tasks \ {t1} PROVE
           /\ asked'[u].pc # "idle" => base'[asked'[u].c] = asked'[u].d
           /\ asked'[u].pc \notin {"bulk", "all"}
           /\ asked'[u].pc = "read" => asked'[u].read = store'[asked'[u].d]
           /\ asked'[u].pc = "wrote" => \A i \in Ids : i = Head(asked'[u].ids) =>
                 store'[asked'[u].d][i] = asked'[u].v
    BY <1>1, <1>2, <1>3, <1>f, <1>g DEF Graph!Apart
  <2>2. /\ b.pc # "idle" => base'[b.c] = b.d
        /\ b.pc \notin {"bulk", "all"}
    BY <1>0, <1>f
  <2>3. \A u, w \in Tasks : asked'[u].c = asked'[w].c /\ asked'[u].c # Absent => u = w
    BY <1>0, <1>1, <1>f DEF Graph!Apart
  <2>4. /\ \A c \in unmade' : base'[c] = Absent
        /\ \A c, x \in Contexts : base'[c] = base'[x] /\ base'[c] # Absent => c = x
    BY <1>f DEF Graph!Apart
  <2> QED
    BY <1>0, <1>f, <2>1, <2>2, <2>3, <2>4 DEF Graph!Apart
<1>5. Graph(g)!Matching'
  <2> SUFFICES ASSUME NEW c \in Contexts, NEW i \in Ids, held'[c][i] # Absent
      PROVE  base'[c] # Absent /\ (held'[c][i] = store'[base'[c]][i] \/ Graph(g)!Writing(c, i)')
    BY DEF Graph!Matching
  <2>1. CASE c = a.c
    BY <1>0, <1>f, <1>g, <2>1 DEF Graph!Writing
  <2>2. CASE c # a.c
    <3>1. base[c] # Absent /\ (held[c][i] = store[base[c]][i] \/ Graph(g)!Writing(c, i))
      BY <1>g, <2>2 DEF Graph!Matching
    <3>2. base[c] \in Dbs \ {a.d}
      BY <1>0, <2>2, <3>1 DEF Graph!Apart, Graph!Maybe
    <3>3. Graph(g)!Writing(c, i) => Graph(g)!Writing(c, i)'
      BY <1>1, <2>2 DEF Graph!Writing
    <3> QED
      BY <1>f, <1>g, <2>2, <3>1, <3>2, <3>3
  <2> QED
    BY <2>1, <2>2
<1> QED
  BY <1>4, <1>5

\* A read is cached, a write is written and then cached, or it fails and leaves no trace.
LEMMA WorkMatches ==
  ASSUME NEW g, Tidy(g), Graph(g)!Types, Graph(g)!Apart, Graph(g)!Matching, NEW t1 \in Tasks,
         \/ Graph(g)!get(t1) \/ Graph(g)!save(t1) \/ Graph(g)!save_batch(t1) \/ Graph(g)!delete(t1)
  PROVE  Graph(g)!Apart' /\ Graph(g)!Matching'
<1> DEFINE a == asked[t1]
           Moves(b) == /\ asked' = [asked EXCEPT ![t1] = b]
                       /\ IF b.pc = "idle" THEN b.c = Absent
                          ELSE b.c = a.c /\ b.d = a.d /\ b.pc \in {"ask", "read", "wrote"}
           Same == \A i \in Ids : held[a.c][i] # Absent =>
                      held[a.c][i] = store[a.d][i] \/ (a.pc = "wrote" /\ Head(a.ids) = i)
<1>0. /\ Graph(g)!Asks(a) /\ DOMAIN asked = Tasks
      /\ DOMAIN a = {"op", "c", "d", "ids", "v", "pc", "read"}
      /\ a.pc # "idle" => a.c \in Contexts /\ a.d \in Dbs /\ base[a.c] = a.d
      /\ a.pc \notin {"bulk", "all"} /\ Absent \notin Contexts
  BY DEF Graph!Types, Graph!Asks, Graph!Apart, Tidy, Graph!Assumptions
<1>h. /\ held \in [Contexts -> [Ids -> Graph(g)!Maybe(Vals)]]
      /\ store \in [Dbs -> [Ids -> Graph(g)!Maybe(Vals)]]
  BY DEF Graph!Types
<1>r. UNCHANGED <<base, unmade>>
  BY DEF Graph!get, Graph!save, Graph!save_batch, Graph!delete, Graph!Rest, Graph!defaults
<1>s. ASSUME a.pc # "idle" PROVE Same
  <2> SUFFICES ASSUME NEW i \in Ids, held[a.c][i] # Absent
      PROVE  held[a.c][i] = store[a.d][i] \/ (a.pc = "wrote" /\ Head(a.ids) = i)
    OBVIOUS
  <2>1. held[a.c][i] = store[a.d][i] \/ Graph(g)!Writing(a.c, i)
    BY <1>0, <1>s DEF Graph!Matching
  <2>2. ASSUME NEW u \in Tasks, asked[u].c = a.c PROVE u = t1
    BY <1>0, <1>s, <2>2 DEF Graph!Apart
  <2>3. CASE Graph(g)!Writing(a.c, i)
    <3>1. PICK u \in Tasks : asked[u].c = a.c /\ asked[u].pc = "wrote" /\ Head(asked[u].ids) = i
      BY <2>3 DEF Graph!Writing
    <3> QED
      BY <2>2, <3>1
  <2> QED
    BY <2>1, <2>3
<1>i. ASSUME Graph(g)!Done(t1) \/ Graph(g)!Onward(t1), a.pc # "idle"
      PROVE  \E b : Moves(b) /\ b.pc \in {"idle", "ask"}
  <2>1. CASE Graph(g)!Done(t1)
    <3>1. Graph(g)!Idle.pc = "idle" /\ Graph(g)!Idle.c = Absent
      BY DEF Graph!Idle
    <3> QED
      BY <2>1, <3>1 DEF Graph!Done
  <2>2. CASE asked' = [asked EXCEPT ![t1].ids = Tail(@), ![t1].pc = "ask"]
    <3> DEFINE b == [a EXCEPT !.ids = Tail(a.ids), !.pc = "ask"]
    <3>1. b.pc = "ask" /\ b.c = a.c /\ b.d = a.d
      BY <1>0
    <3>2. asked' = [asked EXCEPT ![t1] = b]
      BY <2>2
    <3> HIDE DEF b
    <3> QED
      BY <3>1, <3>2
  <2> QED
    BY <1>i, <2>1, <2>2 DEF Graph!Onward
<1>w. ASSUME a.pc = "ask", Graph(g)!At(t1, "wrote"), UNCHANGED held, Graph(g)!Put(a.d, {Head(a.ids)}, a.v)
      PROVE  Graph(g)!Apart' /\ Graph(g)!Matching'
  <2>1. PICK b : Moves(b) /\ b.pc = "wrote" /\ b.ids = a.ids /\ b.v = a.v
    <3> DEFINE b == [a EXCEPT !.pc = "wrote"]
    <3>1. b.pc = "wrote" /\ b.c = a.c /\ b.d = a.d /\ b.ids = a.ids /\ b.v = a.v
      BY <1>0
    <3>2. asked' = [asked EXCEPT ![t1] = b]
      BY <1>w DEF Graph!At
    <3> HIDE DEF b
    <3> QED
      BY <3>1, <3>2
  <2>3. /\ \A e \in Dbs \ {a.d} : store'[e] = store[e]
        /\ \A i \in Ids : store'[a.d][i] = IF i = Head(a.ids) THEN a.v ELSE store[a.d][i]
    BY <1>0, <1>h, <1>w DEF Graph!Put
  <2>4. \A i \in Ids : held'[a.c][i] # Absent =>
          held'[a.c][i] = store'[a.d][i] \/ (b.pc = "wrote" /\ Head(b.ids) = i)
    BY <1>s, <1>w, <2>1, <2>3
  <2>5. /\ asked' = [asked EXCEPT ![t1] = b] /\ a.pc # "idle" /\ b.pc # "idle" /\ b.pc # "read"
        /\ b.c = a.c /\ b.d = a.d /\ b.pc \in {"ask", "read", "wrote"}
        /\ \A i \in Ids : i = Head(b.ids) => store'[b.d][i] = b.v
        /\ \A x \in Contexts \ {a.c} : held'[x] = held[x]
    BY <1>w, <2>1, <2>3
  <2>6. \A e \in Dbs \ {a.d} : store'[e] = store[e]
    BY <2>3
  <2>7. Further(a, b)
    BY <1>r, <2>4, <2>5, <2>6 DEF Further
  <2> QED
    BY <2>5, <2>7, WorkApart
<1>c. ASSUME a.pc = "wrote", Graph(g)!Onward(t1), UNCHANGED store,
             held' = [held EXCEPT ![a.c][Head(a.ids)] = a.v]
      PROVE  Graph(g)!Apart' /\ Graph(g)!Matching'
  <2>1. PICK b : Moves(b) /\ b.pc \in {"idle", "ask"}
    BY <1>c, <1>i
  <2>2. \A i \in Ids : i = Head(a.ids) => store[a.d][i] = a.v
    BY <1>c DEF Graph!Apart
  <2>3. \A i \in Ids : held'[a.c][i] # Absent => held'[a.c][i] = store'[a.d][i]
    BY <1>0, <1>c, <1>h, <1>s, <2>2
  <2>4. \A x \in Contexts \ {a.c} : held'[x] = held[x]
    BY <1>c, <1>h
  <2>5. Further(a, b)
    BY <1>c, <1>r, <2>1, <2>3, <2>4 DEF Further
  <2> QED
    BY <2>1, <2>5, WorkApart
<1>f. ASSUME a.pc = "ask", Graph(g)!Failing(t1) PROVE Graph(g)!Apart' /\ Graph(g)!Matching'
  <2>1. Graph(g)!Onward(t1) /\ UNCHANGED <<held, store>>
    BY <1>f DEF Graph!Failing, Tidy
  <2>2. PICK b : Moves(b) /\ b.pc \in {"idle", "ask"}
    BY <1>f, <1>i, <2>1
  <2>3. \A i \in Ids : held'[a.c][i] # Absent => held'[a.c][i] = store'[a.d][i]
    BY <1>f, <1>s, <2>1
  <2>4. Further(a, b)
    BY <1>f, <1>r, <2>1, <2>2, <2>3 DEF Further
  <2> QED
    BY <2>2, <2>4, WorkApart
<1>1. CASE Graph(g)!get(t1)
  <2>1. CASE a.pc = "ask" /\ UNCHANGED held
             /\ asked' = [asked EXCEPT ![t1].pc = "read", ![t1].read = store[asked[t1].d]]
    <3>1. store' = store
      BY <1>1 DEF Graph!get
    <3>2. PICK b : Moves(b) /\ b.pc = "read" /\ b.read = store[a.d]
      <4> DEFINE b == [a EXCEPT !.pc = "read", !.read = store[a.d]]
      <4>1. b.pc = "read" /\ b.read = store[a.d] /\ b.c = a.c /\ b.d = a.d
        BY <1>0
      <4>2. asked' = [asked EXCEPT ![t1] = b]
        BY <2>1
      <4> HIDE DEF b
      <4> QED
        BY <4>1, <4>2
    <3>3. \A i \in Ids : held'[a.c][i] # Absent => held'[a.c][i] = store'[a.d][i]
      BY <1>s, <2>1, <3>1
    <3>4. /\ asked' = [asked EXCEPT ![t1] = b] /\ a.pc # "idle" /\ b.pc # "idle" /\ b.pc # "wrote"
          /\ b.c = a.c /\ b.d = a.d /\ b.pc \in {"ask", "read", "wrote"} /\ b.read = store'[b.d]
          /\ \A x \in Contexts \ {a.c} : held'[x] = held[x]
      BY <2>1, <3>1, <3>2
    <3>5. Further(a, b)
      BY <1>r, <3>1, <3>3, <3>4 DEF Further
    <3> QED
      BY <3>4, <3>5, WorkApart
  <2>2. CASE a.pc = "read" /\ Graph(g)!Done(t1)
             /\ held' = [held EXCEPT ![a.c] =
                  [i \in Ids |-> IF a.read[i] # Absent
                                    /\ \E k \in DOMAIN a.ids : a.ids[k] = i
                                 THEN a.read[i] ELSE @[i]]]
    <3>1. store' = store
      BY <1>1 DEF Graph!get
    <3>2. a.read = store[a.d]
      BY <2>2 DEF Graph!Apart
    <3>3. \A i \in Ids : held'[a.c][i] # Absent => held'[a.c][i] = store'[a.d][i]
      BY <1>0, <1>h, <1>s, <2>2, <3>1, <3>2
    <3>4. \A x \in Contexts \ {a.c} : held'[x] = held[x]
      BY <1>h, <2>2
    <3>5. PICK b : Moves(b) /\ b.pc \in {"idle", "ask"}
      BY <1>i, <2>2
    <3>6. Further(a, b)
      BY <1>r, <2>2, <3>1, <3>3, <3>4, <3>5 DEF Further
    <3> QED
      BY <3>5, <3>6, WorkApart
  <2> QED
    BY <1>1, <2>1, <2>2 DEF Graph!get
<1>2. CASE Graph(g)!save(t1)
  BY <1>2, <1>w, <1>c, <1>f DEF Graph!save
<1>3. CASE Graph(g)!save_batch(t1)
  BY <1>0, <1>3 DEF Graph!save_batch, Graph!Doing
<1>4. CASE Graph(g)!delete(t1)
  <2>1. a.v = Absent
    BY <1>0, <1>4 DEF Graph!Asks, Graph!delete
  <2> QED
    BY <1>4, <1>w, <1>c, <1>f, <2>1 DEF Graph!delete
<1> QED
  BY <1>1, <1>2, <1>3, <1>4

\* Where no call is under way, a context may be given a database: one that it alone
\* has, and an empty cache.
LEMMA BaseApart ==
  ASSUME NEW g, Tidy(g), Graph(g)!Types, Graph(g)!Apart, Graph(g)!Matching,
         NEW c \in Contexts, NEW d \in Dbs, \A u \in Tasks : asked[u].c # c,
         base' = [base EXCEPT ![c] = d], \A x \in Contexts \ {c} : base[x] # d,
         unmade' \subseteq unmade \ {c}, UNCHANGED <<store, asked>>,
         \A x \in Contexts \ {c} : held'[x] = held[x],
         \A i \in Ids : held'[c][i] = Absent
  PROVE  Graph(g)!Apart' /\ Graph(g)!Matching'
<1>0. base \in [Contexts -> Graph(g)!Maybe(Dbs)] /\ Absent \notin Contexts \cup Dbs
      /\ unmade \subseteq Contexts
      /\ \A u \in Tasks : asked[u].pc # "idle" => asked[u].c \in Contexts \ {c}
  BY DEF Graph!Types, Graph!Asks, Tidy, Graph!Assumptions
<1>1. Graph(g)!Apart'
  BY <1>0 DEF Graph!Apart
<1>2. Graph(g)!Matching'
  <2> SUFFICES ASSUME NEW x \in Contexts, NEW i \in Ids, held'[x][i] # Absent
      PROVE  base'[x] # Absent /\ (held'[x][i] = store'[base'[x]][i] \/ Graph(g)!Writing(x, i)')
    BY DEF Graph!Matching
  <2>1. x # c
    OBVIOUS
  <2>2. base'[x] = base[x] /\ (Graph(g)!Writing(x, i)' <=> Graph(g)!Writing(x, i))
    BY <1>0, <2>1 DEF Graph!Writing
  <2> QED
    BY <2>1, <2>2 DEF Graph!Matching
<1> QED
  BY <1>1, <1>2

\* The first use of a context without a database finds its cache empty.
LEMMA Unbased ==
  ASSUME NEW g, Tidy(g), Graph(g)!Types, Graph(g)!Apart, Graph(g)!Matching,
         NEW c \in Contexts, base[c] = Absent
  PROVE  (\A u \in Tasks : asked[u].c # c) /\ \A i \in Ids : held[c][i] = Absent
<1>1. \A u \in Tasks : asked[u].c # c
  BY DEF Graph!Types, Graph!Asks, Graph!Apart, Tidy, Graph!Assumptions
<1>2. \A i \in Ids : held[c][i] = Absent
  BY DEF Graph!Matching
<1> QED
  BY <1>1, <1>2

\* A step that leaves databases, caches and calls alone.
LEMMA RestApart ==
  ASSUME NEW g, Graph(g)!Apart, Graph(g)!Matching,
         UNCHANGED <<base, held, store, asked>>, unmade' \subseteq unmade
  PROVE  Graph(g)!Apart' /\ Graph(g)!Matching'
<1>1. Graph(g)!Apart'
  BY DEF Graph!Apart
<1>2. Graph(g)!Matching'
  BY DEF Graph!Matching, Graph!Writing
<1> QED
  BY <1>1, <1>2

\* The database that a call of a context finds is that context's alone.
LEMMA KnownApart ==
  ASSUME NEW g, Tidy(g), Graph(g)!Types, Graph(g)!Apart, Graph(g)!Matching,
         NEW c \in Contexts, Graph(g)!Known(c), unmade' \subseteq unmade \ {c}
  PROVE  /\ \A x \in unmade' : base'[x] = Absent
         /\ \A x, y \in Contexts : base'[x] = base'[y] /\ base'[x] # Absent => x = y
         /\ \A x \in Contexts : base[x] # Absent => base'[x] = base[x]
<1>0. base \in [Contexts -> Graph(g)!Maybe(Dbs)] /\ unmade \subseteq Contexts
  BY DEF Graph!Types
<1>1. CASE base[c] # Absent /\ UNCHANGED <<manager, base>>
  BY <1>1 DEF Graph!Apart
<1>2. CASE /\ base[c] = Absent
           /\ Graph(g)!Own(c, Graph(g)!get_current_database(Graph(g)!get_instance))
           /\ base' = [base EXCEPT ![c] = Graph(g)!get_current_database(Graph(g)!get_instance)]
  BY <1>0, <1>2 DEF Graph!Apart, Graph!Own, Tidy
<1> QED
  BY <1>1, <1>2 DEF Graph!Known

\* A call is begun where the context has no other, and finds its own database.
LEMMA BeginApart ==
  ASSUME NEW g, Tidy(g), Graph(g)!Types, Graph(g)!Apart, Graph(g)!Matching, NEW t1 \in Tasks,
         Graph(g)!Begin(t1)
  PROVE  Graph(g)!Apart' /\ Graph(g)!Matching'
<1> DEFINE c == Graph(g)!get_default_context(t1)
<1>1. PICK op, w : Graph(g)!Call(t1, op, w)
  BY DEF Graph!Begin
<1>2. /\ c \in Contexts /\ UNCHANGED <<held, store>> /\ unmade' = unmade \ {c}
      /\ \A u \in Tasks : asked[u].c # c
  BY <1>1, DefaultType DEF Graph!Call, Graph!Bound, Graph!Calm, Tidy
<1>3. CASE UNCHANGED <<manager, base, asked>>
  BY <1>2, <1>3, RestApart
<1>4. CASE /\ Graph(g)!Known(c)
           /\ \E left : asked' = [asked EXCEPT ![t1] =
                [op |-> op, c |-> c, d |-> base'[c], ids |-> left, v |-> w, read |-> Graph(g)!None,
                 pc |-> IF op = "saves" /\ g.batched THEN "bulk" ELSE "ask"]]
  <2>1. PICK b : /\ asked' = [asked EXCEPT ![t1] = b]
                 /\ b.c = c /\ b.d = base'[c] /\ b.pc = "ask"
    <3>1. PICK left : asked' = [asked EXCEPT ![t1] =
                [op |-> op, c |-> c, d |-> base'[c], ids |-> left, v |-> w, read |-> Graph(g)!None,
                 pc |-> IF op = "saves" /\ g.batched THEN "bulk" ELSE "ask"]]
      BY <1>4
    <3> DEFINE b == [op |-> op, c |-> c, d |-> base'[c], ids |-> left, v |-> w, read |-> Graph(g)!None,
                     pc |-> IF op = "saves" /\ g.batched THEN "bulk" ELSE "ask"]
    <3>2. b.c = c /\ b.d = base'[c] /\ b.pc = "ask"
      BY DEF Tidy
    <3>3. asked' = [asked EXCEPT ![t1] = b]
      BY <3>1
    <3> HIDE DEF b, c
    <3> QED
      BY <3>2, <3>3
  <2> HIDE DEF c
  <2>2. /\ DOMAIN asked = Tasks /\ Absent \notin Contexts
        /\ \A u \in Tasks : asked[u].pc # "idle" => asked[u].c \in Contexts
    BY DEF Graph!Types, Graph!Asks, Tidy, Graph!Assumptions
  <2>3. asked'[t1] = b /\ \A u \in Tasks \ {t1} : asked'[u] = asked[u]
    BY <2>1, <2>2
  <2>4. /\ \A x \in unmade' : base'[x] = Absent
        /\ \A x, y \in Contexts : base'[x] = base'[y] /\ base'[x] # Absent => x = y
        /\ \A x \in Contexts : base[x] # Absent => base'[x] = base[x]
    BY <1>2, <1>4, KnownApart
  <2>5. \A u \in Tasks : asked[u].pc # "idle" => base[asked[u].c] # Absent
    BY DEF Graph!Apart, Graph!Types, Graph!Asks, Tidy, Graph!Assumptions
  <2>6. Graph(g)!Apart'
    <3>1. \A u \in Tasks :
            /\ asked'[u].pc # "idle" => base'[asked'[u].c] = asked'[u].d
            /\ asked'[u].pc \notin {"bulk", "all"}
            /\ asked'[u].pc = "read" => asked'[u].read = store'[asked'[u].d]
            /\ asked'[u].pc = "wrote" => \A i \in Ids : i = Head(asked'[u].ids) =>
                  store'[asked'[u].d][i] = asked'[u].v
      BY <1>2, <2>1, <2>2, <2>3, <2>4, <2>5 DEF Graph!Apart
    <3>2. \A u, x \in Tasks : asked'[u].c = asked'[x].c /\ asked'[u].c # Absent => u = x
      BY <1>2, <2>1, <2>3 DEF Graph!Apart
    <3> QED
      BY <2>4, <3>1, <3>2 DEF Graph!Apart
  <2>7. Graph(g)!Matching'
    <3> SUFFICES ASSUME NEW x \in Contexts, NEW i \in Ids, held'[x][i] # Absent
        PROVE  base'[x] # Absent /\ (held'[x][i] = store'[base'[x]][i] \/ Graph(g)!Writing(x, i)')
      BY DEF Graph!Matching
    <3>1. /\ base[x] # Absent /\ base'[x] = base[x]
          /\ held[x][i] = store[base[x]][i] \/ Graph(g)!Writing(x, i)
      BY <1>2, <2>4 DEF Graph!Matching
    <3>2. CASE Graph(g)!Writing(x, i)
      <4>1. PICK u \in Tasks : asked[u].c = x /\ asked[u].pc = "wrote" /\ Head(asked[u].ids) = i
        BY <3>2 DEF Graph!Writing
      <4>2. CASE u = t1
        BY <1>1, <4>1, <4>2 DEF Graph!Call, Graph!Free
      <4> QED
        BY <2>3, <3>1, <4>1, <4>2 DEF Graph!Writing
    <3> QED
      BY <1>2, <3>1, <3>2
  <2> QED
    BY <2>6, <2>7
<1> QED
  BY <1>1, <1>3, <1>4 DEF Graph!Call

\* Every step keeps caches matching, and each context with a database to itself.
LEMMA MatchesStep ==
  ASSUME NEW g, Tidy(g), Graph(g)!Types, Graph(g)!Apart, Graph(g)!Matching,
         [Graph(g)!Next]_(Graph(g)!ctxVars)
  PROVE  Graph(g)!Apart' /\ Graph(g)!Matching'
<1>1. CASE Graph(g)!Manage
  BY <1>1, RestApart DEF Graph!Manage, Graph!defaults
<1>2. ASSUME NEW t1 \in Tasks, NEW c \in Contexts, Graph(g)!set_default_context(t1, c)
      PROVE  Graph(g)!Apart' /\ Graph(g)!Matching'
  BY <1>2, RestApart DEF Graph!set_default_context, Graph!Recorded
<1>3. ASSUME NEW t1 \in Tasks, NEW c \in Contexts, Graph(g)!scoped_default_context(t1, c)
      PROVE  Graph(g)!Apart' /\ Graph(g)!Matching'
  <2>1. UNCHANGED <<held, store, asked>> /\ unmade' = unmade \ {c}
    BY <1>3 DEF Graph!scoped_default_context
  <2>2. CASE UNCHANGED base
    BY <2>1, <2>2, RestApart
  <2>3. CASE c \in unmade /\ \E d \in Dbs : Graph(g)!Own(c, d) /\ base' = [base EXCEPT ![c] = d]
    <3>1. PICK d \in Dbs : Graph(g)!Own(c, d) /\ base' = [base EXCEPT ![c] = d]
      BY <2>3
    <3>2. \A x \in Contexts \ {c} : base[x] # d
      BY <3>1 DEF Graph!Own, Tidy
    <3>3. (\A u \in Tasks : asked[u].c # c) /\ \A i \in Ids : held[c][i] = Absent
      BY <2>3, Unbased DEF Graph!Apart
    <3> QED
      BY <2>1, <3>1, <3>2, <3>3, BaseApart
  <2> QED
    BY <1>3, <2>2, <2>3 DEF Graph!scoped_default_context
<1>4. ASSUME NEW t1 \in Tasks,
             \/ Graph(g)!Left(t1) \/ Graph(g)!clear_default_context(t1)
             \/ Graph(g)!clear_default_context_global(t1) \/ Graph(g)!Spawn(t1)
      PROVE  Graph(g)!Apart' /\ Graph(g)!Matching'
  BY <1>4, RestApart DEF Graph!Left, Graph!clear_default_context, Graph!clear_default_context_global,
     Graph!Spawn
<1>5. ASSUME NEW t1 \in Tasks, Graph(g)!initialize_graph_context(t1)
      PROVE  Graph(g)!Apart' /\ Graph(g)!Matching'
  <2> DEFINE c == Graph(g)!Fresh
  <2>1. c \in unmade /\ c \in Contexts
    BY <1>5, FreshType DEF Graph!initialize_graph_context, Graph!Types
  <2>2. PICK d : Graph(g)!Own(c, d) /\ base' = [base EXCEPT ![c] = d]
    BY <1>5 DEF Graph!initialize_graph_context
  <2>3. /\ UNCHANGED <<held, store, asked>> /\ unmade' = unmade \ {c}
        /\ \A x \in Contexts \ {c} : base[x] # d
    BY <1>5, <2>2 DEF Graph!initialize_graph_context, Graph!Recorded, Graph!Own, Tidy
  <2>4. Graph(g)!Types'
    BY <1>5, DatabasesType DEF Tidy
  <2>5. (\A u \in Tasks : asked[u].c # c) /\ \A i \in Ids : held[c][i] = Absent
    BY <2>1, Unbased DEF Graph!Apart
  <2>6. d \in Dbs \cup {Absent}
    BY <2>1, <2>2, <2>4 DEF Graph!Types, Graph!Maybe
  <2> HIDE DEF c
  <2>7. CASE d \in Dbs
    BY <2>1, <2>2, <2>3, <2>5, <2>7, BaseApart
  <2>8. CASE d = Absent
    <3>1. base' = base
      BY <2>1, <2>2, <2>8 DEF Graph!Apart, Graph!Types
    <3> QED
      BY <2>3, <3>1, RestApart
  <2> QED
    BY <2>6, <2>7, <2>8
<1>6. ASSUME NEW t1 \in Tasks, NEW d \in Dbs, Graph(g)!set_database(t1, d)
      PROVE  Graph(g)!Apart' /\ Graph(g)!Matching'
  <2> DEFINE c == Graph(g)!get_default_context(t1)
  <2>1. /\ c \in Contexts /\ Graph(g)!Own(c, d) /\ Graph(g)!Rebased(c, d)
        /\ UNCHANGED <<store, asked>>
        /\ unmade' = unmade \ {c} /\ \A u \in Tasks : asked[u].c # c
    BY <1>6, DefaultType DEF Graph!set_database, Graph!Bound, Graph!Calm, Tidy
  <2> HIDE DEF c
  <2>2. \A x \in Contexts \ {c} : base[x] # d
    BY <2>1 DEF Graph!Own, Tidy
  <2>3. /\ \A x \in Contexts \ {c} : held'[x] = held[x]
        /\ \A i \in Ids : held'[c][i] = Absent
    BY <2>1 DEF Graph!Rebased, Graph!None, Graph!Types
  <2>4. base' = [base EXCEPT ![c] = d]
    BY <2>1 DEF Graph!Rebased
  <2> QED
    BY <2>1, <2>2, <2>3, <2>4, BaseApart
<1>7. ASSUME NEW t1 \in Tasks, NEW n, Graph(g)!Switched(t1, n)
      PROVE  Graph(g)!Apart' /\ Graph(g)!Matching'
  BY <1>7 DEF Graph!Switched, Tidy
<1>8. ASSUME NEW t1 \in Tasks, Graph(g)!Begin(t1) PROVE Graph(g)!Apart' /\ Graph(g)!Matching'
  BY <1>8, BeginApart
<1>9. ASSUME NEW t1 \in Tasks,
             \/ Graph(g)!get(t1) \/ Graph(g)!save(t1)
             \/ Graph(g)!save_batch(t1) \/ Graph(g)!delete(t1)
      PROVE  Graph(g)!Apart' /\ Graph(g)!Matching'
  BY <1>9, WorkMatches
<1>10. CASE UNCHANGED Graph(g)!ctxVars
  BY <1>10, RestApart DEF Graph!ctxVars, Graph!defaults
<1> QED
  BY <1>1, <1>2, <1>3, <1>4, <1>5, <1>6, <1>7, <1>8, <1>9, <1>10
     DEF Graph!Next, Graph!switch_database, Graph!use_prime_database

\* At first no context has a database, and no cache an entity.
LEMMA MatchesInit ==
  ASSUME NEW g, Tidy(g), Graph(g)!Init
  PROVE  Graph(g)!Types /\ Graph(g)!Apart /\ Graph(g)!Matching
<1>1. Graph(g)!Types
  BY GraphInit DEF Tidy
<1>2. Graph(g)!Apart
  BY DEF Graph!Init, Graph!Apart, Graph!Idle
<1>3. Graph(g)!Matching
  BY DEF Graph!Init, Graph!Matching, Graph!None
<1> QED
  BY <1>1, <1>2, <1>3

\* For any tasks, contexts and databases: while the calls of a context do not overlap and
\* no two contexts share a database, a context that no call is using has cached only what
\* its own database holds, through failed saves, batches, deletes and changes of database
\* (core/context.py:489).
THEOREM CachesFollow ==
  ASSUME NEW g, Tidy(g)
  PROVE  Graph(g)!Spec => []Graph(g)!CacheMatches
<1>1. Graph(g)!Init => Graph(g)!Types /\ Graph(g)!Apart /\ Graph(g)!Matching
  BY MatchesInit
<1>2. Graph(g)!Types /\ Graph(g)!Apart /\ Graph(g)!Matching /\ [Graph(g)!Next]_(Graph(g)!ctxVars)
        => Graph(g)!Types' /\ Graph(g)!Apart' /\ Graph(g)!Matching'
  BY GraphTypes, MatchesStep DEF Tidy
<1>3. Graph(g)!Matching => Graph(g)!CacheMatches
  BY DEF Graph!Matching, Graph!CacheMatches, Graph!Writing
<1> QED
  BY <1>1, <1>2, <1>3, PTL DEF Graph!Spec
-----------------------------------------------------------------------------
(* The lease of a record.                                                  *)

USE TimeAssumption, OffsetAssumption, NativeAssumption, BoundAssumption, NoTokenAssumption

(* A worker's token is one of its own, and no call is half done.           *)
OwnTokens ==
    \A w \in Workers : /\ worker[w].pc \in {"call", "work"} => worker[w].tok \in {w} \X Nat
                       /\ worker[w].pc # "write"

(* While at least Skew ticks remain, the record carries the worker's token *)
(* and its deadline.                                                       *)
Held(w) ==
    worker[w].pc = "work" /\ worker[w].left >= Skew
      => /\ doc[worker[w].rec].there
         /\ doc[worker[w].rec].tok = worker[w].tok
         /\ doc[worker[w].rec].left = worker[w].left

IInv == Types /\ Paired /\ OwnTokens /\ (\A w \in Workers : Held(w)) /\ DeletedForGood

\* A worker at rest is well typed.
LEMMA IdleType == ASSUME NEW r \in Records PROVE Idle(r) \in WorkerStates
  BY DEF Idle, WorkerStates, Steps

\* What a call leaves of a record is well typed.
LEMMA AfterType ==
  ASSUME Types, NEW w \in Workers
  PROVE  After(w) \in Docs
  BY DEF After, Types, Docs, WorkerStates, Fresh, Removed

\* At first no record is claimed.
LEMMA InitInv == Init => IInv
<1> SUFFICES ASSUME Init PROVE IInv
  OBVIOUS
<1> PICK r \in Records : worker = [w \in Workers |-> Idle(r)]
  BY DEF Init
<1>1. Types
  BY IdleType DEF Init, Types, Docs, Fresh
<1>2. OwnTokens /\ \A w \in Workers : Held(w)
  BY DEF OwnTokens, Held, Idle
<1>3. DeletedForGood
  BY DEF Init, DeletedForGood
<1>4. Paired
  BY DEF Init, Paired, Idle, Fresh
<1> QED
  BY <1>1, <1>2, <1>3, <1>4 DEF IInv

\* A step of one worker keeps the workers typed.
LEMMA Update ==
  ASSUME Types, NEW w \in Workers, NEW s \in WorkerStates
  PROVE  [worker EXCEPT ![w] = s] \in [Workers -> WorkerStates]
  BY DEF Types

\* The states a worker goes to are well typed.
LEMMA StateType ==
  ASSUME NEW s \in WorkerStates
  PROVE  /\ \A op \in {"release", "delete"} : [s EXCEPT !.pc = "call", !.op = op] \in WorkerStates
         /\ [s EXCEPT !.pc = "work", !.age = 0, !.again = FALSE] \in WorkerStates
         /\ [s EXCEPT !.again = TRUE] \in WorkerStates
         /\ [s EXCEPT !.pc = "write"] \in WorkerStates
         /\ s.rec \in Records /\ Idle(s.rec) \in WorkerStates
         /\ (InCall(s) => s.age < Latency) => Aged(s) \in WorkerStates
<1>1. s.rec \in Records /\ Idle(s.rec) \in WorkerStates
  BY IdleType DEF WorkerStates
<1>2. (InCall(s) => s.age < Latency) => Aged(s) \in WorkerStates
  <2> SUFFICES ASSUME InCall(s) => s.age < Latency PROVE Aged(s) \in WorkerStates
    OBVIOUS
  <2> DEFINE l == IF s.pc = "idle" THEN s.left ELSE Less(s.left)
             a == IF InCall(s) THEN s.age + 1 ELSE s.age
  <2>1. l \in Int /\ a \in 0..Latency
    BY DEF Less, WorkerStates
  <2>2. Aged(s) = [s EXCEPT !.left = l, !.age = a]
    BY DEF Aged
  <2> HIDE DEF l, a
  <2> QED
    BY <2>1, <2>2 DEF WorkerStates
<1>3. \A op \in {"release", "delete"} : [s EXCEPT !.pc = "call", !.op = op] \in WorkerStates
  BY DEF WorkerStates, Steps
<1>4. [s EXCEPT !.pc = "work", !.age = 0, !.again = FALSE] \in WorkerStates
  <2>1. 0 \in 0..Latency
    OBVIOUS
  <2> QED
    BY <2>1 DEF WorkerStates, Steps
<1>5. [s EXCEPT !.again = TRUE] \in WorkerStates /\ [s EXCEPT !.pc = "write"] \in WorkerStates
  BY DEF WorkerStates, Steps
<1> QED
  BY <1>1, <1>2, <1>3, <1>4, <1>5

\* Every step keeps the types.
LEMMA TypeStep == Types /\ [Next]_vars => Types'
<1> SUFFICES ASSUME Types, [Next]_vars PROVE Types'
  OBVIOUS
<1>w. \A w \in Workers : worker[w] \in WorkerStates
  BY DEF Types
<1>1. ASSUME NEW w \in Workers, NEW r \in Records, AskClaim(w, r) PROVE Types'
  <2>1. claims[w] \in Nat /\ TTL + Offset[w] \in Int /\ 0 \in 0..Latency
    BY DEF Types
  <2>2. [pc |-> "call", op |-> "claim", rec |-> r, tok |-> <<w, claims[w]>>,
         left |-> TTL + Offset[w], age |-> 0, again |-> FALSE] \in WorkerStates
    BY <2>1 DEF WorkerStates, Steps, Tokens
  <2>3. worker' \in [Workers -> WorkerStates]
    BY <1>1, <2>2, Update, Zenon DEF AskClaim
  <2> QED
    BY <1>1, <2>3 DEF Types, AskClaim
<1>2. ASSUME NEW w \in Workers, NEW op \in {"release", "delete"}, AskEnd(w, op) PROVE Types'
  BY <1>2, <1>w, StateType, Update, Zenon DEF AskEnd, Types
<1>3. ASSUME NEW w \in Workers, Fails(w) PROVE worker' \in [Workers -> WorkerStates] /\ done' = done
  BY <1>3, <1>w, StateType, Update, Zenon DEF Fails
<1>4. ASSUME NEW w \in Workers, Succeeds(w)
      PROVE worker' \in [Workers -> WorkerStates] /\ done' \in [Records -> BOOLEAN]
  <2>1. worker' \in [Workers -> WorkerStates]
    BY <1>4, <1>w, StateType, Update, Zenon DEF Succeeds
  <2>2. done' \in [Records -> BOOLEAN]
    BY <1>4, <1>w, StateType, Zenon DEF Succeeds, Types
  <2> QED
    BY <2>1, <2>2
<1>5. ASSUME NEW w \in Workers, doc' = [doc EXCEPT ![worker[w].rec] = After(w)]
      PROVE doc' \in [Records -> Docs]
  <2>1. worker[w].rec \in Records /\ After(w) \in Docs
    BY <1>w, StateType, AfterType, Zenon DEF Types
  <2> QED
    BY <1>5, <2>1, Zenon DEF Types
<1>6. ASSUME NEW w \in Workers, Miss(w) \/ Crash(w) PROVE Types'
  BY <1>3, <1>6 DEF Miss, Crash, Types
<1>7. ASSUME NEW w \in Workers, Apply(w) \/ Write(w) PROVE Types'
  BY <1>4, <1>5, <1>7 DEF Apply, Write, Types
<1>8. ASSUME NEW w \in Workers, ApplyLost(w) PROVE Types'
  <2>0. doc' \in [Records -> Docs]
    BY <1>5, <1>8 DEF ApplyLost
  <2>n. losses' \in Nat /\ claims' = claims
    BY <1>8 DEF ApplyLost, Types
  <2>1. CASE worker[w].again
    BY <1>3, <1>8, <2>0, <2>n, <2>1 DEF ApplyLost, Types
  <2>2. CASE ~worker[w].again
    <3>1. [worker[w] EXCEPT !.again = TRUE] \in WorkerStates
      BY <1>w, StateType
    <3>2. worker' \in [Workers -> WorkerStates] /\ done' = done
      BY <1>8, <2>2, <3>1, Update, Zenon DEF ApplyLost
    <3> QED
      BY <2>0, <2>n, <3>2 DEF Types
  <2> QED
    BY <2>1, <2>2
<1>9. ASSUME NEW w \in Workers, Read(w) PROVE Types'
  BY <1>9, <1>w, StateType, Update, Zenon DEF Read, Types
<1>10. ASSUME Tick PROVE Types'
  <2>1. \A d \in Docs : Older(d) \in Docs
    BY DEF Older, Less, Docs
  <2>2. doc' \in [Records -> Docs]
    BY <1>10, <2>1 DEF Tick, Types
  <2>3. worker' \in [Workers -> WorkerStates]
    <3>1. \A w \in Workers : Aged(worker[w]) \in WorkerStates
      BY <1>10, <1>w, StateType, Zenon DEF Tick
    <3> QED
      BY <1>10, <3>1, Zenon DEF Tick
  <2> QED
    BY <1>10, <2>2, <2>3 DEF Tick, Types
<1>11. CASE UNCHANGED vars
  BY <1>11 DEF vars, Types
<1> QED
  BY <1>1, <1>2, <1>6, <1>7, <1>8, <1>9, <1>10, <1>11 DEF Next

\* Every step keeps lease and token together.
LEMMA PairStep == Types /\ Paired /\ [Next]_vars => Paired'
<1> SUFFICES ASSUME Types, Paired, [Next]_vars PROVE Paired'
  OBVIOUS
<1>w. /\ \A w \in Workers : worker[w] \in WorkerStates
      /\ worker \in [Workers -> WorkerStates] /\ doc \in [Records -> Docs]
  BY DEF Types
<1> DEFINE Working(s) == s.pc # "idle" => s.tok # NoToken
<1>1. ASSUME NEW w \in Workers, \A u \in Workers : u # w => worker'[u] = worker[u],
             Working(worker'[w]), doc' = doc
      PROVE  Paired'
  BY <1>1 DEF Paired
<1>2. ASSUME NEW w \in Workers, NEW s \in WorkerStates,
             worker' = [worker EXCEPT ![w] = s], Working(s), doc' = doc
      PROVE  Paired'
  BY <1>1, <1>2, <1>w
<1>3. \A r \in Records : Working(Idle(r))
  BY DEF Idle
<1>4. ASSUME NEW w \in Workers, NEW r \in Records, AskClaim(w, r) PROVE Paired'
  <2>1. <<w, claims[w]>> \in Tokens /\ <<w, claims[w]>> # NoToken
    BY DEF Types, Tokens
  <2>2. worker'[w].tok = <<w, claims[w]>> /\ \A u \in Workers : u # w => worker'[u] = worker[u]
    BY <1>4, <1>w DEF AskClaim
  <2> QED
    BY <1>1, <1>4, <2>1, <2>2 DEF AskClaim
<1>5. ASSUME NEW w \in Workers, NEW op \in {"release", "delete"}, AskEnd(w, op) PROVE Paired'
  <2>1. /\ worker'[w].tok = worker[w].tok /\ worker[w].pc = "work"
        /\ \A u \in Workers : u # w => worker'[u] = worker[u]
    BY <1>5, <1>w DEF AskEnd, WorkerStates
  <2> QED
    BY <1>1, <1>5, <2>1 DEF AskEnd, Paired
<1>6. ASSUME NEW w \in Workers, Fails(w) \/ Succeeds(w), worker[w].pc # "idle"
      PROVE \A u \in Workers : Working(worker'[u])
  <2>1. Working(worker'[w])
    <3>1. CASE Succeeds(w) /\ worker[w].op = "claim"
      BY <1>6, <1>w, <3>1 DEF Succeeds, WorkerStates, Paired
    <3>2. CASE Fails(w) \/ (Succeeds(w) /\ worker[w].op # "claim")
      BY <1>w, <3>2 DEF Fails, Succeeds, Idle
    <3> QED
      BY <1>6, <3>1, <3>2
  <2>2. \A u \in Workers : u # w => worker'[u] = worker[u]
    BY <1>6, <1>w DEF Fails, Succeeds
  <2> QED
    BY <2>1, <2>2 DEF Paired
<1>7. ASSUME NEW w \in Workers, worker[w].pc # "idle",
             doc' = [doc EXCEPT ![worker[w].rec] = After(w)]
      PROVE  \A r \in Records : doc'[r].tok = NoToken => doc'[r].left = 0
  <2>1. worker[w].rec \in Records
    BY <1>w DEF WorkerStates
  <2>2. After(w).tok = NoToken => After(w).left = 0
    BY <1>7 DEF After, Paired, Fresh, Removed
  <2> QED
    BY <1>7, <1>w, <2>1, <2>2 DEF Paired
<1>8. ASSUME NEW w \in Workers, Miss(w) \/ Crash(w) PROVE Paired'
  BY <1>6, <1>8 DEF Miss, Crash, Paired
<1>9. ASSUME NEW w \in Workers, Apply(w) \/ Write(w) PROVE Paired'
  BY <1>6, <1>7, <1>9 DEF Apply, Write, Paired
<1>10. ASSUME NEW w \in Workers, ApplyLost(w) PROVE Paired'
  <2>1. \A u \in Workers : Working(worker'[u])
    <3>1. CASE Fails(w)
      BY <1>6, <1>10, <3>1 DEF ApplyLost
    <3>2. CASE worker' = [worker EXCEPT ![w] = [worker[w] EXCEPT !.again = TRUE]]
      <4>1. /\ worker'[w].pc = worker[w].pc /\ worker'[w].tok = worker[w].tok
            /\ \A u \in Workers : u # w => worker'[u] = worker[u]
        BY <1>w, <3>2 DEF WorkerStates
      <4> QED
        BY <4>1 DEF Paired
    <3> QED
      BY <1>10, <3>1, <3>2 DEF ApplyLost
  <2> QED
    BY <1>7, <1>10, <2>1 DEF ApplyLost, Paired
<1>11. ASSUME NEW w \in Workers, Read(w) PROVE Paired'
  <2>1. /\ worker'[w].tok = worker[w].tok /\ worker[w].pc = "call"
        /\ \A u \in Workers : u # w => worker'[u] = worker[u]
    BY <1>11, <1>w DEF Read, WorkerStates
  <2> QED
    BY <1>1, <1>11, <2>1 DEF Read, Paired
<1>12. ASSUME Tick PROVE Paired'
  <2>1. ASSUME NEW w \in Workers PROVE worker'[w].pc = worker[w].pc
        /\ worker'[w].tok = worker[w].tok
    BY <1>12, <1>w DEF Tick, Aged, WorkerStates
  <2>2. ASSUME NEW r \in Records
        PROVE doc'[r].tok = doc[r].tok /\ (doc[r].tok = NoToken => doc'[r] = doc[r])
    BY <1>12, <1>w DEF Tick, Older, Docs
  <2> QED
    BY <2>1, <2>2 DEF Paired
<1>13. CASE UNCHANGED vars
  BY <1>13 DEF vars, Paired
<1> QED
  BY <1>4, <1>5, <1>8, <1>9, <1>10, <1>11, <1>12, <1>13 DEF Next

(* A claim is only taken over when less than Skew remains, and only its    *)
(* own token releases or deletes it.                                       *)
LEMMA Untouched ==
  ASSUME IInv, NEW w \in Workers, NEW u \in Workers, w # u,
         worker[w].pc = "work", worker[w].left >= Skew,
         worker[u].pc = "call", Matches(u), worker[u].rec = worker[w].rec
  PROVE  FALSE
<1> DEFINE d == doc[worker[w].rec]
<1>1. d.tok = worker[w].tok /\ d.left = worker[w].left
  BY DEF IInv, Held
<1>2. worker[w].tok \in {w} \X Nat /\ worker[u].tok \in {u} \X Nat
  BY DEF IInv, OwnTokens
<1>3. worker[w].tok # NoToken /\ worker[w].tok # worker[u].tok
  BY <1>2
<1>4. worker[u].op = "claim"
  BY <1>1, <1>3 DEF Matches
<1>5. worker[w].left < Offset[u] - worker[u].age
  BY <1>1, <1>3, <1>4 DEF Matches
<1>6. Offset[u] \in Int /\ Offset[u] <= Skew /\ worker[u].age \in Nat /\ worker[w].left \in Int
  BY DEF IInv, Types, WorkerStates
<1> QED
  BY <1>5, <1>6

(* A worker that does not act keeps what it holds of a record when nobody  *)
(* changes the record.                                                     *)
LEMMA Bystander ==
  ASSUME IInv, NEW w \in Workers, worker'[w] = worker[w],
         doc'[worker[w].rec] = doc[worker[w].rec]
  PROVE  Held(w)'
  BY DEF IInv, Held

(* A call that finds its record: the three ways it can end.                *)
LEMMA CallStep ==
  ASSUME Native, IInv, NEW w \in Workers,
         worker[w].pc = "call", Matches(w),
         doc' = [doc EXCEPT ![worker[w].rec] = After(w)],
         \/ Succeeds(w)
         \/ Fails(w)
         \/ worker' = [worker EXCEPT ![w] = [worker[w] EXCEPT !.again = TRUE]] /\ done' = done
  PROVE  OwnTokens' /\ (\A u \in Workers : Held(u)') /\ DeletedForGood'
<1>w. /\ worker \in [Workers -> WorkerStates] /\ doc \in [Records -> Docs]
      /\ worker[w] \in WorkerStates /\ worker[w].rec \in Records
      /\ done \in [Records -> BOOLEAN]
  BY DEF IInv, Types, WorkerStates
<1>1. \A u \in Workers : u # w => worker'[u] = worker[u]
  BY <1>w DEF Succeeds, Fails
<1>2. /\ worker'[w].pc \in {"idle", "call", "work"}
      /\ worker'[w].pc # "idle" => worker'[w].tok = worker[w].tok
      /\ worker'[w].pc = "work" => /\ worker[w].op = "claim"
                                   /\ worker'[w].rec = worker[w].rec
                                   /\ worker'[w].left = worker[w].left
  <2>1. CASE Succeeds(w) /\ worker[w].op = "claim"
    BY <1>w, <2>1 DEF Succeeds, WorkerStates
  <2>2. CASE Fails(w) \/ (Succeeds(w) /\ worker[w].op # "claim")
    BY <1>w, <2>2 DEF Succeeds, Fails, Idle
  <2>3. CASE worker' = [worker EXCEPT ![w] = [worker[w] EXCEPT !.again = TRUE]]
    BY <1>w, <2>3 DEF WorkerStates
  <2> QED
    BY <2>1, <2>2, <2>3
<1>3. OwnTokens'
  BY <1>1, <1>2 DEF IInv, OwnTokens
<1>4. ASSUME NEW u \in Workers PROVE Held(u)'
  <2>1. CASE u = w
    BY <1>w, <1>2, <2>1 DEF Held, After
  <2>2. CASE u # w
    <3> SUFFICES ASSUME worker'[u].pc = "work", worker'[u].left >= Skew PROVE Held(u)'
      BY DEF Held
    <3>1. worker'[u] = worker[u] /\ worker[u].rec # worker[w].rec
      BY <1>1, <2>2, Untouched
    <3>2. doc'[worker[u].rec] = doc[worker[u].rec]
      BY <1>w, <3>1 DEF WorkerStates
    <3> QED
      BY <3>1, <3>2, Bystander
  <2> QED
    BY <2>1, <2>2
<1>5. DeletedForGood'
  <2> SUFFICES ASSUME NEW r \in Records, done'[r] PROVE ~doc'[r].there
    BY DEF DeletedForGood
  <2>1. CASE r = worker[w].rec
    <3>1. ~done[r]
      BY <2>1 DEF IInv, DeletedForGood, Matches
    <3>2. worker[w].op = "delete"
      BY <1>w, <2>1, <3>1 DEF Succeeds, Fails
    <3> QED
      BY <1>w, <2>1, <3>2 DEF After, Removed
  <2>2. CASE r # worker[w].rec
    <3>1. done[r] = done'[r] /\ doc'[r] = doc[r]
      BY <1>w, <2>2 DEF Succeeds, Fails
    <3> QED
      BY <3>1 DEF IInv, DeletedForGood
  <2> QED
    BY <2>1, <2>2
<1> QED
  BY <1>3, <1>4, <1>5

\* With an atomic adapter every step keeps the records to their workers.
LEMMA HeldStep ==
  ASSUME Native, IInv, [Next]_vars
  PROVE  OwnTokens' /\ (\A u \in Workers : Held(u)') /\ DeletedForGood'
<1>w. worker \in [Workers -> WorkerStates] /\ doc \in [Records -> Docs]
  BY DEF IInv, Types
<1> DEFINE Goal == OwnTokens' /\ (\A u \in Workers : Held(u)') /\ DeletedForGood'
<1>s. ASSUME NEW w \in Workers, UNCHANGED <<doc, done>>,
             \A u \in Workers : u # w => worker'[u] = worker[u],
             worker'[w].pc \in {"idle", "call"},
             worker'[w].pc = "call" => worker'[w].tok \in {w} \X Nat
      PROVE  Goal
  <2>1. OwnTokens'
    BY <1>s DEF IInv, OwnTokens
  <2>2. \A u \in Workers : Held(u)'
    BY <1>s DEF IInv, Held
  <2>3. DeletedForGood'
    BY <1>s DEF IInv, DeletedForGood
  <2> QED
    BY <2>1, <2>2, <2>3
<1>1. ASSUME NEW w \in Workers, NEW r \in Records, AskClaim(w, r) PROVE Goal
  <2>1. claims[w] \in Nat
    BY DEF IInv, Types
  <2>2. /\ worker'[w].pc = "call" /\ worker'[w].tok = <<w, claims[w]>>
        /\ \A u \in Workers : u # w => worker'[u] = worker[u]
    BY <1>1, <1>w DEF AskClaim
  <2> HIDE DEF Goal
  <2> QED
    BY <1>1, <1>s, <2>1, <2>2 DEF AskClaim
<1>2. ASSUME NEW w \in Workers, NEW op \in {"release", "delete"}, AskEnd(w, op) PROVE Goal
  <2>1. /\ worker'[w].pc = "call" /\ worker'[w].tok = worker[w].tok /\ worker[w].pc = "work"
        /\ \A u \in Workers : u # w => worker'[u] = worker[u]
    BY <1>2, <1>w DEF AskEnd, WorkerStates
  <2>2. worker[w].tok \in {w} \X Nat
    BY <2>1 DEF IInv, OwnTokens
  <2> HIDE DEF Goal
  <2> QED
    BY <1>2, <1>s, <2>1, <2>2 DEF AskEnd
<1>3. ASSUME NEW w \in Workers, Miss(w) \/ Crash(w) PROVE Goal
  <2>1. /\ worker'[w].pc = "idle" /\ UNCHANGED <<doc, done>>
        /\ \A u \in Workers : u # w => worker'[u] = worker[u]
    BY <1>3, <1>w DEF Miss, Crash, Fails, Idle
  <2> HIDE DEF Goal
  <2> QED
    BY <1>s, <2>1
<1>4. ASSUME NEW w \in Workers, Apply(w) \/ ApplyLost(w) PROVE Goal
  BY <1>4, CallStep DEF Apply, ApplyLost
<1>5. ASSUME NEW w \in Workers, Read(w) \/ Write(w) PROVE Goal
  BY <1>5 DEF Read, Write, IInv, OwnTokens
<1>6. ASSUME Tick PROVE Goal
  <2>1. ASSUME NEW w \in Workers
        PROVE /\ worker'[w].pc = worker[w].pc /\ worker'[w].tok = worker[w].tok
              /\ worker'[w].rec = worker[w].rec
              /\ worker[w].pc = "work" => worker'[w].left = Less(worker[w].left)
    BY <1>6, <1>w DEF Tick, Aged, WorkerStates
  <2>2. ASSUME NEW r \in Records
        PROVE /\ doc'[r].there = doc[r].there /\ doc'[r].tok = doc[r].tok
              /\ doc[r].tok # NoToken => doc'[r].left = Less(doc[r].left)
    BY <1>6, <1>w DEF Tick, Older, Docs
  <2>3. OwnTokens'
    BY <2>1 DEF IInv, OwnTokens
  <2>4. ASSUME NEW u \in Workers PROVE Held(u)'
    <3> SUFFICES ASSUME worker'[u].pc = "work", worker'[u].left >= Skew PROVE Held(u)'
      BY DEF Held
    <3>1. worker[u].left \in Int /\ worker[u].rec \in Records
      BY <1>w DEF WorkerStates
    <3>2. worker[u].pc = "work" /\ worker[u].left >= Skew
      BY <2>1, <3>1 DEF Less
    <3>3. /\ doc[worker[u].rec].there /\ doc[worker[u].rec].tok = worker[u].tok
          /\ doc[worker[u].rec].left = worker[u].left
      BY <3>2 DEF IInv, Held
    <3>4. worker[u].tok # NoToken
      BY <3>2 DEF IInv, OwnTokens
    <3> QED
      BY <2>1, <2>2, <3>1, <3>2, <3>3, <3>4 DEF Held
  <2>5. DeletedForGood'
    BY <1>6, <2>2 DEF IInv, DeletedForGood, Tick
  <2> QED
    BY <2>3, <2>4, <2>5
<1>7. CASE UNCHANGED vars
  BY <1>7 DEF vars, IInv, OwnTokens, Held, DeletedForGood
<1> QED
  BY <1>1, <1>2, <1>3, <1>4, <1>5, <1>6, <1>7 DEF Next

(* TypeOK: in every reachable state each part of the state is of its type. *)
THEOREM Typing == Spec => []TypeOK
<1>1. Init => TypeOK
  BY InitInv DEF IInv, TypeOK
<1>2. TypeOK /\ [Next]_vars => TypeOK'
  BY TypeStep, PairStep DEF TypeOK
<1> QED
  BY <1>1, <1>2, PTL DEF Spec

(* The invariant holds when the database's find-and-change calls are       *)
(* atomic.                                                                 *)
THEOREM Invariance == Native => (Spec => []IInv)
<1> SUFFICES ASSUME Native PROVE Spec => []IInv
  OBVIOUS
<1>1. IInv /\ [Next]_vars => IInv'
  BY TypeStep, PairStep, HeldStep DEF IInv
<1> QED
  BY InitInv, <1>1, PTL DEF Spec

(* Exclusive: with atomic calls, no two workers rely on a claim of one     *)
(* record at the same time.                                                *)
THEOREM Exclusion == Native => (Spec => []Exclusive)
<1> SUFFICES ASSUME Native PROVE Spec => []Exclusive
  OBVIOUS
<1>1. IInv => Exclusive
  <2> SUFFICES ASSUME IInv, NEW w \in Workers, NEW u \in Workers,
                      Trusts(w), Trusts(u), worker[w].rec = worker[u].rec
               PROVE w = u
    BY DEF Exclusive
  <2>1. \A v \in Workers : Trusts(v) => worker[v].pc = "work" /\ worker[v].left >= Skew
    BY DEF Trusts, IInv, Types, WorkerStates
  <2>2. worker[w].tok = worker[u].tok
    BY <2>1 DEF IInv, Held
  <2>3. worker[w].tok \in {w} \X Nat /\ worker[u].tok \in {u} \X Nat
    BY <2>1 DEF IInv, OwnTokens
  <2> QED
    BY <2>2, <2>3
<1> QED
  BY <1>1, Invariance, PTL

(* DeletedForGood: with atomic calls, a record reported deleted stays so.  *)
THEOREM Deletion == Native => (Spec => []DeletedForGood)
<1> SUFFICES ASSUME Native PROVE Spec => []DeletedForGood
  OBVIOUS
<1>1. IInv => DeletedForGood
  BY DEF IInv
<1> QED
  BY <1>1, Invariance, PTL
-----------------------------------------------------------------------------
=============================================================================
