----------------------------- MODULE LayeredCache ----------------------------
(***************************************************************************)
(* The entity cache in two layers (cache/layered.py): a memory cache in    *)
(* each process (memory.py) before a Redis that they share (redis.py).     *)
(* A call awaits Redis between its steps; what Redis raises is swallowed   *)
(* by get, set and delete.  One tag stands for the tags.                   *)
(***************************************************************************)
EXTENDS Naturals, Sequences, FiniteSets, TLC, TLAPS

CONSTANTS Keys, Tasks, Procs, Home,  \* the process of each task
          Ttls,           \* the ttls that calls of set have; 0 is None
          L2Ttl,          \* default_ttl of RedisCache
          L1Size,         \* max_size of MemoryCache
          MaxSets,        \* bound: values set
          MaxTime,        \* bound: the clock
          Prompt,         \* whether a call ends within a unit of the clock
          Faults          \* what Redis may raise in

Assumptions ==
    /\ Home \in [Tasks -> Procs] /\ Ttls \subseteq Nat /\ L2Ttl \in Nat \ {0}
    /\ L1Size \in Nat \ {0} /\ MaxSets \in Nat /\ MaxTime \in Nat
    /\ Prompt \in BOOLEAN /\ Faults \subseteq {"get", "setex", "unlink", "tags"}

VARIABLES l1, l2,         \* the entries of each process, and the shared ones
          tagged, tagTill, \* the keys in the set of the tag, and when it expires
          now,
          sets,           \* the calls of set so far; a value is its place here
          call,           \* the call of each task
          done,           \* the values whose set returned
          dead,           \* those deleted, replaced or invalidated by a call that returned
          served          \* what get returned last: "dead", "late" or "ok"

shared == <<l2, tagged, tagTill>>
ghosts == <<done, dead>>
vars == <<l1, shared, now, sets, call, ghosts, served>>

Never == MaxTime + 1
Forever == MaxTime + L2Ttl + 1
Kept(map, k) == k \in DOMAIN map /\ now <= map[k].till   \* memory
Alive(map, k) == k \in DOMAIN map /\ now < map[k].till   \* Redis
Put(map, k, value, till) ==
    [x \in DOMAIN map \cup {k} |-> IF x = k THEN [value |-> value, till |-> till] ELSE map[x]]
Drop(map, ks) == [k \in DOMAIN map \ ks |-> map[k]]
Idle == [op |-> "none"]

TypeOK ==
    /\ \A p \in Procs : /\ DOMAIN l1[p] \subseteq Keys /\ Cardinality(DOMAIN l1[p]) <= L1Size
                        /\ \A k \in DOMAIN l1[p] : l1[p][k].value \in DOMAIN sets
    /\ DOMAIN l2 \subseteq Keys /\ \A k \in DOMAIN l2 : l2[k].value \in DOMAIN sets
    /\ tagged \subseteq Keys /\ now \in 0..MaxTime /\ Len(sets) <= MaxSets
    /\ done \cup dead \subseteq DOMAIN sets
    /\ served \in {"ok", "dead", "late"}

Init ==
    /\ l1 = [p \in Procs |-> << >>] /\ l2 = << >> /\ tagged = {} /\ tagTill = 0 /\ now = 0
    /\ sets = << >> /\ call = [t \in Tasks |-> Idle]
    /\ done = {} /\ dead = {} /\ served = "ok"

Tick ==
    /\ now < MaxTime /\ now' = now + 1
    /\ Prompt => \A t \in Tasks : call[t] = Idle
    /\ UNCHANGED <<l1, shared, sets, call, ghosts, served>>

(* MemoryCache.set: a new key takes the place of an entry when all are     *)
(* taken (the least recently used: with L1Size = 1, the only one).         *)
Leaving(map, k) ==
    IF k \notin DOMAIN map /\ Cardinality(DOMAIN map) >= L1Size THEN DOMAIN map ELSE {k}
StoreL1(p, k, value, till) ==
    \E out \in Leaving(l1[p], k) :
        l1' = [l1 EXCEPT ![p] = Put(Drop(@, {out}), k, value, till)]

Does(t, op) == call[t].op = op
Goes(t, c) == call' = [call EXCEPT ![t] = c]
Victims(k) == {v \in done : sets[v].key = k}
Return(t, values) ==
    /\ Goes(t, Idle)
    /\ done' = done \cup values /\ dead' = dead \cup call[t].victims

(* get: memory, then Redis, whose hit is promoted without a ttl.           *)
Judged(value, died) ==
    IF value \in died THEN "dead" ELSE IF now > sets[value].till THEN "late" ELSE "ok"

Get(t, k) ==
    /\ Does(t, "none")
    /\ IF Kept(l1[Home[t]], k)
       THEN served' = Judged(l1[Home[t]][k].value, dead) /\ UNCHANGED <<l1, call>>
       ELSE /\ l1' = [l1 EXCEPT ![Home[t]] = Drop(@, {k})]
            /\ Goes(t, [op |-> "get", key |-> k, died |-> dead])
            /\ UNCHANGED served
    /\ UNCHANGED <<shared, now, sets, ghosts>>

GetL2(t) ==
    /\ Does(t, "get")
    /\ IF Alive(l2, call[t].key)
       THEN \/ Goes(t, [op |-> "promote", key |-> call[t].key, died |-> call[t].died,
                        value |-> l2[call[t].key].value])
            \/ "get" \in Faults /\ Goes(t, Idle)
       ELSE Goes(t, Idle)
    /\ UNCHANGED <<l1, shared, now, sets, ghosts, served>>

Promote(t) ==
    /\ Does(t, "promote")
    /\ StoreL1(Home[t], call[t].key, call[t].value, Never)
    /\ served' = Judged(call[t].value, call[t].died)
    /\ Goes(t, Idle)
    /\ UNCHANGED <<shared, now, sets, ghosts>>

(* set and set_with_tags: memory first. *)
Set(t, k, ttl, tag) ==
    /\ Does(t, "none") /\ Len(sets) < MaxSets
    /\ LET till == IF ttl = 0 THEN Never ELSE now + ttl IN
       /\ StoreL1(Home[t], k, Len(sets) + 1, till)
       /\ sets' = Append(sets, [key |-> k, till |-> till, tag |-> tag])
    /\ Goes(t, [op |-> "setex", key |-> k, value |-> Len(sets) + 1, tag |-> tag,
                ttl |-> IF ttl = 0 THEN L2Ttl ELSE ttl, victims |-> Victims(k)])
    /\ UNCHANGED <<shared, now, ghosts, served>>

WrittenOnce(value, till, k) ==                \* mutant of Written: not over a value (NX)
    IF Alive(l2, k) THEN l2 ELSE Put(l2, k, value, till)
Written(value, till, k) == Put(l2, k, value, till)
SetEx(t) ==
    /\ Does(t, "setex")
    /\ \/ /\ l2' = Written(call[t].value, now + call[t].ttl, call[t].key)
          /\ IF call[t].tag THEN Goes(t, [call[t] EXCEPT !.op = "sadd"]) /\ UNCHANGED ghosts
             ELSE Return(t, {call[t].value})
       \/ "setex" \in Faults /\ ~call[t].tag /\ Return(t, {call[t].value}) /\ UNCHANGED l2
    /\ UNCHANGED <<l1, tagged, tagTill, now, sets, served>>

SAdd(t) ==
    /\ Does(t, "sadd")
    /\ IF now < tagTill THEN tagged' = tagged \cup {call[t].key} /\ UNCHANGED tagTill
       ELSE tagged' = {call[t].key} /\ tagTill' = Forever
    /\ Goes(t, [call[t] EXCEPT !.op = "expire"])
    /\ UNCHANGED <<l1, l2, now, sets, ghosts, served>>

Expire(t) ==
    /\ Does(t, "expire")
    /\ tagTill' = IF now < tagTill THEN now + call[t].ttl ELSE tagTill
    /\ Return(t, {call[t].value})
    /\ UNCHANGED <<l1, l2, tagged, now, sets, served>>

Forget(t) == l1' = [l1 EXCEPT ![Home[t]] = << >>]

Delete(t, k) ==
    /\ Does(t, "none")
    /\ l1' = [l1 EXCEPT ![Home[t]] = Drop(@, {k})]
    /\ Goes(t, [op |-> "unlink", keys |-> {k}, end |-> TRUE, all |-> FALSE,
                victims |-> Victims(k)])
    /\ UNCHANGED <<shared, now, sets, ghosts, served>>

(* invalidate_pattern and clear; what takes every key takes the tag's set. *)
InvalidatePattern(t, ks) ==
    /\ Does(t, "none") /\ ks # {}
    /\ Forget(t)
    /\ Goes(t, [op |-> "unlink", keys |-> ks, end |-> TRUE, all |-> ks = Keys,
                victims |-> UNION {Victims(k) : k \in ks}])
    /\ UNCHANGED <<shared, now, sets, ghosts, served>>

InvalidateTags(t) ==
    /\ Does(t, "none")
    /\ Forget(t)
    /\ Goes(t, [op |-> "smembers", victims |-> {v \in done : sets[v].tag}])
    /\ UNCHANGED <<shared, now, sets, ghosts, served>>

SMembers(t) ==
    /\ Does(t, "smembers")
    /\ IF now < tagTill /\ tagged # {}
       THEN /\ Goes(t, [op |-> "unlink", keys |-> tagged, end |-> FALSE,
                        victims |-> call[t].victims])
            /\ UNCHANGED ghosts
       ELSE Return(t, {})
    /\ UNCHANGED <<l1, shared, now, sets, served>>

Unlink(t) ==
    /\ Does(t, "unlink")
    /\ IF ~call[t].end
       THEN /\ l2' = Drop(l2, call[t].keys) /\ UNCHANGED <<tagged, tagTill, ghosts>>
            /\ Goes(t, [op |-> "untag", victims |-> call[t].victims])
       ELSE /\ Return(t, {})
            /\ \/ /\ l2' = Drop(l2, call[t].keys)
                  /\ IF call[t].all THEN tagged' = {} /\ tagTill' = 0
                     ELSE UNCHANGED <<tagged, tagTill>>
               \/ "unlink" \in Faults /\ UNCHANGED shared
    /\ UNCHANGED <<l1, now, sets, served>>

Untag(t) ==
    /\ Does(t, "untag")
    /\ tagged' = {} /\ tagTill' = 0
    /\ Return(t, {})
    /\ UNCHANGED <<l1, l2, now, sets, served>>

(* Redis raises in set_with_tags or invalidate_by_tags: so does the call.  *)
RaiseSwallowed(t) ==                          \* mutant of Raise: returns as if it were done
    /\ "tags" \in Faults /\ call[t].op \in {"smembers", "untag"} /\ Return(t, {})
    /\ UNCHANGED <<l1, shared, now, sets, served>>
Raise(t) ==
    /\ "tags" \in Faults
    /\ \/ call[t].op \in {"sadd", "expire", "smembers", "untag"}
       \/ Does(t, "setex") /\ call[t].tag
       \/ Does(t, "unlink") /\ ~call[t].end
    /\ Goes(t, Idle)
    /\ UNCHANGED <<l1, shared, now, sets, ghosts, served>>

Next ==
    \/ Tick
    \/ \E t \in Tasks :
          \/ \E k \in Keys : \/ Get(t, k) \/ Delete(t, k)
                             \/ \E ttl \in Ttls, tag \in BOOLEAN : Set(t, k, ttl, tag)
          \/ \E ks \in SUBSET Keys : InvalidatePattern(t, ks)
          \/ GetL2(t) \/ Promote(t) \/ SetEx(t) \/ SAdd(t) \/ Expire(t) \/ Raise(t)
          \/ InvalidateTags(t) \/ SMembers(t) \/ Unlink(t) \/ Untag(t)
Spec == Init /\ [][Next]_vars

(***************************************************************************)
(* Properties.                                                             *)
(***************************************************************************)
(* No get returns a value that was deleted ("from both cache layers"),     *)
(* replaced or invalidated before the get began.                           *)
NotDead == served # "dead"

(* No get returns a value after its ttl. *)
NotLate == served # "late"

(* When no call is under way, both layers have the same value for a key.   *)
LayersAgree ==
    (\A t \in Tasks : Does(t, "none")) =>
        \A p \in Procs : \A k \in DOMAIN l1[p] \cap DOMAIN l2 :
            Kept(l1[p], k) /\ Alive(l2, k) => l1[p][k].value = l2[k].value
-----------------------------------------------------------------------------
(***************************************************************************)
(* Proofs, for every set of keys and processes, sizes and bounds: of one   *)
(* caller that gives the same ttl to all it sets and ends a call within a  *)
(* unit of the clock, Redis raising only where the caller is told or the   *)
(* call reads.  Values that the tag was given to are tracked as long as    *)
(* they live: the tag expires with the last of them.                       *)
(***************************************************************************)
Lasting == {IF ttl = 0 THEN L2Ttl ELSE ttl : ttl \in Ttls}

OneCaller ==
    /\ Prompt /\ \A x, y \in Tasks : x = y
    /\ \A x, y \in Lasting : x = y
    /\ Faults \subseteq {"get", "tags"}

Entries(map) ==
    /\ DOMAIN map \subseteq Keys
    /\ \A k \in DOMAIN map : /\ map[k].value \in DOMAIN sets /\ map[k].till \in Nat
                            /\ sets[map[k].value].key = k

Typed ==
    /\ DOMAIN l1 = Procs /\ DOMAIN call = Tasks
    /\ sets \in Seq([key : Keys, till : Nat, tag : BOOLEAN])
    /\ now \in 0..MaxTime /\ tagTill \in Nat
    /\ done \subseteq DOMAIN sets /\ dead \subseteq done

(* Neither layer has a dead value that is alive, and memory is its task's. *)
Buried ==
    /\ \A p \in Procs : Entries(l1[p]) /\ \A k \in DOMAIN l1[p] : l1[p][k].value \notin dead
    /\ \A p \in Procs : DOMAIN l1[p] # {} => \E t \in Tasks : p = Home[t]
    /\ Entries(l2) /\ \A k \in DOMAIN l2 : Alive(l2, k) => l2[k].value \notin dead
    /\ served # "dead"

(* The tag has the keys of its values, and outlives them.                  *)
Tracked ==
    \A k \in DOMAIN l2 :
       /\ \A d \in Lasting : l2[k].till <= now + d
       /\ Alive(l2, k) /\ l2[k].value \in done /\ sets[l2[k].value].tag
             => k \in tagged /\ l2[k].till <= tagTill

(* What each call has still to do, and what it has done.                   *)
Reads(t) ==
    /\ call[t].op \in {"get", "promote"} => call[t].key \in Keys /\ call[t].died = dead
    /\ Does(t, "promote") => /\ call[t].value \notin dead /\ call[t].key \in DOMAIN l2
                             /\ l2[call[t].key].value = call[t].value

Writes(t) ==
    /\ call[t].op \in {"setex", "sadd", "expire"} =>
          /\ call[t] \in [op : {"setex", "sadd", "expire"}, key : Keys, value : DOMAIN sets \ done,
                          tag : BOOLEAN, ttl : Lasting, victims : SUBSET done]
          /\ sets[call[t].value].key = call[t].key /\ sets[call[t].value].tag = call[t].tag
          /\ \A v \in call[t].victims : sets[v].key = call[t].key
          /\ call[t].key \in DOMAIN l1[Home[t]] /\ l1[Home[t]][call[t].key].value = call[t].value
    /\ call[t].op \in {"sadd", "expire"} =>
          call[t].key \in DOMAIN l2 /\ l2[call[t].key].value = call[t].value
    /\ Does(t, "expire") => call[t].key \in tagged /\ now < tagTill

Removes(t) ==
    /\ Does(t, "unlink") /\ call[t].end =>
          /\ \A v \in call[t].victims : v \in done /\ sets[v].key \in call[t].keys
          /\ DOMAIN l1[Home[t]] \cap call[t].keys = {} /\ (call[t].all => call[t].keys = Keys)
    /\ call[t].op \in {"smembers", "untag"} \/ (Does(t, "unlink") /\ ~call[t].end) =>
          DOMAIN l1[Home[t]] = {} /\ call[t].victims = {v \in done : sets[v].tag}
    /\ Does(t, "unlink") /\ ~call[t].end =>
          \A k \in DOMAIN l2 : Alive(l2, k) /\ l2[k].value \in call[t].victims => k \in call[t].keys
    /\ Does(t, "untag") =>
          \A k \in DOMAIN l2 : Alive(l2, k) => l2[k].value \notin call[t].victims

Agree ==
    Faults \subseteq {"get"} =>
       \A t \in Tasks : \A k \in DOMAIN l1[Home[t]] \cap DOMAIN l2 :
          Alive(l2, k) /\ ~(Does(t, "setex") /\ call[t].key = k)
             => l1[Home[t]][k].value = l2[k].value

LayerInv ==
    /\ Typed /\ Buried /\ Tracked /\ Agree
    /\ \A t \in Tasks : Reads(t) /\ Writes(t) /\ Removes(t)
-----------------------------------------------------------------------------
USE DEF Does

\* What an entry stored leaves of the others, and what is left of a map.
LEMMA DropKeeps ==
    ASSUME NEW map, NEW ks
    PROVE  /\ DOMAIN Drop(map, ks) = DOMAIN map \ ks
           /\ \A x \in DOMAIN map \ ks : Drop(map, ks)[x] = map[x]
  BY DEF Drop

LEMMA StoreKeeps ==
    ASSUME NEW p \in Procs, NEW k, NEW value, NEW till, DOMAIN l1 = Procs, StoreL1(p, k, value, till)
    PROVE  /\ DOMAIN l1' = Procs /\ \A q \in Procs \ {p} : l1'[q] = l1[q]
           /\ k \in DOMAIN l1'[p] /\ l1'[p][k] = [value |-> value, till |-> till]
           /\ \A x \in DOMAIN l1'[p] \ {k} : x \in DOMAIN l1[p] /\ l1'[p][x] = l1[p][x]
<1>1. PICK out : l1' = [l1 EXCEPT ![p] = Put(Drop(@, {out}), k, value, till)]
  BY DEF StoreL1
<1> DEFINE left == Drop(l1[p], {out})
<1>2. l1'[p] = Put(left, k, value, till) /\ DOMAIN l1' = Procs /\ \A q \in Procs \ {p} : l1'[q] = l1[q]
  BY <1>1
<1>3. DOMAIN left \subseteq DOMAIN l1[p] /\ \A x \in DOMAIN left : left[x] = l1[p][x]
  <2>1. /\ DOMAIN left = DOMAIN l1[p] \ {out}
        /\ \A x \in DOMAIN l1[p] \ {out} : left[x] = l1[p][x]
    BY DropKeeps
  <2> HIDE DEF left
  <2>2. QED
    BY <2>1
<1> HIDE DEF left
<1>4. /\ DOMAIN Put(left, k, value, till) = DOMAIN left \cup {k}
      /\ Put(left, k, value, till)[k] = [value |-> value, till |-> till]
      /\ \A x \in DOMAIN left \ {k} : Put(left, k, value, till)[x] = left[x]
  BY DEF Put
<1>5. QED
  BY <1>2, <1>3, <1>4

\* The call of a task goes on.
LEMMA Going ==
    ASSUME NEW t \in Tasks, DOMAIN call = Tasks, NEW c, Goes(t, c)
    PROVE  call'[t] = c /\ DOMAIN call' = Tasks
  BY DEF Goes

LEMMA LayerInit == Init /\ Assumptions => LayerInv
<1> SUFFICES ASSUME Init, Assumptions PROVE LayerInv
  OBVIOUS
<1>1. DOMAIN << >> = {}
  OBVIOUS
<1>2. /\ DOMAIN l1 = Procs /\ DOMAIN call = Tasks /\ sets = << >> /\ done = {} /\ dead = {}
      /\ tagTill = 0 /\ now = 0 /\ MaxTime \in Nat /\ served = "ok" /\ l2 = << >>
      /\ \A p \in Procs : l1[p] = << >>
      /\ \A t \in Tasks : call[t].op = "none" /\ Home[t] \in Procs
  BY DEF Init, Idle, Assumptions
<1>3. Typed
  BY <1>2 DEF Typed
<1>4. Buried
  BY <1>1, <1>2 DEF Buried, Entries
<1>5. Tracked /\ Agree
  BY <1>1, <1>2 DEF Tracked, Agree
<1>6. \A t \in Tasks : Reads(t) /\ Writes(t) /\ Removes(t)
  BY <1>2 DEF Reads, Writes, Removes
<1>7. QED
  BY <1>3, <1>4, <1>5, <1>6 DEF LayerInv

LEMMA TickStep ==
    ASSUME Assumptions, OneCaller, LayerInv, Tick PROVE LayerInv'
<1>1. /\ Typed /\ Buried /\ Tracked /\ Agree
      /\ UNCHANGED <<l1, l2, tagged, tagTill, sets, call, done, dead, served>>
      /\ now \in Nat /\ now' = now + 1 /\ now' \in 0..MaxTime /\ \A t \in Tasks : call[t].op = "none"
  BY DEF LayerInv, Tick, OneCaller, Idle, shared, ghosts, Typed, Assumptions
<1>2. \A k \in DOMAIN l2 : l2[k].till \in Nat /\ (now' < l2[k].till => now < l2[k].till)
  BY <1>1 DEF Buried, Entries
<1>3. Typed'
  BY <1>1 DEF Typed
<1>4. Buried'
  BY <1>1, <1>2 DEF Buried, Entries, Alive
<1>5. Tracked'
  <2>1. \A d \in Lasting : d \in Nat
    BY DEF Lasting, Assumptions
  <2>2. \A k \in DOMAIN l2, d \in Lasting : l2[k].till <= now' + d
    BY <1>1, <1>2, <2>1 DEF Tracked
  <2>3. QED
    BY <1>1, <1>2, <2>2 DEF Tracked, Alive
<1>6. Agree'
  BY <1>1, <1>2 DEF Agree, Alive
<1>7. \A t \in Tasks : Reads(t)' /\ Writes(t)' /\ Removes(t)'
  BY <1>1 DEF Reads, Writes, Removes
<1>8. QED
  BY <1>3, <1>4, <1>5, <1>6, <1>7 DEF LayerInv

LEMMA GetStep ==
    ASSUME Assumptions, OneCaller, LayerInv, NEW t \in Tasks, NEW k \in Keys, Get(t, k)
    PROVE  LayerInv'
<1> DEFINE h == Home[t]
           own == l1[h]
<1>1. /\ Typed /\ Buried /\ Tracked /\ Agree /\ Writes(t) /\ call[t].op = "none" /\ h \in Procs
      /\ UNCHANGED <<l2, tagged, tagTill, now, sets, done, dead>> /\ \A u \in Tasks : u = t
  BY DEF LayerInv, Get, OneCaller, shared, ghosts, Assumptions
<1>2. CASE Kept(own, k)
  <2>1. k \in DOMAIN own /\ served' = Judged(own[k].value, dead) /\ UNCHANGED <<l1, call>>
    BY <1>2 DEF Get, Kept
  <2>2. own[k].value \notin dead
    BY <1>1, <2>1 DEF Buried
  <2>3. served' # "dead"
    BY <2>1, <2>2 DEF Judged
  <2>4. Buried' /\ Typed'
    BY <1>1, <2>1, <2>3 DEF Buried, Typed, Entries, Alive
  <2>5. Tracked' /\ Agree'
    BY <1>1, <2>1 DEF Tracked, Agree, Alive
  <2>6. \A u \in Tasks : Reads(u)' /\ Writes(u)' /\ Removes(u)'
    BY <1>1, <2>1 DEF Reads, Writes, Removes
  <2>7. QED
    BY <2>4, <2>5, <2>6 DEF LayerInv
<1>3. CASE ~Kept(own, k)
  <2>1. /\ l1' = [l1 EXCEPT ![h] = Drop(@, {k})] /\ UNCHANGED served
        /\ Goes(t, [op |-> "get", key |-> k, died |-> dead])
    BY <1>3 DEF Get
  <2>2. call'[t] = [op |-> "get", key |-> k, died |-> dead] /\ DOMAIN call' = Tasks
    BY <1>1, <2>1, Going DEF Typed
  <2>3. l1'[h] = Drop(own, {k}) /\ DOMAIN l1' = Procs /\ \A p \in Procs \ {h} : l1'[p] = l1[p]
    BY <1>1, <2>1 DEF Typed
  <2>4. \A x \in DOMAIN l1'[h] : x \in DOMAIN own /\ l1'[h][x] = own[x]
    BY <2>3 DEF Drop
  <2>5. Typed'
    BY <1>1, <2>2, <2>3 DEF Typed
  <2>6. Buried'
    <3>1. \A p \in Procs : \A x \in DOMAIN l1'[p] : x \in DOMAIN l1[p] /\ l1'[p][x] = l1[p][x]
      BY <2>3, <2>4
    <3>2. \A p \in Procs : /\ Entries(l1[p])' /\ \A x \in DOMAIN l1'[p] : l1'[p][x].value \notin dead
                           /\ DOMAIN l1'[p] # {} => \E u \in Tasks : p = Home[u]
      BY <1>1, <3>1 DEF Buried, Entries
    <3>3. Entries(l2)' /\ \A x \in DOMAIN l2 : Alive(l2, x)' => l2[x].value \notin dead
      BY <1>1 DEF Buried, Entries, Alive
    <3>4. served' # "dead" /\ l2' = l2 /\ dead' = dead
      BY <1>1, <2>1 DEF Buried
    <3>5. QED
      BY <3>2, <3>3, <3>4 DEF Buried
  <2>7. Tracked'
    BY <1>1 DEF Tracked, Alive
  <2>8. Agree'
    BY <1>1, <2>2, <2>4 DEF Agree, Alive
  <2>9. \A u \in Tasks : Reads(u)' /\ Writes(u)' /\ Removes(u)'
    BY <1>1, <2>2 DEF Reads, Writes, Removes
  <2>10. QED
    BY <2>5, <2>6, <2>7, <2>8, <2>9 DEF LayerInv
<1>4. QED
  BY <1>2, <1>3

LEMMA GetL2Step ==
    ASSUME Assumptions, OneCaller, LayerInv, NEW t \in Tasks, GetL2(t)
    PROVE  LayerInv'
<1>1. /\ Typed /\ Buried /\ Tracked /\ Agree /\ Reads(t) /\ call[t].op = "get"
      /\ UNCHANGED <<l1, l2, tagged, tagTill, now, sets, done, dead, served>> /\ \A u \in Tasks : u = t
  BY DEF LayerInv, GetL2, OneCaller, shared, ghosts, Assumptions
<1>2. \E c : Goes(t, c) /\ (c = Idle \/ (Alive(l2, call[t].key) /\
         c = [op |-> "promote", key |-> call[t].key, died |-> call[t].died, value |-> l2[call[t].key].value]))
  BY DEF GetL2
<1>3. PICK c : Goes(t, c) /\ (c = Idle \/ (Alive(l2, call[t].key) /\
         c = [op |-> "promote", key |-> call[t].key, died |-> call[t].died, value |-> l2[call[t].key].value]))
  BY <1>2
<1>4. call'[t] = c /\ DOMAIN call' = Tasks /\ c.op \in {"none", "promote"}
  BY <1>1, <1>3, Going DEF Typed, Idle
<1>5. Typed' /\ Buried' /\ Tracked'
  BY <1>1, <1>4 DEF Typed, Buried, Tracked, Entries, Alive
<1>6. Agree'
  BY <1>1, <1>4 DEF Agree, Alive
<1>7. Reads(t)'
  <2>1. CASE c = Idle
    BY <1>4, <2>1 DEF Reads, Idle
  <2>2. CASE /\ Alive(l2, call[t].key)
             /\ c = [op |-> "promote", key |-> call[t].key, died |-> call[t].died, value |-> l2[call[t].key].value]
    <3>1. call[t].key \in DOMAIN l2 /\ l2[call[t].key].value \notin dead
      BY <1>1, <2>2 DEF Buried, Alive
    <3>2. c.key = call[t].key /\ c.died = call[t].died /\ c.value = l2[call[t].key].value
      BY <2>2
    <3>3. QED
      BY <1>1, <1>4, <3>1, <3>2 DEF Reads
  <2>3. QED
    BY <1>3, <2>1, <2>2
<1>8. Writes(t)' /\ Removes(t)'
  BY <1>4 DEF Writes, Removes
<1>9. QED
  BY <1>1, <1>5, <1>6, <1>7, <1>8 DEF LayerInv

LEMMA PromoteStep ==
    ASSUME Assumptions, OneCaller, LayerInv, NEW t \in Tasks, Promote(t)
    PROVE  LayerInv'
<1> DEFINE h == Home[t]
           k == call[t].key
           value == call[t].value
<1>1. /\ Typed /\ Buried /\ Tracked /\ Agree /\ Reads(t) /\ call[t].op = "promote" /\ h \in Procs
      /\ UNCHANGED <<l2, tagged, tagTill, now, sets, done, dead>> /\ \A u \in Tasks : u = t
      /\ StoreL1(h, k, value, Never) /\ served' = Judged(value, call[t].died) /\ Goes(t, Idle)
      /\ Never \in Nat
  BY DEF LayerInv, Promote, OneCaller, shared, ghosts, Assumptions, Never
<1>2. /\ k \in Keys /\ value \notin dead /\ k \in DOMAIN l2 /\ l2[k].value = value
      /\ call[t].died = dead
  BY <1>1 DEF Reads
<1>3. value \in DOMAIN sets /\ sets[value].key = k
  BY <1>1, <1>2 DEF Buried, Entries
<1>4. call'[t].op = "none" /\ DOMAIN call' = Tasks
  BY <1>1, Going DEF Typed, Idle
<1>5. /\ DOMAIN l1' = Procs /\ \A q \in Procs \ {h} : l1'[q] = l1[q]
      /\ k \in DOMAIN l1'[h] /\ l1'[h][k] = [value |-> value, till |-> Never]
      /\ \A x \in DOMAIN l1'[h] \ {k} : x \in DOMAIN l1[h] /\ l1'[h][x] = l1[h][x]
  BY <1>1, StoreKeeps DEF Typed
<1>6. l1'[h][k].value = value /\ l1'[h][k].till = Never
  BY <1>5
<1> HIDE DEF h, k, value
<1>7. served' # "dead"
  BY <1>1, <1>2 DEF Judged
<1>8. Typed'
  BY <1>1, <1>4, <1>5 DEF Typed
<1>9. Buried'
  <2>1. ASSUME NEW p \in Procs
        PROVE  /\ Entries(l1[p])' /\ \A x \in DOMAIN l1'[p] : l1'[p][x].value \notin dead
               /\ DOMAIN l1'[p] # {} => \E u \in Tasks : p = Home[u]
    <3>1. CASE p = h
      BY <1>1, <1>2, <1>3, <1>5, <1>6, <3>1 DEF Buried, Entries, h
    <3>2. CASE p # h
      BY <1>1, <1>5, <3>2 DEF Buried, Entries
    <3>3. QED
      BY <3>1, <3>2
  <2>2. Entries(l2)' /\ \A x \in DOMAIN l2 : Alive(l2, x)' => l2[x].value \notin dead
    BY <1>1 DEF Buried, Entries, Alive
  <2>3. QED
    BY <1>1, <1>7, <2>1, <2>2 DEF Buried
<1>10. Tracked'
  BY <1>1 DEF Tracked, Alive
<1>11. Agree'
  BY <1>1, <1>2, <1>5, <1>6 DEF Agree, Alive, h
<1>12. Reads(t)' /\ Writes(t)' /\ Removes(t)'
  BY <1>4 DEF Reads, Writes, Removes
<1>13. QED
  BY <1>1, <1>8, <1>9, <1>10, <1>11, <1>12 DEF LayerInv

LEMMA SetStep ==
    ASSUME Assumptions, OneCaller, LayerInv, NEW t \in Tasks, NEW k \in Keys,
           NEW ttl \in Ttls, NEW tag \in BOOLEAN, Set(t, k, ttl, tag)
    PROVE  LayerInv'
<1> DEFINE h == Home[t]
           till == IF ttl = 0 THEN Never ELSE now + ttl
           lasts == IF ttl = 0 THEN L2Ttl ELSE ttl
           new == Len(sets) + 1
           entry == [key |-> k, till |-> till, tag |-> tag]
           c == [op |-> "setex", key |-> k, value |-> new, tag |-> tag, ttl |-> lasts, victims |-> Victims(k)]
<1>1. /\ Typed /\ Buried /\ Tracked /\ Agree /\ call[t].op = "none" /\ h \in Procs
      /\ UNCHANGED <<l2, tagged, tagTill, now, done, dead, served>> /\ \A u \in Tasks : u = t
      /\ StoreL1(h, k, new, till) /\ sets' = Append(sets, entry) /\ Goes(t, c)
  BY DEF LayerInv, Set, OneCaller, shared, ghosts, Assumptions
<1>2. till \in Nat /\ lasts \in Lasting
  BY <1>1 DEF Never, Lasting, Assumptions, Typed
<1>3. call'[t] = c /\ DOMAIN call' = Tasks
  BY <1>1, Going DEF Typed
<1>4. /\ DOMAIN l1' = Procs /\ \A q \in Procs \ {h} : l1'[q] = l1[q]
      /\ k \in DOMAIN l1'[h] /\ l1'[h][k] = [value |-> new, till |-> till]
      /\ \A x \in DOMAIN l1'[h] \ {k} : x \in DOMAIN l1[h] /\ l1'[h][x] = l1[h][x]
  BY <1>1, StoreKeeps DEF Typed
<1> DEFINE Setting == [key : Keys, till : Nat, tag : BOOLEAN]
<1>5. sets \in Seq(Setting) /\ Len(sets) \in Nat /\ DOMAIN sets = 1..Len(sets) /\ entry \in Setting
  BY <1>1, <1>2 DEF Typed
<1> HIDE DEF entry, till, lasts, h, Setting
<1>6. /\ sets' \in Seq(Setting) /\ DOMAIN sets' = DOMAIN sets \cup {new} /\ sets'[new] = entry
      /\ \A v \in DOMAIN sets : sets'[v] = sets[v]
  BY <1>1, <1>5
<1>7. new \notin DOMAIN sets
  BY <1>5
<1>8. l1'[h][k].value = new /\ l1'[h][k].till = till
  BY <1>4
<1>9. c.op = "setex" /\ c.key = k /\ c.value = new /\ c.tag = tag /\ c.ttl = lasts /\ c.victims = Victims(k)
  OBVIOUS
<1>10. entry.key = k /\ entry.tag = tag
  BY DEF entry
<1>11. \A v \in Victims(k) : v \in done /\ sets[v].key = k
  BY DEF Victims
<1>12. c \in [op : {"setex", "sadd", "expire"}, key : Keys, value : DOMAIN sets' \ done,
               tag : BOOLEAN, ttl : Lasting, victims : SUBSET done]
  <2>1. new \in DOMAIN sets' \ done /\ Victims(k) \in SUBSET done
    BY <1>1, <1>6, <1>7, <1>11 DEF Typed
  <2> HIDE DEF new
  <2>2. QED
    BY <1>2, <2>1
<1> HIDE DEF new, c
<1>13. Typed'
  BY <1>1, <1>3, <1>4, <1>6 DEF Typed, Setting
<1>14. Buried'
  <2>1. ASSUME NEW p \in Procs
        PROVE  /\ Entries(l1[p])' /\ \A x \in DOMAIN l1'[p] : l1'[p][x].value \notin dead
               /\ DOMAIN l1'[p] # {} => \E u \in Tasks : p = Home[u]
    <3>1. CASE p = h
      <4>1. \A x \in DOMAIN l1'[h] \ {k} :
               /\ x \in Keys /\ l1'[h][x].value \in DOMAIN sets /\ l1'[h][x].till \in Nat
               /\ sets[l1'[h][x].value].key = x /\ l1'[h][x].value \notin dead
        BY <1>1, <1>4 DEF Buried, Entries
      <4>2. new \notin dead
        BY <1>1, <1>7 DEF Typed
      <4>3. QED
        BY <1>2, <1>4, <1>6, <1>8, <1>10, <3>1, <4>1, <4>2 DEF Entries, h
    <3>2. CASE p # h
      <4>1. /\ Entries(l1[p]) /\ \A x \in DOMAIN l1[p] : l1[p][x].value \notin dead
            /\ DOMAIN l1[p] # {} => \E u \in Tasks : p = Home[u]
        BY <1>1 DEF Buried
      <4>2. l1'[p] = l1[p]
        BY <1>4, <3>2
      <4>3. QED
        BY <1>6, <4>1, <4>2 DEF Entries
    <3>3. QED
      BY <3>1, <3>2
  <2>2. Entries(l2)' /\ \A x \in DOMAIN l2 : Alive(l2, x)' => l2[x].value \notin dead
    BY <1>1, <1>6 DEF Buried, Entries, Alive
  <2>3. QED
    BY <1>1, <2>1, <2>2 DEF Buried
<1>15. Tracked'
  <2>1. \A x \in DOMAIN l2 : l2[x].value \in DOMAIN sets
    BY <1>1 DEF Buried, Entries
  <2>2. QED
    BY <1>1, <1>6, <2>1 DEF Tracked, Alive
<1>16. Agree'
  <2>1. \A x \in DOMAIN l1'[h] \cap DOMAIN l2 :
           x # k => x \in DOMAIN l1[h] /\ l1'[h][x] = l1[h][x]
    BY <1>4
  <2>2. QED
    BY <1>1, <1>3, <1>9, <2>1 DEF Agree, Alive, h
<1>17. Reads(t)' /\ Removes(t)'
  BY <1>3, <1>9 DEF Reads, Removes
<1>18. Writes(t)'
  <2>1. \A v \in Victims(k) : sets'[v].key = k
    BY <1>1, <1>6, <1>11 DEF Typed
  <2>2. QED
    BY <1>1, <1>3, <1>4, <1>6, <1>8, <1>9, <1>10, <1>12, <2>1 DEF Writes, h
<1>19. QED
  BY <1>1, <1>13, <1>14, <1>15, <1>16, <1>17, <1>18 DEF LayerInv

LEMMA SetExStep ==
    ASSUME Assumptions, OneCaller, LayerInv, NEW t \in Tasks, SetEx(t)
    PROVE  LayerInv'
<1> DEFINE h == Home[t]
           c == call[t]
           till == now + c.ttl
<1>1. /\ Typed /\ Buried /\ Tracked /\ Agree /\ Writes(t) /\ c.op = "setex" /\ h \in Procs
      /\ UNCHANGED <<l1, tagged, tagTill, now, sets, served>> /\ \A u \in Tasks : u = t
      /\ l2' = Put(l2, c.key, c.value, till)
      /\ IF c.tag THEN Goes(t, [c EXCEPT !.op = "sadd"]) /\ UNCHANGED ghosts ELSE Return(t, {c.value})
  BY DEF LayerInv, SetEx, OneCaller, Assumptions, Written
<1>2. /\ c \in [op : {"setex", "sadd", "expire"}, key : Keys, value : DOMAIN sets \ done,
                tag : BOOLEAN, ttl : Lasting, victims : SUBSET done]
      /\ sets[c.value].key = c.key /\ sets[c.value].tag = c.tag
      /\ \A v \in c.victims : sets[v].key = c.key
      /\ c.key \in DOMAIN l1[h] /\ l1[h][c.key].value = c.value
  BY <1>1 DEF Writes
<1>3. Lasting \subseteq Nat /\ till \in Nat
  <2>1. \A d \in Lasting : d \in Nat
    BY DEF Lasting, Assumptions
  <2>2. c.ttl \in Lasting
    BY <1>2
  <2>3. now \in Nat /\ c.ttl \in Nat
    BY <1>1, <2>1, <2>2 DEF Typed, Assumptions
  <2>4. QED
    BY <2>1, <2>3
<1>4. /\ DOMAIN l2' = DOMAIN l2 \cup {c.key} /\ l2'[c.key] = [value |-> c.value, till |-> till]
      /\ \A x \in DOMAIN l2 \ {c.key} : l2'[x] = l2[x]
  BY <1>1 DEF Put
<1>5. l2'[c.key].value = c.value /\ l2'[c.key].till = till
  BY <1>4
<1>6. Entries(l2)'
  <2>1. Entries(l2) /\ c.key \in Keys /\ c.value \in DOMAIN sets /\ sets[c.value].key = c.key
    BY <1>1, <1>2 DEF Buried
  <2> HIDE DEF c, till
  <2>2. QED
    BY <1>1, <1>3, <1>4, <1>5, <2>1 DEF Entries
<1>7. \A x \in DOMAIN l2' : \A d \in Lasting : l2'[x].till <= now + d
  <2>1. \A d \in Lasting : till <= now + d
    BY <1>1, <1>2, <1>3 DEF OneCaller, Typed, Assumptions
  <2>2. QED
    BY <1>1, <1>4, <1>5, <2>1 DEF Tracked
<1>8. \A x \in DOMAIN l2' : x # c.key => x \in DOMAIN l2 /\ l2'[x] = l2[x] /\ (Alive(l2, x)' => Alive(l2, x))
  BY <1>1, <1>4 DEF Alive
<1>9. Entries(l2) /\ c.value \notin done /\ c.value \notin dead
  BY <1>1, <1>2 DEF Buried, Typed
<1>10. Agree' /\ call'[t].op # "setex"
  <2>1. call'[t].op # "setex"
    <3>1. CASE c.tag
      <4>1. call'[t] = [c EXCEPT !.op = "sadd"]
        BY <1>1, <3>1, Going DEF Typed
      <4>2. QED
        BY <1>2, <4>1
    <3>2. CASE ~c.tag
      BY <1>1, <3>2, Going DEF Return, Idle, Typed
    <3>3. QED
      BY <3>1, <3>2
  <2>2. \A x \in DOMAIN l1[h] \cap DOMAIN l2' : x # c.key /\ Alive(l2, x)' /\ Faults \subseteq {"get"} => l1[h][x].value = l2'[x].value
    BY <1>1, <1>8 DEF Agree
  <2>3. QED
    BY <1>1, <1>2, <1>5, <2>1, <2>2 DEF Agree
<1>11. CASE c.tag
  <2> DEFINE e == [c EXCEPT !.op = "sadd"]
  <2>1. call'[t] = e /\ DOMAIN call' = Tasks /\ UNCHANGED <<done, dead>>
    BY <1>1, <1>11, Going DEF Typed, ghosts
  <2>2. /\ e.op = "sadd" /\ e.key = c.key /\ e.value = c.value /\ e.tag = c.tag /\ e.ttl = c.ttl /\ e.victims = c.victims
        /\ e \in [op : {"setex", "sadd", "expire"}, key : Keys, value : DOMAIN sets \ done,
                 tag : BOOLEAN, ttl : Lasting, victims : SUBSET done]
    BY <1>2
  <2> HIDE DEF e, c
  <2>3. Typed'
    BY <1>1, <2>1 DEF Typed
  <2>4. Buried'
    <3>1. \A x \in DOMAIN l2' : Alive(l2, x)' => l2'[x].value \notin dead
      BY <1>1, <1>5, <1>8, <1>9 DEF Buried
    <3>2. \A p \in Procs : Entries(l1[p])' /\ \A x \in DOMAIN l1[p] : l1[p][x].value \notin dead
      BY <1>1 DEF Buried, Entries
    <3>3. QED
      BY <1>1, <1>6, <2>1, <3>1, <3>2 DEF Buried
  <2>5. Tracked'
    BY <1>1, <1>5, <1>7, <1>8, <1>9, <2>1 DEF Tracked
  <2>6. Reads(t)' /\ Writes(t)' /\ Removes(t)'
    BY <1>1, <1>2, <1>4, <1>5, <2>1, <2>2 DEF Reads, Writes, Removes
  <2>7. QED
    BY <1>1, <1>10, <2>3, <2>4, <2>5, <2>6 DEF LayerInv
<1>12. CASE ~c.tag
  <2>1. /\ call'[t].op = "none" /\ DOMAIN call' = Tasks
        /\ done' = done \cup {c.value} /\ dead' = dead \cup c.victims
    BY <1>1, <1>12, Going DEF Typed, Return, Idle
  <2>2. c.victims \subseteq done /\ c.value \in DOMAIN sets
    BY <1>2
  <2> HIDE DEF c
  <2>3. Typed'
    BY <1>1, <2>1, <2>2 DEF Typed
  <2>4. Buried'
    <3>1. \A x \in DOMAIN l2' : Alive(l2, x)' => l2'[x].value \notin dead'
      <4>1. \A x \in DOMAIN l2 : x # c.key => l2[x].value \notin c.victims
        BY <1>2, <1>9 DEF Entries
      <4>2. QED
        BY <1>1, <1>5, <1>8, <1>9, <2>1, <2>2, <4>1 DEF Buried
    <3>2. \A p \in Procs : Entries(l1[p])'
      BY <1>1 DEF Buried, Entries
    <3>3. ASSUME NEW p \in Procs, NEW x \in DOMAIN l1[p]
          PROVE  l1[p][x].value \notin dead'
      <4>1. p = h /\ l1[p][x].value \notin dead /\ sets[l1[p][x].value].key = x
        BY <1>1, <3>3 DEF Buried, Entries
      <4>2. l1[p][x].value \notin c.victims
        BY <1>2, <1>9, <2>2, <4>1
      <4>3. QED
        BY <2>1, <4>1, <4>2
    <3>4. QED
      BY <1>1, <1>6, <3>1, <3>2, <3>3 DEF Buried
  <2>5. Tracked'
    <3>1. \A x \in DOMAIN l2' : Alive(l2, x)' /\ l2'[x].value \in done' /\ sets[l2'[x].value].tag
             => x \in tagged /\ l2'[x].till <= tagTill
      BY <1>1, <1>2, <1>5, <1>8, <1>12, <2>1 DEF Tracked
    <3>2. QED
      BY <1>1, <1>7, <3>1 DEF Tracked
  <2>6. Reads(t)' /\ Writes(t)' /\ Removes(t)'
    BY <2>1 DEF Reads, Writes, Removes
  <2>7. QED
    BY <1>1, <1>10, <2>3, <2>4, <2>5, <2>6 DEF LayerInv
<1>13. QED
  BY <1>11, <1>12

\* A step of a call that changes neither layer's values.
LEMMA SAddStep ==
    ASSUME Assumptions, OneCaller, LayerInv, NEW t \in Tasks, SAdd(t)
    PROVE  LayerInv'
<1> DEFINE c == call[t]
           e == [c EXCEPT !.op = "expire"]
<1>1. /\ Typed /\ Buried /\ Tracked /\ Agree /\ Writes(t) /\ c.op = "sadd"
      /\ UNCHANGED <<l1, l2, now, sets, done, dead, served>> /\ \A u \in Tasks : u = t
      /\ IF now < tagTill THEN tagged' = tagged \cup {c.key} /\ UNCHANGED tagTill
         ELSE tagged' = {c.key} /\ tagTill' = Forever
      /\ Goes(t, e)
  BY DEF LayerInv, SAdd, OneCaller, Assumptions, ghosts
<1>2. /\ c \in [op : {"setex", "sadd", "expire"}, key : Keys, value : DOMAIN sets \ done,
                tag : BOOLEAN, ttl : Lasting, victims : SUBSET done]
      /\ sets[c.value].key = c.key /\ sets[c.value].tag = c.tag
      /\ \A v \in c.victims : sets[v].key = c.key
      /\ c.key \in DOMAIN l1[Home[t]] /\ l1[Home[t]][c.key].value = c.value
      /\ c.key \in DOMAIN l2 /\ l2[c.key].value = c.value
  BY <1>1 DEF Writes
<1>3. call'[t] = e /\ DOMAIN call' = Tasks
  BY <1>1, Going DEF Typed
<1>4. /\ e.op = "expire" /\ e.key = c.key /\ e.value = c.value /\ e.tag = c.tag /\ e.ttl = c.ttl /\ e.victims = c.victims
      /\ e \in [op : {"setex", "sadd", "expire"}, key : Keys, value : DOMAIN sets \ done,
               tag : BOOLEAN, ttl : Lasting, victims : SUBSET done]
  BY <1>2
<1> HIDE DEF c, e
<1>5. /\ Forever \in Nat /\ now < Forever /\ tagTill \in Nat /\ now \in Nat
      /\ \A k \in DOMAIN l2 : l2[k].till \in Nat
  BY <1>1 DEF Typed, Forever, Assumptions, Buried, Entries
<1>6. Typed'
  BY <1>1, <1>3, <1>5 DEF Typed
<1>7. Buried'
  <2>1. \A p \in Procs : Entries(l1[p])' /\ \A x \in DOMAIN l1[p] : l1[p][x].value \notin dead
    BY <1>1 DEF Buried, Entries
  <2>2. Entries(l2)' /\ \A x \in DOMAIN l2 : Alive(l2, x)' => l2[x].value \notin dead
    BY <1>1 DEF Buried, Entries, Alive
  <2>3. QED
    BY <1>1, <2>1, <2>2 DEF Buried
<1>8. Tracked' /\ c.key \in tagged' /\ now < tagTill'
  <2>1. c.key \in tagged' /\ now < tagTill'
    BY <1>1, <1>5
  <2>2. CASE now < tagTill
    BY <1>1, <2>1, <2>2 DEF Tracked, Alive
  <2>3. CASE ~(now < tagTill)
    <3>1. \A x \in DOMAIN l2 : ~(Alive(l2, x) /\ l2[x].till <= tagTill)
      BY <1>5, <2>3 DEF Alive
    <3>2. \A x \in DOMAIN l2 : now < l2[x].till => ~(l2[x].value \in done /\ sets[l2[x].value].tag)
      BY <1>1, <3>1 DEF Tracked, Alive
    <3>3. QED
      BY <1>1, <2>1, <3>2 DEF Tracked, Alive
  <2>4. QED
    BY <2>1, <2>2, <2>3
<1>9. Agree'
  BY <1>1, <1>3, <1>4 DEF Agree, Alive, c
<1>10. Reads(t)' /\ Writes(t)' /\ Removes(t)'
  BY <1>1, <1>2, <1>3, <1>4, <1>8 DEF Reads, Writes, Removes
<1>11. QED
  BY <1>1, <1>6, <1>7, <1>8, <1>9, <1>10 DEF LayerInv

LEMMA ExpireStep ==
    ASSUME Assumptions, OneCaller, LayerInv, NEW t \in Tasks, Expire(t)
    PROVE  LayerInv'
<1> DEFINE c == call[t]
           h == Home[t]
<1>1. /\ Typed /\ Buried /\ Tracked /\ Agree /\ Writes(t) /\ c.op = "expire"
      /\ UNCHANGED <<l1, l2, tagged, now, sets, served>> /\ \A u \in Tasks : u = t
      /\ tagTill' = (IF now < tagTill THEN now + c.ttl ELSE tagTill) /\ Return(t, {c.value})
  BY DEF LayerInv, Expire, OneCaller, Assumptions
<1>2. /\ c \in [op : {"setex", "sadd", "expire"}, key : Keys, value : DOMAIN sets \ done,
                tag : BOOLEAN, ttl : Lasting, victims : SUBSET done]
      /\ sets[c.value].key = c.key /\ sets[c.value].tag = c.tag
      /\ \A v \in c.victims : sets[v].key = c.key
      /\ c.key \in DOMAIN l1[h] /\ l1[h][c.key].value = c.value
      /\ c.key \in DOMAIN l2 /\ l2[c.key].value = c.value /\ c.key \in tagged /\ now < tagTill
  BY <1>1 DEF Writes
<1>3. /\ call'[t].op = "none" /\ DOMAIN call' = Tasks
      /\ done' = done \cup {c.value} /\ dead' = dead \cup c.victims
  BY <1>1, Going DEF Typed, Return, Idle
<1>4. c.victims \subseteq done /\ c.value \in DOMAIN sets \ done /\ c.ttl \in Lasting
  BY <1>2
<1>5. tagTill' = now + c.ttl /\ tagTill' \in Nat
  <2>1. \A d \in Lasting : d \in Nat
    BY DEF Lasting, Assumptions
  <2>2. now \in Nat /\ c.ttl \in Nat
    BY <1>1, <1>4, <2>1 DEF Typed, Assumptions
  <2>3. QED
    BY <1>1, <1>2, <2>2
<1> HIDE DEF c
<1>6. Typed'
  BY <1>1, <1>3, <1>4, <1>5 DEF Typed
<1>7. Buried'
  <2>1. Entries(l2) /\ Entries(l2)' /\ \A p \in Procs : Entries(l1[p])'
    BY <1>1 DEF Buried, Entries
  <2>2. \A x \in DOMAIN l2 : Alive(l2, x)' => l2[x].value \notin dead'
    <3>1. \A x \in DOMAIN l2 : l2[x].value \notin c.victims
      BY <1>2, <1>4, <2>1 DEF Entries
    <3>2. QED
      BY <1>1, <1>3, <3>1 DEF Buried, Alive
  <2>3. ASSUME NEW p \in Procs, NEW x \in DOMAIN l1[p]
        PROVE  l1[p][x].value \notin dead'
    <3>1. p = h /\ l1[p][x].value \notin dead /\ sets[l1[p][x].value].key = x
      BY <1>1, <2>3 DEF Buried, Entries
    <3>2. l1[p][x].value \notin c.victims
      BY <1>2, <1>4, <3>1
    <3>3. QED
      BY <1>3, <3>1, <3>2
  <2>4. QED
    BY <1>1, <2>1, <2>2, <2>3 DEF Buried
<1>8. Tracked'
  <2>1. \A x \in DOMAIN l2 : l2[x].till <= tagTill'
    BY <1>1, <1>4, <1>5 DEF Tracked
  <2>2. ASSUME NEW x \in DOMAIN l2, Alive(l2, x), l2[x].value \in done', sets[l2[x].value].tag
        PROVE  x \in tagged
    <3>1. CASE l2[x].value \in done
      BY <1>1, <2>2, <3>1 DEF Tracked
    <3>2. CASE l2[x].value = c.value
      <4>1. sets[l2[x].value].key = x
        BY <1>1 DEF Buried, Entries
      <4>2. QED
        BY <1>2, <3>2, <4>1
    <3>3. QED
      BY <1>3, <2>2, <3>1, <3>2
  <2>3. QED
    BY <1>1, <2>1, <2>2 DEF Tracked, Alive
<1>9. Agree'
  BY <1>1, <1>3 DEF Agree, Alive, c
<1>10. Reads(t)' /\ Writes(t)' /\ Removes(t)'
  BY <1>3 DEF Reads, Writes, Removes
<1>11. QED
  BY <1>1, <1>6, <1>7, <1>8, <1>9, <1>10 DEF LayerInv

LEMMA DeleteStep ==
    ASSUME Assumptions, OneCaller, LayerInv, NEW t \in Tasks, NEW k \in Keys, Delete(t, k)
    PROVE  LayerInv'
<1> DEFINE h == Home[t]
           c == [op |-> "unlink", keys |-> {k}, end |-> TRUE, all |-> FALSE, victims |-> Victims(k)]
<1>1. /\ Typed /\ Buried /\ Tracked /\ Agree /\ call[t].op = "none" /\ h \in Procs
      /\ UNCHANGED <<l2, tagged, tagTill, now, sets, done, dead, served>> /\ \A u \in Tasks : u = t
  BY DEF LayerInv, Delete, OneCaller, shared, ghosts, Assumptions
<1>2. call'[t] = c /\ DOMAIN call' = Tasks
  BY <1>1, Going DEF Typed, Delete
<1>3. c.op = "unlink" /\ c.keys = {k} /\ c.end /\ ~c.all /\ c.victims = Victims(k)
  OBVIOUS
<1>4. \A v \in Victims(k) : v \in done /\ sets[v].key = k
  BY DEF Victims
<1> HIDE DEF c
<1>5. /\ DOMAIN l1' = Procs /\ DOMAIN l1'[h] = DOMAIN l1[h] \ {k}
      /\ \A p \in Procs : \A x \in DOMAIN l1'[p] : x \in DOMAIN l1[p] /\ l1'[p][x] = l1[p][x]
  BY <1>1 DEF Typed, Delete, Drop
<1> HIDE DEF h
<1>6. Typed'
  BY <1>1, <1>2, <1>5 DEF Typed
<1>7. Buried'
  <2>1. ASSUME NEW p \in Procs
        PROVE  /\ Entries(l1[p])' /\ \A x \in DOMAIN l1'[p] : l1'[p][x].value \notin dead
               /\ DOMAIN l1'[p] # {} => \E u \in Tasks : p = Home[u]
    <3>1. /\ Entries(l1[p]) /\ \A x \in DOMAIN l1[p] : l1[p][x].value \notin dead
          /\ DOMAIN l1[p] # {} => \E u \in Tasks : p = Home[u]
      BY <1>1 DEF Buried
    <3>2. \A x \in DOMAIN l1'[p] : x \in DOMAIN l1[p] /\ l1'[p][x] = l1[p][x]
      BY <1>5
    <3>3. QED
      BY <1>1, <3>1, <3>2 DEF Entries
  <2>2. Entries(l2)' /\ \A x \in DOMAIN l2 : Alive(l2, x)' => l2[x].value \notin dead
    BY <1>1 DEF Buried, Entries, Alive
  <2>3. QED
    BY <1>1, <2>1, <2>2 DEF Buried
<1>8. Tracked'
  BY <1>1 DEF Tracked, Alive
<1>9. Agree'
  BY <1>1, <1>2, <1>3, <1>5 DEF Agree, Alive, h
<1>10. Reads(t)' /\ Writes(t)' /\ Removes(t)'
  BY <1>1, <1>2, <1>3, <1>4, <1>5 DEF Reads, Writes, Removes, h
<1>11. QED
  BY <1>1, <1>6, <1>7, <1>8, <1>9, <1>10 DEF LayerInv

\* A call that forgets all of its process's memory and then goes to Redis.
LEMMA ForgetKeeps ==
    ASSUME Assumptions, OneCaller, LayerInv, NEW t \in Tasks, Forget(t),
           UNCHANGED <<l2, tagged, tagTill, now, sets, done, dead, served>>
    PROVE  /\ DOMAIN l1' = Procs /\ DOMAIN l1'[Home[t]] = {} /\ Buried' /\ Tracked' /\ Agree'
<1>1. /\ Typed /\ Buried /\ Tracked /\ Home[t] \in Procs /\ \A u \in Tasks : u = t
      /\ l1' = [l1 EXCEPT ![Home[t]] = << >>]
  BY DEF LayerInv, Forget, OneCaller, Assumptions
<1>2. DOMAIN << >> = {}
  OBVIOUS
<1>3. /\ DOMAIN l1' = Procs /\ DOMAIN l1'[Home[t]] = {}
      /\ \A p \in Procs : \A x \in DOMAIN l1'[p] : x \in DOMAIN l1[p] /\ l1'[p][x] = l1[p][x]
  BY <1>1, <1>2 DEF Typed
<1>4. Buried'
  <2>1. \A p \in Procs : /\ Entries(l1[p])' /\ \A x \in DOMAIN l1'[p] : l1'[p][x].value \notin dead
                         /\ DOMAIN l1'[p] # {} => \E u \in Tasks : p = Home[u]
    BY <1>1, <1>3 DEF Buried, Entries
  <2>2. Entries(l2)' /\ \A x \in DOMAIN l2 : Alive(l2, x)' => l2[x].value \notin dead
    BY <1>1 DEF Buried, Entries, Alive
  <2>3. QED
    BY <1>1, <2>1, <2>2 DEF Buried
<1>5. Tracked'
  BY <1>1 DEF Tracked, Alive
<1>6. Agree'
  BY <1>1, <1>3 DEF Agree
<1>7. QED
  BY <1>3, <1>4, <1>5, <1>6

LEMMA InvalidatePatternStep ==
    ASSUME Assumptions, OneCaller, LayerInv, NEW t \in Tasks, NEW ks \in SUBSET Keys,
           InvalidatePattern(t, ks)
    PROVE  LayerInv'
<1> DEFINE victims == UNION {Victims(k) : k \in ks}
           c == [op |-> "unlink", keys |-> ks, end |-> TRUE, all |-> ks = Keys, victims |-> victims]
<1>1. /\ Typed /\ \A u \in Tasks : u = t
      /\ UNCHANGED <<l2, tagged, tagTill, now, sets, done, dead, served>>
      /\ Forget(t) /\ Goes(t, c)
  BY DEF LayerInv, InvalidatePattern, OneCaller, shared, ghosts
<1>2. call'[t] = c /\ DOMAIN call' = Tasks
  BY <1>1, Going DEF Typed
<1>3. /\ DOMAIN l1' = Procs /\ DOMAIN l1'[Home[t]] = {} /\ Buried' /\ Tracked' /\ Agree'
  BY <1>1, ForgetKeeps
<1>4. c.op = "unlink" /\ c.keys = ks /\ c.end /\ c.victims = victims
  OBVIOUS
<1>5. c.all => c.keys = Keys
  OBVIOUS
<1>6. \A v \in victims : v \in done /\ sets[v].key \in ks
  BY DEF Victims
<1> HIDE DEF c, victims
<1>7. Typed'
  BY <1>1, <1>2, <1>3 DEF Typed
<1>8. Reads(t)' /\ Writes(t)' /\ Removes(t)'
  BY <1>1, <1>2, <1>3, <1>4, <1>5, <1>6 DEF Reads, Writes, Removes
<1>9. QED
  BY <1>1, <1>3, <1>7, <1>8 DEF LayerInv

LEMMA InvalidateTagsStep ==
    ASSUME Assumptions, OneCaller, LayerInv, NEW t \in Tasks, InvalidateTags(t)
    PROVE  LayerInv'
<1> DEFINE victims == {v \in done : sets[v].tag}
           c == [op |-> "smembers", victims |-> victims]
<1>1. /\ Typed /\ \A u \in Tasks : u = t
      /\ UNCHANGED <<l2, tagged, tagTill, now, sets, done, dead, served>>
      /\ Forget(t) /\ Goes(t, c)
  BY DEF LayerInv, InvalidateTags, OneCaller, shared, ghosts
<1>2. call'[t] = c /\ DOMAIN call' = Tasks
  BY <1>1, Going DEF Typed
<1>3. /\ DOMAIN l1' = Procs /\ DOMAIN l1'[Home[t]] = {} /\ Buried' /\ Tracked' /\ Agree'
  BY <1>1, ForgetKeeps
<1>4. c.op = "smembers" /\ c.victims = victims
  OBVIOUS
<1> HIDE DEF c
<1>6. Typed'
  BY <1>1, <1>2, <1>3 DEF Typed
<1>7. Reads(t)' /\ Writes(t)' /\ Removes(t)'
  BY <1>1, <1>2, <1>3, <1>4 DEF Reads, Writes, Removes
<1>8. QED
  BY <1>1, <1>3, <1>6, <1>7 DEF LayerInv

\* A call returns, and what it was to remove is in neither layer.
LEMMA Buries ==
    ASSUME Assumptions, OneCaller, LayerInv, NEW t \in Tasks, Return(t, {}),
           UNCHANGED <<l1, now, sets, served>>, tagTill' \in Nat,
           call[t].op # "setex", call[t].victims \subseteq done,
           DOMAIN l2' \subseteq DOMAIN l2, \A x \in DOMAIN l2' : l2'[x] = l2[x],
           \A x \in DOMAIN l1[Home[t]] : l1[Home[t]][x].value \notin call[t].victims,
           \A x \in DOMAIN l2' : Alive(l2, x) => l2[x].value \notin call[t].victims,
           \/ UNCHANGED <<tagged, tagTill>>
           \/ \A x \in DOMAIN l2' : ~(Alive(l2, x) /\ l2[x].value \in done /\ sets[l2[x].value].tag)
    PROVE  LayerInv'
<1> DEFINE h == Home[t]
           victims == call[t].victims
<1>1. /\ Typed /\ Buried /\ Tracked /\ Agree /\ h \in Procs /\ \A u \in Tasks : u = t
  BY DEF LayerInv, OneCaller, Assumptions
<1>2. call'[t].op = "none" /\ DOMAIN call' = Tasks /\ done' = done /\ dead' = dead \cup victims
  BY <1>1, Going DEF Return, Idle, Typed
<1> HIDE DEF victims
<1>3. \A x \in DOMAIN l2' : x \in DOMAIN l2 /\ l2'[x] = l2[x] /\ (Alive(l2, x)' => Alive(l2, x))
  BY DEF Alive
<1>4. Typed'
  BY <1>1, <1>2 DEF Typed, victims
<1>5. Buried'
  <2>1. \A p \in Procs : Entries(l1[p])' /\ (DOMAIN l1[p] # {} => \E u \in Tasks : p = Home[u])
    BY <1>1 DEF Buried, Entries
  <2>2. ASSUME NEW p \in Procs, NEW x \in DOMAIN l1[p]
        PROVE  l1[p][x].value \notin dead'
    <3>1. p = h /\ l1[p][x].value \notin dead
      BY <1>1, <2>2 DEF Buried
    <3>2. QED
      BY <1>2, <3>1 DEF victims
  <2>3. Entries(l2)'
    BY <1>1, <1>3 DEF Buried, Entries
  <2>4. \A x \in DOMAIN l2' : Alive(l2, x)' => l2'[x].value \notin dead'
    BY <1>1, <1>2, <1>3 DEF Buried, victims
  <2>5. QED
    BY <1>1, <2>1, <2>2, <2>3, <2>4 DEF Buried
<1>6. Tracked'
  <2>1. ASSUME NEW x \in DOMAIN l2'
        PROVE  /\ \A d \in Lasting : l2'[x].till <= now + d
               /\ Alive(l2, x)' /\ l2'[x].value \in done /\ sets[l2'[x].value].tag
                     => x \in tagged' /\ l2'[x].till <= tagTill'
    BY <1>1, <1>3, <2>1 DEF Tracked
  <2>2. QED
    BY <1>2, <2>1 DEF Tracked
<1>7. Agree'
  BY <1>1, <1>3 DEF Agree
<1>8. Reads(t)' /\ Writes(t)' /\ Removes(t)'
  BY <1>2 DEF Reads, Writes, Removes
<1>9. QED
  BY <1>1, <1>4, <1>5, <1>6, <1>7, <1>8 DEF LayerInv

LEMMA SMembersStep ==
    ASSUME Assumptions, OneCaller, LayerInv, NEW t \in Tasks, SMembers(t)
    PROVE  LayerInv'
<1> DEFINE h == Home[t]
           c == call[t]
           e == [op |-> "unlink", keys |-> tagged, end |-> FALSE, victims |-> c.victims]
<1>1. /\ Typed /\ Buried /\ Tracked /\ Agree /\ c.op = "smembers" /\ \A u \in Tasks : u = t
      /\ UNCHANGED <<l1, l2, tagged, tagTill, now, sets, served>> /\ h \in Procs
      /\ DOMAIN l1[h] = {} /\ c.victims = {v \in done : sets[v].tag}
      /\ IF now < tagTill /\ tagged # {} THEN Goes(t, e) /\ UNCHANGED ghosts ELSE Return(t, {})
  BY DEF LayerInv, SMembers, OneCaller, shared, Removes, Assumptions
<1>2. \A x \in DOMAIN l2 : l2[x].till \in Nat
  BY <1>1 DEF Buried, Entries
<1>3. \A x \in DOMAIN l2 : Alive(l2, x) /\ l2[x].value \in c.victims => x \in tagged /\ now < tagTill
  <2>1. ASSUME NEW x \in DOMAIN l2, Alive(l2, x), l2[x].value \in c.victims
        PROVE  x \in tagged /\ now < tagTill
    <3>1. x \in tagged /\ l2[x].till <= tagTill /\ now < l2[x].till
      BY <1>1, <2>1 DEF Tracked, Alive
    <3>2. now \in Nat /\ tagTill \in Nat /\ l2[x].till \in Nat
      BY <1>1, <1>2 DEF Typed, Assumptions
    <3>3. QED
      BY <3>1, <3>2
  <2>2. QED
    BY <2>1
<1>4. CASE now < tagTill /\ tagged # {}
  <2>1. call'[t] = e /\ DOMAIN call' = Tasks /\ UNCHANGED <<done, dead>>
    BY <1>1, <1>4, Going DEF Typed, ghosts
  <2>2. e.op = "unlink" /\ e.keys = tagged /\ ~e.end /\ e.victims = c.victims
    OBVIOUS
  <2> HIDE DEF e
  <2>3. Typed'
    BY <1>1, <2>1 DEF Typed
  <2>4. Buried'
    <3>1. \A p \in Procs : Entries(l1[p])' /\ \A x \in DOMAIN l1[p] : l1[p][x].value \notin dead
      BY <1>1 DEF Buried, Entries
    <3>2. Entries(l2)' /\ \A x \in DOMAIN l2 : Alive(l2, x)' => l2[x].value \notin dead
      BY <1>1 DEF Buried, Entries, Alive
    <3>3. QED
      BY <1>1, <2>1, <3>1, <3>2 DEF Buried
  <2>5. Tracked' /\ Agree'
    BY <1>1, <2>1 DEF Tracked, Agree, Alive
  <2>6. Reads(t)' /\ Writes(t)' /\ Removes(t)'
    BY <1>1, <1>3, <2>1, <2>2 DEF Reads, Writes, Removes, Alive
  <2>7. QED
    BY <1>1, <2>3, <2>4, <2>5, <2>6 DEF LayerInv
<1>5. CASE ~(now < tagTill /\ tagged # {})
  <2>1. Return(t, {}) /\ tagTill' \in Nat
    BY <1>1, <1>5 DEF Typed
  <2>2. \A x \in DOMAIN l2 : Alive(l2, x) => l2[x].value \notin c.victims
    BY <1>3, <1>5
  <2>3. QED
    BY <1>1, <2>1, <2>2, Buries
<1>6. QED
  BY <1>4, <1>5

LEMMA UnlinkStep ==
    ASSUME Assumptions, OneCaller, LayerInv, NEW t \in Tasks, Unlink(t)
    PROVE  LayerInv'
<1> DEFINE h == Home[t]
           c == call[t]
           e == [op |-> "untag", victims |-> c.victims]
<1>1. /\ Typed /\ Buried /\ Tracked /\ Agree /\ Removes(t) /\ c.op = "unlink" /\ \A u \in Tasks : u = t
      /\ UNCHANGED <<l1, now, sets, served>> /\ h \in Procs /\ l2' = Drop(l2, c.keys)
      /\ IF ~c.end THEN UNCHANGED <<tagged, tagTill, done, dead>> /\ Goes(t, e)
         ELSE Return(t, {}) /\ IF c.all THEN tagged' = {} /\ tagTill' = 0 ELSE UNCHANGED <<tagged, tagTill>>
  BY DEF LayerInv, Unlink, OneCaller, ghosts, Assumptions
<1>2. DOMAIN l2' = DOMAIN l2 \ c.keys /\ \A x \in DOMAIN l2' : l2'[x] = l2[x]
  BY <1>1 DEF Drop
<1>3. \A x \in DOMAIN l2' : x \in DOMAIN l2 /\ l2'[x] = l2[x] /\ (Alive(l2, x)' => Alive(l2, x))
  BY <1>1, <1>2 DEF Alive
<1>4. CASE ~c.end
  <2>1. call'[t] = e /\ DOMAIN call' = Tasks /\ UNCHANGED <<tagged, tagTill, done, dead>>
    BY <1>1, <1>4, Going DEF Typed
  <2>2. /\ DOMAIN l1[h] = {} /\ c.victims = {v \in done : sets[v].tag}
        /\ \A x \in DOMAIN l2 : Alive(l2, x) /\ l2[x].value \in c.victims => x \in c.keys
    BY <1>1, <1>4 DEF Removes
  <2>3. e.op = "untag" /\ e.victims = c.victims
    OBVIOUS
  <2> HIDE DEF e
  <2>4. Typed'
    BY <1>1, <2>1 DEF Typed
  <2>5. Buried'
    <3>1. \A p \in Procs : Entries(l1[p])' /\ \A x \in DOMAIN l1[p] : l1[p][x].value \notin dead
      BY <1>1 DEF Buried, Entries
    <3>2. Entries(l2)' /\ \A x \in DOMAIN l2' : Alive(l2, x)' => l2'[x].value \notin dead
      BY <1>1, <1>3 DEF Buried, Entries
    <3>3. QED
      BY <1>1, <2>1, <3>1, <3>2 DEF Buried
  <2>6. Tracked'
    BY <1>1, <1>3, <2>1 DEF Tracked
  <2>7. Agree'
    BY <1>1, <2>2 DEF Agree
  <2>8. Reads(t)' /\ Writes(t)' /\ Removes(t)'
    <3>1. \A x \in DOMAIN l2' : Alive(l2, x)' => l2'[x].value \notin e.victims
      BY <1>2, <1>3, <2>2, <2>3
    <3>2. sets' = sets /\ done' = done
      BY <1>1, <2>1
    <3>3. {v \in done' : sets'[v].tag} = {v \in done : sets[v].tag}
      BY <3>2
    <3>4. e.victims = {v \in done : sets[v].tag}
      BY <2>2, <2>3
    <3>5. e.victims = {v \in done' : sets'[v].tag}
      BY <3>3, <3>4
    <3>6. DOMAIN l1'[h] = {}
      BY <1>1, <2>2
    <3>7. QED
      BY <2>1, <2>3, <3>1, <3>5, <3>6 DEF Reads, Writes, Removes
  <2>9. QED
    BY <1>1, <2>4, <2>5, <2>6, <2>7, <2>8 DEF LayerInv
<1>5. CASE c.end
  <2>1. /\ \A v \in c.victims : v \in done /\ sets[v].key \in c.keys
        /\ DOMAIN l1[h] \cap c.keys = {} /\ (c.all => c.keys = Keys)
    BY <1>1, <1>5 DEF Removes
  <2>2. Entries(l1[h]) /\ Entries(l2)
    BY <1>1 DEF Buried
  <2>3. \A x \in DOMAIN l1[h] : l1[h][x].value \notin c.victims
    BY <2>1, <2>2 DEF Entries
  <2>4. \A x \in DOMAIN l2' : l2[x].value \notin c.victims
    BY <1>2, <2>1, <2>2 DEF Entries
  <2>5. UNCHANGED <<tagged, tagTill>> \/ (tagTill' = 0 /\ DOMAIN l2' = {})
    BY <1>1, <1>2, <1>5, <2>1, <2>2 DEF Entries
  <2>6. tagTill' \in Nat /\ Return(t, {}) /\ c.op # "setex" /\ c.victims \subseteq done
    BY <1>1, <1>5, <2>1, <2>5 DEF Typed
  <2>7. \/ UNCHANGED <<tagged, tagTill>>
        \/ \A x \in DOMAIN l2' : ~(Alive(l2, x) /\ l2[x].value \in done /\ sets[l2[x].value].tag)
    BY <2>5
  <2>8. DOMAIN l2' \subseteq DOMAIN l2
    BY <1>2
  <2>9. QED
    BY <1>1, <1>2, <2>3, <2>4, <2>6, <2>7, <2>8, Buries
<1>6. QED
  BY <1>4, <1>5

LEMMA UntagStep ==
    ASSUME Assumptions, OneCaller, LayerInv, NEW t \in Tasks, Untag(t)
    PROVE  LayerInv'
<1> DEFINE c == call[t]
<1>1. /\ c.op = "untag" /\ Return(t, {}) /\ UNCHANGED <<l1, l2, now, sets, served>> /\ tagTill' = 0
  BY DEF Untag
<1>2. /\ DOMAIN l1[Home[t]] = {} /\ c.victims = {v \in done : sets[v].tag}
      /\ \A x \in DOMAIN l2 : Alive(l2, x) => l2[x].value \notin c.victims
  BY <1>1 DEF LayerInv, Removes
<1>3. \A x \in DOMAIN l2 : ~(Alive(l2, x) /\ l2[x].value \in done /\ sets[l2[x].value].tag)
  BY <1>2
<1>4. tagTill' \in Nat /\ c.victims \subseteq done /\ c.op # "setex"
  BY <1>1, <1>2
<1>5. QED
  BY <1>1, <1>2, <1>3, <1>4, Buries

LEMMA RaiseStep ==
    ASSUME Assumptions, OneCaller, LayerInv, NEW t \in Tasks, Raise(t)
    PROVE  LayerInv'
<1>1. /\ Typed /\ Buried /\ Tracked /\ Agree /\ \A u \in Tasks : u = t
      /\ UNCHANGED <<l1, l2, tagged, tagTill, now, sets, done, dead, served>>
      /\ ~(Faults \subseteq {"get"})
  BY DEF LayerInv, Raise, OneCaller, shared, ghosts
<1>2. call'[t].op = "none" /\ DOMAIN call' = Tasks
  BY <1>1, Going DEF Raise, Idle, Typed
<1>3. Typed'
  BY <1>1, <1>2 DEF Typed
<1>4. Buried'
  <2>1. \A p \in Procs : Entries(l1[p])' /\ \A x \in DOMAIN l1[p] : l1[p][x].value \notin dead
    BY <1>1 DEF Buried, Entries
  <2>2. Entries(l2)' /\ \A x \in DOMAIN l2 : Alive(l2, x)' => l2[x].value \notin dead
    BY <1>1 DEF Buried, Entries, Alive
  <2>3. QED
    BY <1>1, <2>1, <2>2 DEF Buried
<1>5. Tracked'
  BY <1>1 DEF Tracked, Alive
<1>6. Agree'
  BY <1>1 DEF Agree
<1>7. Reads(t)' /\ Writes(t)' /\ Removes(t)'
  BY <1>2 DEF Reads, Writes, Removes
<1>8. QED
  BY <1>1, <1>3, <1>4, <1>5, <1>6, <1>7 DEF LayerInv

\* With one caller no get returns what a call deleted, replaced or invalidated
\* before it, and while Redis raises in reads only, both layers have the same
\* value for a key between calls (cache/layered.py:126).
THEOREM OneCallerReadsOwn ==
    ASSUME Assumptions, OneCaller
    PROVE  Spec => [](NotDead /\ (Faults \subseteq {"get"} => LayersAgree))
<1>1. Init => LayerInv
  BY LayerInit
<1>2. LayerInv /\ [Next]_vars => LayerInv'
  <2> SUFFICES ASSUME LayerInv, [Next]_vars
               PROVE  LayerInv'
    OBVIOUS
  <2>1. CASE UNCHANGED vars
    <3>1. UNCHANGED <<l1, l2, tagged, tagTill, now, sets, call, done, dead, served>>
      BY <2>1 DEF vars, shared, ghosts
    <3>2. Typed' /\ Tracked' /\ Agree'
      BY <3>1 DEF LayerInv, Typed, Tracked, Agree, Alive
    <3>3. Buried'
      BY <3>1 DEF LayerInv, Buried, Entries, Alive
    <3>4. \A t \in Tasks : Reads(t)' /\ Writes(t)' /\ Removes(t)'
      BY <3>1 DEF LayerInv, Reads, Writes, Removes, Alive
    <3>5. QED
      BY <3>2, <3>3, <3>4 DEF LayerInv
  <2>2. CASE Tick
    BY <2>2, TickStep
  <2>3. ASSUME NEW t \in Tasks, NEW k \in Keys,
               \/ Get(t, k) \/ Delete(t, k)
               \/ \E ttl \in Ttls, tag \in BOOLEAN : Set(t, k, ttl, tag)
        PROVE  LayerInv'
    BY <2>3, GetStep, DeleteStep, SetStep
  <2>4. ASSUME NEW t \in Tasks, NEW ks \in SUBSET Keys, InvalidatePattern(t, ks)
        PROVE  LayerInv'
    BY <2>4, InvalidatePatternStep
  <2>5. ASSUME NEW t \in Tasks, GetL2(t) \/ Promote(t) \/ SetEx(t) \/ SAdd(t) \/ Expire(t) \/ Raise(t)
        PROVE  LayerInv'
    BY <2>5, GetL2Step, PromoteStep, SetExStep, SAddStep, ExpireStep, RaiseStep
  <2>6. ASSUME NEW t \in Tasks, InvalidateTags(t) \/ SMembers(t) \/ Unlink(t) \/ Untag(t)
        PROVE  LayerInv'
    BY <2>6, InvalidateTagsStep, SMembersStep, UnlinkStep, UntagStep
  <2>7. QED
    BY <2>1, <2>2, <2>3, <2>4, <2>5, <2>6 DEF Next
<1>3. LayerInv => NotDead /\ (Faults \subseteq {"get"} => LayersAgree)
  <2> SUFFICES ASSUME LayerInv PROVE NotDead /\ (Faults \subseteq {"get"} => LayersAgree)
    OBVIOUS
  <2>1. NotDead
    BY DEF LayerInv, Buried, NotDead
  <2>2. ASSUME Faults \subseteq {"get"}, \A t \in Tasks : call[t].op = "none",
               NEW p \in Procs, NEW k \in DOMAIN l1[p] \cap DOMAIN l2, Alive(l2, k)
        PROVE  l1[p][k].value = l2[k].value
    <3>1. PICK t \in Tasks : p = Home[t]
      BY <2>2 DEF LayerInv, Buried
    <3>2. QED
      BY <2>2, <3>1 DEF LayerInv, Agree
  <2>3. QED
    BY <2>1, <2>2 DEF LayersAgree
<1>4. QED
  BY <1>1, <1>2, <1>3, PTL DEF Spec
=============================================================================
