------------------------------ MODULE MCCaches ------------------------------
(***************************************************************************)
(* Caches and leases on small instances: WorkClaim, PgPool,                *)
(* CachingDatabase, LayeredCache and Contexts.  They share no state; scene *)
(* says of which of them a behaviour is, and with which constants.         *)
(*   native workers on an adapter that claims in one step                  *)
(*   single one worker on an adapter that reads and then writes            *)
(*   pool   three tasks, one opens transactions and iterations, two        *)
(*          connections, statements that fail                              *)
(*   scopes two tasks in the scopes of two tenants, one connection, one    *)
(*          task in a scope within a scope                                 *)
(*   cancels two tasks that open transactions, and may be cancelled        *)
(*   lru    one caller, one record more than the cache has room for        *)
(*   age    two callers of one record, and writers elsewhere               *)
(*   quiet  two callers of two records, no ttl, room for one               *)
(*   one    one caller of the layered cache                                *)
(*   raises the same, Redis raising where the caller is told               *)
(*   errors the same, Redis raising anywhere                               *)
(*   tasks  default contexts of two tasks, two contexts and two scopes     *)
(*   apart  contexts over databases of their own, calls one at a time      *)
(*   mixed  overlapping calls, shared and switched databases, any failure  *)
(***************************************************************************)
EXTENDS CachesProofs, TLC

CONSTANTS w1,                                 \* among Workers
          c1, c2, v1, v2, k1, k2, p, t

VARIABLES scene,
          l1, l2, tagged, tagTill, now, sets, call, stored, dead, served,
          pool, opened, made, user, setting, rows, scope, ask, outer, calls

records == <<db, cache, order, reading, stale, acked, quiet>>
layers == <<l1, l2, tagged, tagTill, now, sets, call, stored, dead, served>>
contexts == <<slot, scopes, heirs, running, fallback, unmade, strays, configured,
              manager, base, held, store, written, asked, count>>
pooling == <<pool, opened, made, user, setting, rows, scope, ask, outer, calls>>
all == <<scene, vars, records, layers, contexts, pooling>>

OneAhead == [w \in Workers |-> IF w = w1 THEN Skew ELSE 0]

Plain == INSTANCE WorkClaim WITH Native <- FALSE, MaxClaims <- 3, MaxLosses <- 2

Pool == INSTANCE PgPool WITH
    None <- NoToken, call <- ask, Tasks <- {c1, c2, t}, Holders <- {t}, Conns <- {v1, v2},
    Collections <- {k1}, Guarded <- {}, Tenants <- {k2}, Warm <- FALSE, Faults <- TRUE,
    Abandons <- FALSE, MaxNested <- 0, MaxCalls <- 2
Scoped == INSTANCE PgPool WITH
    None <- NoToken, call <- ask, Tasks <- {t, w1}, Holders <- {t}, Conns <- {p},
    Collections <- {Absent}, Guarded <- {Absent}, Tenants <- {k1, k2}, Warm <- TRUE, Faults <- FALSE,
    Abandons <- FALSE, MaxNested <- 2, MaxCalls <- 2
Cancels == INSTANCE PgPool WITH
    None <- NoToken, call <- ask, Tasks <- {c1, c2}, Holders <- {c1, c2}, Conns <- {v1, v2},
    Collections <- {k1}, Guarded <- {}, Tenants <- {k2}, Warm <- FALSE, Faults <- TRUE,
    Abandons <- TRUE, MaxNested <- 0, MaxCalls <- 2

lru == [calls |-> {c1}, keys |-> {v1, v2, k1}, vals |-> {k2}, size |-> 2, ttl |-> 1,
        latency |-> 0, outside |-> FALSE, fails |-> FALSE]
age == [calls |-> {c1, c2}, keys |-> {k1}, vals |-> {v1, v2}, size |-> 1, ttl |-> 2,
        latency |-> 1, outside |-> TRUE, fails |-> FALSE]
still == [calls |-> {c1, c2}, keys |-> {v1, v2}, vals |-> {k1}, size |-> 1, ttl |-> 0,
          latency |-> 0, outside |-> FALSE, fails |-> FALSE]

One == INSTANCE LayeredCache WITH
    Keys <- {k1, k2}, Tasks <- {t}, Procs <- {p}, Home <- [x \in {t} |-> p], Ttls <- {0},
    L2Ttl <- 2, L1Size <- 1, MaxSets <- 3, MaxTime <- 2, Prompt <- TRUE,
    Faults <- {}, done <- stored
Raises == INSTANCE LayeredCache WITH
    Keys <- {k1, k2}, Tasks <- {t}, Procs <- {p}, Home <- [x \in {t} |-> p], Ttls <- {0},
    L2Ttl <- 2, L1Size <- 1, MaxSets <- 2, MaxTime <- 2, Prompt <- TRUE,
    Faults <- {"get", "tags"}, done <- stored
Errors == INSTANCE LayeredCache WITH
    Keys <- {k1, k2}, Tasks <- {t}, Procs <- {p}, Home <- [x \in {t} |-> p], Ttls <- {0},
    L2Ttl <- 2, L1Size <- 1, MaxSets <- 2, MaxTime <- 2, Prompt <- TRUE,
    Faults <- {"get", "setex", "unlink", "tags"}, done <- stored

Lookups == INSTANCE Contexts WITH
    Tasks <- {"t1", "t2"}, Main <- "t1", Contexts <- {"c1", "c2", "p1", "p2"},
    Private <- {"p1", "p2"}, Dbs <- {"jvdb", "d1"}, Jvdb <- "jvdb", Names <- {},
    Ids <- {"i1"}, Vals <- {}, Faults <- {}, Batched <- FALSE, Overlap <- FALSE,
    Shared <- TRUE, MaxCalls <- 3,
    Does <- {"scope", "set", "clear", "forget", "spawn", "configure", "calls"}
apart == [names |-> {}, faults |-> {"clean"}, batched |-> FALSE, mixed |-> FALSE, calls |-> 3,
          does |-> {"scope", "spawn", "database", "calls"}]
mixed == [names |-> {"app"}, faults |-> {"clean", "late"}, batched |-> TRUE, mixed |-> TRUE,
          calls |-> 2, does |-> {"scope", "spawn", "configure", "names", "switch",
                                 "database", "calls"}]

ASSUME ScenesAssumption ==
    /\ Pool!Assumptions /\ Scoped!Assumptions /\ Cancels!Assumptions
    /\ Keeps(lru)!Assumptions /\ Keeps(age)!Assumptions /\ Keeps(still)!Assumptions
    /\ One!Assumptions /\ Raises!Assumptions /\ Errors!Assumptions
    /\ Lookups!Assumptions /\ Graph(apart)!Assumptions /\ Graph(mixed)!Assumptions

(* The state of the modules that a scene is not about.                       *)
NoRecords ==
    /\ db = NoToken /\ cache = NoToken /\ order = NoToken /\ reading = NoToken
    /\ stale = NoToken /\ acked = NoToken /\ quiet = NoToken
NoLayers ==
    /\ l1 = NoToken /\ l2 = NoToken /\ tagged = NoToken /\ tagTill = NoToken /\ now = NoToken
    /\ sets = NoToken /\ call = NoToken /\ stored = NoToken /\ dead = NoToken
    /\ served = NoToken
NoContexts ==
    /\ slot = NoToken /\ scopes = NoToken /\ heirs = NoToken /\ running = NoToken
    /\ fallback = NoToken /\ unmade = NoToken /\ strays = NoToken /\ configured = NoToken
    /\ manager = NoToken /\ base = NoToken /\ held = NoToken /\ store = NoToken
    /\ written = NoToken /\ asked = NoToken /\ count = NoToken
NoPool ==
    /\ pool = NoToken /\ opened = NoToken /\ made = NoToken /\ user = NoToken
    /\ setting = NoToken /\ rows = NoToken /\ scope = NoToken /\ ask = NoToken
    /\ outer = NoToken /\ calls = NoToken

CacheInit ==
    /\ scene \in {"native", "single", "pool", "scopes", "cancels", "lru", "age", "quiet",
                 "one", "raises", "errors", "tasks", "apart", "mixed"}
    /\ Init
    /\ IF scene \in {"one", "raises", "errors"} THEN One!Init ELSE NoLayers
    /\ CASE scene = "pool" -> Pool!Init
         [] scene = "scopes" -> Scoped!Init
         [] scene = "cancels" -> Cancels!Init
         [] OTHER -> NoPool
    /\ CASE scene = "tasks" -> Lookups!Init
         [] scene = "apart" -> Graph(apart)!Init
         [] scene = "mixed" -> Graph(mixed)!Init
         [] OTHER -> NoContexts
    /\ CASE scene = "lru" -> Keeps(lru)!Init
         [] scene = "age" -> Keeps(age)!Init
         [] scene = "quiet" -> Keeps(still)!Init
         [] OTHER -> NoRecords

Claiming ==
    /\ scene \in {"native", "single"}
    /\ UNCHANGED <<records, layers, contexts, pooling>>
    /\ \/ scene = "native" /\ Next
       \/ scene = "single" /\ Plain!Next /\ \A w \in Workers \ {w1} : worker'[w].pc = "idle"

Pooling ==
    /\ scene \in {"pool", "scopes", "cancels"}
    /\ UNCHANGED <<vars, records, layers, contexts>>
    /\ \/ scene = "pool" /\ Pool!Next
       \/ scene = "scopes" /\ Scoped!Next /\ Len(scope'[w1]) < 2 /\ calls'[w1] < 2
       \/ scene = "cancels" /\ Cancels!Next

\* find_many of one record is as get, and bulk_save of one is as save.
Calling(ops) == \A c \in DOMAIN reading : reading'[c].op \in ops \cup {"none"}
Caching ==
    /\ scene \in {"lru", "age", "quiet"}
    /\ UNCHANGED <<vars, layers, contexts, pooling>>
    /\ \/ scene = "lru" /\ Keeps(lru)!Next /\ Calling({"find_many", "bulk_save", "delete"})
       \/ scene = "age" /\ Keeps(age)!Next /\ Calling({"get", "save", "delete", "update", "take"})
       \/ scene = "quiet" /\ Keeps(still)!Next /\ Calling({"find_many", "bulk_save", "delete", "update"})

Layering ==
    /\ scene \in {"one", "raises", "errors"}
    /\ UNCHANGED <<vars, records, contexts, pooling>>
    /\ \/ scene = "one" /\ One!Next
       \/ scene = "raises" /\ Raises!Next
       \/ scene = "errors" /\ Errors!Next

Contexting ==
    /\ scene \in {"tasks", "apart", "mixed"}
    /\ UNCHANGED <<vars, records, layers, pooling>>
    /\ \/ scene = "tasks" /\ Lookups!Next
       \/ scene = "apart" /\ Graph(apart)!Next
       \/ scene = "mixed" /\ Graph(mixed)!Next

\* The bound on the values set, on the clock or on the calls is reached.
Stop == /\ scene \in {"pool", "scopes", "cancels", "one", "raises", "errors",
                      "tasks", "apart", "mixed"}
        /\ UNCHANGED <<vars, records, layers, contexts, pooling>>

CacheNext == UNCHANGED scene /\ (Claiming \/ Pooling \/ Caching \/ Layering \/ Contexting \/ Stop)

CacheSpec == CacheInit /\ [][CacheNext]_all

Symmetry == Permutations({c1, c2}) \cup Permutations({v1, v2})
-----------------------------------------------------------------------------
\* The types of the modules: the LRU cap holds through reads, writes in bulk
\* and expiry (db/_cache.py:123), and the memory layer keeps within its size,
\* whatever Redis raises.  A context bound for a scope stays in it, and a task
\* finds the context that was configured (core/context.py:2203).
CacheTypes == /\ TypeOK
              /\ scene = "pool" => Pool!TypeOK
              /\ scene = "scopes" => Scoped!TypeOK
              /\ scene = "cancels" => Cancels!TypeOK
              /\ scene = "lru" => Keeps(lru)!TypeOK
              /\ scene = "errors" => Errors!TypeOK
              /\ scene = "tasks" => Lookups!TypeOK /\ Lookups!ScopesHold /\ Lookups!NoStrays
              /\ scene = "mixed" => Graph(mixed)!TypeOK

\* Nothing is served past its ttl and one database call (db/_cache.py:64), and a
\* record whose reads overlapped none of its writes is served as written.  A
\* context's entity cache holds what its database holds, through failures, batches
\* and a new database (core/context.py:489), while its calls do not overlap; and
\* never what was not written, however they do.
RecordsFresh == /\ scene = "age" => Keeps(age)!AgeBound
                /\ scene = "quiet" => Keeps(still)!QuietCoherent
                /\ scene = "apart" => Graph(apart)!CacheMatches
                /\ scene = "mixed" => Graph(mixed)!NeverUnwritten

\* No get returns what a call that returned before it deleted, replaced or
\* invalidated (cache/layered.py:126), errors that the caller is told of or not;
\* between calls both layers have the same value for a key.
LayersAgree == /\ scene = "one" => One!NotDead /\ One!LayersAgree
               /\ scene = "raises" => Raises!NotDead

\* Whatever fails, a connection is given back by the task that took it, and
\* tasks that keep one while they take another do not keep all of them
\* (db/postgres.py:1862, 387, 562).
PoolWhole == /\ scene = "pool" => Pool!PoolWhole /\ Pool!SomeoneGoesOn
             /\ scene = "scopes" => Scoped!PoolWhole
             /\ scene = "cancels" => Cancels!PoolWhole

\* Calls in the scopes of two tenants, and calls in none, over one connection: what
\* each reads or deletes of a guarded collection is its own tenant's
\* (db/postgres.py:433).
TenantsApart == scene = "scopes" => Scoped!TenantsApart
-----------------------------------------------------------------------------
(* What CachesProofs, PgPool and LayeredCache prove, for the scenes: a       *)
(* behaviour of the suite is of another scene, or one of the module's.       *)

\* A scene stays what it is, and its steps leave the state of the others alone.
LEMMA ScenesStay ==
    CacheSpec => /\ [](~(scene = "pool")) \/ Pool!Spec
                 /\ [](~(scene = "scopes")) \/ Scoped!Spec
                 /\ [](~(scene = "cancels")) \/ Cancels!Spec
<1>1. CacheInit => /\ scene = "pool" => Pool!Init
                   /\ scene = "scopes" => Scoped!Init
                   /\ scene = "cancels" => Cancels!Init
  BY DEF CacheInit
<1>2. [CacheNext]_all => /\ ~(scene = "pool") => (~(scene = "pool"))'
                         /\ scene = "pool" => (scene = "pool")' /\ [Pool!Next]_Pool!vars
  BY DEF CacheNext, Claiming, Pooling, Caching, Layering, Contexting, Stop, all, pooling, Pool!vars
<1>3. [CacheNext]_all => /\ ~(scene = "scopes") => (~(scene = "scopes"))'
                         /\ scene = "scopes" => (scene = "scopes")' /\ [Scoped!Next]_Scoped!vars
  BY DEF CacheNext, Claiming, Pooling, Caching, Layering, Contexting, Stop, all, pooling, Scoped!vars
<1>4. [CacheNext]_all => /\ ~(scene = "cancels") => (~(scene = "cancels"))'
                         /\ scene = "cancels" => (scene = "cancels")' /\ [Cancels!Next]_Cancels!vars
  BY DEF CacheNext, Claiming, Pooling, Caching, Layering, Contexting, Stop, all, pooling, Cancels!vars
<1>5. QED
  BY <1>1, <1>2, <1>3, <1>4, PTL DEF CacheSpec, Pool!Spec, Scoped!Spec, Cancels!Spec

\* Connections are given back by the tasks that took them, and tasks that keep one
\* while they take another go on, in every scene of the pool (db/postgres.py:1862,
\* 387, 562).
THEOREM ScenesKeepPoolWhole == CacheSpec => []PoolWhole
<1>1. Pool!Spec => []Pool!PoolWhole
  BY ScenesAssumption, Pool!PoolStaysWhole
<1>2. Pool!Spec => []Pool!SomeoneGoesOn
  BY ScenesAssumption, Pool!PoolGoesOn
<1>3. Scoped!Spec => []Scoped!PoolWhole
  BY ScenesAssumption, Scoped!PoolStaysWhole
<1>4. Cancels!Spec => []Cancels!PoolWhole
  BY ScenesAssumption, Cancels!PoolStaysWhole
<1>5. QED
  BY <1>1, <1>2, <1>3, <1>4, ScenesStay, PTL DEF PoolWhole

\* Calls in the scopes of two tenants read and delete what is their own
\* (db/postgres.py:433).
THEOREM ScenesKeepTenantsApart == CacheSpec => []TenantsApart
<1>1. Scoped!Spec => []Scoped!TenantsApart
  BY ScenesAssumption, Scoped!TenantsStayApart
<1>2. QED
  BY <1>1, ScenesStay, PTL DEF TenantsApart

LEMMA LayersStay ==
    CacheSpec => ([](~(scene = "one")) \/ One!Spec) /\ ([](~(scene = "raises")) \/ Raises!Spec)
<1>1. CacheInit => (scene = "one" => One!Init) /\ (scene = "raises" => Raises!Init)
  BY DEF CacheInit, One!Init, Raises!Init, One!Idle, Raises!Idle
<1>2. [CacheNext]_all => /\ ~(scene = "one") => (~(scene = "one"))'
                         /\ scene = "one" => (scene = "one")' /\ [One!Next]_(One!vars)
  BY DEF CacheNext, Claiming, Pooling, Caching, Layering, Contexting, Stop, all, layers,
         One!vars, One!shared, One!ghosts
<1>3. [CacheNext]_all => /\ ~(scene = "raises") => (~(scene = "raises"))'
                         /\ scene = "raises" => (scene = "raises")' /\ [Raises!Next]_(Raises!vars)
  BY DEF CacheNext, Claiming, Pooling, Caching, Layering, Contexting, Stop, all, layers,
         Raises!vars, Raises!shared, Raises!ghosts
<1>4. QED
  BY <1>1, <1>2, <1>3, PTL DEF CacheSpec, One!Spec, Raises!Spec

\* One caller of the layered cache never gets what it deleted, replaced or
\* invalidated, also when Redis raises, and the layers agree while it does not
\* (cache/layered.py:126).
THEOREM ScenesReadOwn == CacheSpec => []LayersAgree
<1>1. One!OneCaller
  <2>1. \A x, y \in {IF ttl = 0 THEN 2 ELSE ttl : ttl \in {0}} : x = y
    OBVIOUS
  <2>2. QED
    BY <2>1 DEF One!OneCaller, One!Lasting
<1>2. Raises!OneCaller
  <2>1. \A x, y \in {IF ttl = 0 THEN 2 ELSE ttl : ttl \in {0}} : x = y
    OBVIOUS
  <2>2. QED
    BY <2>1 DEF Raises!OneCaller, Raises!Lasting
<1>3. One!Spec => [](One!NotDead /\ ({} \subseteq {"get"} => One!LayersAgree))
  BY ScenesAssumption, <1>1, One!OneCallerReadsOwn
<1>4. Raises!Spec => [](Raises!NotDead /\ ({"get", "tags"} \subseteq {"get"} => Raises!LayersAgree))
  BY ScenesAssumption, <1>2, Raises!OneCallerReadsOwn
<1>5. {} \subseteq {"get"}
  OBVIOUS
<1>6. QED
  BY <1>3, <1>4, <1>5, LayersStay, PTL DEF LayersAgree

\* Scenes of the record cache and of contexts are behaviours of their own.
LEMMA RecordsStay ==
    CacheSpec => /\ [](~(scene = "age")) \/ Keeps(age)!Spec
                 /\ [](~(scene = "quiet")) \/ Keeps(still)!Spec
                 /\ [](~(scene = "apart")) \/ Graph(apart)!Spec
                 /\ [](~(scene = "mixed")) \/ Graph(mixed)!Spec
<1>1. CacheInit => /\ scene = "age" => Keeps(age)!Init
                   /\ scene = "quiet" => Keeps(still)!Init
                   /\ scene = "apart" => Graph(apart)!Init
                   /\ scene = "mixed" => Graph(mixed)!Init
  BY DEF CacheInit
<1>2. [CacheNext]_all => /\ ~(scene = "age") => (~(scene = "age"))'
                         /\ scene = "age" => (scene = "age")' /\ [Keeps(age)!Next]_(Keeps(age)!vars)
  BY DEF CacheNext, Claiming, Pooling, Caching, Layering, Contexting, Stop, all, records, Keeps!vars
<1>3. [CacheNext]_all => /\ ~(scene = "quiet") => (~(scene = "quiet"))'
                         /\ scene = "quiet" => (scene = "quiet")' /\ [Keeps(still)!Next]_(Keeps(still)!vars)
  BY DEF CacheNext, Claiming, Pooling, Caching, Layering, Contexting, Stop, all, records, Keeps!vars
<1>4. [CacheNext]_all => /\ ~(scene = "apart") => (~(scene = "apart"))'
                         /\ scene = "apart" => (scene = "apart")'
                                                /\ [Graph(apart)!Next]_(Graph(apart)!ctxVars)
  BY DEF CacheNext, Claiming, Pooling, Caching, Layering, Contexting, Stop, all, contexts,
     Graph!ctxVars, Graph!defaults
<1>5. [CacheNext]_all => /\ ~(scene = "mixed") => (~(scene = "mixed"))'
                         /\ scene = "mixed" => (scene = "mixed")'
                                                /\ [Graph(mixed)!Next]_(Graph(mixed)!ctxVars)
  BY DEF CacheNext, Claiming, Pooling, Caching, Layering, Contexting, Stop, all, contexts,
     Graph!ctxVars, Graph!defaults
<1> QED
  BY <1>1, <1>2, <1>3, <1>4, <1>5, PTL DEF CacheSpec, Keeps!Spec, Graph!Spec

\* No record is served past its ttl and one call (db/_cache.py:64), none that no write
\* overlapped is stale; the cache of a context follows its database while calls do not
\* overlap, and holds nothing unwritten however they do (core/context.py:489, 932).
THEOREM ScenesAreFresh == CacheSpec => []RecordsFresh
<1>1. Keeps(age)!Spec => []Keeps(age)!AgeBound
  <2>1. Keeps(age)!Assumptions /\ ~age.fails
    BY ScenesAssumption DEF age
  <2>2. Keeps(age)!Init => Keeps(age)!Typed /\ Keeps(age)!Aged
    BY <2>1, InitTyped, AgedInit
  <2>3. Keeps(age)!Typed /\ Keeps(age)!Aged /\ [Keeps(age)!Next]_(Keeps(age)!vars)
          => Keeps(age)!Typed' /\ Keeps(age)!Aged'
    BY <2>1, KeptStep, AgedStep
  <2>4. Keeps(age)!Aged => Keeps(age)!AgeBound
    BY <2>1, AgedServes
  <2> QED
    BY <2>2, <2>3, <2>4, PTL DEF Keeps!Spec
<1>2. Keeps(still)!Spec => []Keeps(still)!QuietCoherent
  <2>1. Keeps(still)!Assumptions /\ ~still.outside /\ ~still.fails
    BY ScenesAssumption DEF still
  <2>2. Keeps(still)!Init => Keeps(still)!Typed /\ Keeps(still)!Quieted
    BY <2>1, InitTyped, QuietInit
  <2>3. Keeps(still)!Typed /\ Keeps(still)!Quieted /\ [Keeps(still)!Next]_(Keeps(still)!vars)
          => Keeps(still)!Typed' /\ Keeps(still)!Quieted'
    BY <2>1, KeptStep, QuietStep
  <2>4. Keeps(still)!Typed /\ Keeps(still)!Quieted => Keeps(still)!QuietCoherent
    BY QuietServes
  <2> QED
    BY <2>2, <2>3, <2>4, PTL DEF Keeps!Spec
<1>3. Graph(apart)!Spec => []Graph(apart)!CacheMatches
  <2>1. Tidy(apart)
    BY ScenesAssumption DEF Tidy, apart
  <2>2. Graph(apart)!Init => Graph(apart)!Types /\ Graph(apart)!Apart /\ Graph(apart)!Matching
    BY <2>1, MatchesInit
  <2>3. Graph(apart)!Types /\ Graph(apart)!Apart /\ Graph(apart)!Matching
          /\ [Graph(apart)!Next]_(Graph(apart)!ctxVars)
            => Graph(apart)!Types' /\ Graph(apart)!Apart' /\ Graph(apart)!Matching'
    BY <2>1, GraphTypes, MatchesStep DEF Tidy
  <2>4. Graph(apart)!Matching => Graph(apart)!CacheMatches
    BY DEF Graph!Matching, Graph!CacheMatches, Graph!Writing
  <2> QED
    BY <2>2, <2>3, <2>4, PTL DEF Graph!Spec
<1>4. Graph(mixed)!Spec => []Graph(mixed)!NeverUnwritten
  <2>1. Graph(mixed)!Init => Graph(mixed)!Types /\ Graph(mixed)!AllWritten
    BY ScenesAssumption, GraphInit
  <2>2. Graph(mixed)!Types /\ Graph(mixed)!AllWritten /\ [Graph(mixed)!Next]_(Graph(mixed)!ctxVars)
          => Graph(mixed)!Types' /\ Graph(mixed)!AllWritten'
    BY ScenesAssumption, GraphTypes, WrittenStep
  <2>3. Graph(mixed)!AllWritten => Graph(mixed)!NeverUnwritten
    BY DEF Graph!AllWritten, Graph!NeverUnwritten, Graph!Seen
  <2> QED
    BY <2>1, <2>2, <2>3, PTL DEF Graph!Spec
<1> QED
  BY <1>1, <1>2, <1>3, <1>4, RecordsStay, PTL DEF RecordsFresh
=============================================================================
