------------------------------ MODULE Contexts ------------------------------
(***************************************************************************)
(* Which graph context a task uses, which database that context uses, and  *)
(* what the context's entity cache keeps (core/context.py, db/manager.py). *)
(*                                                                         *)
(* slot is the ContextVar, one value per task, copied to a task that is    *)
(* spawned; fallback is the module's default for tasks that inherited      *)
(* none.  manager is the singleton DatabaseManager: the prime database,    *)
(* the named ones and the current name; auto says that nobody configured   *)
(* it.  base[c] is the database of context c, Absent until it is first     *)
(* needed.  A call of a context is asynchronous: the database answers in a *)
(* step of its own, and the cache is brought up to date after it.          *)
(* Entities are plain objects; a node's save and the edge lists are in     *)
(* GraphEdges.  The request identity map (context.py:33) is left out: the  *)
(* library never begins one.                                               *)
(***************************************************************************)
EXTENDS Naturals, Sequences, FiniteSets

CONSTANTS
    Tasks, Main,    \* Main runs first; the others are spawned, or arrive
    Contexts,       \* the contexts that may be made
    Private,        \* those that are only ever bound for a scope
    Dbs, Jvdb,      \* databases; Jvdb is the one made from the environment
    Names,          \* names of databases other than "prime"
    Ids, Vals,      \* entities' ids, and their contents
    Absent,
    Does,           \* what happens beside calls, see Next
    Faults,         \* a write may fail: "clean" without effect, "late" after it
    Batched,        \* the adapter has batch_write
    Overlap,        \* calls of one context may overlap
    Shared,         \* two contexts may have one database
    MaxCalls        \* bound on the calls and the changes of contexts

Assumptions ==
    /\ Main \in Tasks /\ Private \subseteq Contexts /\ Jvdb \in Dbs
    /\ Absent \notin Contexts \cup Dbs \cup Vals /\ "prime" \notin Names
    /\ Does \subseteq {"scope", "set", "clear", "forget", "spawn", "configure",
                       "names", "switch", "database", "calls"}
    /\ Faults \subseteq {"clean", "late"} /\ MaxCalls \in Nat
    /\ {Batched, Overlap, Shared} \subseteq BOOLEAN

VARIABLES
    slot,       \* task -> its default context
    scopes,     \* task -> the scopes it is in, outermost first
    heirs,      \* task -> the private contexts of the scopes it was spawned in
    running,    \* the tasks there are
    fallback,   \* _module_default_context
    unmade,     \* the contexts not made yet
    strays,     \* the contexts made for a task after one was configured
    configured, \* a default was set, and not cleared for everyone
    manager, base,
    held,       \* context -> its entity cache
    store,      \* database -> its records
    written,    \* what any database ever held, as <<id, content>>
    asked,      \* task -> its call under way
    count       \* calls and changes so far

defaults == <<slot, scopes, heirs, running, fallback, unmade, strays, configured>>
ctxVars == <<defaults, manager, base, held, store, written, asked, count>>

Maybe(X) == X \cup {Absent}
None == [i \in Ids |-> Absent]
Idle == [op |-> "none", c |-> Absent, d |-> Absent, ids |-> <<>>, v |-> Absent,
         pc |-> "idle", read |-> None]
Ops == {"get", "gets", "save", "saves", "delete", "deletes"}

NoManager == [made |-> FALSE, auto |-> FALSE, current |-> "prime",
              dbs |-> [n \in {} |-> Absent]]

Init ==
    /\ slot = [t \in Tasks |-> Absent] /\ scopes = [t \in Tasks |-> <<>>]
    /\ heirs = [t \in Tasks |-> {}] /\ running = {Main}
    /\ fallback = Absent /\ unmade = Contexts /\ strays = {} /\ configured = FALSE
    /\ manager = NoManager /\ base = [c \in Contexts |-> Absent]
    /\ held = [c \in Contexts |-> None] /\ store = [d \in Dbs |-> None]
    /\ written = {} /\ asked = [t \in Tasks |-> Idle] /\ count = 0

Counted == count < MaxCalls /\ count' = count + 1
Free(t) == t \in running /\ asked[t].pc = "idle" /\ Counted

Calm(c) == Overlap \/ \A t \in Tasks : asked[t].c # c
Own(c, d) == Shared \/ \A x \in Contexts \ {c} : base[x] # d
-----------------------------------------------------------------------------
(* The database manager.                                                   *)

\* The instance, made from the environment when there is none.
get_instance ==
    IF manager.made THEN manager
    ELSE [made |-> TRUE, auto |-> TRUE, current |-> "prime",
          dbs |-> [n \in {"prime"} |-> Jvdb]]

With(m, n, d) == [m EXCEPT !.dbs = [x \in DOMAIN m.dbs \cup {n} |->
                                     IF x = n THEN d ELSE m.dbs[x]]]

\* The current name falls back to prime when its database is gone.
get_current_database(m) == m.dbs[IF m.current \in DOMAIN m.dbs THEN m.current ELSE "prime"]

set_prime_database(d) == [With(get_instance, "prime", d) EXCEPT !.auto = FALSE]

register_database(n, d) == n \notin DOMAIN get_instance.dbs /\ manager' = With(get_instance, n, d)

unregister_database(n) ==
    /\ n \in DOMAIN manager.dbs \ {"prime"}
    /\ manager' = [manager EXCEPT !.dbs = [x \in DOMAIN @ \ {n} |-> @[x]],
                                  !.current = IF @ = n THEN "prime" ELSE @]

set_current_database(n) ==
    n \in DOMAIN manager.dbs /\ manager' = [manager EXCEPT !.current = n]

reset ==
    /\ manager.made
    /\ manager' = [manager EXCEPT !.dbs = [n \in {"prime"} |-> @["prime"]],
                                  !.current = "prime"]

Manage ==
    /\ "names" \in Does /\ Counted
    /\ \/ \E n \in Names : \E d \in Dbs : register_database(n, d)
       \/ \E n \in Names : unregister_database(n)
       \/ \E n \in Names \cup {"prime"} : set_current_database(n)
       \/ reset
    /\ UNCHANGED <<defaults, base, held, store, written, asked>>
-----------------------------------------------------------------------------
(* Default contexts.                                                       *)

\* A context that is made when first needed; a private one never is.
Fresh == CHOOSE c \in unmade \ Private : TRUE

Refused == manager.made /\ manager.auto

\* The default of a task can be had: its own, the process's, or a new one.
Available(t) == \/ slot[t] # Absent \/ fallback # Absent
                \/ ~Refused /\ unmade \ Private # {}

get_default_context(t) ==
    IF slot[t] # Absent THEN slot[t] ELSE IF fallback # Absent THEN fallback ELSE Fresh

\* The lookup binds what it found to the task.
Bound(t) ==
    LET c == get_default_context(t)
        new == slot[t] = Absent /\ fallback = Absent
    IN  /\ slot' = [slot EXCEPT ![t] = c] /\ unmade' = unmade \ {c}
        /\ strays' = IF new /\ configured THEN strays \cup {c} ELSE strays
        /\ UNCHANGED <<scopes, heirs, running, fallback, configured>>

\* A scope that the task sets or clears its default in is no longer the scope's.
Overruled(t) == [scopes EXCEPT ![t] = [k \in DOMAIN @ |-> [@[k] EXCEPT !.own = FALSE]]]

Recorded(t, c) ==
    /\ slot' = [slot EXCEPT ![t] = c] /\ fallback' = c /\ scopes' = Overruled(t)
    /\ configured' = TRUE /\ unmade' = unmade \ {c}
    /\ UNCHANGED <<heirs, running, strays>>

set_default_context(t, c) ==
    /\ "set" \in Does /\ Free(t) /\ c \notin Private
    /\ Recorded(t, c)
    /\ UNCHANGED <<manager, base, held, store, written, asked>>

clear_default_context(t) ==
    /\ "clear" \in Does /\ Free(t)
    /\ slot' = [slot EXCEPT ![t] = Absent] /\ scopes' = Overruled(t)
    /\ UNCHANGED <<heirs, running, fallback, unmade, strays, configured>>
    /\ UNCHANGED <<manager, base, held, store, written, asked>>

clear_default_context_global(t) ==
    /\ "forget" \in Does /\ Free(t)
    /\ slot' = [slot EXCEPT ![t] = Absent] /\ scopes' = Overruled(t)
    /\ fallback' = Absent /\ configured' = FALSE /\ strays' = {}
    /\ UNCHANGED <<heirs, running, unmade>>
    /\ UNCHANGED <<manager, base, held, store, written, asked>>

EnteredForAll(t, c) == slot' = [slot EXCEPT ![t] = c] /\ fallback' = c   \* mutant of Entered

\* The token keeps what the slot held before.
Entered(t, c) == slot' = [slot EXCEPT ![t] = c] /\ UNCHANGED fallback

\* A context with a database of its own is bound for a scope.
scoped_default_context(t, c) ==
    /\ "scope" \in Does /\ Free(t) /\ c \in Private
    /\ IF c \notin unmade THEN UNCHANGED base
       ELSE \E d \in Dbs : Own(c, d) /\ base' = [base EXCEPT ![c] = d]
    /\ Entered(t, c) /\ unmade' = unmade \ {c}
    /\ scopes' = [scopes EXCEPT ![t] = Append(@, [c |-> c, old |-> slot[t], own |-> TRUE])]
    /\ UNCHANGED <<heirs, running, strays, configured>>
    /\ UNCHANGED <<manager, held, store, written, asked>>

\* Returned or raised, the body's scope ends.
Left(t) ==
    /\ t \in running /\ asked[t].pc = "idle" /\ scopes[t] # <<>>
    /\ LET n == Len(scopes[t]) IN
       /\ slot' = [slot EXCEPT ![t] = scopes[t][n].old]
       /\ scopes' = [scopes EXCEPT ![t] = SubSeq(@, 1, n - 1)]
    /\ UNCHANGED <<heirs, running, fallback, unmade, strays, configured>>
    /\ UNCHANGED <<manager, base, held, store, written, asked, count>>

\* A task is created by another, whose slot it inherits, or by the server's
\* machinery outside any task's context.
Spawn(u) ==
    /\ "spawn" \in Does /\ u \notin running /\ running' = running \cup {u}
    /\ \/ \E t \in running :
            /\ slot' = [slot EXCEPT ![u] = slot[t]]
            /\ heirs' = [heirs EXCEPT ![u] =
                           heirs[t] \cup {scopes[t][k].c : k \in DOMAIN scopes[t]}]
       \/ UNCHANGED <<slot, heirs>>
    /\ UNCHANGED <<scopes, fallback, unmade, strays, configured>>
    /\ UNCHANGED <<manager, base, held, store, written, asked, count>>

\* The server sets the prime database, and a context over the current one as default.
initialize_graph_context(t) ==
    /\ "configure" \in Does /\ Free(t) /\ unmade \ Private # {}
    /\ \E d \in Dbs \ {Jvdb} :
         LET m == set_prime_database(d) IN
         /\ Own(Fresh, get_current_database(m)) /\ manager' = m
         /\ base' = [base EXCEPT ![Fresh] = get_current_database(m)]
         /\ Recorded(t, Fresh)
    /\ UNCHANGED <<held, store, written, asked>>
-----------------------------------------------------------------------------
(* The database of a context.                                              *)

\* The property database: kept once known, the manager's current one otherwise;
\* a manager that nobody configured is refused, one that is not there is made.
Known(c) ==
    \/ base[c] # Absent /\ UNCHANGED <<manager, base>>
    \/ /\ base[c] = Absent /\ ~Refused /\ Own(c, get_current_database(get_instance))
       /\ manager' = get_instance
       /\ base' = [base EXCEPT ![c] = get_current_database(get_instance)]

RebasedOnly(c, d) == base' = [base EXCEPT ![c] = d] /\ UNCHANGED held   \* mutant of Rebased

\* The cache is cleared, as it is not on the two ways below.
Rebased(c, d) == base' = [base EXCEPT ![c] = d] /\ held' = [held EXCEPT ![c] = None]

set_database(t, d) ==
    /\ "database" \in Does /\ Free(t) /\ Available(t)
    /\ LET c == get_default_context(t) IN
       /\ Calm(c) /\ Own(c, d) /\ Bound(t) /\ Rebased(c, d)
    /\ UNCHANGED <<manager, store, written, asked>>

Switched(t, n) ==
    /\ "switch" \in Does /\ Free(t) /\ Available(t) /\ n \in DOMAIN get_instance.dbs
    /\ LET c == get_default_context(t)
           m == [get_instance EXCEPT !.current = n]
       IN  /\ Calm(c) /\ Own(c, m.dbs[n]) /\ Bound(t)
           /\ manager' = m /\ base' = [base EXCEPT ![c] = m.dbs[n]]
    /\ UNCHANGED <<held, store, written, asked>>

switch_database(t) == \E n \in Names : Switched(t, n)
use_prime_database(t) == Switched(t, "prime")
-----------------------------------------------------------------------------
(* Calls of a context.                                                     *)

Every == CHOOSE q \in [1..Cardinality(Ids) -> Ids] : \A i \in Ids : \E k \in DOMAIN q : q[k] = i
IdsOf(op) == IF op \in {"gets", "saves", "deletes"} THEN {Every} ELSE {<<i>> : i \in Ids}

Uncached(c, ids) == SelectSeq(ids, LAMBDA i : held[c][i] = Absent)

\* What the cache has is answered at once; the rest is asked of the database.
Call(t, op, v) ==
    /\ "calls" \in Does /\ Free(t) /\ Available(t)
    /\ LET c == get_default_context(t) IN
       /\ Calm(c) /\ Bound(t)
       /\ \E ids \in IdsOf(op) :
            LET left == IF op \in {"get", "gets"} THEN Uncached(c, ids) ELSE ids IN
            IF left = <<>> THEN UNCHANGED <<manager, base, asked>>
            ELSE /\ Known(c)
                 /\ asked' = [asked EXCEPT ![t] =
                      [op |-> op, c |-> c, d |-> base'[c], ids |-> left, v |-> v, read |-> None,
                       pc |-> IF op = "saves" /\ Batched THEN "bulk" ELSE "ask"]]
    /\ UNCHANGED <<held, store, written>>

Doing(t, ops, pc) == asked[t].op \in ops /\ asked[t].pc = pc
At(t, pc) == asked' = [asked EXCEPT ![t].pc = pc]
Done(t) == asked' = [asked EXCEPT ![t] = Idle]

\* The rest of a batch; a single call is over.
Onward(t) ==
    IF Len(asked[t].ids) = 1 THEN Done(t)
    ELSE asked' = [asked EXCEPT ![t].ids = Tail(@), ![t].pc = "ask"]

Rest == UNCHANGED <<defaults, manager, base, count>>

get(t) ==
    /\ Rest /\ UNCHANGED <<store, written>> /\ asked[t].op \in {"get", "gets"}
    /\ \/ /\ asked[t].pc = "ask" /\ UNCHANGED held
          /\ asked' = [asked EXCEPT ![t].pc = "read", ![t].read = store[asked[t].d]]
       \/ /\ asked[t].pc = "read" /\ Done(t)
          /\ held' = [held EXCEPT ![asked[t].c] =
               [i \in Ids |-> IF asked[t].read[i] # Absent
                                 /\ \E k \in DOMAIN asked[t].ids : asked[t].ids[k] = i
                              THEN asked[t].read[i] ELSE @[i]]]

Put(d, I, v) ==
    /\ store' = [store EXCEPT ![d] = [i \in Ids |-> IF i \in I THEN v ELSE @[i]]]
    /\ written' = IF v = Absent THEN written ELSE written \cup {<<i, v>> : i \in I}

\* A write that fails ends a single call, and is skipped in a batch.
Failing(t) ==
    /\ Onward(t) /\ UNCHANGED held
    /\ \/ "clean" \in Faults /\ UNCHANGED <<store, written>>
       \/ "late" \in Faults /\ Put(asked[t].d, {Head(asked[t].ids)}, asked[t].v)

\* A save of one entity, alone or in a batch: written, then cached.
save(t) ==
    /\ Rest /\ asked[t].op \in {"save", "saves"}
    /\ \/ /\ asked[t].pc = "ask" /\ At(t, "wrote") /\ UNCHANGED held
          /\ Put(asked[t].d, {Head(asked[t].ids)}, asked[t].v)
       \/ asked[t].pc = "ask" /\ Failing(t)
       \/ /\ asked[t].pc = "wrote" /\ Onward(t) /\ UNCHANGED <<store, written>>
          /\ held' = [held EXCEPT ![asked[t].c][Head(asked[t].ids)] = asked[t].v]

\* batch_write writes all, or fails having written some: then each is saved.
save_batch(t) ==
    /\ Rest
    /\ \/ /\ Doing(t, {"saves"}, "bulk") /\ UNCHANGED held
          /\ \/ Put(asked[t].d, Ids, asked[t].v) /\ At(t, "all")
             \/ /\ Faults # {} /\ At(t, "ask")
                /\ \E I \in SUBSET Ids : Put(asked[t].d, I, asked[t].v)
       \/ /\ Doing(t, {"saves"}, "all") /\ Done(t) /\ UNCHANGED <<store, written>>
          /\ held' = [held EXCEPT ![asked[t].c] = [i \in Ids |-> asked[t].v]]

\* Deleted, then taken from the cache.
delete(t) ==
    /\ Rest /\ asked[t].op \in {"delete", "deletes"}
    /\ \/ /\ asked[t].pc = "ask" /\ At(t, "wrote") /\ UNCHANGED held
          /\ Put(asked[t].d, {Head(asked[t].ids)}, Absent)
       \/ asked[t].pc = "ask" /\ Failing(t)
       \/ /\ asked[t].pc = "wrote" /\ Onward(t) /\ UNCHANGED <<store, written>>
          /\ held' = [held EXCEPT ![asked[t].c][Head(asked[t].ids)] = Absent]

Begin(t) ==
    \/ \E op \in Ops \ {"save", "saves"} : Call(t, op, Absent)
    \/ \E op \in {"save", "saves"} : \E v \in Vals : Call(t, op, v)

Next ==
    \/ Manage
    \/ \E u \in Tasks : Spawn(u)
    \/ \E t \in Tasks :
         \/ Begin(t) \/ get(t) \/ save(t) \/ save_batch(t) \/ delete(t)
         \/ \E c \in Contexts : set_default_context(t, c) \/ scoped_default_context(t, c)
         \/ Left(t) \/ clear_default_context(t) \/ clear_default_context_global(t)
         \/ initialize_graph_context(t)
         \/ \E d \in Dbs : set_database(t, d)
         \/ switch_database(t) \/ use_prime_database(t)

Spec == Init /\ [][Next]_ctxVars
-----------------------------------------------------------------------------
Scopes == [c : Private, old : Maybe(Contexts), own : BOOLEAN]
Managers == [made : BOOLEAN, auto : BOOLEAN, current : Names \cup {"prime"},
             dbs : UNION {[S -> Dbs] : S \in SUBSET (Names \cup {"prime"})}]

\* A call has its context and its database; it is for a content if it saves.
Asks(a) ==
    /\ DOMAIN a = {"op", "c", "d", "ids", "v", "pc", "read"}
    /\ IF a.pc = "idle" THEN a.c = Absent ELSE a.c \in Contexts /\ a.d \in Dbs
    /\ a.pc \in {"idle", "ask", "read", "bulk", "all", "wrote"}
    /\ IF a.op \in {"save", "saves"} THEN a.v \in Vals ELSE a.v = Absent
    /\ a.read \in [Ids -> Maybe(Vals)]

Types ==
    /\ slot \in [Tasks -> Maybe(Contexts)] /\ fallback \in Maybe(Contexts)
    /\ scopes \in [Tasks -> Seq(Scopes)] /\ running \subseteq Tasks /\ unmade \subseteq Contexts
    /\ manager \in Managers
    /\ manager.made => {"prime", manager.current} \subseteq DOMAIN manager.dbs
    /\ base \in [Contexts -> Maybe(Dbs)]
    /\ held \in [Contexts -> [Ids -> Maybe(Vals)]]
    /\ store \in [Dbs -> [Ids -> Maybe(Vals)]]
    /\ DOMAIN asked = Tasks /\ \A t \in Tasks : Asks(asked[t])

TypeOK ==
    /\ Types /\ heirs \in [Tasks -> SUBSET Private] /\ strays \subseteq Contexts \ unmade
    /\ configured \in BOOLEAN /\ count \in 0..MaxCalls /\ written \subseteq Ids \X Vals

\* A context bound for a scope (context.py:2296) is the default inside it, and
\* never of a task that is neither in the scope nor was spawned in it; nor is it
\* the process's fallback.
ScopesHold ==
    /\ fallback \notin Private
    /\ \A t \in Tasks :
         /\ slot[t] \in Private =>
              slot[t] \in heirs[t] \cup {scopes[t][k].c : k \in DOMAIN scopes[t]}
         /\ scopes[t] # <<>> /\ scopes[t][Len(scopes[t])].own =>
              slot[t] = scopes[t][Len(scopes[t])].c

\* Once a default context is configured, no task is given a context made for the
\* occasion (the fallback, context.py:2218-2231), whatever the task inherited.
NoStrays == strays = {}

\* What a context's cache holds was written by a save (context.py:932): a save that
\* failed, or is not done yet, is not to be read.
NeverUnwritten == \A c \in Contexts : \A i \in Ids :
    held[c][i] = Absent \/ <<i, held[c][i]>> \in written

\* A context that no call is using has cached nothing but what its own database
\* holds (context.py:489: the cache is cleared when the database changes).
CacheMatches == \A c \in Contexts : (\A t \in Tasks : asked[t].c # c) =>
    \A i \in Ids : held[c][i] # Absent => base[c] # Absent /\ held[c][i] = store[base[c]][i]

\* What is known of a content wherever it is kept: a save wrote it.
Seen(i, v) == v = Absent \/ <<i, v>> \in written
AllWritten ==
    /\ \A d \in Dbs : \A i \in Ids : Seen(i, store[d][i])
    /\ \A c \in Contexts : \A i \in Ids : Seen(i, held[c][i])
    /\ \A t \in Tasks :
         /\ \A i \in Ids : Seen(i, asked[t].read[i])
         /\ asked[t].pc = "wrote" => Seen(Head(asked[t].ids), asked[t].v)
         /\ asked[t].pc = "all" => \A i \in Ids : Seen(i, asked[t].v)

\* Why a cache matches: a context has one call at a time, and a database to itself.
Writing(c, i) == \E t \in Tasks : asked[t].c = c /\ asked[t].pc = "wrote" /\ Head(asked[t].ids) = i
Apart ==
    /\ \A c \in unmade : base[c] = Absent
    /\ \A c, x \in Contexts : base[c] = base[x] /\ base[c] # Absent => c = x
    /\ \A t, u \in Tasks : asked[t].c = asked[u].c /\ asked[t].c # Absent => t = u
    /\ \A t \in Tasks :
         LET a == asked[t] IN
         /\ a.pc # "idle" => base[a.c] = a.d
         /\ a.pc \notin {"bulk", "all"}
         /\ a.pc = "read" => a.read = store[a.d]
         /\ a.pc = "wrote" => \A i \in Ids : i = Head(a.ids) => store[a.d][i] = a.v
Matching ==
    \A c \in Contexts : \A i \in Ids : held[c][i] # Absent =>
        /\ base[c] # Absent
        /\ held[c][i] = store[base[c]][i] \/ Writing(c, i)
=============================================================================
