-------------------------------- MODULE PgPool --------------------------------
(***************************************************************************)
(* The connections of a PostgresDB (db/postgres.py): the pool, opened on   *)
(* first use; calls that take a connection each, some in the scope of a    *)
(* tenant; transactions (db/transaction.py) and iterations, which keep one *)
(* while their body makes further calls; and the tables, which the first   *)
(* call on a collection creates, over a connection of its own.             *)
(***************************************************************************)
EXTENDS Naturals, Sequences, SequencesExt, FiniteSets, FiniteSetTheorems, SequenceTheorems, TLAPS

CONSTANTS Tasks, Holders,       \* tasks, and those that open transactions or iterations
          Conns,                \* the connections of the pool, max_size of them
          Collections, Guarded, \* and those under enable_rls
          Tenants, None,
          Warm,                 \* collections are in use when the tasks begin
          Faults,               \* statements may fail
          Abandons,             \* start may fail, tasks may be cancelled
          MaxNested, MaxCalls   \* bounds: scopes of a task, its calls

Assumptions ==
    /\ IsFiniteSet(Tasks) /\ IsFiniteSet(Conns) /\ Conns # {}
    /\ Holders \subseteq Tasks /\ Guarded \subseteq Collections
    /\ {"none", "ready"} \cap Tasks = {} /\ None \notin Tasks \cup Conns \cup Tenants /\ {Warm, Faults, Abandons} \subseteq BOOLEAN
    /\ {MaxNested, MaxCalls} \subseteq Nat

VARIABLES pool,         \* "none", "ready", or the task that opens it, under _pool_lock
          opened,       \* pools opened in this event loop
          made,         \* _collections_bootstrapped
          user,         \* per connection: who took it out of the pool
          setting,      \* per connection: app.tenant_id of its session
          rows,         \* the tables: which tenants have a row in a collection
          scope,        \* per task: _active_tenant, the scopes around it
          call, outer,  \* per task: the call it makes, and what is open around it
          calls

vars == <<pool, opened, made, user, setting, rows, scope, call, outer, calls>>

Resting == [op |-> "none", pc |-> "done", coll |-> None, tenant |-> None,
            conn |-> None, seen |-> {}, under |-> None]
Closed == [kind |-> "none", conn |-> None, writes |-> {},
           aborted |-> FALSE, under |-> None]
Scoped == {"read", "write", "iter"}
Bare == {"find_one", "txn"}
Handle == {"page", "load", "save"}

Call == [op : Scoped \cup Bare \cup Handle \cup {"none"},
         pc : {"done", "make", "making", "acquire", "start", "set", "query"},
         coll : Collections \cup {None}, tenant : Tenants \cup {None},
         conn : Conns \cup {None}, seen : SUBSET Tenants, under : Tenants \cup {None}]
Outer == [kind : {"none", "txn", "iter"}, conn : Conns \cup {None},
          writes : SUBSET (Collections \X Tenants), aborted : BOOLEAN,
          under : Tenants \cup {None}]

TypeOK ==
    /\ pool \in {"none", "ready"} \cup Tasks /\ opened \in Nat
    /\ made \subseteq Collections /\ rows \subseteq Collections \X Tenants
    /\ user \in [Conns -> Tasks \cup {None}] /\ setting \in [Conns -> Tenants \cup {None}]
    /\ scope \in [Tasks -> Seq(Tenants)] /\ calls \in [Tasks -> 0..MaxCalls]
    /\ call \in [Tasks -> Call] /\ outer \in [Tasks -> Outer]

Init ==
    /\ IF Warm THEN pool = "ready" /\ opened = 1 ELSE pool = "none" /\ opened = 0
    /\ made = IF Warm THEN Collections ELSE {}
    /\ user = [c \in Conns |-> None] /\ setting = [c \in Conns |-> None] /\ rows = {}
    /\ scope = [t \in Tasks |-> << >>] /\ call = [t \in Tasks |-> Resting]
    /\ outer = [t \in Tasks |-> Closed] /\ calls = [t \in Tasks |-> 0]
-----------------------------------------------------------------------------
Idle(t) == call[t].pc = "done"
ActiveTenant(t) == IF scope[t] = << >> THEN None ELSE Last(scope[t])

(* tenant(...) around what follows, and its end.                           *)
tenant(t, x) ==
    /\ Idle(t) /\ outer[t].kind = "none" /\ Len(scope[t]) < MaxNested
    /\ scope' = [scope EXCEPT ![t] = Append(@, x)]
    /\ UNCHANGED <<pool, opened, made, user, setting, rows, call, outer, calls>>

LeaveTenant(t) ==
    /\ Idle(t) /\ outer[t].kind = "none" /\ scope[t] # << >>
    /\ scope' = [scope EXCEPT ![t] = Front(@)]
    /\ UNCHANGED <<pool, opened, made, user, setting, rows, call, outer, calls>>

(* A call looks whether its collection is bootstrapped; begin_transaction  *)
(* names none, and an iteration has looked when it began.  A transaction's *)
(* handle looks too, though it has a connection.                           *)
Allowed(t, op) == CASE op \in {"txn", "iter"} -> t \in Holders /\ outer[t].kind = "none"
                    [] op = "page" -> outer[t].kind = "iter"
                    [] op \in {"load", "save"} -> outer[t].kind = "txn"
                    [] OTHER -> TRUE
First(op, c) == IF op \notin {"txn", "page"} /\ c \notin made THEN "make"
                ELSE IF op \in Handle THEN "query" ELSE "acquire"
Begin(t, op, c, x) ==
    /\ Idle(t) /\ Allowed(t, op) /\ calls[t] < MaxCalls
    /\ op \in {"write", "save"} \/ x = CHOOSE y \in Tenants : TRUE
    /\ calls' = [calls EXCEPT ![t] = @ + 1]
    /\ call' = [call EXCEPT ![t] = [Resting EXCEPT !.op = op, !.pc = First(op, c),
                  !.coll = c, !.tenant = x]]
    /\ UNCHANGED <<pool, opened, made, user, setting, rows, scope, outer>>

(* _ensure_pool: who finds none opens it, the others wait at the lock.     *)
Wants(t) == call[t].pc \in {"make", "acquire"}
_ensure_pool(t) ==
    /\ Wants(t) /\ pool = "none" /\ pool' = t
    /\ UNCHANGED <<opened, made, user, setting, rows, scope, call, outer, calls>>

(* mutant: who waited at the lock opens a pool of its own *)
OpenedAgain(t) ==
    /\ pool = t \/ (Wants(t) /\ pool = "ready" /\ opened = 1)
    /\ pool' = "ready" /\ opened' = opened + 1
    /\ UNCHANGED <<made, user, setting, rows, scope, call, outer, calls>>

Opened(t) ==
    /\ pool = t /\ pool' = "ready" /\ opened' = opened + 1
    /\ UNCHANGED <<made, user, setting, rows, scope, call, outer, calls>>

Back(c) == user' = [user EXCEPT ![c] = None]

_acquire_conn(t) ==
    /\ Wants(t) /\ pool = "ready"
    /\ \E c \in Conns :
        /\ user[c] = None /\ user' = [user EXCEPT ![c] = t]
        /\ call' = [call EXCEPT ![t].conn = c, ![t].under = ActiveTenant(t),
              ![t].pc = IF @ = "make" THEN "making"
                        ELSE IF call[t].op = "txn" THEN "start"
                        ELSE IF call[t].op \in Scoped /\ ActiveTenant(t) # None THEN "set"
                        ELSE "query"]
    /\ UNCHANGED <<pool, opened, made, setting, rows, scope, outer, calls>>

(* _bootstrap_collection creates the table and gives the connection back.  *)
_bootstrap_collection(t) ==
    /\ call[t].pc = "making"
    /\ made' = made \cup {call[t].coll} /\ Back(call[t].conn)
    /\ call' = [call EXCEPT ![t].conn = None,
                  ![t].pc = IF call[t].op \in Handle THEN "query" ELSE "acquire"]
    /\ UNCHANGED <<pool, opened, setting, rows, scope, outer, calls>>

(* set_config(..., true): until the end of the transaction it opened.      *)
SetTenant(t) ==
    /\ call[t].pc = "set" /\ setting' = [setting EXCEPT ![call[t].conn] = call[t].under]
    /\ call' = [call EXCEPT ![t].pc = "query"]
    /\ UNCHANGED <<pool, opened, made, user, rows, scope, outer, calls>>
-----------------------------------------------------------------------------
(* The policy of enable_rls: rows of the tenant that the session names.    *)
Visible(coll, c) == {x \in Tenants : <<coll, x>> \in rows /\ (coll \in Guarded => x = setting[c])}
Permitted(coll, x, c) == coll \in Guarded => x = setting[c]

LocalEndNot(c) == setting       \* mutant: set_config(..., false), for the session
LocalEnd(c) == [setting EXCEPT ![c] = None]

OwnConn(t) == IF call[t].op \in Handle THEN outer[t].conn ELSE call[t].conn
Returned(t) == [Resting EXCEPT !.seen = IF call[t].coll \in Guarded
                                        THEN Visible(call[t].coll, OwnConn(t)) ELSE {},
                               !.under = IF call[t].op \in Handle THEN outer[t].under
                                         ELSE IF call[t].op \in Bare THEN None ELSE call[t].under]

(* A statement, after which `async with` gives the connection back.        *)
Ends(t) == /\ call' = [call EXCEPT ![t] = Returned(t)]
           /\ IF call[t].op \in Handle THEN UNCHANGED <<user, setting>>
              ELSE Back(call[t].conn) /\ setting' = LocalEnd(call[t].conn)

Query(t) ==
    /\ call[t].pc = "query" /\ call[t].op \in {"read", "page", "load", "find_one"}
    /\ ~(call[t].op \in Handle /\ outer[t].aborted)
    /\ Ends(t)
    /\ UNCHANGED <<pool, opened, made, rows, scope, outer, calls>>

Delete(t) ==
    /\ call[t].pc = "query" /\ call[t].op = "find_one"
    /\ \E x \in Visible(call[t].coll, call[t].conn) : rows' = rows \ {<<call[t].coll, x>>}
    /\ Ends(t)
    /\ UNCHANGED <<pool, opened, made, scope, outer, calls>>

Write(t) ==
    /\ call[t].pc = "query" /\ call[t].op \in {"write", "save"}
    /\ Permitted(call[t].coll, call[t].tenant, OwnConn(t))
    /\ ~(call[t].op \in Handle /\ outer[t].aborted)
    /\ LET row == <<call[t].coll, call[t].tenant>> IN
       IF call[t].op = "write" THEN rows' = rows \cup {row} /\ UNCHANGED outer
       ELSE outer' = [outer EXCEPT ![t].writes = @ \cup {row}] /\ UNCHANGED rows
    /\ Ends(t)
    /\ UNCHANGED <<pool, opened, made, scope, calls>>

Iterate(t) ==
    /\ call[t].pc = "query" /\ call[t].op = "iter"
    /\ outer' = [outer EXCEPT ![t] = [Closed EXCEPT !.kind = "iter", !.conn = call[t].conn,
                                               !.under = call[t].under]]
    /\ call' = [call EXCEPT ![t] = Returned(t)]
    /\ UNCHANGED <<pool, opened, made, user, setting, rows, scope, calls>>

begin_transaction(t) ==
    /\ call[t].pc = "start"
    /\ outer' = [outer EXCEPT ![t] = [Closed EXCEPT !.kind = "txn", !.conn = call[t].conn]]
    /\ call' = [call EXCEPT ![t] = Resting]
    /\ UNCHANGED <<pool, opened, made, user, setting, rows, scope, calls>>
-----------------------------------------------------------------------------
(* The end of an iteration, by its last page or by an error in its body.   *)
StopIterating(t) ==
    /\ Idle(t) /\ outer[t].kind = "iter" /\ Back(outer[t].conn)
    /\ setting' = LocalEnd(outer[t].conn) /\ outer' = [outer EXCEPT ![t] = Closed]
    /\ UNCHANGED <<pool, opened, made, rows, scope, call, calls>>

(* transaction_context: commit at the end of the body; one that raises may *)
(* have been done or not; rollback after an error of the body, after which *)
(* the error goes on.                                                      *)
Leaves(t) == /\ Idle(t) /\ outer[t].kind = "txn" /\ outer' = [outer EXCEPT ![t] = Closed]
             /\ UNCHANGED <<pool, opened, made, setting, scope, call, calls>>
Commit(t) == /\ Leaves(t) /\ Back(outer[t].conn)
             /\ rows' = IF outer[t].aborted THEN rows ELSE rows \cup outer[t].writes
CommitRaisesKept(t) == /\ Faults /\ Leaves(t) /\ UNCHANGED user     \* mutant: released on success
                       /\ rows' \in {rows, rows \cup outer[t].writes}
CommitRaises(t) == /\ Faults /\ ~outer[t].aborted /\ Leaves(t) /\ Back(outer[t].conn)
                   /\ rows' \in {rows, rows \cup outer[t].writes}
Rollback(t) == Leaves(t) /\ Back(outer[t].conn) /\ UNCHANGED rows

(* A statement fails, or the policy refuses a row: the error leaves the    *)
(* call, and what is open around it if the body does not catch it.         *)
Refused(t) == /\ call[t].pc = "query" /\ call[t].op \in {"write", "save"}
              /\ ~Permitted(call[t].coll, call[t].tenant, OwnConn(t))
Raise(t) ==
    /\ \/ Refused(t)
       \/ Faults /\ (pool = t \/ call[t].pc \in {"making", "set", "query"})
       \/ call[t].pc = "query" /\ call[t].op \in Handle /\ outer[t].aborted
    /\ call' = [call EXCEPT ![t] = Resting]
    /\ pool' = IF pool = t THEN "none" ELSE pool
    /\ IF call[t].conn = None THEN UNCHANGED <<user, setting>>
       ELSE Back(call[t].conn) /\ setting' = LocalEnd(call[t].conn)
    /\ outer' = [outer EXCEPT ![t].aborted = @ \/ (call[t].pc = "query" /\ call[t].op \in Handle)]
    /\ UNCHANGED <<opened, made, rows, scope, calls>>

(* begin_transaction raises in start.                                      *)
StartRaises(t) ==
    /\ Abandons /\ call[t].pc = "start" /\ call' = [call EXCEPT ![t] = Resting]
    /\ UNCHANGED <<pool, opened, made, user, setting, rows, scope, outer, calls>>

(* The task of a transaction is cancelled, which is no Exception: only the *)
(* connection of its call goes back.                                       *)
Cancel(t) ==
    /\ Abandons /\ outer[t].kind = "txn"
    /\ IF call[t].conn = None THEN UNCHANGED <<user, setting>>
       ELSE Back(call[t].conn) /\ setting' = LocalEnd(call[t].conn)
    /\ call' = [call EXCEPT ![t] = Resting] /\ outer' = [outer EXCEPT ![t] = Closed]
    /\ pool' = IF pool = t THEN "none" ELSE pool
    /\ UNCHANGED <<opened, made, rows, scope, calls>>

(* close, or a call in another event loop, whose tasks the old one took    *)
(* with it: _discard_pool_from_dead_loop.                                  *)
close ==
    /\ pool = "ready" /\ \A t \in Tasks : Idle(t) /\ outer[t].kind = "none"
    /\ opened > 0 /\ pool' = "none" /\ opened' = 0 /\ made' = {}
    /\ user' = [c \in Conns |-> None] /\ setting' = [c \in Conns |-> None]
    /\ UNCHANGED <<rows, scope, call, outer, calls>>

Next ==
    \/ \E t \in Tasks :
        \/ \E x \in Tenants : tenant(t, x)
        \/ LeaveTenant(t)
        \/ \E op \in Scoped \cup Bare \cup Handle, c \in Collections, x \in Tenants : Begin(t, op, c, x)
        \/ _ensure_pool(t) \/ Opened(t) \/ _acquire_conn(t) \/ _bootstrap_collection(t)
        \/ SetTenant(t) \/ Query(t) \/ Delete(t) \/ Write(t) \/ Iterate(t) \/ begin_transaction(t)
        \/ StopIterating(t) \/ Commit(t) \/ CommitRaises(t) \/ Rollback(t)
        \/ Raise(t) \/ StartRaises(t) \/ Cancel(t)
    \/ close

Spec == Init /\ [][Next]_vars
-----------------------------------------------------------------------------
\* A connection out of the pool is in use by one task, which will give it back
\* unless it may be cancelled, and one pool serves the loop (db/postgres.py:1862,
\* 387).
PoolWhole ==
    /\ Abandons \/ \A c \in Conns : user[c] # None => c \in {call[user[c]].conn, outer[user[c]].conn}
    /\ \A t \in Tasks : \A c \in {call[t].conn, outer[t].conn} \ {None} : user[c] = t
    /\ opened <= 1

\* What a call reads or changes of a guarded collection are rows of the tenant
\* in whose scope it took its connection; without a scope, none
\* (db/postgres.py:433, "only returns acme-42 rows").
TenantsApart == \A t \in Tasks : call[t].seen \subseteq {call[t].under}

\* While fewer tasks keep connections open than there are, someone can go on:
\* never is every connection kept by a task that waits for another
\* (db/postgres.py:562).
SomeoneGoesOn == ~Abandons /\ Cardinality(Holders) < Cardinality(Conns) =>
    \E c \in Conns : user[c] = None \/ ~Wants(user[c])

\* "Operations routed through this handle bypass the pool and use the held
\* connection" (db/postgres.py:1747): no transaction waits for the pool in a
\* call on its handle while transactions have all of it.
HandlesGoOn == ~\A c \in Conns : user[c] # None /\ Wants(user[c]) /\ call[user[c]].op = "save"-----------------------------------------------------------------------------
(* What the theorems below rest on.  How far a call is says whether it has *)
(* a connection, what it does says what is open around it.                 *)
CallMatches(t) ==
    /\ call[t].pc \in {"done", "make", "acquire"} => call[t].conn = None
    /\ call[t].pc \in {"making", "start", "set"} => call[t].conn # None
    /\ call[t].pc = "query" => (call[t].conn = None <=> call[t].op \in Handle)
    /\ call[t].pc = "start" => call[t].op = "txn"
    /\ call[t].pc = "set" => call[t].op \in Scoped
    /\ call[t].pc = "acquire" => call[t].op \notin Handle
    /\ call[t].pc = "query" => call[t].op \in Scoped \cup Handle \cup {"find_one"}
    /\ call[t].pc # "done" =>
         /\ call[t].op # "none" /\ call[t].seen = {} 
         /\ call[t].coll \in Collections /\ call[t].tenant \in Tenants
         /\ call[t].op \in Handle => outer[t].kind # "none"
         /\ call[t].op \in {"txn", "iter"} => outer[t].kind = "none" /\ t \in Holders
    /\ outer[t].kind # "none" => t \in Holders
    /\ outer[t].kind = "none" <=> outer[t].conn = None
    /\ outer[t].kind = "txn" => outer[t].under = None

(* A task has out of the pool what its call and what is open around it     *)
(* hold, which is not the same connection.                                 *)
Holds(t) == {call[t].conn, outer[t].conn} \ {None}
UserMatches(t) ==
    /\ \A c \in Holds(t) : user[c] = t
    /\ call[t].conn # None => call[t].conn # outer[t].conn

(* The session of a connection names the tenant of the scope it was taken  *)
(* in while a statement may run, and no tenant before and after.           *)
SettingMatches(t) ==
    /\ call[t].conn # None => setting[call[t].conn] =
         IF call[t].pc = "query" /\ call[t].op \in Scoped THEN call[t].under ELSE None
    /\ outer[t].conn # None => setting[outer[t].conn] = outer[t].under

TasksMatch ==
    \A t \in Tasks : /\ CallMatches(t) /\ UserMatches(t) /\ SettingMatches(t)
                     /\ call[t].seen \subseteq {call[t].under}

(* A connection in the pool names no tenant; one that is out of it is held *)
(* by its user, unless tasks can be abandoned.                             *)
ConnsMatch ==
    \A c \in Conns : /\ user[c] = None => setting[c] = None
                     /\ Abandons \/ \A t \in Tasks : user[c] = t => c \in Holds(t)

(* One task at most opens the pool, and has no connection as yet.          *)
OnePool ==
    /\ opened = IF pool = "ready" THEN 1 ELSE 0
    /\ \A t \in Tasks : pool = t => Wants(t)

PoolInv == TypeOK /\ TasksMatch /\ ConnsMatch /\ OnePool
(* What the invariant says of the pool, of deadlock and of the tenants.    *)
LEMMA PoolInvWhole == ASSUME Assumptions, PoolInv PROVE PoolWhole
<1>1. Abandons \/ \A c \in Conns : user[c] # None => c \in {call[user[c]].conn, outer[user[c]].conn}
  BY DEF PoolInv, ConnsMatch, Holds, TypeOK
<1>2. \A t \in Tasks : \A c \in {call[t].conn, outer[t].conn} \ {None} : user[c] = t
  BY DEF PoolInv, TasksMatch, UserMatches, Holds
<1>3. opened <= 1
  BY DEF PoolInv, OnePool
<1> QED
  BY <1>1, <1>2, <1>3 DEF PoolWhole

(* Were every connection kept by a task that waits for one, there would be *)
(* as many tasks that keep one open around their call.                     *)
LEMMA PoolInvGoesOn == ASSUME Assumptions, PoolInv PROVE SomeoneGoesOn
<1> SUFFICES ASSUME ~Abandons, Cardinality(Holders) < Cardinality(Conns),
                    \A c \in Conns : user[c] # None /\ Wants(user[c])
             PROVE  FALSE
  BY DEF SomeoneGoesOn
<1>1. \A c \in Conns : user[c] \in Holders /\ c = outer[user[c]].conn
  <2> SUFFICES ASSUME NEW c \in Conns PROVE user[c] \in Holders /\ c = outer[user[c]].conn
    OBVIOUS
  <2>1. user[c] \in Tasks /\ Wants(user[c]) /\ c # None
    BY DEF PoolInv, TypeOK, Assumptions
  <2>2. CallMatches(user[c]) /\ c \in Holds(user[c])
    BY <2>1 DEF PoolInv, TasksMatch, ConnsMatch
  <2>3. c = outer[user[c]].conn
    BY <2>1, <2>2 DEF CallMatches, Wants, Holds
  <2> QED
    BY <2>1, <2>2, <2>3 DEF CallMatches
<1>2. user \in Injection(Conns, Holders)
  <2>1. user \in [Conns -> Holders]
    BY <1>1 DEF PoolInv, TypeOK
  <2>2. \A c, d \in Conns : user[c] = user[d] => c = d
    BY <1>1
  <2> QED
    BY <2>1, <2>2 DEF Injection, IsInjective
<1>3. IsFiniteSet(Holders)
  BY FS_Subset DEF Assumptions
<1>4. Cardinality(Conns) <= Cardinality(Holders)
  BY <1>2, <1>3, FS_Injection
<1>5. Cardinality(Conns) \in Nat /\ Cardinality(Holders) \in Nat
  BY <1>3, FS_CardinalityType DEF Assumptions
<1> QED
  BY <1>4, <1>5

\* What the invariant says of the tenants.
LEMMA PoolInvTenants == PoolInv => TenantsApart
BY DEF PoolInv, TasksMatch, TenantsApart

(* At first the pool is whole or not yet opened, and nobody calls.         *)
LEMMA PoolInit == ASSUME Assumptions PROVE Init => PoolInv
<1> SUFFICES ASSUME Init PROVE PoolInv
  OBVIOUS
<1>1. TypeOK
  BY DEF Init, TypeOK, Assumptions, Resting, Closed, Call, Outer
<1>2. TasksMatch
  BY DEF Init, TasksMatch, Resting, Closed, CallMatches, UserMatches, SettingMatches, Holds
<1>3. ConnsMatch /\ OnePool
  BY DEF Init, ConnsMatch, OnePool, Assumptions
<1> QED
  BY <1>1, <1>2, <1>3 DEF PoolInv

(* A step of a task that touches no connection but one of its own or one   *)
(* of the pool, and leaves itself matched, leaves all matched.             *)
LEMMA TaskStep ==
  ASSUME Assumptions, PoolInv, TypeOK', NEW t \in Tasks, NEW c \in Conns \cup {None},
         \A s \in Tasks \ {t} : call'[s] = call[s] /\ outer'[s] = outer[s],
         c # None => user[c] \in {None, t} /\ user'[c] \in {None, t},
         c # None /\ user'[c] = None => setting'[c] = None,
         \A d \in Conns \ {c} : user'[d] = user[d] /\ setting'[d] = setting[d],
         CallMatches(t)', UserMatches(t)', SettingMatches(t)',
         call'[t].seen \subseteq {call'[t].under},
         ~Abandons => \A d \in Conns : user'[d] = t => d \in Holds(t)',
         opened' = opened, pool' = pool \/ (pool = t /\ pool' = "none"),
         pool' = t => Wants(t)'
  PROVE  PoolInv'
<1>1. \A s \in Tasks \ {t} : \A d \in Holds(s) : d \in Conns \ {c} /\ user[d] = s
  BY DEF PoolInv, TasksMatch, UserMatches, Holds, TypeOK, Call, Outer, Assumptions
<1>2. TasksMatch'
  <2> SUFFICES ASSUME NEW s \in Tasks \ {t}
               PROVE  /\ CallMatches(s)' /\ UserMatches(s)' /\ SettingMatches(s)'
                      /\ call'[s].seen \subseteq {call'[s].under}
    BY DEF TasksMatch
  <2>1. call'[s] = call[s] /\ outer'[s] = outer[s]
    OBVIOUS
  <2>2. /\ CallMatches(s) /\ UserMatches(s) /\ SettingMatches(s)
        /\ call[s].seen \subseteq {call[s].under}
    BY DEF PoolInv, TasksMatch
  <2>3. CallMatches(s)'
    BY <2>1, <2>2 DEF CallMatches
  <2>4. UserMatches(s)'
    BY <1>1, <2>1, <2>2 DEF UserMatches, Holds
  <2>5. SettingMatches(s)'
    BY <1>1, <2>1, <2>2 DEF SettingMatches, Holds
  <2> QED
    BY <2>1, <2>2, <2>3, <2>4, <2>5
<1>3. ConnsMatch'
  <2> SUFFICES ASSUME NEW d \in Conns
               PROVE  /\ user'[d] = None => setting'[d] = None
                      /\ Abandons \/ \A s \in Tasks : user'[d] = s => d \in Holds(s)'
    BY DEF ConnsMatch
  <2>1. user'[d] = None => setting'[d] = None
    BY DEF PoolInv, ConnsMatch, Assumptions
  <2>2. ASSUME ~Abandons, NEW s \in Tasks \ {t}, user'[d] = s PROVE d \in Holds(s)'
    <3>1. user[d] = s
      BY <2>2 DEF Assumptions
    <3> QED
      BY <2>2, <3>1 DEF PoolInv, ConnsMatch, Holds
  <2> QED
    BY <2>1, <2>2
<1>4. OnePool'
  <2>1. opened' = IF pool' = "ready" THEN 1 ELSE 0
    BY DEF PoolInv, OnePool, Assumptions
  <2>2. ASSUME NEW s \in Tasks \ {t}, pool' = s PROVE Wants(s)'
    <3>1. pool = s
      BY <2>2 DEF Assumptions
    <3> QED
      BY <3>1 DEF PoolInv, OnePool, Wants
  <2> QED
    BY <2>1, <2>2 DEF OnePool
<1> QED
  BY <1>2, <1>3, <1>4 DEF PoolInv

\* A call at rest, and nothing open around it, are well typed.
LEMMA RecordTypes == Resting \in Call /\ Closed \in Outer
BY DEF Resting, Closed, Call, Outer

(* What the statement of a call returns.                                   *)
LEMMA ReturnedType ==
  ASSUME TypeOK, NEW t \in Tasks
  PROVE  /\ Returned(t) \in Call /\ Returned(t).op = "none" /\ Returned(t).pc = "done"
         /\ Returned(t).conn = None
         /\ Returned(t).seen = IF call[t].coll \in Guarded THEN Visible(call[t].coll, OwnConn(t)) ELSE {}
         /\ Returned(t).under = IF call[t].op \in Handle THEN outer[t].under
                                ELSE IF call[t].op \in Bare THEN None ELSE call[t].under
<1> DEFINE seen == IF call[t].coll \in Guarded THEN Visible(call[t].coll, OwnConn(t)) ELSE {}
           under == IF call[t].op \in Handle THEN outer[t].under
                    ELSE IF call[t].op \in Bare THEN None ELSE call[t].under
<1>1. seen \in SUBSET Tenants
  BY DEF Visible
<1>2. under \in Tenants \cup {None}
  BY DEF TypeOK, Call, Outer
<1>3. Returned(t) = [Resting EXCEPT !.seen = seen, !.under = under]
  BY DEF Returned
<1> HIDE DEF seen, under
<1>4. /\ Returned(t) \in Call /\ Returned(t).op = "none" /\ Returned(t).pc = "done"
      /\ Returned(t).conn = None /\ Returned(t).seen = seen /\ Returned(t).under = under
  BY <1>1, <1>2, <1>3 DEF Resting, Call
<1> QED
  BY <1>4 DEF seen, under

(* A scope begins or ends.                                                 *)
LEMMA ScopeStep ==
  ASSUME Assumptions, PoolInv, NEW t \in Tasks, LeaveTenant(t) \/ \E x \in Tenants : tenant(t, x)
  PROVE  PoolInv'
<1>1. scope' \in [Tasks -> Seq(Tenants)]
  <2>1. CASE LeaveTenant(t)
    <3>1. scope[t] \in Seq(Tenants)
      BY DEF PoolInv, TypeOK
    <3>2. \A i \in 1..(Len(scope[t]) - 1) : scope[t][i] \in Tenants
      BY <3>1
    <3>3. Len(scope[t]) - 1 \in Int /\ 1 \in Int
      BY <3>1
    <3>4. Front(scope[t]) \in Seq(Tenants)
      BY <3>2, <3>3, SubSeqProperties DEF Front
    <3> QED
      BY <2>1, <3>4 DEF LeaveTenant, PoolInv, TypeOK
  <2>2. ASSUME NEW x \in Tenants, tenant(t, x) PROVE scope' \in [Tasks -> Seq(Tenants)]
    BY <2>2 DEF tenant, PoolInv, TypeOK
  <2> QED
    BY <2>1, <2>2
<1>2. UNCHANGED <<pool, opened, made, user, setting, rows, call, outer, calls>>
  BY DEF tenant, LeaveTenant
<1>3. TypeOK'
  BY <1>1, <1>2 DEF PoolInv, TypeOK
<1>4. TasksMatch' /\ ConnsMatch' /\ OnePool'
  BY <1>2 DEF PoolInv, TasksMatch, CallMatches, UserMatches, SettingMatches, Holds, ConnsMatch, OnePool, Wants
<1> QED
  BY <1>3, <1>4 DEF PoolInv

(* The pool is opened by one task, at a time when there is none.           *)
LEMMA OpenStep ==
  ASSUME Assumptions, PoolInv, NEW t \in Tasks, _ensure_pool(t) \/ Opened(t)
  PROVE  PoolInv'
<1>1. UNCHANGED <<made, user, setting, rows, scope, call, outer, calls>>
  BY DEF _ensure_pool, Opened
<1>2. TypeOK' /\ OnePool'
  BY <1>1 DEF _ensure_pool, Opened, PoolInv, TypeOK, OnePool, Wants, Assumptions
<1>3. TasksMatch' /\ ConnsMatch'
  BY <1>1 DEF PoolInv, TasksMatch, CallMatches, UserMatches, SettingMatches, Holds, ConnsMatch
<1> QED
  BY <1>2, <1>3 DEF PoolInv

(* A call begins without a connection.                                     *)
LEMMA BeginStep ==
  ASSUME Assumptions, PoolInv, NEW t \in Tasks, NEW op \in Scoped \cup Bare \cup Handle,
         NEW k \in Collections, NEW x \in Tenants, Begin(t, op, k, x)
  PROVE  PoolInv'
<1> DEFINE new == [Resting EXCEPT !.op = op, !.pc = First(op, k), !.coll = k, !.tenant = x]
<1>1. /\ Idle(t) /\ Allowed(t, op) /\ calls[t] < MaxCalls /\ calls' = [calls EXCEPT ![t] = @ + 1]
      /\ call' = [call EXCEPT ![t] = new]
      /\ UNCHANGED <<pool, opened, made, user, setting, rows, scope, outer>>
  BY DEF Begin
<1>2. /\ First(op, k) \in {"make", "query", "acquire"} 
      /\ First(op, k) = "query" => op \in Handle
      /\ First(op, k) = "acquire" => op \notin Handle
  BY DEF First
<1>3. /\ new \in Call /\ new.op = op /\ new.pc = First(op, k) /\ new.conn = None
      /\ new.seen = {} /\ new.under = None /\ new.coll = k /\ new.tenant = x
  BY <1>2 DEF Resting, Call
<1> HIDE DEF new
<1>4. TypeOK'
  BY <1>1, <1>3 DEF PoolInv, TypeOK, Assumptions
<1>5. call'[t] = new /\ \A s \in Tasks \ {t} : call'[s] = call[s]
  BY <1>1 DEF PoolInv, TypeOK
<1>6. /\ op \in {"txn", "iter"} => t \in Holders /\ outer[t].kind = "none"
      /\ op \in Handle => outer[t].kind # "none"
      /\ op # "none"
  BY <1>1 DEF Allowed, Scoped, Bare, Handle
<1>7. CallMatches(t) /\ UserMatches(t) /\ SettingMatches(t)
  BY DEF PoolInv, TasksMatch
<1>8. CallMatches(t)'
  BY <1>1, <1>2, <1>3, <1>5, <1>6, <1>7 DEF CallMatches
<1>9. UserMatches(t)' /\ SettingMatches(t)'
  BY <1>1, <1>3, <1>5, <1>7 DEF UserMatches, SettingMatches, Holds
<1>10. call[t].conn = None
  BY <1>1, <1>7 DEF Idle, CallMatches
<1>11. ~Abandons => \A d \in Conns : user'[d] = t => d \in Holds(t)'
  BY <1>1, <1>3, <1>5, <1>10 DEF PoolInv, ConnsMatch, Holds
<1>12. pool # t
  BY <1>1 DEF PoolInv, OnePool, Wants, Idle
<1> QED
  BY <1>1, <1>3, <1>4, <1>5, <1>8, <1>9, <1>11, <1>12, TaskStep
(* A call takes a connection that nobody has, in the scope of its task.    *)
LEMMA AcquireStep ==
  ASSUME Assumptions, PoolInv, NEW t \in Tasks, _acquire_conn(t)
  PROVE  PoolInv'
<1>1. Wants(t) /\ pool = "ready" /\ UNCHANGED <<pool, opened, made, setting, rows, scope, outer, calls>>
  BY DEF _acquire_conn
<1> DEFINE place == IF call[t].pc = "make" THEN "making"
                    ELSE IF call[t].op = "txn" THEN "start"
                    ELSE IF call[t].op \in Scoped /\ ActiveTenant(t) # None THEN "set"
                    ELSE "query"
<1>2. PICK c \in Conns :
        /\ user[c] = None /\ user' = [user EXCEPT ![c] = t]
        /\ call' = [call EXCEPT ![t] = [call[t] EXCEPT !.conn = c, !.under = ActiveTenant(t), !.pc = place]]
  BY ZenonT(60) DEF _acquire_conn
<1>3. place \in {"making", "start", "set", "query"} /\ ActiveTenant(t) \in Tenants \cup {None}
  <2>1. scope[t] \in Seq(Tenants)
    BY DEF PoolInv, TypeOK
  <2>2. scope[t] # << >> => scope[t][Len(scope[t])] \in Tenants
    BY <2>1
  <2> QED
    BY <2>2 DEF ActiveTenant, Last
<1> DEFINE new == [call[t] EXCEPT !.conn = c, !.under = ActiveTenant(t), !.pc = place]
<1>4. /\ new \in Call /\ new.op = call[t].op /\ new.conn = c /\ new.under = ActiveTenant(t)
      /\ new.pc = place /\ new.seen = call[t].seen /\ new.coll = call[t].coll
      /\ new.tenant = call[t].tenant
  <2> HIDE DEF place
  <2> QED
    BY <1>3 DEF PoolInv, TypeOK, Call
<1>5. /\ call[t].conn = None /\ call[t].pc # "done"
      /\ CallMatches(t) /\ UserMatches(t) /\ SettingMatches(t)
  BY <1>1 DEF PoolInv, TasksMatch, CallMatches, Wants
<1>6. /\ place = "making" <=> call[t].pc = "make"
      /\ place = "start" => call[t].op = "txn"
      /\ place = "set" => call[t].op \in Scoped
      /\ place = "query" => /\ call[t].op # "txn"
                            /\ call[t].op \in Scoped => ActiveTenant(t) = None
                            /\ call[t].pc = "acquire"
  BY <1>1 DEF Wants
<1> HIDE DEF new, place
<1>7. /\ call'[t] = new /\ \A s \in Tasks \ {t} : call'[s] = call[s]
      /\ user'[c] = t /\ \A d \in Conns \ {c} : user'[d] = user[d]
      /\ TypeOK'
  BY <1>1, <1>2, <1>4 DEF PoolInv, TypeOK, new
<1>8. CallMatches(t)'
  BY <1>1, <1>3, <1>4, <1>5, <1>6, <1>7 DEF CallMatches, PoolInv, TypeOK, Assumptions, Call, Scoped, Bare, Handle
<1>9. UserMatches(t)'
  <2>1. outer[t].conn # None => user[outer[t].conn] = t
    BY <1>5 DEF UserMatches, Holds
  <2>2. outer[t].conn # c
    BY <1>2, <2>1 DEF Assumptions
  <2>3. outer[t].conn \in Conns \cup {None}
    BY DEF PoolInv, TypeOK, Outer
  <2> QED
    BY <1>1, <1>4, <1>7, <2>1, <2>2, <2>3 DEF UserMatches, Holds
<1>10. SettingMatches(t)'
  <2>1. setting[c] = None
    BY <1>2 DEF PoolInv, ConnsMatch
  <2> QED
    BY <1>1, <1>3, <1>4, <1>5, <1>6, <1>7, <2>1 DEF SettingMatches
<1>11. call'[t].seen \subseteq {call'[t].under}
  BY <1>4, <1>5, <1>7 DEF CallMatches
<1>12. ~Abandons => \A d \in Conns : user'[d] = t => d \in Holds(t)'
  BY <1>1, <1>4, <1>5, <1>7 DEF PoolInv, ConnsMatch, Holds, Assumptions
<1>13. pool' # t
  BY <1>1 DEF Assumptions
<1> QED
  BY <1>1, <1>2, <1>7, <1>8, <1>9, <1>10, <1>11, <1>12, <1>13, TaskStep DEF Assumptions

(* A task makes the table of its call and gives the connection back.       *)
LEMMA BootstrapStep ==
  ASSUME Assumptions, PoolInv, NEW t \in Tasks, _bootstrap_collection(t)
  PROVE  PoolInv'
<1> DEFINE c == call[t].conn
           place == IF call[t].op \in Handle THEN "query" ELSE "acquire"
           new == [call[t] EXCEPT !.conn = None, !.pc = place]
<1>1. /\ call[t].pc = "making" /\ made' = made \cup {call[t].coll} /\ user' = [user EXCEPT ![c] = None]
      /\ call' = [call EXCEPT ![t] = new]
      /\ UNCHANGED <<pool, opened, setting, rows, scope, outer, calls>>
  BY DEF _bootstrap_collection, Back
<1>2. /\ CallMatches(t) /\ UserMatches(t) /\ SettingMatches(t)
  BY DEF PoolInv, TasksMatch
<1>3. c \in Conns /\ user[c] = t /\ c # outer[t].conn /\ setting[c] = None
  BY <1>1, <1>2 DEF CallMatches, UserMatches, SettingMatches, Holds, PoolInv, TypeOK, Call
<1>4. /\ new \in Call /\ new.op = call[t].op /\ new.conn = None /\ new.under = call[t].under
      /\ new.pc = place /\ new.seen = call[t].seen /\ new.coll = call[t].coll
      /\ new.tenant = call[t].tenant
  BY DEF PoolInv, TypeOK, Call
<1> HIDE DEF new
<1>5. /\ call'[t] = new /\ \A s \in Tasks \ {t} : call'[s] = call[s]
      /\ user'[c] = None /\ \A d \in Conns \ {c} : user'[d] = user[d]
  BY <1>1, <1>3 DEF PoolInv, TypeOK
<1>6. TypeOK'
  <2>1. call[t].coll \in Collections
    BY <1>1, <1>2 DEF CallMatches, PoolInv
  <2> QED
    BY <1>1, <1>3, <1>4, <2>1 DEF PoolInv, TypeOK
<1>7. CallMatches(t)'
  BY <1>1, <1>2, <1>4, <1>5 DEF CallMatches
<1>8. UserMatches(t)' /\ SettingMatches(t)'
  BY <1>1, <1>2, <1>3, <1>4, <1>5 DEF UserMatches, SettingMatches, Holds, PoolInv, TypeOK, Outer
<1>9. call'[t].seen \subseteq {call'[t].under}
  BY <1>1, <1>2, <1>4, <1>5 DEF CallMatches
<1>10. ~Abandons => \A d \in Conns : user'[d] = t => d \in Holds(t)'
  BY <1>1, <1>3, <1>4, <1>5 DEF PoolInv, ConnsMatch, Holds, Assumptions
<1>11. pool # t
  BY <1>1 DEF PoolInv, OnePool, Wants
<1> HIDE DEF c
<1> QED
  BY <1>1, <1>3, <1>5, <1>6, <1>7, <1>8, <1>9, <1>10, <1>11, TaskStep
(* The session of a connection is told the tenant.                         *)
LEMMA SetTenantStep ==
  ASSUME Assumptions, PoolInv, NEW t \in Tasks, SetTenant(t)
  PROVE  PoolInv'
<1> DEFINE c == call[t].conn
           new == [call[t] EXCEPT !.pc = "query"]
<1>1. /\ call[t].pc = "set" /\ setting' = [setting EXCEPT ![c] = call[t].under]
      /\ call' = [call EXCEPT ![t] = new]
      /\ UNCHANGED <<pool, opened, made, user, rows, scope, outer, calls>>
  BY DEF SetTenant
<1>2. /\ CallMatches(t) /\ UserMatches(t) /\ SettingMatches(t)
  BY DEF PoolInv, TasksMatch
<1>3. c \in Conns /\ user[c] = t /\ c # outer[t].conn /\ call[t].op \in Scoped
  BY <1>1, <1>2 DEF CallMatches, UserMatches, Holds, PoolInv, TypeOK, Call
<1>4. /\ new \in Call /\ new.op = call[t].op /\ new.conn = c /\ new.under = call[t].under
      /\ new.pc = "query" /\ new.seen = call[t].seen /\ new.coll = call[t].coll
      /\ new.tenant = call[t].tenant
  BY DEF PoolInv, TypeOK, Call
<1> HIDE DEF new
<1>5. /\ call'[t] = new /\ \A s \in Tasks \ {t} : call'[s] = call[s]
      /\ setting'[c] = call[t].under /\ \A d \in Conns \ {c} : setting'[d] = setting[d]
  BY <1>1, <1>3 DEF PoolInv, TypeOK
<1>6. TypeOK'
  <2>1. call[t].under \in Tenants \cup {None}
    BY DEF PoolInv, TypeOK, Call
  <2> QED
    BY <1>1, <1>3, <1>4, <2>1 DEF PoolInv, TypeOK
<1>7. CallMatches(t)'
  BY <1>1, <1>2, <1>3, <1>4, <1>5 DEF CallMatches, Scoped, Handle
<1>8. UserMatches(t)' /\ SettingMatches(t)'
  BY <1>1, <1>2, <1>3, <1>4, <1>5 DEF UserMatches, SettingMatches, Holds, PoolInv, TypeOK, Outer
<1>9. call'[t].seen \subseteq {call'[t].under}
  BY <1>1, <1>2, <1>4, <1>5 DEF CallMatches
<1>10. ~Abandons => \A d \in Conns : user'[d] = t => d \in Holds(t)'
  BY <1>1, <1>3, <1>4, <1>5 DEF PoolInv, ConnsMatch, Holds, Assumptions
<1>11. pool # t /\ t # None
  BY <1>1 DEF PoolInv, OnePool, Wants, Assumptions
<1> HIDE DEF c
<1> QED
  BY <1>1, <1>3, <1>5, <1>6, <1>7, <1>8, <1>9, <1>10, <1>11, TaskStep

(* A statement answers from the rows that its session may see, which is    *)
(* the session of its scope, and the connection of the call goes back.     *)
LEMMA EndStep ==
  ASSUME Assumptions, PoolInv, NEW t \in Tasks, call[t].pc = "query", Ends(t),
         rows' \subseteq Collections \X Tenants, outer' \in [Tasks -> Outer],
         \A s \in Tasks \ {t} : outer'[s] = outer[s],
         outer'[t].kind = outer[t].kind, outer'[t].conn = outer[t].conn,
         outer'[t].under = outer[t].under,
         UNCHANGED <<pool, opened, made, scope, calls>>
  PROVE  PoolInv'
<1> DEFINE c == call[t].conn
           new == Returned(t)
<1>1. /\ call' = [call EXCEPT ![t] = new]
      /\ IF call[t].op \in Handle THEN UNCHANGED <<user, setting>>
         ELSE user' = [user EXCEPT ![c] = None] /\ setting' = [setting EXCEPT ![c] = None]
  BY DEF Ends, Back, LocalEnd
<1>2. /\ CallMatches(t) /\ UserMatches(t) /\ SettingMatches(t)
  BY DEF PoolInv, TasksMatch
<1>3. IF call[t].op \in Handle THEN c = None
      ELSE c \in Conns /\ user[c] = t /\ c # outer[t].conn
  BY <1>1, <1>2 DEF CallMatches, UserMatches, Holds, PoolInv, TypeOK, Call
<1>4. new \in Call /\ new.op = "none" /\ new.pc = "done" /\ new.conn = None
  BY ReturnedType DEF PoolInv
<1>5. new.seen \subseteq {new.under}
  <2>1. CASE call[t].coll \in Guarded
    <3>1. OwnConn(t) # None /\ setting[OwnConn(t)] = new.under
      <4>1. new.under = IF call[t].op \in Handle THEN outer[t].under
                        ELSE IF call[t].op \in Bare THEN None ELSE call[t].under
        BY ReturnedType DEF PoolInv
      <4>2. CASE call[t].op \in Handle
        BY <1>2, <4>1, <4>2 DEF OwnConn, CallMatches, SettingMatches
      <4>3. CASE call[t].op \in Scoped \cup {"find_one"}
        BY <1>2, <4>1, <4>3 DEF OwnConn, CallMatches, SettingMatches, Scoped, Bare, Handle
      <4> QED
        BY <1>2, <4>2, <4>3 DEF CallMatches
    <3>2. new.seen = Visible(call[t].coll, OwnConn(t))
      BY <2>1, ReturnedType DEF PoolInv
    <3> QED
      BY <2>1, <3>1, <3>2 DEF Visible
  <2>2. CASE call[t].coll \notin Guarded
    BY <2>2, ReturnedType DEF PoolInv
  <2> QED
    BY <2>1, <2>2
<1> HIDE DEF new
<1>6. /\ call'[t] = new /\ \A s \in Tasks \ {t} : call'[s] = call[s]
      /\ c \in Conns => user'[c] = None /\ setting'[c] = None
      /\ \A d \in Conns \ {c} : user'[d] = user[d] /\ setting'[d] = setting[d]
  BY <1>1, <1>3 DEF PoolInv, TypeOK, Assumptions
<1>7. TypeOK'
  BY <1>1, <1>3, <1>4 DEF PoolInv, TypeOK
<1>8. CallMatches(t)'
  BY <1>2, <1>4, <1>6 DEF CallMatches
<1>9. UserMatches(t)' /\ SettingMatches(t)'
  <2>1. outer[t].conn \in (Conns \ {c}) \cup {None}
    BY <1>3 DEF PoolInv, TypeOK, Outer
  <2> QED
    BY <1>2, <1>4, <1>6, <2>1 DEF UserMatches, SettingMatches, Holds
<1>10. ~Abandons => \A d \in Conns : user'[d] = t => d \in Holds(t)'
  BY <1>3, <1>4, <1>6 DEF PoolInv, ConnsMatch, Holds, Assumptions
<1>11. pool # t
  BY DEF PoolInv, OnePool, Wants
<1>12. c \in Conns \cup {None} /\ (c # None => user[c] = t)
  BY <1>3
<1> HIDE DEF c
<1> QED
  BY <1>4, <1>5, <1>6, <1>7, <1>8, <1>9, <1>10, <1>11, <1>12, TaskStep

\* The statements that end a call.
LEMMA StatementStep ==
  ASSUME Assumptions, PoolInv, NEW t \in Tasks, Query(t) \/ Delete(t) \/ Write(t)
  PROVE  PoolInv'
<1>1. CASE Query(t)
  BY <1>1, EndStep DEF Query, PoolInv, TypeOK
<1>2. CASE Delete(t)
  BY <1>2, EndStep DEF Delete, PoolInv, TypeOK
<1>3. CASE Write(t)
  <2> DEFINE row == <<call[t].coll, call[t].tenant>>
             more == [outer[t] EXCEPT !.writes = outer[t].writes \cup {row}]
  <2>1. /\ call[t].pc = "query" /\ Ends(t) /\ UNCHANGED <<pool, opened, made, scope, calls>>
        /\ \/ rows' = rows \cup {row} /\ UNCHANGED outer
           \/ outer' = [outer EXCEPT ![t] = more] /\ UNCHANGED rows
    BY <1>3 DEF Write
  <2>2. row \in Collections \X Tenants
    BY <2>1 DEF PoolInv, TasksMatch, CallMatches
  <2>3. /\ more \in Outer /\ more.kind = outer[t].kind /\ more.conn = outer[t].conn
        /\ more.under = outer[t].under
    <3>1. ASSUME NEW w \in SUBSET (Collections \X Tenants)
          PROVE  LET o == [outer[t] EXCEPT !.writes = w]
                 IN o \in Outer /\ o.kind = outer[t].kind /\ o.conn = outer[t].conn
                    /\ o.under = outer[t].under
      BY DEF PoolInv, TypeOK, Outer
    <3>2. outer[t].writes \cup {row} \in SUBSET (Collections \X Tenants)
      <4>1. outer[t].writes \in SUBSET (Collections \X Tenants)
        BY DEF PoolInv, TypeOK, Outer
      <4> HIDE DEF row
      <4> QED
        BY <2>2, <4>1
    <3> HIDE DEF row
    <3> QED
      BY <3>1, <3>2
  <2> HIDE DEF more, row
  <2>4. /\ rows' \subseteq Collections \X Tenants /\ outer' \in [Tasks -> Outer]
        /\ \A s \in Tasks \ {t} : outer'[s] = outer[s]
        /\ outer'[t].kind = outer[t].kind /\ outer'[t].conn = outer[t].conn
        /\ outer'[t].under = outer[t].under
    BY <2>1, <2>2, <2>3 DEF PoolInv, TypeOK
  <2> QED
    BY <2>1, <2>4, EndStep
<1> QED
  BY <1>1, <1>2, <1>3
(* The connection of a call becomes that of an iteration or a transaction. *)
LEMMA KeepStep ==
  ASSUME Assumptions, PoolInv, NEW t \in Tasks, Iterate(t) \/ begin_transaction(t)
  PROVE  PoolInv'
<1> DEFINE c == call[t].conn
<1>1. /\ CallMatches(t) /\ UserMatches(t) /\ SettingMatches(t)
  BY DEF PoolInv, TasksMatch
<1>2. /\ UNCHANGED <<pool, opened, made, user, setting, rows, scope, calls>>
      /\ \/ call[t].pc = "query" /\ call[t].op = "iter"
         \/ call[t].pc = "start" /\ call[t].op = "txn"
  BY <1>1 DEF Iterate, begin_transaction, CallMatches
<1>3. /\ c \in Conns /\ user[c] = t /\ outer[t].conn = None /\ t \in Holders
  BY <1>1, <1>2 DEF CallMatches, UserMatches, Holds, PoolInv, TypeOK, Call, Handle
<1>4. PICK kept \in Outer, new \in Call :
        /\ outer' = [outer EXCEPT ![t] = kept] /\ call' = [call EXCEPT ![t] = new]
        /\ kept.kind \in {"iter", "txn"} /\ kept.conn = c /\ kept.under = setting[c]
        /\ kept.kind = "txn" => kept.under = None
        /\ new.pc = "done" /\ new.conn = None /\ new.seen \subseteq {new.under}
  <2>1. CASE Iterate(t)
    <3>1. /\ call[t].pc = "query" /\ call[t].op = "iter"
          /\ outer' = [outer EXCEPT ![t] = [Closed EXCEPT !.kind = "iter", !.conn = c, !.under = call[t].under]]
          /\ call' = [call EXCEPT ![t] = Returned(t)]
      BY <2>1 DEF Iterate
    <3>2. call[t].under \in Tenants \cup {None} /\ setting[c] = call[t].under
      BY <1>1, <1>3, <3>1 DEF PoolInv, TypeOK, Call, SettingMatches, Scoped, Assumptions
    <3>3. /\ Returned(t) \in Call /\ Returned(t).pc = "done" /\ Returned(t).conn = None
          /\ Returned(t).seen = IF call[t].coll \in Guarded THEN Visible(call[t].coll, OwnConn(t)) ELSE {}
          /\ Returned(t).under = call[t].under
      BY <3>1, ReturnedType DEF PoolInv, Handle, Bare
    <3>4. Returned(t).seen \subseteq {Returned(t).under}
      BY <3>1, <3>2, <3>3 DEF Visible, OwnConn, Handle
    <3>5. LET kept == [Closed EXCEPT !.kind = "iter", !.conn = c, !.under = call[t].under]
          IN kept \in Outer /\ kept.kind = "iter" /\ kept.conn = c /\ kept.under = call[t].under
      BY <1>3, <3>2 DEF Closed, Outer
    <3> QED
      BY <3>1, <3>2, <3>3, <3>4, <3>5
  <2>2. CASE begin_transaction(t)
    <3>1. /\ call[t].pc = "start"
          /\ outer' = [outer EXCEPT ![t] = [Closed EXCEPT !.kind = "txn", !.conn = c]]
          /\ call' = [call EXCEPT ![t] = Resting]
      BY <2>2 DEF begin_transaction
    <3>2. LET kept == [Closed EXCEPT !.kind = "txn", !.conn = c]
          IN kept \in Outer /\ kept.kind = "txn" /\ kept.conn = c /\ kept.under = None
      BY <1>3 DEF Closed, Outer
    <3>3. Resting \in Call /\ Resting.pc = "done" /\ Resting.conn = None /\ Resting.seen = {}
      BY RecordTypes DEF Resting
    <3>4. setting[c] = None
      BY <1>1, <1>3, <3>1 DEF SettingMatches, Assumptions
    <3> QED
      BY <3>1, <3>2, <3>3, <3>4
  <2> QED
    BY <2>1, <2>2
<1>5. /\ call'[t] = new /\ outer'[t] = kept
      /\ \A s \in Tasks \ {t} : call'[s] = call[s] /\ outer'[s] = outer[s]
  BY <1>4 DEF PoolInv, TypeOK
<1>6. TypeOK'
  BY <1>2, <1>4 DEF PoolInv, TypeOK
<1>7. c # None /\ t # None
  BY <1>3 DEF Assumptions
<1>8. CallMatches(t)'
  BY <1>3, <1>4, <1>5, <1>7 DEF CallMatches
<1>9. UserMatches(t)' /\ SettingMatches(t)'
  BY <1>2, <1>3, <1>4, <1>5, <1>7 DEF UserMatches, SettingMatches, Holds
<1>10. ~Abandons => \A d \in Conns : user'[d] = t => d \in Holds(t)'
  BY <1>2, <1>3, <1>4, <1>5 DEF PoolInv, ConnsMatch, Holds
<1>11. pool # t
  BY <1>2 DEF PoolInv, OnePool, Wants
<1> HIDE DEF c
<1> QED
  BY <1>2, <1>4, <1>5, <1>6, <1>8, <1>9, <1>10, <1>11, TaskStep

(* An iteration or a transaction ends and gives its connection back; what  *)
(* named a tenant on it is undone.                                         *)
LEMMA CloseStep ==
  ASSUME Assumptions, PoolInv, NEW t \in Tasks,
         StopIterating(t) \/ Commit(t) \/ CommitRaises(t) \/ Rollback(t)
  PROVE  PoolInv'
<1> DEFINE c == outer[t].conn
<1>1. /\ CallMatches(t) /\ UserMatches(t) /\ SettingMatches(t)
  BY DEF PoolInv, TasksMatch
<1>2. /\ call[t].pc = "done" /\ outer[t].kind # "none"
      /\ user' = [user EXCEPT ![c] = None]
      /\ \/ outer[t].kind = "iter" /\ setting' = [setting EXCEPT ![c] = None]
         \/ outer[t].kind = "txn" /\ setting' = setting
      /\ outer' = [outer EXCEPT ![t] = Closed]
      /\ UNCHANGED <<pool, opened, made, scope, call, calls>>
  BY DEF StopIterating, Commit, CommitRaises, Rollback, Leaves, Back, LocalEnd, Idle
<1>3. rows' \subseteq Collections \X Tenants
  <2>1. outer[t].writes \subseteq Collections \X Tenants /\ rows \subseteq Collections \X Tenants
    BY DEF PoolInv, TypeOK, Outer
  <2> QED
    BY <2>1 DEF StopIterating, Commit, CommitRaises, Rollback
<1>4. c \in Conns /\ user[c] = t /\ call[t].conn = None /\ setting[c] = outer[t].under
  BY <1>1, <1>2 DEF CallMatches, UserMatches, SettingMatches, Holds, PoolInv, TypeOK, Outer
<1>5. /\ user'[c] = None /\ setting'[c] = None
      /\ \A d \in Conns \ {c} : user'[d] = user[d] /\ setting'[d] = setting[d]
      /\ outer'[t] = Closed /\ \A s \in Tasks \ {t} : outer'[s] = outer[s]
  BY <1>1, <1>2, <1>4 DEF CallMatches, PoolInv, TypeOK
<1>6. TypeOK'
  BY <1>2, <1>3, <1>4, RecordTypes DEF PoolInv, TypeOK
<1>7. Closed.kind = "none" /\ Closed.conn = None
  BY DEF Closed
<1>8. CallMatches(t)' /\ UserMatches(t)' /\ SettingMatches(t)'
  BY <1>1, <1>2, <1>4, <1>5, <1>7 DEF CallMatches, UserMatches, SettingMatches, Holds
<1>9. call'[t].seen \subseteq {call'[t].under}
  BY <1>2 DEF PoolInv, TasksMatch
<1>10. ~Abandons => \A d \in Conns : user'[d] = t => d \in Holds(t)'
  BY <1>2, <1>4, <1>5, <1>7 DEF PoolInv, ConnsMatch, Holds, Assumptions
<1>11. pool # t
  BY <1>2 DEF PoolInv, OnePool, Wants
<1> HIDE DEF c
<1> QED
  BY <1>2, <1>4, <1>5, <1>6, <1>8, <1>9, <1>10, <1>11, TaskStep

(* An error ends a call, or a cancellation ends it and the transaction     *)
(* around it, or the start of a transaction fails: the connection of the   *)
(* call goes back, but in the last case.                                   *)
LEMMA FailStep ==
  ASSUME Assumptions, PoolInv, NEW t \in Tasks, Raise(t) \/ StartRaises(t) \/ Cancel(t)
  PROVE  PoolInv'
<1> DEFINE c == call[t].conn
<1>1. /\ CallMatches(t) /\ UserMatches(t) /\ SettingMatches(t)
  BY DEF PoolInv, TasksMatch
<1>2. /\ call' = [call EXCEPT ![t] = Resting] /\ UNCHANGED <<opened, made, rows, scope, calls>>
      /\ pool' = pool \/ (pool = t /\ pool' = "none")
  BY DEF Raise, StartRaises, Cancel
<1>3. \/ /\ c # None /\ user' = [user EXCEPT ![c] = None] /\ setting' = [setting EXCEPT ![c] = None]
      \/ /\ c = None /\ user' = user /\ setting' = setting
      \/ /\ c # None /\ user' = user /\ setting' = setting /\ Abandons /\ outer' = outer
         /\ setting[c] = None
  BY <1>1 DEF Raise, StartRaises, Cancel, Back, LocalEnd, SettingMatches
<1>4. \/ \E a \in BOOLEAN : outer' = [outer EXCEPT ![t] = [outer[t] EXCEPT !.aborted = a]]
      \/ outer' = [outer EXCEPT ![t] = Closed] /\ Abandons
      \/ outer' = outer
  <2>1. CASE Raise(t)
    <3> DEFINE a == outer[t].aborted \/ (call[t].pc = "query" /\ call[t].op \in Handle)
    <3>1. outer' = [outer EXCEPT ![t] = [outer[t] EXCEPT !.aborted = a]]
      BY <2>1 DEF Raise
    <3>2. a \in BOOLEAN
      OBVIOUS
    <3> HIDE DEF a
    <3> QED
      BY <3>1, <3>2
  <2> QED
    BY <2>1 DEF StartRaises, Cancel
<1>5. /\ outer' \in [Tasks -> Outer] /\ \A s \in Tasks \ {t} : outer'[s] = outer[s]
      /\ \/ /\ outer'[t].kind = outer[t].kind /\ outer'[t].conn = outer[t].conn
            /\ outer'[t].under = outer[t].under
         \/ Abandons /\ outer'[t] = Closed
  <2>1. ASSUME NEW a \in BOOLEAN
        PROVE  LET o == [outer[t] EXCEPT !.aborted = a]
               IN o \in Outer /\ o.kind = outer[t].kind /\ o.conn = outer[t].conn /\ o.under = outer[t].under
    BY DEF PoolInv, TypeOK, Outer
  <2>2. CASE \E a \in BOOLEAN : outer' = [outer EXCEPT ![t] = [outer[t] EXCEPT !.aborted = a]]
    <3> PICK a \in BOOLEAN : outer' = [outer EXCEPT ![t] = [outer[t] EXCEPT !.aborted = a]]
      BY <2>2
    <3> DEFINE o == [outer[t] EXCEPT !.aborted = a]
    <3>1. o \in Outer /\ o.kind = outer[t].kind /\ o.conn = outer[t].conn /\ o.under = outer[t].under
      BY <2>1
    <3>2. outer' = [outer EXCEPT ![t] = o]
      OBVIOUS
    <3> HIDE DEF o
    <3> QED
      BY <3>1, <3>2 DEF PoolInv, TypeOK
  <2> QED
    BY <1>4, <2>2, RecordTypes DEF PoolInv, TypeOK
<1>6. /\ Resting.pc = "done" /\ Resting.conn = None /\ Resting.seen = {}
      /\ Closed.kind = "none" /\ Closed.conn = None
  BY DEF Resting, Closed
<1>7. c \in Conns \cup {None} /\ (c # None => user[c] = t /\ c # outer[t].conn)
  BY <1>1 DEF UserMatches, Holds, PoolInv, TypeOK, Call
<1>8. /\ call'[t] = Resting /\ \A s \in Tasks \ {t} : call'[s] = call[s]
      /\ c # None => user'[c] \in {None, t} /\ (user'[c] = None => setting'[c] = None)
      /\ ~Abandons /\ c # None => user'[c] = None
      /\ \A d \in Conns \ {c} : user'[d] = user[d] /\ setting'[d] = setting[d]
  BY <1>2, <1>3, <1>7 DEF PoolInv, TypeOK, Assumptions
<1>9. TypeOK'
  <2>1. user' \in [Conns -> Tasks \cup {None}] /\ setting' \in [Conns -> Tenants \cup {None}]
    BY <1>3, <1>7 DEF PoolInv, TypeOK
  <2> QED
    BY <1>2, <1>5, <2>1, RecordTypes DEF PoolInv, TypeOK
<1>10. CallMatches(t)'
  BY <1>1, <1>5, <1>6, <1>8 DEF CallMatches
<1>11. UserMatches(t)' /\ SettingMatches(t)'
  <2>1. outer[t].conn \in (Conns \ {c}) \cup {None}
    BY <1>1 DEF UserMatches, PoolInv, TypeOK, Outer
  <2> QED
    BY <1>1, <1>5, <1>6, <1>8, <2>1 DEF UserMatches, SettingMatches, Holds
<1>12. ~Abandons => \A d \in Conns : user'[d] = t => d \in Holds(t)'
  BY <1>5, <1>6, <1>7, <1>8 DEF PoolInv, ConnsMatch, Holds, Assumptions
<1>13. pool' # t
  <2>1. CASE pool = t
    <3>1. Wants(t) /\ c = None
      BY <1>1, <2>1 DEF PoolInv, OnePool, Wants, CallMatches
    <3>2. pool' = "none"
      BY <2>1, <3>1 DEF Raise, StartRaises, Cancel, Wants
    <3> QED
      BY <3>2 DEF Assumptions
  <2> QED
    BY <1>2, <2>1 DEF Assumptions
<1> HIDE DEF c
<1> QED
  BY <1>2, <1>5, <1>6, <1>7, <1>8, <1>9, <1>10, <1>11, <1>12, <1>13, TaskStep

(* close finds every task at rest.                                         *)
LEMMA ClosePoolStep == ASSUME Assumptions, PoolInv, close PROVE PoolInv'
<1>1. TypeOK'
  BY DEF close, PoolInv, TypeOK
<1>2. \A t \in Tasks : call[t].conn = None /\ outer[t].conn = None
  BY DEF close, PoolInv, TasksMatch, CallMatches, Idle
<1>3. TasksMatch'
  BY <1>2 DEF close, PoolInv, TasksMatch, CallMatches, UserMatches, SettingMatches, Holds
<1>4. ConnsMatch' /\ OnePool'
  BY DEF close, PoolInv, ConnsMatch, OnePool, Assumptions
<1> QED
  BY <1>1, <1>3, <1>4 DEF PoolInv

(* The invariant of the tasks, the connections and the pool.               *)
THEOREM PoolMatches == ASSUME Assumptions PROVE Spec => []PoolInv
<1>1. Init => PoolInv
  BY PoolInit
<1>2. PoolInv /\ [Next]_vars => PoolInv'
  <2> SUFFICES ASSUME PoolInv, [Next]_vars PROVE PoolInv'
    OBVIOUS
  <2>1. CASE UNCHANGED vars
    BY <2>1 DEF vars, PoolInv, TypeOK, TasksMatch, CallMatches, UserMatches, SettingMatches, Holds,
                ConnsMatch, OnePool, Wants
  <2>2. CASE close
    BY <2>2, ClosePoolStep
  <2>3. ASSUME NEW t \in Tasks,
               \/ LeaveTenant(t) \/ \E x \in Tenants : tenant(t, x)
               \/ \E op \in Scoped \cup Bare \cup Handle, c \in Collections, x \in Tenants : Begin(t, op, c, x)
               \/ _ensure_pool(t) \/ Opened(t) \/ _acquire_conn(t) \/ _bootstrap_collection(t)
               \/ SetTenant(t) \/ Query(t) \/ Delete(t) \/ Write(t)
        PROVE  PoolInv'
    BY <2>3, ScopeStep, BeginStep, OpenStep, AcquireStep, BootstrapStep, SetTenantStep, StatementStep
  <2>4. ASSUME NEW t \in Tasks,
               \/ Iterate(t) \/ begin_transaction(t)
               \/ StopIterating(t) \/ Commit(t) \/ CommitRaises(t) \/ Rollback(t)
               \/ Raise(t) \/ StartRaises(t) \/ Cancel(t)
        PROVE  PoolInv'
    BY <2>4, KeepStep, CloseStep, FailStep
  <2> QED
    BY <2>1, <2>2, <2>3, <2>4 DEF Next
<1> QED
  BY <1>1, <1>2, PTL DEF Spec

\* Whatever calls, transactions, iterations and failures there are, a
\* connection that is out of the pool has one user, and one pool serves the
\* loop (db/postgres.py:1862, 387).
THEOREM PoolStaysWhole == ASSUME Assumptions PROVE Spec => []PoolWhole
<1>1. PoolInv => PoolWhole
  BY PoolInvWhole
<1> QED
  BY <1>1, PoolMatches, PTL

\* While fewer tasks keep connections than there are, the pool does not
\* deadlock, however many tasks and connections there are (db/postgres.py:562).
THEOREM PoolGoesOn == ASSUME Assumptions PROVE Spec => []SomeoneGoesOn
<1>1. PoolInv => SomeoneGoesOn
  BY PoolInvGoesOn
<1> QED
  BY <1>1, PoolMatches, PTL

\* No call reads or deletes a row of a guarded collection that is not of the
\* tenant of its scope, whoever had its connection before (db/postgres.py:433).
THEOREM TenantsStayApart == ASSUME Assumptions PROVE Spec => []TenantsApart
BY PoolMatches, PoolInvTenants, PTL
=============================================================================
