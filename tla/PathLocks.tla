----------------------------- MODULE PathLocks -----------------------------
(***************************************************************************)
(* The bounded lock table of JsonDB (db/_path_locks.py).  A thread looks   *)
(* its path up under the registry lock, gets a threading.Lock object, and  *)
(* acquires that object AFTER the registry lock is released.  At capacity  *)
(* the lookup scans the table in LRU order and drops the first lock that   *)
(* is free when it is tested.                                              *)
(*                                                                         *)
(* Lock objects are identities drawn from Locks; an identity is reused     *)
(* once neither the table nor a thread refers to it (garbage collection).  *)
(***************************************************************************)
EXTENDS Naturals, Sequences, FiniteSets

CONSTANTS Threads, Keys, Locks,
          MaxLocks,             \* max_locks of the constructor
          None                  \* no thread / no lock / no key

ASSUME MaxLocksAssumption == MaxLocks \in Nat \ {0}
ASSUME NoneAssumption == None \notin Threads \cup Keys \cup Locks
ASSUME KeysAssumption == IsFiniteSet(Keys)
ASSUME ThreadsAssumption == IsFiniteSet(Threads)

VARIABLES lockOf,    \* _locks: path -> lock object, None when not in the table
          order,     \* the OrderedDict's order, least recently used first
          registry,  \* owner of _registry_lock
          owner,     \* lock object -> thread that holds it
          pc,        \* thread -> where it is in lock()
          key, obj,  \* thread -> the path it wants, the object it was handed
          scan       \* position of the eviction scan

vars == <<lockOf, order, registry, owner, pc, key, obj, scan>>

Registered == {k \in Keys : lockOf[k] # None}

Live == {lockOf[k] : k \in Keys} \cup {obj[t] : t \in Threads}

Without(s, i) == SubSeq(s, 1, i - 1) \o SubSeq(s, i + 1, Len(s))

TypeOK ==
    /\ lockOf \in [Keys -> Locks \cup {None}]
    /\ order \in Seq(Keys)
    /\ registry \in Threads \cup {None}
    /\ owner \in [Locks -> Threads \cup {None}]
    /\ pc \in [Threads -> {"idle", "lookup", "scan", "wait", "held"}]
    /\ key \in [Threads -> Keys \cup {None}]
    /\ obj \in [Threads -> Locks \cup {None}]
    /\ scan \in Nat \ {0}

Init ==
    /\ lockOf = [k \in Keys |-> None]
    /\ order = <<>>
    /\ registry = None
    /\ owner = [l \in Locks |-> None]
    /\ pc = [t \in Threads |-> "idle"]
    /\ key = [t \in Threads |-> None]
    /\ obj = [t \in Threads |-> None]
    /\ scan = 1
-----------------------------------------------------------------------------
\* lock(k) is called; _get_or_create_lock takes the registry lock.
Request(t, k) ==
    /\ pc[t] = "idle"
    /\ registry = None
    /\ registry' = t
    /\ pc' = [pc EXCEPT ![t] = "lookup"]
    /\ key' = [key EXCEPT ![t] = k]
    /\ scan' = 1
    /\ UNCHANGED <<lockOf, order, owner, obj>>

\* The lookup ends: the thread leaves the registry with lock object l.
HandOut(t, l) ==
    /\ registry' = None
    /\ obj' = [obj EXCEPT ![t] = l]
    /\ pc' = [pc EXCEPT ![t] = "wait"]
    /\ UNCHANGED <<owner, key, scan>>

\* The path is in the table: move it to the recent end, hand out its lock.
Hit(t) ==
    /\ pc[t] = "lookup"
    /\ lockOf[key[t]] # None
    /\ \E i \in 1..Len(order) :
          /\ order[i] = key[t]
          /\ order' = Append(Without(order, i), key[t])
    /\ HandOut(t, lockOf[key[t]])
    /\ UNCHANGED lockOf

\* A new lock object for the path, in a table whose other entries are rest.
Create(t, table, rest) ==
    \E l \in Locks \ Live :
       /\ lockOf' = [table EXCEPT ![key[t]] = l]
       /\ order' = Append(rest, key[t])
       /\ HandOut(t, l)

\* A miss below capacity.
Miss(t) ==
    /\ pc[t] = "lookup"
    /\ lockOf[key[t]] = None
    /\ Cardinality(Registered) < MaxLocks
    /\ Create(t, lockOf, order)

\* A miss at capacity starts _evict_idle_lock.
MissAtCapacity(t) ==
    /\ pc[t] = "lookup"
    /\ lockOf[key[t]] = None
    /\ Cardinality(Registered) >= MaxLocks
    /\ pc' = [pc EXCEPT ![t] = "scan"]
    /\ UNCHANGED <<lockOf, order, registry, owner, key, obj, scan>>

Candidate == lockOf[order[scan]]

\* Mutant of SkipHeld: the scan retries the same candidate.
SkipHeldStuck(t) ==
    /\ pc[t] = "scan"
    /\ scan <= Len(order)
    /\ owner[Candidate] # None
    /\ UNCHANGED vars

\* candidate.acquire(blocking=False) fails: try the next one.
SkipHeld(t) ==
    /\ pc[t] = "scan"
    /\ scan <= Len(order)
    /\ owner[Candidate] # None
    /\ scan' = scan + 1
    /\ UNCHANGED <<lockOf, order, registry, owner, pc, key, obj>>

\* Mutant of EvictIdle: the candidate is dropped without testing it.
EvictBlindly(t) ==
    /\ pc[t] = "scan"
    /\ scan <= Len(order)
    /\ Create(t, [lockOf EXCEPT ![order[scan]] = None], Without(order, scan))

\* Mutant of EvictIdle: the idle entry found is not deleted.
EvictNothing(t) ==
    /\ pc[t] = "scan"
    /\ scan <= Len(order)
    /\ owner[Candidate] = None
    /\ Create(t, lockOf, order)

\* It succeeds: the entry is deleted, the candidate released at once.
EvictIdle(t) ==
    /\ pc[t] = "scan"
    /\ scan <= Len(order)
    /\ owner[Candidate] = None
    /\ Create(t, [lockOf EXCEPT ![order[scan]] = None], Without(order, scan))

\* Every lock was held when tested: the table grows by one.
Grow(t) ==
    /\ pc[t] = "scan"
    /\ scan > Len(order)
    /\ Create(t, lockOf, order)

\* Mutant of Acquire: a waiter takes the lock over from its holder.
AcquireByTakeover(t) ==
    /\ pc[t] = "wait"
    /\ owner' = [owner EXCEPT ![obj[t]] = t]
    /\ pc' = [u \in Threads |-> IF u = t THEN "held"
                               ELSE IF owner[obj[t]] = u THEN "idle" ELSE pc[u]]
    /\ UNCHANGED <<lockOf, order, registry, key, obj, scan>>

\* Mutant of Acquire: the lock records the path instead of its holder.
AcquireByKey(t) ==
    /\ pc[t] = "wait"
    /\ owner[obj[t]] = None
    /\ owner' = [owner EXCEPT ![obj[t]] = key[t]]
    /\ pc' = [pc EXCEPT ![t] = "held"]
    /\ UNCHANGED <<lockOf, order, registry, key, obj, scan>>

\* threading_lock.acquire(): outside the registry, no order among waiters.
Acquire(t) ==
    /\ pc[t] = "wait"
    /\ owner[obj[t]] = None
    /\ owner' = [owner EXCEPT ![obj[t]] = t]
    /\ pc' = [pc EXCEPT ![t] = "held"]
    /\ UNCHANGED <<lockOf, order, registry, key, obj, scan>>

\* The end of the with block.
Release(t) ==
    /\ pc[t] = "held"
    /\ owner' = [owner EXCEPT ![obj[t]] = None]
    /\ pc' = [pc EXCEPT ![t] = "idle"]
    /\ key' = [key EXCEPT ![t] = None]
    /\ obj' = [obj EXCEPT ![t] = None]
    /\ UNCHANGED <<lockOf, order, registry, scan>>

Lookup(t) == Hit(t) \/ Miss(t) \/ MissAtCapacity(t) \/ SkipHeld(t)
                \/ EvictIdle(t) \/ Grow(t)

Next == \E t \in Threads :
           \/ \E k \in Keys : Request(t, k)
           \/ Lookup(t) \/ Acquire(t) \/ Release(t)

Spec == Init /\ [][Next]_vars

\* The scheduler runs a thread that can run: of the threads in a lookup, the one
\* that has the registry.  Nothing is assumed of the code in the with-blocks: it
\* may hold its lock for ever.
Fairness == WF_vars(\E t \in Threads : Lookup(t))
-----------------------------------------------------------------------------
Inside(k) == {t \in Threads : pc[t] = "held" /\ key[t] = k}

\* "Concurrent writes to the same file serialize" (db/jsondb.py:18): two
\* threads are never in the with-block of one path.
KeyExclusion == \A k \in Keys : Cardinality(Inside(k)) <= 1

\* "A lock is never evicted while held" (db/_path_locks.py:18): as long as a
\* thread stays in its with-block, the lock it holds stays the path's lock.
HeldLockStays ==
    [][\A t \in Threads :
          pc[t] = "held" /\ pc'[t] = "held" /\ lockOf[key[t]] = obj[t]
             => lockOf'[key[t]] = obj[t]]_vars

\* "we let the table grow by one rather than block" (db/_path_locks.py:68):
\* each such growth needs one more thread, so the table never outgrows both
\* the cap and the number of threads.
TableBounded ==
    Cardinality(Registered) <= MaxLocks
        \/ Cardinality(Registered) <= Cardinality(Threads)

\* The LRU order and the table list the same paths, each once.
OrderMatchesTable ==
    /\ {order[i] : i \in 1..Len(order)} = Registered
    /\ Len(order) = Cardinality(Registered)

\* _registry_lock is "held only briefly" (db/_path_locks.py:51): a lookup ends
\* and frees the registry even when no with-block ever ends.
LookupEnds == \A t \in Threads : registry = t ~> registry # t

\* The lock table implements one mutex per path, as long as it never evicts.
M == INSTANCE KeyMutex WITH inside <- [k \in Keys |-> Inside(k)]
ImplementsKeyMutex == M!Spec
=============================================================================
