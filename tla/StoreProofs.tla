---------------------------- MODULE StoreProofs ----------------------------
(***************************************************************************)
(* What holds of the lock table (PathLocks), which MCStore extends, for    *)
(* every number of threads, paths, lock objects and every cap:             *)
(*   - the type invariant;                                                 *)
(*   - the table stays within its bound, and its order lists its entries;  *)
(*   - eviction never takes a lock out of the table while it is held;      *)
(*   - when the cap is not below the number of paths the table never       *)
(*     evicts, the locks exclude, and the table implements KeyMutex.       *)
(* At the end, what JsonStore proves, for the scenes of MCStore.           *)
(***************************************************************************)
EXTENDS MCStore, FiniteSetTheorems, FunctionTheorems, SequenceTheorems, TLAPS

\* The registry lock is held exactly by the thread inside a lookup.
RegistryInv == \A t \in Threads : pc[t] \in {"lookup", "scan"} <=> registry = t

\* What a thread carries from its lookup to the end of its with-block.
ThreadInv ==
    \A t \in Threads :
       /\ pc[t] # "idle" => key[t] \in Keys
       /\ pc[t] = "scan" => lockOf[key[t]] = None
       /\ pc[t] \in {"wait", "held"} => obj[t] \in Locks
       /\ pc[t] = "held" => owner[obj[t]] = t

IInv == TypeOK /\ RegistryInv /\ ThreadInv

-----------------------------------------------------------------------------
\* Removing an entry of a sequence leaves a sequence over the same set.
LEMMA WithoutType ==
    ASSUME NEW S, NEW s \in Seq(S), NEW i \in 1..Len(s)
    PROVE  Without(s, i) \in Seq(S)
<1>1. SubSeq(s, 1, i - 1) \in Seq(S)
  OBVIOUS
<1>2. SubSeq(s, i + 1, Len(s)) \in Seq(S)
  OBVIOUS
<1> QED BY <1>1, <1>2 DEF Without

\* A lookup that creates a lock preserves the invariant, whatever entry it
\* dropped on the way, as long as the path itself has no lock.
LEMMA CreateInv ==
    ASSUME IInv, NEW t \in Threads, pc[t] \in {"lookup", "scan"},
           NEW table \in [Keys -> Locks \cup {None}],
           NEW rest \in Seq(Keys),
           Create(t, table, rest)
    PROVE  IInv'
<1> USE NoneAssumption DEF IInv
<1>1. PICK l \in Locks \ Live :
           /\ lockOf' = [table EXCEPT ![key[t]] = l]
           /\ order' = Append(rest, key[t])
           /\ HandOut(t, l)
  BY DEF Create
<1>2. key[t] \in Keys
  BY DEF ThreadInv
<1>3. TypeOK'
  BY <1>1, <1>2 DEF TypeOK, HandOut
<1>4. RegistryInv'
  BY <1>1 DEF TypeOK, RegistryInv, HandOut
<1>5. ThreadInv'
  BY <1>1, <1>2 DEF TypeOK, RegistryInv, ThreadInv, HandOut
<1> QED BY <1>3, <1>4, <1>5

\* The empty table satisfies the invariant.
LEMMA InitInv == Init => IInv
BY NoneAssumption DEF Init, IInv, TypeOK, RegistryInv, ThreadInv

\* Every step preserves the invariant.
LEMMA NextInv == IInv /\ [Next]_vars => IInv'
<1> SUFFICES ASSUME IInv, [Next]_vars PROVE IInv'
  OBVIOUS
<1> USE NoneAssumption DEF IInv
<1>1. ASSUME NEW t \in Threads, NEW k \in Keys, Request(t, k) PROVE IInv'
  BY <1>1 DEF Request, TypeOK, RegistryInv, ThreadInv
<1>2. ASSUME NEW t \in Threads, Hit(t) PROVE IInv'
  <2>1. PICK i \in 1..Len(order) :
             order[i] = key[t] /\ order' = Append(Without(order, i), key[t])
    BY <1>2 DEF Hit
  <2>2. key[t] \in Keys /\ lockOf[key[t]] \in Locks
    BY <1>2 DEF Hit, TypeOK, ThreadInv
  <2>3. order' \in Seq(Keys)
    <3>1. order \in Seq(Keys)
      BY DEF TypeOK
    <3>2. Without(order, i) \in Seq(Keys)
      BY <3>1, WithoutType
    <3> QED BY <2>1, <2>2, <3>2
  <2>4. TypeOK'
    BY <1>2, <2>2, <2>3 DEF Hit, HandOut, TypeOK
  <2>5. RegistryInv'
    BY <1>2 DEF Hit, HandOut, TypeOK, RegistryInv
  <2>6. ThreadInv'
    BY <1>2, <2>2 DEF Hit, HandOut, TypeOK, RegistryInv, ThreadInv
  <2> QED BY <2>4, <2>5, <2>6
<1>3. ASSUME NEW t \in Threads, Miss(t) PROVE IInv'
  BY <1>3, CreateInv DEF Miss, TypeOK
<1>4. ASSUME NEW t \in Threads, MissAtCapacity(t) PROVE IInv'
  BY <1>4 DEF MissAtCapacity, TypeOK, RegistryInv, ThreadInv
<1>5. ASSUME NEW t \in Threads, SkipHeld(t) PROVE IInv'
  BY <1>5 DEF SkipHeld, TypeOK, RegistryInv, ThreadInv
<1>6. ASSUME NEW t \in Threads, EvictIdle(t) PROVE IInv'
  <2>1. scan \in 1..Len(order)
    <3>1. scan \in Nat \ {0} /\ scan <= Len(order) /\ order \in Seq(Keys)
      BY <1>6 DEF EvictIdle, TypeOK
    <3> QED BY <3>1
  <2>2. Without(order, scan) \in Seq(Keys)
    BY <2>1, WithoutType DEF TypeOK
  <2>3. [lockOf EXCEPT ![order[scan]] = None] \in [Keys -> Locks \cup {None}]
    BY DEF TypeOK
  <2> QED BY <1>6, <2>2, <2>3, CreateInv DEF EvictIdle
<1>7. ASSUME NEW t \in Threads, Grow(t) PROVE IInv'
  BY <1>7, CreateInv DEF Grow, TypeOK
<1>8. ASSUME NEW t \in Threads, Acquire(t) PROVE IInv'
  BY <1>8 DEF Acquire, TypeOK, RegistryInv, ThreadInv
<1>9. ASSUME NEW t \in Threads, Release(t) PROVE IInv'
  BY <1>9 DEF Release, TypeOK, RegistryInv, ThreadInv
<1>10. CASE UNCHANGED vars
  BY <1>10 DEF vars, TypeOK, RegistryInv, ThreadInv
<1> QED
  BY <1>1, <1>2, <1>3, <1>4, <1>5, <1>6, <1>7, <1>8, <1>9, <1>10
  DEF Next, Lookup

\* Type correctness, and the two facts it leans on, for every constants.
THEOREM Invariance == Spec => []IInv
<1>1. Init => IInv
  BY InitInv
<1>2. IInv /\ [Next]_vars => IInv'
  BY NextInv
<1> QED BY <1>1, <1>2, PTL DEF Spec

\* Every state of the lock table is well typed.
THEOREM Typing == Spec => []TypeOK
<1>1. IInv => TypeOK
  BY DEF IInv
<1> QED BY <1>1, Invariance, PTL
-----------------------------------------------------------------------------
\* Eviction is safe for the holder: while a thread stays in its with-block,
\* the table keeps handing out the lock it holds, for any cap.
THEOREM EvictionSafe == Spec => HeldLockStays
<1> DEFINE Stays == \A t \in Threads :
              pc[t] = "held" /\ pc'[t] = "held" /\ lockOf[key[t]] = obj[t]
                 => lockOf'[key[t]] = obj[t]
<1>1. IInv /\ [Next]_vars => [Stays]_vars
  <2> SUFFICES ASSUME IInv, Next, NEW t \in Threads,
                      pc[t] = "held", pc'[t] = "held", lockOf[key[t]] = obj[t]
               PROVE  lockOf'[key[t]] = obj[t]
    OBVIOUS
  <2> USE NoneAssumption DEF IInv
  <2>1. /\ key[t] \in Keys /\ obj[t] \in Locks
        /\ owner[obj[t]] = t /\ lockOf[key[t]] # None
    BY DEF TypeOK, ThreadInv
  <2>2. ASSUME NEW u \in Threads, NEW table, NEW rest, Create(u, table, rest),
               table \in [Keys -> Locks \cup {None}],
               table[key[t]] = lockOf[key[t]], lockOf[key[u]] = None
        PROVE  lockOf'[key[t]] = obj[t]
    BY <2>1, <2>2 DEF Create, TypeOK
  <2>3. ASSUME NEW u \in Threads, Miss(u) PROVE lockOf'[key[t]] = obj[t]
    BY <2>2, <2>3 DEF Miss, TypeOK
  <2>4. ASSUME NEW u \in Threads, Grow(u) PROVE lockOf'[key[t]] = obj[t]
    BY <2>2, <2>4 DEF Grow, TypeOK, ThreadInv
  <2>5. ASSUME NEW u \in Threads, EvictIdle(u) PROVE lockOf'[key[t]] = obj[t]
    <3>1. order[scan] # key[t]
      BY <2>1, <2>5 DEF EvictIdle, Candidate
    <3>2. lockOf[key[u]] = None
      BY <2>5 DEF EvictIdle, ThreadInv
    <3> DEFINE table == [lockOf EXCEPT ![order[scan]] = None]
    <3>3. table \in [Keys -> Locks \cup {None}] /\ table[key[t]] = lockOf[key[t]]
      BY <2>1, <3>1 DEF TypeOK
    <3>4. Create(u, table, Without(order, scan))
      BY <2>5 DEF EvictIdle
    <3> QED BY <2>2, <3>2, <3>3, <3>4
  <2>6. ASSUME NEW u \in Threads,
               \/ \E k \in Keys : Request(u, k)
               \/ Hit(u) \/ MissAtCapacity(u) \/ SkipHeld(u)
               \/ Acquire(u) \/ Release(u)
        PROVE  lockOf'[key[t]] = obj[t]
    BY <2>6 DEF Request, Hit, MissAtCapacity, SkipHeld, Acquire, Release
  <2> QED BY <2>3, <2>4, <2>5, <2>6 DEF Next, Lookup
<1> QED BY <1>1, Invariance, PTL DEF HeldLockStays, Spec
-----------------------------------------------------------------------------
\* A sequence without repetition.
Distinct(s) == \A i, j \in 1..Len(s) : s[i] = s[j] => i = j
Entries(s) == {s[i] : i \in 1..Len(s)}

\* The table and its LRU order: the order lists every registered path once,
\* and no two paths share a lock object.
TableInv ==
    /\ Distinct(order)
    /\ Entries(order) = Registered
    /\ \A k, m \in Registered : lockOf[k] = lockOf[m] => k = m

\* A lock object that is owned is owned by the thread in whose with-block it is.
OwnerInv ==
    \A l \in Locks : owner[l] # None => pc[owner[l]] = "held" /\ obj[owner[l]] = l

\* The scan has passed entries whose locks were held.  Their holders may have
\* left, but none came back: requests need the registry, which the scan keeps.
\* So each entry passed is paid for by a thread of its own.
Paying(t, g) ==
    /\ \A i, j \in DOMAIN g : g[i] = g[j] => i = j
    /\ \A i \in DOMAIN g :
          /\ pc[g[i]] \in {"held", "idle"}
          /\ pc[g[i]] = "held" => obj[g[i]] = lockOf[order[i]]
ScanInv ==
    \A t \in Threads :
       /\ pc[t] = "lookup" => scan = 1
       /\ pc[t] = "scan" => /\ scan <= Len(order) + 1
                            /\ \E g \in [1..(scan - 1) -> Threads \ {t}] : Paying(t, g)

BoundInv == IInv /\ TableInv /\ OwnerInv /\ ScanInv /\ TableBounded

\* What is left of a sequence without repetition when an entry is taken out.
LEMMA WithoutDistinct ==
    ASSUME NEW S, NEW s \in Seq(S), Distinct(s), NEW i \in 1..Len(s)
    PROVE  /\ Distinct(Without(s, i))
           /\ Entries(Without(s, i)) = Entries(s) \ {s[i]}
<1> DEFINE w == Without(s, i)
<1>1. Len(s) \in Nat /\ \A j \in 1..Len(s) : s[j] \in S
  OBVIOUS
<1>2. /\ Len(w) = Len(s) - 1
      /\ \A j \in 1..(Len(s) - 1) : w[j] = IF j < i THEN s[j] ELSE s[j + 1]
  <2> DEFINE a == SubSeq(s, 1, i - 1)
             b == SubSeq(s, i + 1, Len(s))
  <2>1. a \in Seq(S) /\ Len(a) = i - 1 /\ \A j \in 1..(i - 1) : a[j] = s[j]
    BY <1>1
  <2>2. b \in Seq(S) /\ Len(b) = Len(s) - i /\ \A j \in 1..(Len(s) - i) : b[j] = s[i + j]
    BY <1>1
  <2>3. w = a \o b
    BY DEF Without
  <2> HIDE DEF a, b, w
  <2>4. Len(w) = Len(s) - 1
    <3>1. Len(a \o b) = Len(a) + Len(b)
      BY <2>1, <2>2, ConcatProperties
    <3> QED BY <1>1, <2>1, <2>2, <2>3, <3>1
  <2>5. ASSUME NEW j \in 1..(Len(s) - 1)
        PROVE  w[j] = IF j < i THEN s[j] ELSE s[j + 1]
    <3>1. w[j] = IF j <= Len(a) THEN a[j] ELSE b[j - Len(a)]
      BY <1>1, <2>1, <2>2, <2>3, ConcatProperties
    <3>2. CASE j < i
      BY <2>1, <3>1, <3>2
    <3>3. CASE ~(j < i)
      <4>1. j - (i - 1) \in 1..(Len(s) - i)
        BY <1>1, <3>3
      <4>2. b[j - (i - 1)] = s[i + (j - (i - 1))]
        BY <2>2, <4>1
      <4> QED BY <2>1, <3>1, <3>3, <4>2
    <3> QED BY <3>2, <3>3
  <2> QED BY <2>4, <2>5
<1> HIDE DEF w
<1>3. Distinct(w)
  BY <1>1, <1>2 DEF Distinct
<1>4. ASSUME NEW x \in Entries(w) PROVE x \in Entries(s) \ {s[i]}
  BY <1>1, <1>2, <1>4 DEF Distinct, Entries
<1>5. ASSUME NEW x \in Entries(s) \ {s[i]} PROVE x \in Entries(w)
  <2>1. PICK j \in 1..Len(s) : x = s[j]
    BY DEF Entries
  <2>2. CASE j < i
    BY <1>1, <1>2, <2>1, <2>2 DEF Entries
  <2>3. CASE j > i
    <3>1. j - 1 \in 1..Len(w) /\ w[j - 1] = x
      BY <1>1, <1>2, <2>1, <2>3
    <3> QED BY <3>1 DEF Entries
  <2> QED BY <1>5, <2>1, <2>2, <2>3
<1> QED BY <1>3, <1>4, <1>5 DEF w

\* And when an entry that was not there is put at its end.
LEMMA AppendDistinct ==
    ASSUME NEW S, NEW s \in Seq(S), Distinct(s), NEW x \in S, x \notin Entries(s)
    PROVE  /\ Distinct(Append(s, x))
           /\ Entries(Append(s, x)) = Entries(s) \cup {x}
<1>1. /\ Len(s) \in Nat /\ Len(Append(s, x)) = Len(s) + 1
      /\ \A j \in 1..Len(s) : Append(s, x)[j] = s[j]
      /\ Append(s, x)[Len(s) + 1] = x
  BY AppendProperties
<1> QED BY <1>1 DEF Distinct, Entries

\* A sequence without repetition is as long as its set of entries is large.
LEMMA DistinctCounts ==
    ASSUME NEW S, NEW s \in Seq(S), Distinct(s)
    PROVE  Len(s) = Cardinality(Entries(s))
<1>1. Len(s) \in Nat /\ s \in [1..Len(s) -> Entries(s)]
  BY LenProperties DEF Entries
<1>2. s \in Bijection(1..Len(s), Entries(s))
  BY <1>1, Fun_IsBij DEF Distinct, Entries
<1> QED BY <1>1, <1>2, FS_CountingElements DEF ExistsBijection

\* A lookup that creates a lock keeps the table and its order in step, as long
\* as the entries left in the table and in the order are the same.
LEMMA CreateTable ==
    ASSUME IInv, TableInv, OwnerInv, ScanInv,
           NEW t \in Threads, pc[t] \in {"lookup", "scan"},
           NEW table \in [Keys -> Locks \cup {None}], NEW rest \in Seq(Keys),
           Create(t, table, rest),
           \A k \in Keys : table[k] \in {lockOf[k], None},
           Distinct(rest), Entries(rest) = {k \in Keys : table[k] # None} \ {key[t]},
           table[key[t]] = None
    PROVE  /\ TableInv' /\ OwnerInv' /\ ScanInv'
           /\ Registered' = Entries(rest) \cup {key[t]}
<1> USE NoneAssumption DEF IInv
<1>1. PICK l \in Locks \ Live :
           /\ lockOf' = [table EXCEPT ![key[t]] = l]
           /\ order' = Append(rest, key[t])
           /\ HandOut(t, l)
  BY DEF Create
<1>2. key[t] \in Keys
  BY DEF ThreadInv
<1>3. Registered' = Entries(rest) \cup {key[t]}
  BY <1>1, <1>2 DEF Registered
<1>4. Distinct(order') /\ Entries(order') = Entries(rest) \cup {key[t]}
  BY <1>1, <1>2, AppendDistinct
<1>5. ASSUME NEW k \in Registered', NEW m \in Registered', lockOf'[k] = lockOf'[m]
      PROVE  k = m
  <2>1. ASSUME NEW j \in Registered', j # key[t]
        PROVE  j \in Registered /\ lockOf'[j] = lockOf[j] /\ lockOf[j] # l
    BY <1>1, <1>2, <1>3, <2>1 DEF Registered, Live
  <2>2. lockOf'[key[t]] = l
    BY <1>1, <1>2
  <2> QED BY <1>5, <2>1, <2>2 DEF TableInv
<1>6. TableInv'
  <2>1. \A k, m \in Registered' : lockOf'[k] = lockOf'[m] => k = m
    BY <1>5
  <2>2. Entries(order') = Registered'
    BY <1>3, <1>4
  <2> QED BY <1>4, <2>1, <2>2 DEF TableInv, Distinct, Entries
<1>7. OwnerInv'
  <2> SUFFICES ASSUME NEW m \in Locks, owner[m] # None
               PROVE  pc'[owner[m]] = "held" /\ obj'[owner[m]] = m
    BY <1>1 DEF OwnerInv, HandOut
  <2>1. pc[owner[m]] = "held" /\ obj[owner[m]] = m /\ owner[m] # t
    BY DEF OwnerInv
  <2> QED BY <1>1, <2>1 DEF HandOut, TypeOK
<1>8. ScanInv'
  <2>1. \A u \in Threads : pc'[u] \notin {"lookup", "scan"}
    BY <1>1 DEF HandOut, TypeOK, RegistryInv
  <2> QED BY <2>1 DEF ScanInv
<1> QED BY <1>3, <1>6, <1>7, <1>8

\* What a step of another thread leaves: the scan in progress has been paid for
\* as long as no payer goes back to waiting or to a lookup.
LEMMA PayersStay ==
    ASSUME IInv, ScanInv, UNCHANGED <<lockOf, order, scan>>,
           \A t \in Threads :
              /\ pc'[t] \in {"lookup", "scan"} => pc[t] = pc'[t]
              /\ pc'[t] # pc[t] => \/ pc[t] = "wait" /\ pc'[t] = "held"
                                   \/ pc[t] = "held" /\ pc'[t] = "idle"
              /\ pc'[t] = "held" => obj'[t] = obj[t]
    PROVE  ScanInv'
<1> SUFFICES ASSUME NEW t \in Threads, pc'[t] \in {"lookup", "scan"}
             PROVE  /\ pc'[t] = "lookup" => scan = 1
                    /\ pc'[t] = "scan" => /\ scan <= Len(order) + 1
                                          /\ \E g \in [1..(scan - 1) -> Threads \ {t}] : Paying(t, g)'
  BY DEF ScanInv, Paying
<1>1. pc[t] = pc'[t]
  OBVIOUS
<1>2. CASE pc[t] = "lookup"
  BY <1>1, <1>2 DEF ScanInv
<1>3. CASE pc[t] = "scan"
  <2>1. PICK g \in [1..(scan - 1) -> Threads \ {t}] : Paying(t, g)
    BY <1>3 DEF ScanInv
  <2>2. \A i \in DOMAIN g : /\ g[i] \in Threads
                            /\ pc'[g[i]] \in {"held", "idle"}
                            /\ pc'[g[i]] = "held" => pc[g[i]] = "held"
    BY <2>1 DEF Paying
  <2>3. Paying(t, g)'
    BY <2>1, <2>2 DEF Paying
  <2> QED BY <1>1, <1>3, <2>1, <2>3 DEF ScanInv
<1> QED BY <1>1, <1>2, <1>3

\* The table at its largest: a scan that has passed every entry.
LEMMA GrowthPaid ==
    ASSUME IInv, TableInv, ScanInv, NEW t \in Threads, Grow(t)
    PROVE  Cardinality(Registered) + 1 <= Cardinality(Threads)
<1>1. PICK g \in [1..(scan - 1) -> Threads \ {t}] : Paying(t, g)
  BY DEF Grow, ScanInv
<1>2. scan = Len(order) + 1 /\ Len(order) \in Nat
  <2>1. order \in Seq(Keys) /\ scan \in Nat /\ scan > Len(order) /\ scan <= Len(order) + 1
    BY DEF IInv, TypeOK, Grow, ScanInv
  <2> QED BY <2>1
<1>3. g \in Injection(1..(scan - 1), Threads \ {t})
  BY <1>1, Fun_IsInj DEF Paying
<1>4. /\ IsFiniteSet(Threads \ {t})
      /\ Cardinality(Threads \ {t}) = Cardinality(Threads) - 1
  BY ThreadsAssumption, FS_RemoveElement
<1>5. Cardinality(1..(scan - 1)) <= Cardinality(Threads \ {t})
  BY <1>3, <1>4, FS_Injection
<1>6. Cardinality(1..(scan - 1)) = Len(order)
  <2>1. 1..(scan - 1) = 1..Len(order)
    BY <1>2
  <2>2. ASSUME NEW n \in Nat PROVE Cardinality(1..n) = n
    <3>1. n \in Int /\ 1 \in Int /\ n - 1 + 1 = n /\ (1 > n => n = 0)
      OBVIOUS
    <3>2. Cardinality(1..n) = IF 1 > n THEN 0 ELSE n - 1 + 1
      BY ONLY <3>1, FS_Interval, Zenon
    <3> QED BY <3>1, <3>2
  <2> QED BY <1>2, <2>1, <2>2
<1>7. Len(order) = Cardinality(Registered)
  BY DistinctCounts DEF IInv, TypeOK, TableInv
<1>8. Cardinality(Threads) \in Nat
  BY ThreadsAssumption, FS_CardinalityType
<1> QED BY <1>2, <1>4, <1>5, <1>6, <1>7, <1>8

\* The empty table is within its bound.
LEMMA BoundInit == Init => BoundInv
<1> SUFFICES ASSUME Init PROVE BoundInv
  OBVIOUS
<1>1. IInv
  BY InitInv
<1>2. Registered = {} /\ Len(order) = 0
  BY DEF Init, Registered
<1>3. TableInv
  BY <1>2 DEF Init, TableInv, Distinct, Entries
<1>4. OwnerInv /\ ScanInv
  BY DEF Init, OwnerInv, ScanInv
<1>5. TableBounded
  BY <1>2, FS_EmptySet, MaxLocksAssumption DEF TableBounded
<1> QED BY <1>1, <1>3, <1>4, <1>5 DEF BoundInv

\* Every step keeps the table within its bound.
LEMMA BoundNext == BoundInv /\ [Next]_vars => BoundInv'
<1> SUFFICES ASSUME BoundInv, [Next]_vars PROVE BoundInv'
  OBVIOUS
<1> USE NoneAssumption DEF BoundInv, IInv
<1>1. IInv'
  BY NextInv
<1>2. /\ IsFiniteSet(Registered) /\ Cardinality(Registered) \in Nat
      /\ Cardinality(Threads) \in Nat /\ order \in Seq(Keys) /\ Len(order) \in Nat
  <2>1. Registered \subseteq Keys
    BY DEF Registered
  <2> QED BY <2>1, KeysAssumption, ThreadsAssumption, FS_Subset, FS_CardinalityType DEF TypeOK
<1>3. ASSUME UNCHANGED <<lockOf, order>> PROVE TableInv' /\ TableBounded'
  BY <1>3 DEF TableInv, TableBounded, Registered, Distinct, Entries
<1>4. ASSUME NEW t \in Threads, NEW k \in Keys, Request(t, k) PROVE BoundInv'
  <2>1. TableInv' /\ TableBounded'
    BY <1>3, <1>4 DEF Request
  <2>2. OwnerInv'
    BY <1>4 DEF Request, OwnerInv, TypeOK
  <2>3. ScanInv'
    BY <1>4 DEF Request, ScanInv, TypeOK, RegistryInv
  <2> QED BY <1>1, <2>1, <2>2, <2>3
<1>5. ASSUME NEW t \in Threads, Hit(t) PROVE BoundInv'
  <2>1. PICK i \in 1..Len(order) :
             order[i] = key[t] /\ order' = Append(Without(order, i), key[t])
    BY <1>5 DEF Hit
  <2>2. key[t] \in Keys /\ key[t] \in Registered
    BY <1>5 DEF Hit, ThreadInv, Registered
  <2>3. /\ Without(order, i) \in Seq(Keys)
        /\ Distinct(Without(order, i))
        /\ Entries(Without(order, i)) = Entries(order) \ {key[t]}
    BY <1>2, <2>1, WithoutType, WithoutDistinct DEF TableInv
  <2>4. Distinct(order') /\ Entries(order') = Entries(order)
    <3>1. key[t] \notin Entries(Without(order, i))
      BY <2>3
    <3>2. /\ Distinct(Append(Without(order, i), key[t]))
          /\ Entries(Append(Without(order, i), key[t]))
                = Entries(Without(order, i)) \cup {key[t]}
      BY <2>2, <2>3, <3>1, AppendDistinct
    <3> QED BY <2>1, <2>2, <2>3, <3>2 DEF TableInv
  <2>5. lockOf' = lockOf /\ Registered' = Registered
    BY <1>5 DEF Hit, Registered
  <2>6. TableInv' /\ TableBounded'
    BY <2>4, <2>5 DEF TableInv, TableBounded, Distinct, Entries
  <2>7. OwnerInv' /\ ScanInv'
    BY <1>5 DEF Hit, HandOut, OwnerInv, ScanInv, TypeOK, RegistryInv
  <2> QED BY <1>1, <2>6, <2>7
<1>6. ASSUME NEW t \in Threads, Miss(t) \/ Grow(t) PROVE BoundInv'
  <2>1. Create(t, lockOf, order) /\ lockOf[key[t]] = None /\ key[t] \in Keys
        /\ pc[t] \in {"lookup", "scan"}
    BY <1>6 DEF Miss, Grow, ThreadInv
  <2>2. Entries(order) = {k \in Keys : lockOf[k] # None} \ {key[t]}
    BY <2>1 DEF TableInv, Registered
  <2>3. TableInv' /\ OwnerInv' /\ ScanInv' /\ Registered' = Entries(order) \cup {key[t]}
    BY <2>1, <2>2, CreateTable DEF TableInv, TypeOK
  <2>4. Cardinality(Registered') = Cardinality(Registered) + 1
    <3>1. Registered' = Registered \cup {key[t]} /\ key[t] \notin Registered
      BY <2>1, <2>3 DEF TableInv, Registered
    <3> QED BY <1>2, <3>1, FS_AddElement
  <2>5. TableBounded'
    <3>1. CASE Miss(t)
      BY <1>2, <2>4, <3>1, MaxLocksAssumption DEF Miss, TableBounded
    <3>2. CASE Grow(t)
      BY <2>4, <3>2, GrowthPaid DEF TableBounded
    <3> QED BY <1>6, <3>1, <3>2
  <2> QED BY <1>1, <2>3, <2>5
<1>7. ASSUME NEW t \in Threads, EvictIdle(t) PROVE BoundInv'
  <2> DEFINE k == order[scan]
             table == [lockOf EXCEPT ![k] = None]
             rest == Without(order, scan)
  <2>1. scan \in 1..Len(order) /\ k \in Registered /\ k \in Keys
    <3>1. scan \in Nat \ {0} /\ scan <= Len(order)
      BY <1>7 DEF EvictIdle, TypeOK
    <3>2. scan \in 1..Len(order)
      BY <1>2, <3>1
    <3>3. k \in Registered
      BY <3>2 DEF TableInv, Entries
    <3> QED BY <3>2, <3>3 DEF Registered
  <2>2. rest \in Seq(Keys) /\ Distinct(rest) /\ Entries(rest) = Registered \ {k}
    BY <1>2, <2>1, WithoutType, WithoutDistinct DEF TableInv
  <2>3. key[t] \in Keys /\ lockOf[key[t]] = None /\ Create(t, table, rest)
    BY <1>7 DEF EvictIdle, ThreadInv
  <2>4. /\ table \in [Keys -> Locks \cup {None}] /\ table[key[t]] = None
        /\ \A m \in Keys : table[m] \in {lockOf[m], None}
        /\ Entries(rest) = {m \in Keys : table[m] # None} \ {key[t]}
    BY <2>1, <2>2, <2>3 DEF TypeOK, Registered
  <2>5. pc[t] = "scan"
    BY <1>7 DEF EvictIdle
  <2> HIDE DEF table, rest, k
  <2>6. TableInv' /\ OwnerInv' /\ ScanInv' /\ Registered' = Entries(rest) \cup {key[t]}
    BY <2>2, <2>3, <2>4, <2>5, CreateTable
  <2>7. Cardinality(Registered') = Cardinality(Registered)
    <3>1. key[t] \notin Registered \ {k}
      BY <2>3 DEF Registered
    <3>2. /\ IsFiniteSet(Registered \ {k})
          /\ Cardinality(Registered \ {k}) = Cardinality(Registered) - 1
      BY <1>2, <2>1, FS_RemoveElement
    <3>3. Cardinality((Registered \ {k}) \cup {key[t]}) = Cardinality(Registered \ {k}) + 1
      BY <3>1, <3>2, FS_AddElement
    <3> QED BY <1>2, <2>2, <2>6, <3>2, <3>3
  <2>8. TableBounded'
    BY <2>7 DEF TableBounded
  <2> QED BY <1>1, <2>6, <2>8
<1>8. ASSUME NEW t \in Threads, MissAtCapacity(t) PROVE BoundInv'
  <2>1. TableInv' /\ TableBounded' /\ OwnerInv'
    BY <1>3, <1>8 DEF MissAtCapacity, OwnerInv, TypeOK
  <2>2. ASSUME NEW u \in Threads, pc'[u] \in {"lookup", "scan"}
        PROVE  u = t /\ pc'[u] = "scan"
    BY <1>8, <2>2 DEF MissAtCapacity, RegistryInv, TypeOK
  <2>3. scan = 1 /\ scan' = scan /\ order' = order
    BY <1>8 DEF MissAtCapacity, ScanInv
  <2>4. (\E g \in [1..(scan - 1) -> Threads \ {t}] : Paying(t, g))'
    <3>1. 1..(scan' - 1) = {}
      BY <2>3
    <3> DEFINE g == [i \in {} |-> t]
    <3>2. g \in [1..(scan' - 1) -> Threads \ {t}] /\ DOMAIN g = {}
      BY <3>1
    <3>3. Paying(t, g)'
      BY <3>2 DEF Paying
    <3> QED BY <3>2, <3>3
  <2>5. ScanInv'
    <3>1. scan' <= Len(order') + 1
      BY <1>2, <2>3
    <3> QED BY <2>2, <2>4, <3>1 DEF ScanInv
  <2> QED BY <1>1, <2>1, <2>5
<1>9. ASSUME NEW t \in Threads, SkipHeld(t) PROVE BoundInv'
  <2>1. TableInv' /\ TableBounded' /\ OwnerInv'
    BY <1>3, <1>9 DEF SkipHeld, OwnerInv
  <2>2. pc[t] = "scan" /\ scan \in 1..Len(order) /\ scan' = scan + 1
        /\ UNCHANGED <<lockOf, order, pc, obj>>
    <3>1. scan \in Nat \ {0} /\ scan <= Len(order)
      BY <1>9 DEF SkipHeld, TypeOK
    <3> QED BY <1>2, <1>9, <3>1 DEF SkipHeld
  <2> DEFINE l == lockOf[order[scan]]
             u == owner[l]
  <2>3. order[scan] \in Registered /\ l \in Locks
    <3>1. order[scan] \in Registered
      BY <2>2 DEF TableInv, Entries
    <3> QED BY <3>1 DEF Registered, TypeOK
  <2>4. u \in Threads /\ u # t /\ pc[u] = "held" /\ obj[u] = l
    BY <1>9, <2>2, <2>3 DEF SkipHeld, Candidate, OwnerInv, TypeOK
  <2>5. PICK g \in [1..(scan - 1) -> Threads \ {t}] : Paying(t, g)
    BY <2>2 DEF ScanInv
  <2>6. \A i \in 1..(scan - 1) : g[i] # u
    <3> SUFFICES ASSUME NEW i \in 1..(scan - 1), g[i] = u PROVE FALSE
      OBVIOUS
    <3>1. lockOf[order[i]] = lockOf[order[scan]]
      BY <2>4, <2>5 DEF Paying
    <3>2. i \in 1..Len(order) /\ i # scan
      BY <1>2, <2>2
    <3>3. order[i] \in Registered
      BY <3>2 DEF TableInv, Entries
    <3>4. order[i] = order[scan]
      BY <2>3, <3>1, <3>3 DEF TableInv
    <3> QED BY <2>2, <3>2, <3>4 DEF TableInv, Distinct
  <2>7. PICK h \in [1..scan -> Threads \ {t}] :
             \A i \in 1..scan : h[i] = IF i = scan THEN u ELSE g[i]
    <3> DEFINE f == [i \in 1..scan |-> IF i = scan THEN u ELSE g[i]]
    <3>1. f \in [1..scan -> Threads \ {t}]
      BY <2>2, <2>4, <2>5
    <3> QED BY <3>1
  <2>8. Paying(t, h)'
    <3>1. \A i \in 1..scan : i # scan => i \in 1..(scan - 1)
      BY <2>2
    <3>2. \A i, j \in 1..scan : h[i] = h[j] => i = j
      BY <2>5, <2>6, <2>7, <3>1 DEF Paying
    <3>3. ASSUME NEW i \in 1..scan
          PROVE  /\ pc[h[i]] \in {"held", "idle"}
                 /\ pc[h[i]] = "held" => obj[h[i]] = lockOf[order[i]]
      BY <2>4, <2>5, <2>7, <3>1 DEF Paying
    <3> QED BY <2>2, <3>2, <3>3 DEF Paying
  <2>9. ScanInv'
    <3>1. \A v \in Threads : pc'[v] \in {"lookup", "scan"} => v = t /\ pc'[v] = "scan"
      BY <2>2 DEF RegistryInv
    <3>2. scan' <= Len(order') + 1 /\ scan' - 1 = scan
      BY <1>2, <2>2
    <3>3. (\E f \in [1..(scan - 1) -> Threads \ {t}] : Paying(t, f))'
      BY <2>8, <3>2
    <3> QED BY <3>1, <3>2, <3>3 DEF ScanInv
  <2> QED BY <1>1, <2>1, <2>9
<1>10. ASSUME NEW t \in Threads, Acquire(t) PROVE BoundInv'
  <2>1. TableInv' /\ TableBounded'
    BY <1>3, <1>10 DEF Acquire
  <2>2. OwnerInv'
    BY <1>10 DEF Acquire, OwnerInv, TypeOK, ThreadInv
  <2>3. ScanInv'
    BY <1>10, PayersStay DEF Acquire, TypeOK
  <2> QED BY <1>1, <2>1, <2>2, <2>3
<1>11. ASSUME NEW t \in Threads, Release(t) PROVE BoundInv'
  <2>1. TableInv' /\ TableBounded'
    BY <1>3, <1>11 DEF Release
  <2>2. OwnerInv'
    BY <1>11 DEF Release, OwnerInv, TypeOK, ThreadInv
  <2>3. ScanInv'
    BY <1>11, PayersStay DEF Release, TypeOK
  <2> QED BY <1>1, <2>1, <2>2, <2>3
<1>12. CASE UNCHANGED vars
  <2>1. TableInv' /\ TableBounded'
    BY <1>3, <1>12 DEF vars
  <2>2. OwnerInv' /\ ScanInv'
    BY <1>12, PayersStay DEF vars, OwnerInv
  <2> QED BY <1>1, <2>1, <2>2
<1> QED
  BY <1>4, <1>5, <1>6, <1>7, <1>8, <1>9, <1>10, <1>11, <1>12 DEF Next, Lookup

\* For any numbers of threads, paths and lock objects and any cap: the table
\* outgrows its cap by locks in use only, so never beyond the number of threads.
THEOREM Bounded == Spec => []TableBounded
<1>1. Init => BoundInv
  BY BoundInit
<1>2. BoundInv /\ [Next]_vars => BoundInv'
  BY BoundNext
<1>3. BoundInv => TableBounded
  BY DEF BoundInv
<1> QED BY <1>1, <1>2, <1>3, PTL DEF Spec

\* The LRU order lists the paths of the table, each once.
THEOREM OrderMatches == Spec => []OrderMatchesTable
<1>1. Init => BoundInv
  BY BoundInit
<1>2. BoundInv /\ [Next]_vars => BoundInv'
  BY BoundNext
<1>3. BoundInv => OrderMatchesTable
  BY DistinctCounts DEF BoundInv, IInv, TypeOK, TableInv, OrderMatchesTable, Entries
<1> QED BY <1>1, <1>2, <1>3, PTL DEF Spec
-----------------------------------------------------------------------------
\* When no more paths than MaxLocks are ever asked for, those of R, there is no
\* eviction, and the object a thread waits for or holds is the one the table hands out.
RoomyInv(R) ==
    /\ Registered \subseteq R
    /\ \A t \in Threads : /\ pc[t] # "scan"
                          /\ key[t] \in R \cup {None}
                          /\ pc[t] \in {"wait", "held"} => lockOf[key[t]] = obj[t]

\* A path of R that has no lock leaves room in a table as large as R.
LEMMA RoomForKey ==
    ASSUME NEW R, IsFiniteSet(R), Cardinality(R) <= MaxLocks, Registered \subseteq R,
           NEW k \in R, lockOf[k] = None
    PROVE  ~(Cardinality(Registered) >= MaxLocks)
<1>1. Registered \subseteq R \ {k}
  BY DEF Registered
<1>2. IsFiniteSet(R \ {k}) /\ Cardinality(R \ {k}) = Cardinality(R) - 1
  BY FS_RemoveElement
<1>3. Cardinality(Registered) <= Cardinality(R \ {k})
  BY <1>1, <1>2, FS_Subset
<1>4. Cardinality(R) \in Nat /\ Cardinality(Registered) \in Nat
  BY <1>1, <1>2, FS_Subset, FS_CardinalityType
<1> QED BY <1>2, <1>3, <1>4, MaxLocksAssumption

\* While every path that is asked for has room, no step evicts.
LEMMA RoomyNext ==
    ASSUME NEW R, IsFiniteSet(R), Cardinality(R) <= MaxLocks,
           IInv, RoomyInv(R), [Next]_vars, \A t \in Threads : key'[t] \in R \cup {None}
    PROVE  RoomyInv(R)'
<1> USE NoneAssumption DEF IInv
<1> DEFINE Handed == \A t \in Threads : /\ pc[t] # "scan"
                                        /\ pc[t] \in {"wait", "held"} => lockOf[key[t]] = obj[t]
<1> SUFFICES Registered' \subseteq R /\ Handed'
  BY DEF RoomyInv
<1> DEFINE Goal == Registered' \subseteq R /\ Handed'
<1>0. Registered \subseteq R /\ Handed
  BY DEF RoomyInv
<1>k. UNCHANGED lockOf => Registered' = Registered
  BY DEF Registered
<1>1. ASSUME NEW t \in Threads, NEW k \in Keys, Request(t, k) PROVE Goal
  BY <1>0, <1>1, <1>k DEF Request, TypeOK
<1>2. ASSUME NEW t \in Threads, Hit(t) PROVE Goal
  BY <1>0, <1>2, <1>k DEF Hit, HandOut, TypeOK
<1>3. ASSUME NEW t \in Threads, Miss(t) PROVE Goal
  <2>1. key[t] \in Keys /\ lockOf[key[t]] = None /\ key[t] \in R
    BY <1>3 DEF Miss, ThreadInv, RoomyInv
  <2>2. PICK l \in Locks \ Live :
             lockOf' = [lockOf EXCEPT ![key[t]] = l] /\ HandOut(t, l)
    BY <1>3 DEF Miss, Create
  <2>3. ASSUME NEW u \in Threads, pc[u] \in {"wait", "held"} PROVE key[u] # key[t]
    BY <2>1, <2>3 DEF RoomyInv, ThreadInv
  <2>4. Handed'
    BY <1>0, <2>1, <2>2, <2>3 DEF HandOut, TypeOK, ThreadInv
  <2>5. Registered' \subseteq R
    BY <1>0, <2>1, <2>2 DEF Registered, TypeOK
  <2> QED BY <2>4, <2>5
<1>4. ASSUME NEW t \in Threads, MissAtCapacity(t) PROVE FALSE
  <2>1. key[t] \in R /\ lockOf[key[t]] = None
    BY <1>4 DEF MissAtCapacity, ThreadInv, RoomyInv
  <2> QED BY <1>0, <1>4, <2>1, RoomForKey DEF MissAtCapacity
<1>5. ASSUME NEW t \in Threads, SkipHeld(t) \/ EvictIdle(t) \/ Grow(t) PROVE FALSE
  BY <1>0, <1>5 DEF SkipHeld, EvictIdle, Grow
<1>6. ASSUME NEW t \in Threads, Acquire(t) PROVE Goal
  BY <1>0, <1>6, <1>k DEF Acquire, TypeOK
<1>7. ASSUME NEW t \in Threads, Release(t) PROVE Goal
  BY <1>0, <1>7, <1>k DEF Release, TypeOK
<1>8. CASE UNCHANGED vars
  BY <1>0, <1>8, <1>k DEF vars
<1> QED BY <1>1, <1>2, <1>3, <1>4, <1>5, <1>6, <1>7, <1>8 DEF Next, Lookup

LEMMA RoomyStart ==
    ASSUME NEW R, Init PROVE RoomyInv(R)
BY NoneAssumption DEF Init, RoomyInv, Registered

\* With a cap not below the number of paths, the table never evicts.
THEOREM Roomy ==
    ASSUME Cardinality(Keys) <= MaxLocks
    PROVE  Spec => [](IInv /\ RoomyInv(Keys))
<1>1. Init => RoomyInv(Keys)
  BY RoomyStart
<1>2. IInv /\ RoomyInv(Keys) /\ IInv' /\ [Next]_vars => RoomyInv(Keys)'
  <2>1. TypeOK' => \A t \in Threads : key'[t] \in Keys \cup {None}
    BY DEF TypeOK
  <2> QED BY <2>1, KeysAssumption, RoomyNext DEF IInv
<1> QED BY <1>1, <1>2, Invariance, PTL DEF Spec

\* The holder of a path's lock object is the only thread inside the path.
LEMMA InsideOne ==
    ASSUME NEW R, IInv, RoomyInv(R), NEW t \in Threads, NEW u \in Threads, NEW k \in Keys,
           t \in Inside(k), u \in Inside(k)
    PROVE  t = u
BY DEF IInv, RoomyInv, ThreadInv, Inside

\* Writes to one path exclude each other as long as the table has room for
\* every path (below that, PathLocks_overlap shows that they do not).
THEOREM Exclusion ==
    ASSUME Cardinality(Keys) <= MaxLocks
    PROVE  Spec => []KeyExclusion
<1>1. IInv /\ RoomyInv(Keys) => KeyExclusion
  <2> SUFFICES ASSUME IInv, RoomyInv(Keys), NEW k \in Keys
               PROVE  Cardinality(Inside(k)) <= 1
    BY DEF KeyExclusion
  <2>1. CASE Inside(k) = {}
    BY <2>1, FS_EmptySet
  <2>2. CASE Inside(k) # {}
    <3>1. PICK t \in Threads : Inside(k) = {t}
      BY <2>2, InsideOne DEF Inside
    <3> QED BY <3>1, FS_Singleton
  <2> QED BY <2>1, <2>2
<1> QED BY <1>1, Roomy, PTL
-----------------------------------------------------------------------------
\* Only Acquire and Release move a thread in or out of a with-block.
LEMMA InsideUnchanged ==
    ASSUME \A t \in Threads :
              /\ pc'[t] = "held" <=> pc[t] = "held"
              /\ pc[t] = "held" => key'[t] = key[t]
    PROVE  [k \in Keys |-> Inside(k)]' = [k \in Keys |-> Inside(k)]
BY DEF Inside

\* A step of such a table is a step of a mutex, or changes no block.
LEMMA BlockStep ==
    ASSUME NEW R, IInv, RoomyInv(R), [Next]_vars
    PROVE  [M!Next]_[k \in Keys |-> Inside(k)]
<1> DEFINE inside == [k \in Keys |-> Inside(k)]
<1> SUFFICES M!Next \/ inside' = inside
  OBVIOUS
<1> USE NoneAssumption DEF IInv
<1>1. ASSUME NEW t \in Threads, Acquire(t) PROVE M!Next
  <2>1. key[t] \in Keys /\ obj[t] = lockOf[key[t]]
    BY <1>1 DEF Acquire, ThreadInv, RoomyInv
  <2>2. Inside(key[t]) = {}
    BY <1>1, <2>1 DEF Acquire, Inside, ThreadInv, RoomyInv
  <2>3. ASSUME NEW k \in Keys
        PROVE  Inside(k)' = IF k = key[t] THEN {t} ELSE Inside(k)
    BY <1>1, <2>2 DEF Acquire, Inside, TypeOK
  <2>4. inside' = [inside EXCEPT ![key[t]] = {t}]
    BY <2>3
  <2>5. M!Enter(t, key[t])
    BY <2>1, <2>2, <2>4 DEF M!Enter
  <2> QED BY <2>1, <2>5 DEF M!Next
<1>2. ASSUME NEW t \in Threads, Release(t) PROVE M!Next
  <2>1. key[t] \in Keys /\ t \in Inside(key[t])
    BY <1>2 DEF Release, ThreadInv, Inside
  <2>2. Inside(key[t]) = {t}
    BY <2>1, InsideOne DEF Inside
  <2>3. ASSUME NEW k \in Keys
        PROVE  Inside(k)' = IF k = key[t] THEN {} ELSE Inside(k)
    BY <1>2, <2>2 DEF Release, Inside, TypeOK
  <2>4. inside' = [inside EXCEPT ![key[t]] = {}]
    BY <2>3
  <2>5. M!Leave(t, key[t])
    BY <2>1, <2>2, <2>4 DEF M!Leave
  <2> QED BY <2>1, <2>5 DEF M!Next
<1>3. ASSUME NEW t \in Threads, (\E k \in Keys : Request(t, k)) \/ Lookup(t)
      PROVE  inside' = inside
  <2>1. \A u \in Threads : /\ pc'[u] = "held" <=> pc[u] = "held"
                           /\ pc[u] = "held" => key'[u] = key[u]
    BY <1>3 DEF Request, Lookup, Hit, Miss, MissAtCapacity, SkipHeld, EvictIdle,
                Grow, Create, HandOut, TypeOK
  <2> QED BY <2>1, InsideUnchanged
<1>4. CASE UNCHANGED vars
  BY <1>4, InsideUnchanged DEF vars
<1> QED BY <1>1, <1>2, <1>3, <1>4 DEF Next

\* Under the same assumption the lock table implements one mutex per path.
THEOREM Refinement ==
    ASSUME Cardinality(Keys) <= MaxLocks
    PROVE  Spec => ImplementsKeyMutex
<1>1. Init => M!Init
  BY DEF Init, M!Init, Inside
<1>2. IInv /\ RoomyInv(Keys) /\ [Next]_vars => [M!Next]_[k \in Keys |-> Inside(k)]
  BY BlockStep
<1> QED BY <1>1, <1>2, Roomy, PTL DEF Spec, ImplementsKeyMutex, M!Spec

\* RoomyImplements: also when there are more paths than locks, as long as no more
\* of them than there is room for are asked for: the suite's scene "roomy" asks for
\* two (db/jsondb.py:18).
THEOREM ScenesExclude ==
    ASSUME MaxLocks >= 2
    PROVE  StoreSpec => RoomyImplements
<1> DEFINE R == {k1, k2}
           Few == scene = "roomy" => RoomyInv(R)
<1>1. IsFiniteSet(R) /\ Cardinality(R) <= MaxLocks
  <2>1. IsFiniteSet({k2}) /\ Cardinality({k2}) = 1
    BY FS_Singleton
  <2>2. IsFiniteSet({k2} \cup {k1}) /\ Cardinality({k2} \cup {k1}) \in {1, 2}
    BY <2>1, FS_AddElement
  <2>3. {k2} \cup {k1} = R
    OBVIOUS
  <2> QED BY <2>2, <2>3, MaxLocksAssumption
<1>2. StoreInit => IInv /\ Few
  BY InitInv, RoomyStart DEF StoreInit
<1>3. [StoreNext]_all => [Next]_vars
  BY DEF StoreNext, Recording, Locking, all
<1>4. IInv /\ [StoreNext]_all => IInv'
  BY <1>3, NextInv
<1>5. IInv /\ IInv' /\ Few /\ [StoreNext]_all => Few'
  <2> SUFFICES ASSUME IInv, IInv', RoomyInv(R), [StoreNext]_all, scene = "roomy", scene' = "roomy"
               PROVE  RoomyInv(R)'
    BY DEF StoreNext, all
  <2>1. CASE Locking
    <3>1. \A t \in Threads : key'[t] \in R \cup {None}
      BY <2>1 DEF Locking
    <3> QED BY <1>1, <1>3, <3>1, RoomyNext
  <2>2. CASE UNCHANGED vars
    BY <2>2 DEF vars, RoomyInv, Registered
  <2> QED BY <2>1, <2>2 DEF StoreNext, Recording, all
<1>6. IInv /\ Few /\ [StoreNext]_all => [scene = "roomy" => M!Next]_Blocks
  <2> SUFFICES ASSUME IInv, Few, [StoreNext]_all, scene = "roomy"
               PROVE  M!Next \/ UNCHANGED Blocks
    OBVIOUS
  <2> QED BY <1>3, BlockStep DEF Blocks
<1> QED BY <1>2, <1>4, <1>5, <1>6, PTL DEF StoreSpec, RoomyImplements
-----------------------------------------------------------------------------
(***************************************************************************)
(* The theorems of JsonStore, for the scenes: in a scene of records        *)
(* a behaviour of the suite is one of that instance of JsonStore.          *)
(***************************************************************************)
LEMMA ScenesStay ==
    StoreSpec => /\ [](~(scene = "one")) \/ One!Spec
                 /\ [](~(scene = "read")) \/ Reading!Spec
                 /\ [](~(scene = "two")) \/ Two!Spec
                 /\ [](~(scene = "shared")) \/ Shared!Spec
<1>1. StoreInit => /\ scene = "one" => One!Init
                   /\ scene = "read" => Reading!Init
                   /\ scene = "two" => Two!Init
                   /\ scene = "shared" => Shared!Init
  BY DEF StoreInit
<1>2. [StoreNext]_all => /\ ~(scene = "one") => (~(scene = "one"))'
                         /\ scene = "one" => (scene = "one")' /\ [One!Next]_One!vars
  BY DEF StoreNext, Recording, all, files,
         One!vars, One!disks, One!procs, One!calls, One!reads, One!hist
<1>3. [StoreNext]_all => /\ ~(scene = "read") => (~(scene = "read"))'
                         /\ scene = "read" => (scene = "read")' /\ [Reading!Next]_Reading!vars
  BY DEF StoreNext, Recording, all, files,
         Reading!vars, Reading!disks, Reading!procs, Reading!calls, Reading!reads, Reading!hist
<1>4. [StoreNext]_all => /\ ~(scene = "two") => (~(scene = "two"))'
                         /\ scene = "two" => (scene = "two")' /\ [Two!Next]_Two!vars
  BY DEF StoreNext, Recording, all, files,
         Two!vars, Two!disks, Two!procs, Two!calls, Two!reads, Two!hist
<1>5. [StoreNext]_all => /\ ~(scene = "shared") => (~(scene = "shared"))'
                         /\ scene = "shared" => (scene = "shared")' /\ [Shared!Next]_Shared!vars
  BY DEF StoreNext, Recording, all, files,
         Shared!vars, Shared!disks, Shared!procs, Shared!calls, Shared!reads, Shared!hist
<1>6. QED
  BY <1>1, <1>2, <1>3, <1>4, <1>5, PTL DEF StoreSpec, One!Spec, Reading!Spec, Two!Spec, Shared!Spec

\* What writers acknowledged stays, in sight and through a power loss, in every scene
\* of writers (db/jsondb.py:5-11, db/_atomic.py:3-7).
THEOREM ScenesAreDurable == StoreSpec => []SavesDurable
<1>1. One!Spec => []One!SavesDurable
  BY ScenesAssumption, One!SavesAreDurable
<1>2. Reading!Spec => []Reading!SavesDurable
  BY ScenesAssumption, Reading!SavesAreDurable
<1>3. Two!Spec => []Two!SavesDurable
  BY ScenesAssumption, Two!SavesAreDurable
<1>4. Shared!Spec => []Shared!SavesDurable
  BY ScenesAssumption, Shared!SavesAreDurable
<1>5. QED
  BY <1>1, <1>2, <1>3, <1>4, ScenesStay, PTL DEF SavesDurable

\* A reader beside a writer sees each record as it was at some moment of the read
\* (db/jsondb.py:23-24).
THEOREM ScenesReadRegularly == StoreSpec => []ReadRegular
<1>1. Reading!Spec => []Reading!ReadRegular
  BY ScenesAssumption, Reading!ReadsAreRegular
<1>2. QED
  BY <1>1, ScenesStay, PTL DEF ReadRegular

\* Sweeps and deletes remove what is theirs to remove, in every scene of records
\* (db/jsondb.py:86, 95).
THEOREM ScenesRemoveSafely == StoreSpec => []RemovesOnce
<1>1. One!Spec => []One!RemovesOnce
  BY ScenesAssumption, One!RemovesSafely
<1>2. Reading!Spec => []Reading!RemovesOnce
  BY ScenesAssumption, Reading!RemovesSafely
<1>3. Two!Spec => []Two!RemovesOnce
  BY ScenesAssumption, Two!RemovesSafely
<1>4. Shared!Spec => []Shared!RemovesOnce
  BY ScenesAssumption, Shared!RemovesSafely
<1>5. QED
  BY <1>1, <1>2, <1>3, <1>4, ScenesStay, PTL DEF RemovesOnce
=============================================================================
