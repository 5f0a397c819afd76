--------------------------- MODULE EntitiesProofs ----------------------------
(***************************************************************************)
(* Batched saves for every number of tasks and entities, every cap and     *)
(* every list of entities to flush: no deferred save is forgotten, a flush *)
(* that reports success has stored what it was called for, and one that    *)
(* ends well leaves its entity writing through.                            *)
(***************************************************************************)
EXTENDS MCEntities, Sequences, FiniteSetTheorems, WellFoundedInduction, TLAPS

USE CapAssumption, ListsAssumption, ModeAssumption, CountAssumption

Types ==
    /\ ent \in [Entities -> Entity]
    /\ task \in [Tasks -> Task]
    /\ allowed \in BOOLEAN
    /\ promised \in [Entities -> Nat]
    /\ \A t \in Tasks : task[t].pc # "idle" => task[t].at \in DOMAIN task[t].list

(* A dirty entity has a save counted.                                      *)
Counted(x) == /\ x.dirty <=> x.count > 0
              /\ x.dirty => allowed

(* The versions of an entity are in order, and nothing deferred is lost.   *)
Ordered(x) == x.late <= x.val /\ x.stored <= x.val /\ (x.dirty \/ x.late <= x.stored)

(* What a task is writing is not older than what is stored.                *)
Newer(t) == task[t].pc = "write" => /\ ent[Of(t)].stored <= task[t].snap
                                    /\ task[t].snap <= ent[Of(t)].val

(* While an entity is flushed it defers nothing, and the flush covers all  *)
(* that was deferred.                                                      *)
Covers(t) ==
    task[t].pc # "idle" /\ task[t].flush
      => /\ ~ent[Of(t)].mode
         /\ ent[Of(t)].late <= IF task[t].pc = "write" THEN task[t].snap ELSE ent[Of(t)].stored

(* What was deferred when the call began is still covered, and what the    *)
(* call has passed is stored.                                              *)
Needs(t) ==
    task[t].pc # "idle" =>
      /\ \A e \in Entities : task[t].need[e] <= ent[e].late
      /\ \A e \in Entities : \/ task[t].need[e] <= ent[e].stored
                             \/ \E i \in task[t].at..Len(task[t].list) : task[t].list[i] = e

IInv == /\ Types
        /\ \A e \in Entities : Ordered(ent[e])
        /\ \A t \in Tasks : Newer(t) /\ Covers(t) /\ Needs(t)
        /\ Persisted

(* What flushing leaves of an entity it does not write.                    *)
Same(x, y) == /\ x.val = y.val /\ x.dirty = y.dirty /\ x.stored = y.stored /\ x.late = y.late
              /\ x.mode => y.mode
              /\ x.count = y.count \/ (x.count = 0 /\ ~x.dirty)

\* To flush what is not dirty changes nothing that counts.
LEMMA FlushedSame ==
  ASSUME NEW x \in Entity, ~x.dirty
  PROVE  Flushed(x) \in Entity /\ Same(Flushed(x), x)
<1>1. Flushed(x) \in Entity
  BY Zenon DEF Flushed, Entity
<1>2. /\ Flushed(x).val = x.val /\ Flushed(x).dirty = x.dirty /\ Flushed(x).stored = x.stored
      /\ Flushed(x).late = x.late /\ ~Flushed(x).mode /\ Flushed(x).count = 0
  BY DEF Flushed, Entity
<1> QED
  BY <1>1, <1>2 DEF Same

\* What goes on with a list leaves of the entities and the other tasks.
LEMMA ProceedFacts ==
  ASSUME NEW t \in Tasks, NEW c \in Task, NEW from \in Nat \ {0},
         NEW ents \in [Entities -> Entity], Types, Proceed(t, c, from, ents)
  PROVE  /\ ent' \in [Entities -> Entity]
         /\ \A e \in Entities : Same(ent'[e], ents[e])
         /\ \A u \in Tasks : u # t => task'[u] = task[u]
         /\ task' \in [Tasks -> Task] /\ promised' \in [Entities -> Nat]
         /\ \/ /\ task'[t].pc = "write" /\ task'[t].flush = c.flush
               /\ task'[t].list = c.list /\ task'[t].need = c.need /\ task'[t].good = c.good
               /\ task'[t].at \in from..Len(c.list)
               /\ \A j \in from..Len(c.list) : j < task'[t].at => ~ents[c.list[j]].dirty
               /\ task'[t].snap = ents[c.list[task'[t].at]].val
               /\ ~ent'[c.list[task'[t].at]].mode
               /\ promised' = promised
            \/ /\ task'[t].pc = "idle"
               /\ \A i \in from..Len(c.list) : ~ents[c.list[i]].dirty
               /\ \A e \in Entities : promised'[e] = promised[e]
                                      \/ (c.good /\ promised'[e] = c.need[e])
<1> DEFINE rest == from..Len(c.list)
           Stops(i) == i \in rest /\ ents[c.list[i]].dirty
                       /\ \A j \in rest : j < i => ~ents[c.list[j]].dirty
           Clean(e) == \E i \in rest : c.list[i] = e /\ \A j \in rest : j <= i => ~ents[c.list[j]].dirty
           ended == [e \in Entities |-> IF Clean(e) THEN Flushed(ents[e]) ELSE ents[e]]
<1>c. c.list \in Seq(Entities) /\ c.need \in [Entities -> Nat] /\ Len(c.list) \in Nat
      /\ \A i \in rest : i \in Nat /\ i \in DOMAIN c.list /\ c.list[i] \in Entities
  BY DEF Task
<1>t. task \in [Tasks -> Task] /\ promised \in [Entities -> Nat]
  BY DEF Types
<1>e. \A e \in Entities : ended[e] \in Entity /\ Same(ended[e], ents[e])
  <2> SUFFICES ASSUME NEW e \in Entities PROVE ended[e] \in Entity /\ Same(ended[e], ents[e])
    OBVIOUS
  <2>1. ents[e] \in Entity
    OBVIOUS
  <2>2. CASE Clean(e)
    <3>1. ~ents[e].dirty
      BY <1>c, <2>2
    <3>2. ended[e] = Flushed(ents[e])
      BY <2>2
    <3> HIDE DEF ended
    <3> QED
      BY <2>1, <3>1, <3>2, FlushedSame
  <2>3. CASE ~Clean(e)
    <3>1. ended[e] = ents[e]
      BY <2>3
    <3> HIDE DEF ended
    <3> QED
      BY <2>1, <3>1 DEF Same
  <2> QED
    BY <2>2, <2>3
<1>n. ended \in [Entities -> Entity]
  <2>1. DOMAIN ended = Entities /\ ended = [e \in Entities |-> ended[e]]
    OBVIOUS
  <2> HIDE DEF ended
  <2> QED
    BY <1>e, <2>1
<1>1. CASE \E i \in rest :
              /\ Stops(i)
              /\ ent' = [ended EXCEPT ![c.list[i]] = Begun(@)]
              /\ task' = [task EXCEPT ![t] = [c EXCEPT !.pc = "write", !.at = i,
                                                       !.snap = ents[c.list[i]].val]]
              /\ UNCHANGED promised
  <2> PICK i \in rest :
              /\ Stops(i)
              /\ ent' = [ended EXCEPT ![c.list[i]] = Begun(@)]
              /\ task' = [task EXCEPT ![t] = [c EXCEPT !.pc = "write", !.at = i,
                                                       !.snap = ents[c.list[i]].val]]
              /\ UNCHANGED promised
    BY <1>1
  <2> HIDE DEF ended
  <2>1. c.list[i] \in Entities /\ ended[c.list[i]] \in Entity /\ ents[c.list[i]].val \in Nat
    BY <1>c, <1>e DEF Entity
  <2>2. /\ Begun(ended[c.list[i]]) \in Entity /\ ~Begun(ended[c.list[i]]).mode
        /\ Same(Begun(ended[c.list[i]]), ents[c.list[i]])
    BY <1>e, <2>1 DEF Begun, Same, Entity
  <2>3. /\ ent' \in [Entities -> Entity] /\ ~ent'[c.list[i]].mode
        /\ \A e \in Entities : Same(ent'[e], ents[e])
    BY <1>e, <1>n, <2>1, <2>2
  <2>4. [c EXCEPT !.pc = "write", !.at = i, !.snap = ents[c.list[i]].val] \in Task
    BY <1>c, <2>1 DEF Task
  <2>5. /\ task' \in [Tasks -> Task] /\ \A u \in Tasks : u # t => task'[u] = task[u]
        /\ task'[t] = [c EXCEPT !.pc = "write", !.at = i, !.snap = ents[c.list[i]].val]
    BY <1>t, <2>4
  <2>6. /\ task'[t].pc = "write" /\ task'[t].flush = c.flush /\ task'[t].list = c.list
        /\ task'[t].need = c.need /\ task'[t].good = c.good /\ task'[t].at = i
        /\ task'[t].snap = ents[c.list[i]].val
    BY <2>5 DEF Task
  <2> QED
    <3>1. task'[t].at \in rest /\ task'[t].snap = ents[c.list[task'[t].at]].val
          /\ ~ent'[c.list[task'[t].at]].mode
          /\ \A j \in rest : j < task'[t].at => ~ents[c.list[j]].dirty
      BY <2>3, <2>6
    <3> QED
      BY <1>t, <2>3, <2>5, <2>6, <3>1, Zenon
<1>2. CASE /\ \A i \in rest : ~ents[c.list[i]].dirty
           /\ ent' = ended
           /\ task' = [task EXCEPT ![t] = Idle]
           /\ promised' = [e \in Entities |->
                 IF c.good /\ c.need[e] > promised[e] THEN c.need[e] ELSE promised[e]]
  <2> HIDE DEF ended
  <2>1. Idle \in Task
    BY DEF Idle, Task
  <2>2. /\ task' \in [Tasks -> Task] /\ task'[t].pc = "idle"
        /\ \A u \in Tasks : u # t => task'[u] = task[u]
    BY <1>t, <1>2, <2>1 DEF Idle
  <2> QED
    BY <1>c, <1>t, <1>e, <1>n, <1>2, <2>2
<1> QED
  BY <1>1, <1>2 DEF Proceed

\* At first nothing is deferred.
LEMMA InitInv == Init => IInv
<1> SUFFICES ASSUME Init PROVE IInv
  OBVIOUS
<1>0. /\ ent \in [Entities -> Entity] /\ allowed \in BOOLEAN
      /\ promised \in [Entities -> Nat]
  BY DEF Init, Entity
<1>t. Idle \in Task
  BY DEF Idle, Task
<1>1. Types
  BY <1>0, <1>t DEF Init, Types, Idle
<1>2. \A e \in Entities : Ordered(ent[e])
  BY DEF Init, Ordered
<1>3. \A t \in Tasks : Newer(t) /\ Covers(t) /\ Needs(t)
  BY DEF Init, Newer, Covers, Needs, Idle
<1>4. Persisted
  BY DEF Init, Persisted
<1> QED
  BY <1>1, <1>2, <1>3, <1>4 DEF IInv

(* The records a step builds.                                              *)
LEMMA EntityFields ==
  ASSUME NEW x \in Entity
  PROVE  /\ Marked(x) \in Entity /\ Marked(x).val = x.val /\ Marked(x).stored = x.stored
         /\ Marked(x).late = x.val /\ Marked(x).dirty /\ Marked(x).count = x.count + 1
         /\ Marked(x).mode = x.mode
         /\ Saved(x) \in Entity /\ Saved(x).val = x.val /\ Saved(x).stored = x.stored
         /\ Saved(x).late = x.late /\ ~Saved(x).dirty /\ Saved(x).count = 0
         /\ Saved(x).mode = x.mode
<1>1. Marked(x) \in Entity
  <2>1. x.count + 1 \in Nat /\ x.val \in Nat
    BY DEF Entity
  <2> QED
    BY <2>1 DEF Marked, Entity
<1>2. Saved(x) \in Entity
  BY DEF Saved, Entity
<1>3. /\ Marked(x).val = x.val /\ Marked(x).stored = x.stored /\ Marked(x).late = x.val
      /\ Marked(x).dirty /\ Marked(x).count = x.count + 1 /\ Marked(x).mode = x.mode
  BY DEF Marked, Entity
<1>4. /\ Saved(x).val = x.val /\ Saved(x).stored = x.stored /\ Saved(x).late = x.late
      /\ ~Saved(x).dirty /\ Saved(x).count = 0 /\ Saved(x).mode = x.mode
  BY DEF Saved, Entity
<1> QED
  BY <1>1, <1>2, <1>3, <1>4

CallOf(c, list, ents) ==
    /\ c.flush /\ c.list = list /\ c.good
    /\ \A e \in Entities : c.need[e] = IF \E i \in 1..Len(list) : list[i] = e
                                       THEN ents[e].late ELSE 0

\* A flush that begins counts from what is late at that time.
LEMMA CallTask ==
  ASSUME NEW ents \in [Entities -> Entity], NEW list \in Seq(Entities), NEW strict \in BOOLEAN,
         NEW c, c = Call(list, strict, ents)
  PROVE  c \in Task /\ CallOf(c, list, ents)
<1> DEFINE need == [e \in Entities |-> IF \E i \in DOMAIN list : list[i] = e
                                       THEN ents[e].late ELSE 0]
<1>1. need \in [Entities -> Nat]
  BY DEF Entity
<1>2. DOMAIN list = 1..Len(list)
  OBVIOUS
<1>3. \A e \in Entities : need[e] = IF \E i \in 1..Len(list) : list[i] = e
                                     THEN ents[e].late ELSE 0
  BY <1>2
<1>4. Call(list, strict, ents) = [Idle EXCEPT !.flush = TRUE, !.list = list, !.strict = strict,
                                              !.need = need]
  BY DEF Call
<1> HIDE DEF need
<1>5. c = [pc |-> "idle", flush |-> TRUE, list |-> list, at |-> 0, snap |-> 0,
           strict |-> strict, good |-> TRUE, need |-> need]
  BY <1>4 DEF Idle
<1>6. c \in Task
  BY <1>1, <1>5 DEF Task
<1>7. c.flush /\ c.list = list /\ c.good /\ c.need = need
  BY <1>5
<1> QED
  BY <1>3, <1>6, <1>7 DEF CallOf

\* At first no entity is dirty or counted.
LEMMA InitCounted == Init => \A e \in Entities : Counted(ent[e])
  BY DEF Init, Counted

\* Entities alike but for what counts are counted alike.
LEMMA SameCounted ==
  ASSUME NEW x \in Entity, NEW y \in Entity, Same(x, y)
  PROVE  /\ (y.dirty <=> y.count > 0) => (x.dirty <=> x.count > 0)
         /\ x.dirty => y.dirty
<1>1. x.dirty \in BOOLEAN /\ y.dirty \in BOOLEAN /\ x.count \in Nat /\ y.count \in Nat
  BY DEF Entity
<1>2. x.dirty <=> y.dirty
  BY <1>1 DEF Same
<1>3. x.count = y.count \/ (x.count = 0 /\ ~x.dirty)
  BY DEF Same
<1> QED
  BY <1>1, <1>2, <1>3

(* Types and counts survive a step in which some task proceeds.            *)
LEMMA ProceedTypes ==
  ASSUME NEW t \in Tasks, NEW c \in Task, NEW from \in Nat \ {0},
         NEW ents \in [Entities -> Entity], Types, allowed' = allowed,
         \A e \in Entities : Counted(ents[e]),
         Proceed(t, c, from, ents)
  PROVE  Types' /\ \A e \in Entities : Counted(ent[e])'
<1>1. /\ ent' \in [Entities -> Entity] /\ \A e \in Entities : Same(ent'[e], ents[e])
      /\ \A u \in Tasks : u # t => task'[u] = task[u]
      /\ task' \in [Tasks -> Task] /\ promised' \in [Entities -> Nat]
      /\ task'[t].pc # "idle" => task'[t].list = c.list /\ task'[t].at \in from..Len(c.list)
  BY ProceedFacts
<1>2. task'[t].pc # "idle" => task'[t].at \in DOMAIN task'[t].list
  <2>1. c.list \in Seq(Entities) /\ DOMAIN c.list = 1..Len(c.list) /\ Len(c.list) \in Nat
    BY DEF Task
  <2> QED
    BY <1>1, <2>1
<1>3. Types'
  BY <1>1, <1>2 DEF Types
<1>4. ASSUME NEW e \in Entities PROVE Counted(ent[e])'
  <2>1. ent'[e] \in Entity /\ ents[e] \in Entity /\ Same(ent'[e], ents[e])
    BY <1>1
  <2>2. Counted(ents[e])
    OBVIOUS
  <2> QED
    BY <2>1, <2>2, SameCounted DEF Counted
<1> QED
  BY <1>3, <1>4

\* Every step, of a fault too, keeps dirty and counted together.
LEMMA CountedStep ==
  ASSUME Types, \A e \in Entities : Counted(ent[e]), [Next]_vars
  PROVE  Types' /\ \A e \in Entities : Counted(ent[e])'
<1> DEFINE Goal == Types' /\ \A e \in Entities : Counted(ent[e])'
<1>t. /\ task \in [Tasks -> Task] /\ ent \in [Entities -> Entity]
      /\ allowed \in BOOLEAN /\ promised \in [Entities -> Nat]
  BY DEF Types
<1>i. Idle \in Task /\ Idle.pc = "idle"
  BY DEF Idle, Task
<1>o. ASSUME NEW t \in Tasks, task[t].pc # "idle"
      PROVE Of(t) \in Entities /\ task[t].at \in Nat \ {0} /\ task[t].list \in Seq(Entities)
  BY <1>o DEF Types, Of, Task
<1>s. ASSUME NEW t \in Tasks, NEW s \in Task, task' = [task EXCEPT ![t] = s],
             s.pc = "idle" \/ s.at \in DOMAIN s.list,
             allowed' = allowed, promised' = promised,
             ent' \in [Entities -> Entity], \A e \in Entities : Counted(ent[e])'
      PROVE  Goal
  BY <1>s, <1>t DEF Types
<1>e. ASSUME NEW e \in Entities, NEW x \in Entity, ent' = [ent EXCEPT ![e] = x],
             x.dirty = ent[e].dirty, x.count = ent[e].count, allowed' = allowed
      PROVE  ent' \in [Entities -> Entity] /\ \A d \in Entities : Counted(ent[d])'
  BY <1>e, <1>t DEF Counted
<1>1. ASSUME NEW t \in Tasks, NEW e \in Entities, Change(t, e) \/ Enable(t, e) \/ Disable(t, e)
      PROVE Goal
  <2>1. CASE Change(t, e)
    <3>1. ent[e].val + 1 \in Nat
      BY <1>t DEF Entity
    <3>2. PICK x \in Entity : /\ ent' = [ent EXCEPT ![e] = x]
                              /\ x.dirty = ent[e].dirty /\ x.count = ent[e].count
      <4>1. [ent[e] EXCEPT !.val = @ + 1] \in Entity
        BY <1>t, <3>1 DEF Entity
      <4>2. /\ [ent[e] EXCEPT !.val = @ + 1].dirty = ent[e].dirty
            /\ [ent[e] EXCEPT !.val = @ + 1].count = ent[e].count
        BY <1>t DEF Entity
      <4> QED
        BY <2>1, <4>1, <4>2 DEF Change
    <3> QED
      BY <1>e, <1>t, <2>1, <3>2 DEF Change, Types
  <2>2. ASSUME NEW m \in BOOLEAN, ent' = [ent EXCEPT ![e].mode = m],
               UNCHANGED <<task, allowed, promised>>
        PROVE  Goal
    <3>1. [ent[e] EXCEPT !.mode = m] \in Entity
      BY <1>t DEF Entity
    <3>2. /\ [ent[e] EXCEPT !.mode = m].dirty = ent[e].dirty
          /\ [ent[e] EXCEPT !.mode = m].count = ent[e].count
      BY <1>t DEF Entity
    <3> QED
      BY <1>e, <1>t, <2>2, <3>1, <3>2 DEF Types
  <2> QED
    BY <1>1, <2>1, <2>2 DEF Enable, Disable
<1>2. ASSUME NEW t \in Tasks, NEW e \in Entities, SaveDeferred(t, e) PROVE Goal
  <2> DEFINE ents == [ent EXCEPT ![e] = Marked(@)]
  <2>1. ents \in [Entities -> Entity] /\ \A d \in Entities : Counted(ents[d])
    <3>1. ent[e] \in Entity /\ ent[e].count \in Nat /\ Marked(ent[e]) \in Entity
      BY <1>t, EntityFields DEF Entity
    <3>2. ents[e] = Marked(ent[e]) /\ \A d \in Entities : d # e => ents[d] = ent[d]
      BY <1>t
    <3>3. Counted(ents[e])
      BY <1>2, <3>1, <3>2, EntityFields DEF Counted, SaveDeferred, Defers
    <3> QED
      BY <1>t, <3>1, <3>2, <3>3
  <2>2. CASE Proceed(t, Call(<<e>>, TRUE, ents), 1, ents)
    <3> HIDE DEF ents
    <3>0. <<e>> \in Seq(Entities) /\ TRUE \in BOOLEAN /\ ents \in [Entities -> Entity]
      BY <2>1
    <3>2. allowed' = allowed
      BY <1>2 DEF SaveDeferred
    <3> DEFINE c == Call(<<e>>, TRUE, ents)
    <3>1. c = Call(<<e>>, TRUE, ents) /\ Proceed(t, c, 1, ents)
      BY <2>2
    <3>4. 1 \in Nat \ {0}
      OBVIOUS
    <3> HIDE DEF c
    <3>3. c \in Task
      BY <3>0, <3>1, CallTask
    <3> QED
      BY <2>1, <3>1, <3>2, <3>3, <3>4, ProceedTypes
  <2>3. CASE ent' = ents /\ UNCHANGED <<task, promised>>
    <3> HIDE DEF ents
    <3> QED
      BY <1>2, <1>t, <2>1, <2>3 DEF SaveDeferred, Types, Counted
  <2> QED
    BY <1>2, <2>2, <2>3 DEF SaveDeferred
<1>3. ASSUME NEW t \in Tasks, NEW e \in Entities, SaveNow(t, e) PROVE Goal
  <2> DEFINE s == [Idle EXCEPT !.pc = "write", !.list = <<e>>, !.at = 1, !.snap = ent[e].val]
  <2>2. ent[e].val \in Nat /\ <<e>> \in Seq(Entities)
    BY <1>t DEF Entity
  <2>3. s \in Task /\ s.at \in DOMAIN s.list
    <3>1. s \in Task
      BY <1>i, <2>2 DEF Task
    <3>2. s.at = 1 /\ s.list = <<e>> /\ 1 \in DOMAIN <<e>>
      BY <1>i DEF Task
    <3> HIDE DEF s
    <3> QED
      BY <3>1, <3>2
  <2>4. task' = [task EXCEPT ![t] = s] /\ UNCHANGED <<ent, allowed, promised>>
    BY <1>3 DEF SaveNow
  <2> HIDE DEF s
  <2> QED
    BY <1>s, <1>t, <2>3, <2>4 DEF Counted
<1>4. ASSUME NEW t \in Tasks, NEW list \in Lists, NEW strict \in BOOLEAN, Flush(t, list, strict)
      PROVE Goal
  <2> DEFINE c == Call(list, strict, ent)
  <2>1. c = Call(list, strict, ent) /\ Proceed(t, c, 1, ent) /\ allowed' = allowed
    BY <1>4 DEF Flush
  <2>2. 1 \in Nat \ {0}
    OBVIOUS
  <2> HIDE DEF c
  <2>3. c \in Task
    BY <1>t, <2>1, CallTask
  <2> QED
    BY <1>t, <2>1, <2>2, <2>3, ProceedTypes
<1>5. ASSUME NEW t \in Tasks, Store(t) PROVE Goal
  <2>1. Of(t) \in Entities /\ task[t].snap \in Nat /\ task[t].at \in DOMAIN task[t].list
    BY <1>5, <1>o, <1>t DEF Store, Task, Types
  <2> DEFINE x == [ent[Of(t)] EXCEPT !.stored = task[t].snap]
             s == [task[t] EXCEPT !.pc = "wrote"]
  <2>2. x \in Entity /\ x.dirty = ent[Of(t)].dirty /\ x.count = ent[Of(t)].count
    BY <1>t, <2>1 DEF Entity
  <2>3. s \in Task /\ s.at = task[t].at /\ s.list = task[t].list
    BY <1>t DEF Task
  <2>4. ent' = [ent EXCEPT ![Of(t)] = x] /\ task' = [task EXCEPT ![t] = s]
    BY <1>5 DEF Store
  <2> HIDE DEF x, s
  <2>5. ent' \in [Entities -> Entity] /\ \A d \in Entities : Counted(ent[d])'
    BY <1>5, <1>e, <2>1, <2>2, <2>4 DEF Store
  <2> QED
    BY <1>5, <1>s, <2>1, <2>3, <2>4, <2>5 DEF Store
<1>6. ASSUME NEW t \in Tasks, Done(t) PROVE Goal
  <2>1. CASE task[t].flush /\ Proceed(t, task[t], task[t].at + 1, [ent EXCEPT ![Of(t)] = Saved(@)])
    <3>1. Of(t) \in Entities /\ task[t].at + 1 \in Nat \ {0}
      BY <1>6, <1>o DEF Done
    <3> DEFINE ents == [ent EXCEPT ![Of(t)] = Saved(@)]
    <3>2. Saved(ent[Of(t)]) \in Entity /\ Counted(Saved(ent[Of(t)]))
      BY <1>t, <3>1, EntityFields DEF Counted
    <3>3. ents \in [Entities -> Entity] /\ \A d \in Entities : Counted(ents[d])
      BY <1>t, <3>1, <3>2
    <3>4. Proceed(t, task[t], task[t].at + 1, ents) /\ allowed' = allowed
      BY <1>6, <2>1 DEF Done
    <3> HIDE DEF ents
    <3> QED
      BY <1>t, <3>1, <3>3, <3>4, ProceedTypes
  <2>2. CASE ~task[t].flush
    BY <1>6, <1>i, <1>s, <1>t, <2>2 DEF Done, Counted
  <2> QED
    BY <1>6, <2>1, <2>2 DEF Done
<1>7. ASSUME NEW t \in Tasks, Raise(t) PROVE Goal
  <2>0. Of(t) \in Entities /\ task[t].at + 1 \in Nat \ {0} /\ allowed' = allowed
    BY <1>7, <1>o DEF Raise
  <2> DEFINE x == [ent[Of(t)] EXCEPT !.mode = TRUE]
             ents == [ent EXCEPT ![Of(t)] = x]
  <2>1. x \in Entity /\ x.dirty = ent[Of(t)].dirty /\ x.count = ent[Of(t)].count
    BY <1>t, <2>0 DEF Entity
  <2>2. ents \in [Entities -> Entity] /\ \A d \in Entities : Counted(ents[d])
    <3> HIDE DEF x
    <3> QED
      BY <1>t, <2>0, <2>1 DEF Counted
  <2>3. CASE Proceed(t, Failed(task[t]), task[t].at + 1, ents)
    <3>1. Failed(task[t]) \in Task
      BY <1>t DEF Failed, Task
    <3> HIDE DEF ents
    <3> QED
      BY <2>0, <2>2, <2>3, <3>1, ProceedTypes
  <2>4. CASE ent' = ents /\ task' = [task EXCEPT ![t] = Idle] /\ UNCHANGED promised
    <3> HIDE DEF ents
    <3> QED
      BY <1>i, <1>s, <2>0, <2>2, <2>4 DEF Counted
  <2>5. CASE task' = [task EXCEPT ![t] = Idle] /\ UNCHANGED <<ent, promised>>
    BY <1>i, <1>s, <1>t, <2>0, <2>5 DEF Counted
  <2> QED
    BY <1>7, <2>3, <2>4, <2>5 DEF Raise
<1>8. CASE UNCHANGED vars
  BY <1>8 DEF vars, Types, Counted
<1> QED
  BY <1>1, <1>2, <1>3, <1>4, <1>5, <1>6, <1>7, <1>8 DEF Next

(* TypeOK: with the types, an entity is dirty exactly while a deferred     *)
(* save is counted, and only where deferring is allowed.                   *)
THEOREM Typing == Spec => []TypeOK
<1> DEFINE I == Types /\ \A e \in Entities : Counted(ent[e])
<1>1. Init => I
  BY InitInv, InitCounted DEF IInv
<1>2. I /\ [Next]_vars => I'
  BY CountedStep
<1>3. I => TypeOK
  BY DEF Types, Counted, TypeOK
<1> QED
  BY <1>1, <1>2, <1>3, PTL DEF Spec

(* The invariant survives a step in which a flush proceeds.                *)
Kept(x, y) ==
    /\ x.val = y.val /\ x.stored = y.stored
    /\ y.late <= x.late
    /\ x.mode => y.mode
    /\ x.late = y.late \/ y.mode

Ready(c, from, ents) ==
    /\ c.flush
    /\ \A e \in Entities : Ordered(ents[e])
    /\ \A e \in Entities : Kept(ents[e], ent[e])
    /\ \A e \in Entities : c.need[e] <= ents[e].late
    /\ \A e \in Entities : c.need[e] <= ents[e].stored
                          \/ \E i \in from..Len(c.list) : c.list[i] = e

\* Going on with a list keeps the invariant.
LEMMA ProceedInv ==
  ASSUME IInv, NEW t \in Tasks, NEW c \in Task, NEW from \in Nat \ {0},
         NEW ents \in [Entities -> Entity], Proceed(t, c, from, ents), Types',
         Ready(c, from, ents)
  PROVE  IInv'
<1> c.flush
  BY DEF Ready
<1> \A e \in Entities : Ordered(ents[e])
  BY DEF Ready
<1> \A e \in Entities : /\ ents[e].val = ent[e].val /\ ents[e].stored = ent[e].stored
                        /\ ent[e].late <= ents[e].late
                        /\ ents[e].mode => ent[e].mode
                        /\ ents[e].late = ent[e].late \/ ent[e].mode
  BY DEF Ready, Kept
<1> \A e \in Entities : c.need[e] <= ents[e].late
  BY DEF Ready
<1> \A e \in Entities : \/ c.need[e] <= ents[e].stored
                        \/ \E i \in from..Len(c.list) : c.list[i] = e
  BY DEF Ready
<1>t. /\ ent \in [Entities -> Entity] /\ task \in [Tasks -> Task] /\ promised \in [Entities -> Nat]
      /\ c.need \in [Entities -> Nat] /\ c.list \in Seq(Entities)
  BY DEF IInv, Types, Task
<1>n. \A e \in Entities : /\ ent[e].val \in Nat /\ ent[e].late \in Nat /\ ent[e].stored \in Nat
                          /\ ents[e].val \in Nat /\ ents[e].late \in Nat /\ ents[e].stored \in Nat
                          /\ c.need[e] \in Nat
  BY <1>t DEF Entity
<1>1. Types
  BY DEF IInv
<1>p. /\ \A e \in Entities : Same(ent'[e], ents[e])
      /\ \A u \in Tasks : u # t => task'[u] = task[u]
      /\ \/ /\ task'[t].pc = "write" /\ task'[t].flush = c.flush
            /\ task'[t].list = c.list /\ task'[t].need = c.need /\ task'[t].good = c.good
            /\ task'[t].at \in from..Len(c.list)
            /\ \A j \in from..Len(c.list) : j < task'[t].at => ~ents[c.list[j]].dirty
            /\ task'[t].snap = ents[c.list[task'[t].at]].val
            /\ ~ent'[c.list[task'[t].at]].mode
            /\ promised' = promised
         \/ /\ task'[t].pc = "idle"
            /\ \A i \in from..Len(c.list) : ~ents[c.list[i]].dirty
            /\ \A e \in Entities : promised'[e] = promised[e]
                                   \/ (c.good /\ promised'[e] = c.need[e])
  BY <1>1, ProceedFacts
<1>l. \A i \in from..Len(c.list) : i \in Nat /\ c.list[i] \in Entities
  BY <1>t
<1>2. \A e \in Entities : Ordered(ent[e])'
  BY <1>p DEF Same, Ordered
<1>3. ASSUME NEW u \in Tasks, u # t PROVE Newer(u)' /\ Covers(u)' /\ Needs(u)'
  <2>1. task'[u] = task[u] /\ Newer(u) /\ Covers(u) /\ Needs(u)
    BY <1>3, <1>p DEF IInv
  <2>2. task[u].pc # "idle" => Of(u) \in Entities
    <3>1. task[u] \in Task /\ (task[u].pc # "idle" => task[u].at \in DOMAIN task[u].list)
      BY <1>3 DEF IInv, Types
    <3>2. task[u].list \in Seq(Entities)
      BY <3>1 DEF Task
    <3> QED
      BY <3>1, <3>2 DEF Of
  <2>3. Of(u)' = Of(u)
    BY <2>1 DEF Of
  <2>4. Newer(u)'
    BY <1>p, <2>1, <2>2, <2>3 DEF Newer, Same
  <2>5. Covers(u)'
    BY <1>p, <2>1, <2>2, <2>3 DEF Covers, Same
  <2>6. Needs(u)'
    <3>1. task[u].need \in [Entities -> Nat]
      BY <1>t DEF Task
    <3>2. \A e \in Entities : ent[e].late <= ent'[e].late /\ ent'[e].stored = ent[e].stored
                              /\ ent'[e].late \in Nat
      BY <1>n, <1>p DEF Same
    <3>3. ASSUME task[u].pc # "idle", NEW e \in Entities
          PROVE /\ task[u].need[e] <= ent'[e].late
                /\ task[u].need[e] <= ent[e].stored => task[u].need[e] <= ent'[e].stored
      <4>1. task[u].need[e] \in Nat /\ task[u].need[e] <= ent[e].late
        BY <2>1, <3>1, <3>3 DEF Needs
      <4> QED
        BY <1>n, <3>2, <4>1
    <3> QED
      BY <2>1, <3>3 DEF Needs
  <2> QED
    BY <2>4, <2>5, <2>6
<1>4. Newer(t)' /\ Covers(t)' /\ Needs(t)'
  <2>1. CASE task'[t].pc = "idle"
    BY <2>1 DEF Newer, Covers, Needs
  <2>2. CASE task'[t].pc # "idle"
    <3> DEFINE i == task'[t].at
               e == c.list[i]
    <3>1. /\ i \in from..Len(c.list) /\ task'[t].list = c.list /\ e \in Entities
          /\ Of(t)' = e /\ task'[t].snap = ents[e].val /\ ~ent'[e].mode
          /\ task'[t].need = c.need /\ task'[t].pc = "write"
      BY <1>l, <1>p, <2>2 DEF Of
    <3>2. Newer(t)'
      BY <1>n, <1>p, <3>1 DEF Newer, Same, Ordered
    <3>3. Covers(t)'
      BY <1>n, <1>p, <3>1 DEF Covers, Same, Ordered
    <3>4. ASSUME NEW d \in Entities
          PROVE \/ c.need[d] <= ents[d].stored
                \/ \E j \in i..Len(c.list) : c.list[j] = d
      <4>1. CASE c.need[d] <= ents[d].stored
        BY <4>1
      <4>2. ASSUME NEW j \in from..Len(c.list), c.list[j] = d PROVE <3>4!2
        <5>1. CASE j < i
          <6>1. ~ents[d].dirty
            BY <1>p, <2>2, <4>2, <5>1
          <6>2. ents[d].late <= ents[d].stored
            BY <6>1 DEF Ordered
          <6> QED
            BY <1>n, <6>2
        <5>2. CASE ~(j < i)
          <6>1. j \in i..Len(c.list)
            BY <1>t, <3>1, <5>2
          <6> QED
            BY <4>2, <6>1
        <5> QED
          BY <5>1, <5>2
      <4> QED
        BY <4>1, <4>2
    <3>5. \A d \in Entities : ent'[d].late = ents[d].late /\ ent'[d].stored = ents[d].stored
      BY <1>p DEF Same
    <3>6. Needs(t)'
      BY <3>1, <3>4, <3>5 DEF Needs
    <3> QED
      BY <3>2, <3>3, <3>6
  <2> QED
    BY <2>1, <2>2
<1>5. Persisted'
  <2> SUFFICES ASSUME NEW e \in Entities PROVE promised'[e] <= ent'[e].stored
    BY DEF Persisted
  <2>1. promised[e] <= ent[e].stored /\ ent'[e].stored = ents[e].stored
    BY <1>p DEF IInv, Persisted, Same
  <2>2. CASE promised'[e] = promised[e]
    BY <2>1, <2>2
  <2>3. CASE promised'[e] # promised[e]
    <3>1. promised'[e] = c.need[e] /\ \A i \in from..Len(c.list) : ~ents[c.list[i]].dirty
      BY <1>p, <2>3
    <3>2. c.need[e] <= ents[e].stored
      <4>1. CASE \E i \in from..Len(c.list) : c.list[i] = e
        <5>1. ~ents[e].dirty
          BY <3>1, <4>1
        <5> QED
          BY <1>n, <5>1 DEF Ordered
      <4> QED
        BY <4>1
    <3> QED
      BY <2>1, <3>1, <3>2
  <2> QED
    BY <2>2, <2>3
<1> QED
  BY <1>2, <1>3, <1>4, <1>5 DEF IInv

\* Every step without faults keeps the invariant.
LEMMA Step ==
  ASSUME ~Faults, ~Reenable, IInv, \A e \in Entities : Counted(ent[e]), [Next]_vars
  PROVE  IInv'
<1>T. Types'
  BY CountedStep DEF IInv
<1>t. /\ task \in [Tasks -> Task] /\ ent \in [Entities -> Entity] /\ promised \in [Entities -> Nat]
      /\ \A e \in Entities : ent[e].val \in Nat /\ ent[e].late \in Nat /\ ent[e].stored \in Nat
  BY DEF IInv, Types, Entity
<1>o. ASSUME NEW t \in Tasks, task[t].pc # "idle"
      PROVE /\ Of(t) \in Entities /\ task[t].at \in Nat \ {0} /\ task[t].list \in Seq(Entities)
            /\ task[t].snap \in Nat /\ task[t].need \in [Entities -> Nat]
            /\ task[t].pc \in {"write", "wrote"}
  BY <1>o DEF IInv, Types, Of, Task
<1>k. ASSUME \A e \in Entities : /\ ent'[e].late = ent[e].late /\ ent'[e].stored = ent[e].stored
                                 /\ ent[e].val <= ent'[e].val /\ ent'[e].dirty = ent[e].dirty
                                 /\ ent'[e].mode => ent[e].mode,
             ent' \in [Entities -> Entity],
             \A u \in Tasks : task'[u] = task[u] \/ task'[u].pc = "idle",
             promised' = promised
      PROVE  IInv'
  <2>1. \A e \in Entities : ent'[e].val \in Nat
    BY <1>k DEF Entity
  <2>2. \A e \in Entities : Ordered(ent[e])'
    BY <1>k, <1>t, <2>1 DEF IInv, Ordered
  <2>3. ASSUME NEW u \in Tasks PROVE Newer(u)' /\ Covers(u)' /\ Needs(u)'
    <3>1. CASE task'[u].pc = "idle"
      BY <3>1 DEF Newer, Covers, Needs
    <3>2. CASE task'[u] = task[u] /\ task[u].pc # "idle"
      <4>1. Of(u) \in Entities /\ Of(u)' = Of(u) /\ Newer(u) /\ Covers(u) /\ Needs(u)
            /\ task[u].snap \in Nat
        BY <1>o, <3>2 DEF Of, IInv
      <4>2. /\ ent'[Of(u)].late = ent[Of(u)].late /\ ent'[Of(u)].stored = ent[Of(u)].stored
            /\ ent[Of(u)].val <= ent'[Of(u)].val /\ (ent'[Of(u)].mode => ent[Of(u)].mode)
            /\ ent[Of(u)].val \in Nat /\ ent'[Of(u)].val \in Nat /\ task'[u] = task[u]
        BY <1>k, <1>t, <2>1, <3>2, <4>1
      <4>3. Newer(u)' /\ Covers(u)'
        BY <4>1, <4>2 DEF Newer, Covers
      <4>4. Needs(u)'
        BY <1>k, <4>1, <4>2 DEF Needs
      <4> QED
        BY <4>3, <4>4
    <3> QED
      BY <1>k, <3>1, <3>2
  <2>4. Persisted'
    BY <1>k DEF IInv, Persisted
  <2> QED
    BY <1>T, <2>2, <2>3, <2>4 DEF IInv
<1>1. ASSUME NEW t \in Tasks, NEW e \in Entities, Change(t, e) \/ Disable(t, e) PROVE IInv'
  <2>1. \A d \in Entities : /\ ent'[d].late = ent[d].late /\ ent'[d].stored = ent[d].stored
                            /\ ent[d].val <= ent'[d].val /\ ent'[d].dirty = ent[d].dirty
                            /\ ent'[d].mode => ent[d].mode
    <3>1. CASE ent' = [ent EXCEPT ![e].val = @ + 1]
      BY <1>t, <3>1 DEF Entity
    <3>2. CASE ent' = [ent EXCEPT ![e].mode = FALSE]
      BY <1>t, <3>2 DEF Entity
    <3> QED
      BY <1>1, <3>1, <3>2 DEF Change, Disable
  <2>2. UNCHANGED <<task, promised>>
    BY <1>1 DEF Change, Disable
  <2> QED
    BY <1>T, <1>k, <2>1, <2>2 DEF Types
<1>2. ASSUME NEW t \in Tasks, NEW e \in Entities, SaveDeferred(t, e) PROVE IInv'
  <2> DEFINE ents == [ent EXCEPT ![e] = Marked(@)]
             c == Call(<<e>>, TRUE, ents)
  <2>1. ents \in [Entities -> Entity] /\ ents[e] = Marked(ent[e])
        /\ \A d \in Entities : d # e => ents[d] = ent[d]
    BY <1>t, EntityFields
  <2>2. /\ ents[e].val = ent[e].val /\ ents[e].stored = ent[e].stored /\ ents[e].late = ent[e].val
        /\ ents[e].dirty /\ ents[e].mode = ent[e].mode /\ ent[e].mode
    BY <1>2, <1>t, <2>1, EntityFields DEF SaveDeferred, Defers
  <2>3. \A d \in Entities : Ordered(ents[d])
    BY <1>t, <2>1, <2>2 DEF IInv, Ordered
  <2>4. \A d \in Entities : /\ ents[d].val = ent[d].val /\ ents[d].stored = ent[d].stored
                            /\ ent[d].late <= ents[d].late
                            /\ ents[d].mode => ent[d].mode
                            /\ ents[d].late = ent[d].late \/ ent[d].mode
    BY <1>t, <2>1, <2>2 DEF IInv, Ordered
  <2>5. CASE Proceed(t, c, 1, ents)
    <3>0. <<e>> \in Seq(Entities) /\ TRUE \in BOOLEAN
      OBVIOUS
    <3> HIDE DEF ents
    <3>c. c = Call(<<e>>, TRUE, ents)
      OBVIOUS
    <3> HIDE DEF c
    <3>1. c \in Task /\ CallOf(c, <<e>>, ents)
      BY <2>1, <3>0, <3>c, CallTask
    <3>2. \A d \in Entities : ents[d].late \in Nat /\ ents[d].stored \in Nat
      BY <2>1 DEF Entity
    <3>3. \A d \in Entities : c.need[d] <= ents[d].late
      BY <3>1, <3>2 DEF CallOf
    <3>4. \A d \in Entities : \/ c.need[d] <= ents[d].stored
                              \/ \E i \in 1..Len(c.list) : c.list[i] = d
      BY <3>1, <3>2 DEF CallOf
    <3>5. 1 \in Nat \ {0}
      OBVIOUS
    <3>6. Ready(c, 1, ents)
      BY <2>3, <2>4, <3>1, <3>3, <3>4 DEF Ready, CallOf, Kept
    <3> QED
      BY <1>T, <2>1, <2>5, <3>1, <3>5, <3>6, ProceedInv
  <2>6. CASE ent' = ents /\ UNCHANGED <<task, promised>>
    <3> HIDE DEF ents
    <3>1. ASSUME NEW u \in Tasks PROVE Newer(u)' /\ Covers(u)' /\ Needs(u)'
      <4>1. CASE task[u].pc = "idle"
        BY <2>6, <4>1 DEF Newer, Covers, Needs
      <4>2. CASE task[u].pc # "idle"
        <5>1. /\ Of(u) \in Entities /\ Of(u)' = Of(u) /\ Newer(u) /\ Covers(u) /\ Needs(u)
              /\ task[u].snap \in Nat /\ task[u].need \in [Entities -> Nat]
          BY <1>o, <2>6, <4>2 DEF Of, IInv
        <5>2. Newer(u)'
          BY <1>t, <2>4, <2>6, <5>1 DEF Newer
        <5>3. Covers(u)'
          BY <2>4, <2>6, <5>1 DEF Covers
        <5>4. \A d \in Entities : task[u].need[d] <= ents[d].late
          <6>1. \A d \in Entities : /\ task[u].need[d] \in Nat /\ ents[d].late \in Nat
                                    /\ task[u].need[d] <= ent[d].late
            BY <2>1, <4>2, <5>1 DEF Needs, Entity
          <6> QED
            BY <1>t, <2>4, <6>1
        <5>5. Needs(u)'
          BY <2>4, <2>6, <5>1, <5>4 DEF Needs
        <5> QED
          BY <5>2, <5>3, <5>5
      <4> QED
        BY <4>1, <4>2
    <3>2. Persisted'
      BY <2>4, <2>6 DEF IInv, Persisted
    <3> QED
      BY <1>T, <2>3, <2>6, <3>1, <3>2 DEF IInv
  <2> QED
    BY <1>2, <2>5, <2>6 DEF SaveDeferred
<1>3. ASSUME NEW t \in Tasks, NEW e \in Entities, SaveNow(t, e) PROVE IInv'
  <2>1. /\ task'[t].pc = "write" /\ ~task'[t].flush /\ task'[t].list = <<e>> /\ task'[t].at = 1
        /\ task'[t].snap = ent[e].val /\ \A d \in Entities : task'[t].need[d] = 0
        /\ \A u \in Tasks : u # t => task'[u] = task[u]
        /\ UNCHANGED <<ent, promised>>
    BY <1>3, <1>t DEF SaveNow, Idle
  <2>2. ASSUME NEW u \in Tasks, u # t PROVE Newer(u)' /\ Covers(u)' /\ Needs(u)'
    <3>1. Of(u)' = Of(u) /\ task'[u] = task[u]
      BY <2>1, <2>2 DEF Of
    <3> QED
      BY <2>1, <3>1 DEF IInv, Newer, Covers, Needs
  <2>3. Newer(t)' /\ Covers(t)' /\ Needs(t)'
    <3>1. Of(t)' = e
      BY <2>1 DEF Of
    <3>2. Newer(t)'
      BY <1>t, <2>1, <3>1 DEF Newer, IInv, Ordered
    <3>3. Covers(t)'
      BY <2>1 DEF Covers
    <3>4. Needs(t)'
      BY <1>t, <2>1 DEF Needs
    <3> QED
      BY <3>2, <3>3, <3>4
  <2>4. (\A d \in Entities : Ordered(ent[d])') /\ Persisted'
    BY <2>1 DEF IInv, Ordered, Persisted
  <2> QED
    BY <1>T, <2>2, <2>3, <2>4 DEF IInv
<1>4. ASSUME NEW t \in Tasks, NEW list \in Lists, NEW strict \in BOOLEAN, Flush(t, list, strict)
      PROVE IInv'
  <2> DEFINE c == Call(list, strict, ent)
  <2>2. c = Call(list, strict, ent) /\ Proceed(t, c, 1, ent)
    BY <1>4 DEF Flush
  <2> HIDE DEF c
  <2>1. c \in Task /\ CallOf(c, list, ent)
    BY <1>t, <2>2, CallTask
  <2>3. \A d \in Entities : c.need[d] <= ent[d].late
    BY <1>t, <2>1 DEF CallOf
  <2>4. \A d \in Entities : \/ c.need[d] <= ent[d].stored
                            \/ \E i \in 1..Len(c.list) : c.list[i] = d
    BY <1>t, <2>1 DEF CallOf
  <2>5. 1 \in Nat \ {0}
    OBVIOUS
  <2>6. \A d \in Entities : Ordered(ent[d]) /\ ent[d].late <= ent[d].late
    BY <1>t DEF IInv
  <2>7. Ready(c, 1, ent)
    BY <2>1, <2>3, <2>4, <2>6 DEF Ready, CallOf, Kept
  <2> QED
    BY <1>T, <1>t, <2>1, <2>2, <2>5, <2>7, ProceedInv
<1>5. ASSUME NEW t \in Tasks, Store(t) PROVE IInv'
  <2> DEFINE o == Of(t)
             n == task[t].snap
  <2>1. o \in Entities /\ n \in Nat /\ task[t].pc = "write" /\ ent[o].stored <= n /\ n <= ent[o].val
    BY <1>5, <1>o DEF Store, IInv, Newer
  <2>2. /\ \A d \in Entities : /\ ent'[d].val = ent[d].val /\ ent'[d].late = ent[d].late
                               /\ ent'[d].mode = ent[d].mode /\ ent'[d].dirty = ent[d].dirty
                               /\ d # o => ent'[d].stored = ent[d].stored
        /\ ent'[o].stored = n
    BY <1>5, <1>t, <2>1 DEF Store, Entity
  <2>3. \A d \in Entities : ent[d].stored <= ent'[d].stored /\ ent'[d].stored \in Nat
    BY <1>t, <2>1, <2>2
  <2>4. /\ task'[t].pc = "wrote" /\ task'[t].list = task[t].list /\ task'[t].at = task[t].at
        /\ task'[t].flush = task[t].flush /\ task'[t].need = task[t].need
        /\ \A u \in Tasks : u # t => task'[u] = task[u]
        /\ promised' = promised
    BY <1>5, <1>t DEF Store, Task
  <2>5. \A d \in Entities : Ordered(ent[d])'
    BY <1>t, <2>1, <2>2, <2>3 DEF IInv, Ordered
  <2>6. ASSUME NEW u \in Tasks, task[u].pc # "idle" PROVE Needs(u)'
    <3>1. /\ task'[u].need = task[u].need /\ task'[u].at = task[u].at /\ task'[u].list = task[u].list
      BY <2>4
    <3>2. \A d \in Entities : task[u].need[d] \in Nat
      BY <1>o, <2>6
    <3>3. \A d \in Entities : task[u].need[d] <= ent[d].stored => task[u].need[d] <= ent'[d].stored
      BY <1>t, <2>3, <3>2
    <3> QED
      BY <2>2, <2>6, <3>1, <3>3 DEF IInv, Needs
  <2>7. ASSUME NEW u \in Tasks, u # t PROVE Newer(u)' /\ Covers(u)' /\ Needs(u)'
    <3>1. task'[u] = task[u] /\ Of(u)' = Of(u)
      BY <2>4, <2>7 DEF Of
    <3>2. CASE task[u].pc = "idle"
      BY <3>1, <3>2 DEF Newer, Covers, Needs
    <3>3. CASE task[u].pc # "idle"
      <4>1. Of(u) \in Entities /\ task[u].snap \in Nat /\ task[u].pc \in {"write", "wrote"}
        BY <1>o, <3>3
      <4>2. task[u].pc = "write" /\ Of(u) = o => n <= task[u].snap
        BY <1>5 DEF Store
      <4>3. Newer(u)'
        BY <2>2, <3>1, <4>1, <4>2 DEF IInv, Newer
      <4>4. Covers(u)'
        BY <1>t, <2>2, <2>3, <3>1, <4>1 DEF IInv, Covers
      <4> QED
        BY <2>6, <3>3, <4>3, <4>4
    <3> QED
      BY <3>2, <3>3
  <2>8. Newer(t)' /\ Covers(t)' /\ Needs(t)'
    <3>1. Of(t)' = o
      BY <2>4 DEF Of
    <3>2. Covers(t)'
      BY <2>1, <2>2, <2>4, <3>1 DEF IInv, Covers
    <3> QED
      BY <2>1, <2>4, <2>6, <3>2 DEF Newer
  <2>9. Persisted'
    <3>1. \A d \in Entities : promised[d] \in Nat
      BY <1>t
    <3> QED
      BY <1>t, <2>3, <2>4, <3>1 DEF IInv, Persisted
  <2> QED
    BY <1>T, <2>5, <2>7, <2>8, <2>9 DEF IInv
<1>6. ASSUME NEW t \in Tasks, Done(t) PROVE IInv'
  <2> DEFINE o == Of(t)
             ents == [ent EXCEPT ![o] = Saved(@)]
  <2>1. o \in Entities /\ task[t].at \in Nat \ {0} /\ task[t].at + 1 \in Nat \ {0}
        /\ task[t].need \in [Entities -> Nat] /\ task[t].list \in Seq(Entities)
    BY <1>6, <1>o DEF Done
  <2>2. CASE task[t].flush /\ Proceed(t, task[t], task[t].at + 1, ents)
    <3>1. ents \in [Entities -> Entity] /\ ents[o] = Saved(ent[o])
          /\ \A d \in Entities : d # o => ents[d] = ent[d]
      BY <1>t, <2>1, EntityFields
    <3>2. \A d \in Entities : /\ ents[d].val = ent[d].val /\ ents[d].stored = ent[d].stored
                              /\ ents[d].late = ent[d].late /\ ents[d].mode = ent[d].mode
      BY <1>t, <3>1, EntityFields
    <3>3. ent[o].late <= ent[o].stored
      BY <1>6, <2>2 DEF Done, IInv, Covers
    <3>4. \A d \in Entities : Ordered(ents[d])
      BY <1>t, <3>1, <3>2, <3>3 DEF IInv, Ordered
    <3>5. \A d \in Entities : task[t].need[d] <= ents[d].late
      BY <1>6, <3>2 DEF Done, IInv, Needs
    <3>6. \A d \in Entities : \/ task[t].need[d] <= ents[d].stored
                              \/ \E i \in task[t].at + 1..Len(task[t].list) : task[t].list[i] = d
      <4> SUFFICES ASSUME NEW d \in Entities, ~(task[t].need[d] <= ents[d].stored)
                   PROVE \E i \in task[t].at + 1..Len(task[t].list) : task[t].list[i] = d
        OBVIOUS
      <4>1. PICK i \in task[t].at..Len(task[t].list) : task[t].list[i] = d
        BY <1>6, <3>2 DEF Done, IInv, Needs
      <4>2. task[t].need[d] \in Nat /\ task[t].need[d] <= ent[d].late
        BY <1>6, <2>1 DEF Done, IInv, Needs
      <4>3. d # o
        BY <1>t, <3>2, <3>3, <4>2
      <4>4. i # task[t].at
        BY <4>1, <4>3 DEF Of
      <4>5. i \in task[t].at + 1..Len(task[t].list)
        BY <2>1, <4>4
      <4> QED
        BY <4>1, <4>5
    <3>7. \A d \in Entities : ent[d].late <= ents[d].late
      BY <1>t, <3>2
    <3>8. task[t] \in Task /\ task[t].flush /\ Proceed(t, task[t], task[t].at + 1, ents)
      BY <1>t, <2>2
    <3> HIDE DEF ents
    <3>9. Ready(task[t], task[t].at + 1, ents)
      BY <3>2, <3>4, <3>5, <3>6, <3>7, <3>8 DEF Ready, Kept
    <3> QED
      BY <1>T, <2>1, <3>1, <3>8, <3>9, ProceedInv
  <2>3. CASE ~task[t].flush
    <3>1. /\ UNCHANGED <<ent, promised>> /\ task'[t].pc = "idle"
          /\ \A u \in Tasks : u # t => task'[u] = task[u]
      BY <1>6, <1>t, <2>3 DEF Done, Idle
    <3>2. \A d \in Entities : ent[d].val <= ent[d].val
      BY <1>t
    <3> QED
      BY <1>k, <1>t, <3>1, <3>2
  <2> QED
    BY <1>6, <2>2, <2>3 DEF Done
<1>7. CASE UNCHANGED vars
  <2>1. /\ UNCHANGED <<ent, task, promised>> /\ \A d \in Entities : ent[d].val <= ent[d].val
    BY <1>7, <1>t DEF vars
  <2> QED
    BY <1>k, <1>t, <2>1
<1> QED
  BY <1>1, <1>2, <1>3, <1>4, <1>5, <1>6, <1>7 DEF Next, Enable, Raise

\* Without faults, and no batch begun anew, the invariant holds throughout.
THEOREM Invariance == ~Faults /\ ~Reenable => (Spec => [](IInv /\ \A e \in Entities : Counted(ent[e])))
<1> SUFFICES ASSUME ~Faults, ~Reenable
             PROVE Spec => [](IInv /\ \A e \in Entities : Counted(ent[e]))
  OBVIOUS
<1> DEFINE I == IInv /\ \A e \in Entities : Counted(ent[e])
<1>1. Init => I
  BY InitInv, InitCounted
<1>2. I /\ [Next]_vars => I'
  BY Step, CountedStep DEF IInv
<1> QED
  BY <1>1, <1>2, PTL DEF Spec

(* NothingLost: where no save raises and no batch is begun anew, an entity *)
(* that is not dirty is in the database as it was last deferred.           *)
THEOREM NothingIsLost == ~Faults /\ ~Reenable => (Spec => []NothingLost)
<1> SUFFICES ASSUME ~Faults, ~Reenable PROVE Spec => []NothingLost
  OBVIOUS
<1>1. IInv => NothingLost
  BY DEF IInv, Ordered, NothingLost
<1> QED
  BY <1>1, Invariance, PTL

(* Persisted: and a flush that reports success stored what was deferred.   *)
THEOREM FlushPersists == ~Faults /\ ~Reenable => (Spec => []Persisted)
<1> SUFFICES ASSUME ~Faults, ~Reenable PROVE Spec => []Persisted
  OBVIOUS
<1>1. IInv => Persisted
  BY DEF IInv
<1> QED
  BY <1>1, Invariance, PTL
(* FlushEndsBatch: and a flush that ends well leaves the entity it wrote   *)
(* writing through, whatever other tasks did while it was written.         *)
THEOREM FlushEnds == ~Faults /\ ~Reenable => (Spec => FlushEndsBatch)
<1> SUFFICES ASSUME ~Faults, ~Reenable PROVE Spec => FlushEndsBatch
  OBVIOUS
<1>1. ASSUME IInv, NEW t \in Tasks, task[t].pc = "wrote", task[t].flush, Done(t)
      PROVE  ~ent'[Of(t)].mode
  <2> DEFINE e == Of(t)
             ents == [ent EXCEPT ![e] = Saved(@)]
  <2>1. /\ e \in Entities /\ ent \in [Entities -> Entity] /\ ~ent[e].mode
    <3>1. /\ task[t].list \in Seq(Entities) /\ task[t].at \in DOMAIN task[t].list
          /\ ent \in [Entities -> Entity]
      BY <1>1 DEF IInv, Types, Task
    <3>2. ~ent[e].mode
      BY <1>1 DEF IInv, Covers
    <3> QED BY <3>1, <3>2 DEF Of
  <2>2. Saved(ent[e]) \in Entity /\ ~Saved(ent[e]).mode
    BY <2>1 DEF Saved, Entity
  <2>3. ents \in [Entities -> Entity] /\ ~ents[e].mode
    BY <2>1, <2>2
  <2>4. Proceed(t, task[t], task[t].at + 1, ents)
    BY <1>1 DEF Done
  <2> HIDE DEF ents, e
  <2>5. ASSUME NEW x \in Entity PROVE ~Begun(x).mode /\ ~Flushed(x).mode /\ Flushed(x) \in Entity
    BY DEF Begun, Flushed, Entity
  <2>6. PICK ended \in [Entities -> Entity] :
             /\ ~ended[e].mode
             /\ ent' = ended \/ \E d : ent' = [ended EXCEPT ![d] = Begun(@)]
    <3> DEFINE rest == (task[t].at + 1)..Len(task[t].list)
               Clean(d) == \E i \in rest : task[t].list[i] = d /\ \A j \in rest : j <= i => ~ents[task[t].list[j]].dirty
               E == [d \in Entities |-> IF Clean(d) THEN Flushed(ents[d]) ELSE ents[d]]
    <3>1. E \in [Entities -> Entity]
      <4> HIDE DEF Clean
      <4> QED BY <2>3, <2>5
    <3>2. ~E[e].mode
      <4> HIDE DEF Clean
      <4>1. E[e] = Flushed(ents[e]) \/ E[e] = ents[e]
        BY <2>1
      <4> HIDE DEF E
      <4>2. ents[e] \in Entity /\ ~ents[e].mode
        BY <2>1, <2>3, Zenon
      <4> QED BY <2>5, <4>1, <4>2, Zenon
    <3>3. ent' = E \/ \E d : ent' = [E EXCEPT ![d] = Begun(@)]
      BY <2>4, Zenon DEF Proceed
    <3> HIDE DEF E
    <3> QED BY <3>1, <3>2, <3>3
  <2> QED BY <2>1, <2>5, <2>6 DEF e
<1>2. IInv /\ [Next]_vars => [\A t \in Tasks : task[t].pc = "wrote" /\ task[t].flush /\ Done(t)
                                => ~ent'[Of(t)].mode]_vars
  BY <1>1
<1> QED
  BY <1>2, Invariance, PTL DEF Spec, FlushEndsBatch

-----------------------------------------------------------------------------
(***************************************************************************)
(* The trail of a walker whose steps are awaited, for any number of steps  *)
(* and any length.  The counter is above every number                      *)
(* a confirmed step has, and at or above every number in use: a save that  *)
(* raised may have left its record at the counter, which the next save     *)
(* takes.  The one call under way is of the latest step.                   *)
(***************************************************************************)
TrailTypes ==
    /\ remembered \in Seq(Trail!Steps)
    /\ records \in [DOMAIN records -> Trail!Steps] /\ DOMAIN records \subseteq Trail!Numbers
    /\ seq \in Nat /\ up \in BOOLEAN /\ last \in 0..MaxRecorded
    /\ clearing \in (SUBSET Trail!Numbers) \cup {Trail!NotClearing}
    /\ tasks \subseteq [step : Trail!Steps, seq : Trail!Numbers \cup {Trail!Unread}]

StepsBounded ==
    /\ seq <= last /\ (tasks # {} => seq < last)
    /\ \A n \in DOMAIN records : /\ n < records[n] /\ records[n] <= last
                                 /\ tasks # {} => records[n] < last
                                 /\ up /\ clearing = Trail!NotClearing => n <= seq

LatestIsLast == tasks # {} => remembered # << >> /\ remembered[Len(remembered)] = last

OneUnderWay ==
    /\ \A s, t \in tasks : s = t
    /\ \A t \in tasks : t.step = last /\ t.seq \in {Trail!Unread, seq}
    /\ tasks # {} => up /\ clearing = Trail!NotClearing
    /\ ~up => clearing = Trail!NotClearing
    /\ clearing # Trail!NotClearing => kept = {} /\ DOMAIN records \subseteq clearing

ConfirmedThere ==
    \A s \in kept : \E n \in DOMAIN records : records[n] = s /\ (up => n < seq)

TrailFits == /\ \A i \in DOMAIN remembered : remembered[i] <= last
             /\ MaxTrail > 0 => Len(remembered) <= MaxTrail

TrailInv == /\ TrailTypes /\ StepsBounded /\ LatestIsLast /\ OneUnderWay /\ ConfirmedThere /\ TrailFits
            /\ Trail!InOrder /\ Trail!TrailIsLatest

\* A set of numbers that is not empty has a least one.
LEMMA NatMin == ASSUME NEW T \in SUBSET Nat, T # {} PROVE \E x \in T : \A y \in T : x <= y
<1> DEFINE R == OpToRel(<, Nat)
<1>1. IsWellFoundedOn(R, Nat)
  BY NatLessThanWellFounded
<1>2. \A x, y \in Nat : y < x => <<y, x>> \in R
  BY DEF OpToRel
<1> HIDE DEF R
<1>3. PICK x \in T : \A y \in T : ~(<<y, x>> \in R)
  BY <1>1, WFMin
<1>4. \A y \in T : x <= y
  <2> TAKE y \in T
  <2>1. x \in Nat /\ y \in Nat
    OBVIOUS
  <2>2. ~(y < x)
    BY <1>2, <1>3, <2>1
  <2>3. QED
    BY <2>1, <2>2
<1>5. QED
  BY <1>4

\* The greatest of the numbers of the records is one of them.
LEMMA NatMax ==
    ASSUME NEW B \in Nat, NEW T \in SUBSET (0..B), T # {}
    PROVE  Trail!Max(T) \in T /\ \A y \in T : y <= Trail!Max(T)
<1> DEFINE D == {n \in 0..B : B - n \in T}
<1>1. D \in SUBSET Nat
  OBVIOUS
<1>2. D # {}
  <2>1. PICK n \in T : TRUE
    OBVIOUS
  <2>2. B - n \in 0..B /\ B - (B - n) = n
    OBVIOUS
  <2>3. B - n \in D
    BY <2>2
  <2>4. QED
    BY <2>3
<1>3. PICK d \in D : \A y \in D : d <= y
  <2> HIDE DEF D
  <2> QED
    BY <1>1, <1>2, NatMin
<1>4. \A y \in T : y <= B - d
  <2> TAKE y \in T
  <2>1. B - y \in 0..B /\ B - (B - y) = y
    OBVIOUS
  <2>2. B - y \in D
    BY <2>1
  <2>3. d <= B - y /\ d \in 0..B
    BY <2>2, <1>3
  <2>4. QED
    BY <2>3
<1>5. B - d \in T
  OBVIOUS
<1>6. QED
  BY <1>4, <1>5 DEF Trail!Max

\* What Latest keeps are the last steps: the others are before all it keeps.
LEMMA LatestKeeps ==
    ASSUME Trail!Assumptions, NEW s \in Seq(Trail!Steps), Trail!Ordered(s)
    PROVE  /\ Trail!Latest(s) \in Seq(Trail!Steps) /\ Trail!Ordered(Trail!Latest(s))
           /\ MaxTrail > 0 => Len(Trail!Latest(s)) <= MaxTrail
           /\ s # << >> => Trail!Latest(s) # << >>
           /\ Trail!Latest(s)[Len(Trail!Latest(s))] = s[Len(s)]
           /\ Trail!Latest(s) # << >> =>
                \A i \in DOMAIN s : s[i] \in Trail!ToSet(Trail!Latest(s)) \/ s[i] < Trail!Latest(s)[1]
           /\ \A j \in DOMAIN Trail!Latest(s) : \E i \in DOMAIN s : Trail!Latest(s)[j] = s[i]
<1>1. CASE MaxTrail = 0 \/ Len(s) <= MaxTrail
  BY <1>1 DEF Trail!Latest, Trail!ToSet, Trail!Assumptions
<1>2. CASE MaxTrail > 0 /\ Len(s) > MaxTrail
  <2> DEFINE m == Len(s) - MaxTrail
             l == SubSeq(s, m + 1, Len(s))
  <2>1. m \in Nat /\ m + 1 \in 1..Len(s) /\ Len(s) - m = MaxTrail
    BY <1>2 DEF Trail!Assumptions
  <2>2. Trail!Latest(s) = l
    BY <1>2 DEF Trail!Latest, Trail!Assumptions
  <2>3. l \in Seq(Trail!Steps) /\ Len(l) = MaxTrail
    BY <1>2, <2>1 DEF Trail!Assumptions
  <2>4. \A j \in 1..MaxTrail : l[j] = s[m + j] /\ m + j \in DOMAIN s
    BY <1>2, <2>1 DEF Trail!Assumptions
  <2> HIDE DEF l
  <2>5. Trail!Ordered(l)
    <3> SUFFICES ASSUME NEW i \in DOMAIN l, NEW j \in DOMAIN l, i < j PROVE l[i] < l[j]
      BY DEF Trail!Ordered
    <3>1. i \in 1..MaxTrail /\ j \in 1..MaxTrail
      BY <2>3
    <3>2. m + i < m + j
      BY <2>1, <3>1
    <3>3. QED
      BY <2>4, <3>1, <3>2 DEF Trail!Ordered
  <2>6. l # << >> /\ l[Len(l)] = s[Len(s)]
    BY <1>2, <2>1, <2>3, <2>4 DEF Trail!Assumptions
  <2>7. \A i \in DOMAIN s : s[i] \in Trail!ToSet(l) \/ s[i] < l[1]
    <3> TAKE i \in DOMAIN s
    <3>1. CASE i > m
      <4>1. i - m \in 1..MaxTrail /\ m + (i - m) = i
        BY <2>1, <3>1
      <4>2. l[i - m] = s[i] /\ i - m \in DOMAIN l
        BY <2>3, <2>4, <4>1
      <4>3. QED
        BY <4>2 DEF Trail!ToSet
    <3>2. CASE ~(i > m)
      <4>1. i < m + 1 /\ m + 1 \in DOMAIN s /\ l[1] = s[m + 1]
        BY <1>2, <2>1, <2>4, <3>2 DEF Trail!Assumptions
      <4>2. QED
        BY <4>1 DEF Trail!Ordered
    <3>3. QED
      BY <3>1, <3>2
  <2>8. \A j \in DOMAIN l : \E i \in DOMAIN s : l[j] = s[i]
    BY <2>3, <2>4
  <2>9. QED
    BY <2>2, <2>3, <2>5, <2>6, <2>7, <2>8, <1>2 DEF Trail!Assumptions
<1>3. QED
  BY <1>1, <1>2 DEF Trail!Assumptions

LEMMA TrailInit == ASSUME Trail!Assumptions, Trail!Init PROVE TrailInv
<1>1. /\ remembered = << >> /\ DOMAIN remembered = {} /\ Len(remembered) = 0
      /\ remembered \in Seq(Trail!Steps)
      /\ DOMAIN records = {} /\ records \in [DOMAIN records -> Trail!Steps]
      /\ seq = 0 /\ tasks = {} /\ clearing = Trail!NotClearing /\ up = TRUE /\ last = 0 /\ kept = {}
  BY DEF Trail!Init
<1>2. TrailTypes
  <2>1. seq \in Nat /\ last \in 0..MaxRecorded
    BY <1>1 DEF Trail!Assumptions
  <2>2. up \in BOOLEAN
    BY <1>1
  <2>5. clearing \in (SUBSET Trail!Numbers) \cup {Trail!NotClearing}
    BY <1>1
  <2>3. tasks \subseteq [step : Trail!Steps, seq : Trail!Numbers \cup {Trail!Unread}] /\ DOMAIN records \subseteq Trail!Numbers
    BY <1>1
  <2>4. QED
    BY <1>1, <2>1, <2>2, <2>3, <2>5 DEF TrailTypes
<1>3. StepsBounded /\ LatestIsLast /\ TrailFits
  <2>1. StepsBounded
    BY <1>1 DEF StepsBounded
  <2>2. LatestIsLast
    BY <1>1 DEF LatestIsLast
  <2>3. TrailFits
    BY <1>1 DEF TrailFits, Trail!Assumptions
  <2>4. QED
    BY <2>1, <2>2, <2>3
<1>4. OneUnderWay /\ ConfirmedThere /\ Trail!InOrder
  BY <1>1 DEF OneUnderWay, ConfirmedThere, Trail!InOrder
<1>5. Trail!TrailIsLatest
  BY <1>1 DEF Trail!TrailIsLatest, Trail!Ordered
<1>6. QED
  BY <1>2, <1>3, <1>4, <1>5 DEF TrailInv

\* A step is recorded when no other is under way.
LEMMA RecordStep == ASSUME Trail!Assumptions, TrailInv, Trail!Record PROVE TrailInv'
<1> DEFINE longer == Append(remembered, last + 1)
<1>1. /\ last < MaxRecorded /\ last' = last + 1 /\ last + 1 \in Trail!Steps /\ last \in Nat
      /\ tasks = {} /\ clearing = Trail!NotClearing /\ up /\ remembered' = Trail!Latest(longer)
      /\ tasks' = {[step |-> last + 1, seq |-> Trail!Unread]}
      /\ UNCHANGED <<records, seq, clearing, up, kept>>
  BY DEF Trail!Record, TrailInv, TrailTypes, Trail!Steps, Trail!Assumptions
<1>2. /\ longer \in Seq(Trail!Steps) /\ longer # << >> /\ Len(longer) = Len(remembered) + 1
      /\ longer[Len(longer)] = last + 1
      /\ \A i \in DOMAIN remembered : longer[i] = remembered[i] /\ remembered[i] <= last
      /\ DOMAIN longer = DOMAIN remembered \cup {Len(remembered) + 1}
      /\ DOMAIN remembered = 1..Len(remembered) /\ Len(remembered) \in Nat
  <2>1. remembered \in Seq(Trail!Steps) /\ \A i \in DOMAIN remembered : remembered[i] <= last
    BY DEF TrailInv, TrailTypes, TrailFits
  <2>2. longer \in Seq(Trail!Steps) /\ Len(longer) = Len(remembered) + 1
    BY <1>1, <2>1
  <2>3. DOMAIN longer = 1..(Len(remembered) + 1) /\ DOMAIN remembered = 1..Len(remembered) /\ Len(remembered) \in Nat
    BY <2>1, <2>2
  <2>4. \A i \in DOMAIN remembered : longer[i] = remembered[i]
    BY <1>1, <2>1
  <2>5. longer[Len(remembered) + 1] = last + 1
    BY <1>1, <2>1
  <2> HIDE DEF longer
  <2>6. QED
    BY <2>1, <2>2, <2>3, <2>4, <2>5
<1>3. \A i \in DOMAIN longer : longer[i] <= last + 1 /\ longer[i] \in Nat
  BY <1>1, <1>2 DEF Trail!Steps, Trail!Assumptions
<1>4. Trail!Ordered(longer)
  <2> SUFFICES ASSUME NEW i \in DOMAIN longer, NEW j \in DOMAIN longer, i < j
               PROVE  longer[i] < longer[j]
    BY DEF Trail!Ordered
  <2>1. i \in DOMAIN remembered
    BY <1>2
  <2>2. CASE j \in DOMAIN remembered
    BY <1>2, <2>1, <2>2 DEF TrailInv, Trail!TrailIsLatest, Trail!Ordered
  <2>3. CASE j = Len(remembered) + 1
    BY <1>1, <1>2, <1>3, <2>1, <2>3
  <2>4. QED
    BY <1>2, <2>2, <2>3
<1> HIDE DEF longer
<1>5. /\ remembered' \in Seq(Trail!Steps) /\ Trail!Ordered(remembered')
      /\ (MaxTrail > 0 => Len(remembered') <= MaxTrail)
      /\ remembered' # << >> /\ remembered'[Len(remembered')] = last'
      /\ \A i \in DOMAIN longer : longer[i] \in Trail!ToSet(remembered') \/ longer[i] < remembered'[1]
      /\ \A j \in DOMAIN remembered' : \E i \in DOMAIN longer : remembered'[j] = longer[i]
  BY <1>1, <1>2, <1>4, LatestKeeps
<1>6. \A i \in DOMAIN remembered' : remembered'[i] <= last'
  BY <1>1, <1>3, <1>5
<1>7. \A n \in DOMAIN records : records[n] \in Trail!ToSet(remembered') \/ records[n] < remembered'[1]
  <2> TAKE n \in DOMAIN records
  <2>1. /\ records[n] <= last /\ records[n] \in Nat
        /\ 1 \in DOMAIN remembered' /\ remembered'[1] \in Nat
    <3>1. 1 \in DOMAIN remembered' /\ remembered'[1] \in Nat
      <4>1. remembered' \in Seq(Trail!Steps) /\ remembered' # << >>
        BY <1>5
      <4>2. Len(remembered') \in Nat \ {0} /\ DOMAIN remembered' = 1..Len(remembered')
        BY <4>1
      <4>3. remembered'[1] \in Trail!Steps
        BY <4>1, <4>2
      <4>4. QED
        BY <4>2, <4>3 DEF Trail!Steps
    <3>2. records[n] <= last /\ records[n] \in Trail!Steps
      BY DEF TrailInv, TrailTypes, StepsBounded
    <3>3. QED
      BY <3>1, <3>2 DEF Trail!Steps
  <2>2. CASE remembered = << >>
    <3>1. PICK i \in DOMAIN longer : remembered'[1] = longer[i]
      BY <1>5, <2>1
    <3>2. longer[i] = last + 1
      BY <1>2, <2>2
    <3>3. QED
      BY <1>1, <2>1, <3>1, <3>2
  <2>3. CASE remembered # << >>
    <3>1. 1 \in DOMAIN remembered /\ 1 \in DOMAIN longer /\ longer[1] = remembered[1]
      BY <1>2, <2>3 DEF TrailInv, TrailTypes
    <3>2. CASE records[n] \in Trail!ToSet(remembered)
      <4>1. PICK i \in DOMAIN remembered : records[n] = remembered[i]
        BY <3>2 DEF Trail!ToSet
      <4>2. i \in DOMAIN longer /\ longer[i] = records[n]
        BY <1>2, <4>1
      <4>3. QED
        BY <1>5, <4>2
    <3>3. CASE records[n] < remembered[1]
      <4>1. PICK i \in DOMAIN longer : remembered'[1] = longer[i]
        BY <1>5, <2>1
      <4>2. longer[1] <= longer[i]
        <5>1. i = 1 \/ 1 < i
          <6>1. i \in 1..Len(remembered) \/ i = Len(remembered) + 1
            BY <1>2, <4>1
          <6>2. QED
            BY <1>2, <6>1
        <5>2. 1 < i => longer[1] < longer[i]
          BY <1>4, <3>1, <4>1 DEF Trail!Ordered
        <5>3. QED
          BY <1>3, <3>1, <4>1, <5>1, <5>2
      <4>3. QED
        BY <1>3, <2>1, <3>1, <3>3, <4>1, <4>2
    <3>4. QED
      BY <1>1, <2>3, <3>2, <3>3 DEF TrailInv, Trail!TrailIsLatest
  <2>4. QED
    BY <2>2, <2>3
<1>8. TrailTypes'
  BY <1>1, <1>5 DEF TrailInv, TrailTypes, Trail!Assumptions, Trail!Steps
<1>9. StepsBounded'
  BY <1>1 DEF TrailInv, TrailTypes, StepsBounded, Trail!Assumptions, Trail!Steps
<1>10. (OneUnderWay /\ ConfirmedThere /\ Trail!InOrder)'
  BY <1>1 DEF TrailInv, OneUnderWay, ConfirmedThere, Trail!InOrder
<1>11. (LatestIsLast /\ TrailFits /\ Trail!TrailIsLatest)'
  BY <1>1, <1>5, <1>6, <1>7 DEF LatestIsLast, TrailFits, Trail!TrailIsLatest
<1>12. QED
  BY <1>8, <1>9, <1>10, <1>11 DEF TrailInv

\* The call under way reads the counter.
LEMMA BeginStep == ASSUME Trail!Assumptions, TrailInv, NEW t \in tasks, Trail!Begin(t) PROVE TrailInv'
<1>1. /\ tasks = {t} /\ t \in [step : Trail!Steps, seq : Trail!Numbers \cup {Trail!Unread}]
      /\ t.step = last
      /\ seq \in Trail!Numbers
  BY DEF TrailInv, TrailTypes, OneUnderWay, StepsBounded, Trail!Numbers, Trail!Assumptions
<1>2. PICK u \in [step : Trail!Steps, seq : Trail!Numbers \cup {Trail!Unread}] :
        tasks' = {u} /\ u.step = last /\ u.seq = seq
  <2> DEFINE u == [t EXCEPT !.seq = seq]
  <2>1. tasks' = {u}
    BY <1>1 DEF Trail!Begin
  <2>2. u \in [step : Trail!Steps, seq : Trail!Numbers \cup {Trail!Unread}] /\ u.step = last /\ u.seq = seq
    BY <1>1
  <2>3. QED
    BY <2>1, <2>2
<1>3. UNCHANGED <<remembered, records, seq, clearing, up, last, kept>>
  BY DEF Trail!Begin
<1>4. QED
  BY <1>1, <1>2, <1>3 DEF TrailInv, TrailTypes, StepsBounded, LatestIsLast, OneUnderWay,
                          ConfirmedThere, TrailFits,
                          Trail!InOrder, Trail!TrailIsLatest, Trail!Ordered, Trail!ToSet

\* What a save of the step under way does to the records: it goes behind the
\* confirmed ones, or over what a save that raised left at the counter.
LEMMA PutStep ==
    ASSUME Trail!Assumptions, TrailInv, tasks # {}, records' = Trail!Put(seq, last)
    PROVE  /\ records' \in [DOMAIN records' -> Trail!Steps] /\ DOMAIN records' \subseteq Trail!Numbers
           /\ DOMAIN records' = DOMAIN records \cup {seq} /\ records'[seq] = last
           /\ \A n \in DOMAIN records \ {seq} : records'[n] = records[n]
           /\ \A n \in DOMAIN records' : n < records'[n] /\ records'[n] <= last /\ n <= seq
           /\ Trail!InOrder'
           /\ last \in Trail!ToSet(remembered)
           /\ remembered # << >> => \A n \in DOMAIN records' :
                 records'[n] \in Trail!ToSet(remembered) \/ records'[n] < remembered[1]
<1>1. /\ seq \in Trail!Numbers /\ last \in Trail!Steps /\ seq < last /\ up
      /\ clearing = Trail!NotClearing
      /\ remembered # << >> /\ remembered[Len(remembered)] = last /\ remembered \in Seq(Trail!Steps)
  BY DEF TrailInv, TrailTypes, StepsBounded, OneUnderWay, LatestIsLast, Trail!Numbers,
         Trail!Steps, Trail!Assumptions
<1>2. /\ DOMAIN records' = DOMAIN records \cup {seq} /\ records'[seq] = last
      /\ \A n \in DOMAIN records \ {seq} : records'[n] = records[n]
      /\ records' \in [DOMAIN records' -> Trail!Steps]
  BY <1>1 DEF Trail!Put, TrailInv, TrailTypes
<1>3. /\ \A n \in DOMAIN records : /\ n < records[n] /\ records[n] < last /\ n <= seq
                                   /\ n \in Nat /\ records[n] \in Nat
      /\ DOMAIN records \subseteq Trail!Numbers
  BY <1>1 DEF TrailInv, TrailTypes, StepsBounded, Trail!Numbers, Trail!Steps
<1>4. \A n \in DOMAIN records' : n < records'[n] /\ records'[n] <= last /\ n <= seq
  BY <1>1, <1>2, <1>3 DEF Trail!Numbers, Trail!Steps
<1>5. Trail!InOrder'
  <2> SUFFICES ASSUME NEW m \in DOMAIN records', NEW n \in DOMAIN records', m < n
               PROVE  records'[m] < records'[n]
    BY DEF Trail!InOrder
  <2>1. m \in DOMAIN records \ {seq} /\ records'[m] = records[m]
    BY <1>1, <1>2, <1>3, <1>4 DEF Trail!Numbers
  <2>2. CASE n = seq
    BY <1>2, <1>3, <2>1, <2>2
  <2>3. CASE n # seq
    BY <1>2, <2>1, <2>3 DEF TrailInv, Trail!InOrder
  <2>4. QED
    BY <2>2, <2>3
<1>6. last \in Trail!ToSet(remembered)
  <2>1. Len(remembered) \in DOMAIN remembered
    BY <1>1
  <2>2. QED
    BY <1>1, <2>1 DEF Trail!ToSet
<1>7. \A n \in DOMAIN records' : records'[n] \in Trail!ToSet(remembered) \/ records'[n] < remembered[1]
  BY <1>1, <1>2, <1>6 DEF TrailInv, Trail!TrailIsLatest
<1>8. QED
  BY <1>1, <1>2, <1>3, <1>4, <1>5, <1>6, <1>7

LEMMA SavedStep == ASSUME Trail!Assumptions, TrailInv, NEW t \in tasks, Trail!Save(t) PROVE TrailInv'
<1>1. /\ tasks = {t} /\ t.seq = seq /\ t.step = last /\ up /\ clearing = Trail!NotClearing
      /\ seq \in Nat /\ seq < last /\ last \in 0..MaxRecorded /\ last \in Nat
  BY DEF Trail!Save, TrailInv, TrailTypes, OneUnderWay, StepsBounded, Trail!Assumptions
<1>2. /\ records' = Trail!Put(seq, last) /\ seq' = seq + 1 /\ tasks' = {}
      /\ kept' = kept \cup {last} /\ UNCHANGED <<remembered, clearing, up, last>>
  BY <1>1 DEF Trail!Save, Trail!Saved
<1>3. /\ records' \in [DOMAIN records' -> Trail!Steps] /\ DOMAIN records' \subseteq Trail!Numbers
      /\ DOMAIN records' = DOMAIN records \cup {seq} /\ records'[seq] = last
      /\ \A n \in DOMAIN records \ {seq} : records'[n] = records[n]
      /\ \A n \in DOMAIN records' : n < records'[n] /\ records'[n] <= last /\ n <= seq
      /\ Trail!InOrder'
      /\ remembered # << >> => \A n \in DOMAIN records' :
            records'[n] \in Trail!ToSet(remembered) \/ records'[n] < remembered[1]
  BY <1>1, <1>2, PutStep
<1>4. \A n \in DOMAIN records' : n \in Nat
  BY <1>3 DEF Trail!Numbers
<1>5. TrailTypes'
  BY <1>1, <1>2, <1>3 DEF TrailInv, TrailTypes
<1>6. StepsBounded'
  BY <1>1, <1>2, <1>3, <1>4 DEF StepsBounded
<1>7. ConfirmedThere'
  <2> SUFFICES ASSUME NEW s \in kept' PROVE \E n \in DOMAIN records' : records'[n] = s /\ n < seq'
    BY DEF ConfirmedThere
  <2>1. CASE s = last
    BY <1>1, <1>2, <1>3, <2>1
  <2>2. CASE s \in kept
    <3>1. PICK n \in DOMAIN records : records[n] = s /\ n < seq
      BY <1>1, <2>2 DEF TrailInv, ConfirmedThere
    <3>2. n \in DOMAIN records' /\ records'[n] = s /\ n \in Nat
      BY <1>1, <1>3, <1>4, <3>1
    <3>3. QED
      BY <1>1, <1>2, <3>1, <3>2
  <2>3. QED
    BY <1>2, <2>1, <2>2
<1>8. (LatestIsLast /\ OneUnderWay /\ TrailFits)'
  BY <1>1, <1>2 DEF TrailInv, LatestIsLast, OneUnderWay, TrailFits
<1>9. Trail!TrailIsLatest'
  BY <1>2, <1>3 DEF TrailInv, Trail!TrailIsLatest
<1>10. QED
  BY <1>3, <1>5, <1>6, <1>7, <1>8, <1>9 DEF TrailInv

\* A save that raises stored the record or did not; the counter stays.
LEMMA SaveRaisesStep ==
    ASSUME Trail!Assumptions, TrailInv, NEW t \in tasks, Trail!SaveRaises(t) PROVE TrailInv'
<1>1. /\ tasks = {t} /\ t.seq = seq /\ t.step = last /\ up /\ clearing = Trail!NotClearing
      /\ seq \in Nat /\ seq < last /\ last \in 0..MaxRecorded /\ last \in Nat
  BY DEF Trail!SaveRaises, TrailInv, TrailTypes, OneUnderWay, StepsBounded, Trail!Assumptions
<1>2. tasks' = {} /\ UNCHANGED <<remembered, seq, clearing, up, last, kept>>
  BY <1>1 DEF Trail!SaveRaises
<1>3. CASE UNCHANGED records
  BY <1>1, <1>2, <1>3 DEF TrailInv, TrailTypes, StepsBounded, LatestIsLast, OneUnderWay,
                          ConfirmedThere, TrailFits,
                          Trail!InOrder, Trail!TrailIsLatest, Trail!Ordered, Trail!ToSet
<1>4. CASE records' = Trail!Put(seq, last)
  <2>1. /\ records' \in [DOMAIN records' -> Trail!Steps] /\ DOMAIN records' \subseteq Trail!Numbers
        /\ DOMAIN records' = DOMAIN records \cup {seq}
        /\ \A n \in DOMAIN records \ {seq} : records'[n] = records[n]
        /\ \A n \in DOMAIN records' : n < records'[n] /\ records'[n] <= last /\ n <= seq
        /\ Trail!InOrder'
        /\ remembered # << >> => \A n \in DOMAIN records' :
              records'[n] \in Trail!ToSet(remembered) \/ records'[n] < remembered[1]
    BY <1>1, <1>4, PutStep
  <2>2. TrailTypes'
    BY <1>1, <1>2, <2>1 DEF TrailInv, TrailTypes
  <2>3. StepsBounded'
    BY <1>1, <1>2, <2>1 DEF TrailInv, StepsBounded
  <2>4. ConfirmedThere'
    <3> SUFFICES ASSUME NEW s \in kept PROVE \E n \in DOMAIN records' : records'[n] = s /\ n < seq
      BY <1>2 DEF ConfirmedThere
    <3>1. PICK n \in DOMAIN records : records[n] = s /\ n < seq
      BY <1>1 DEF TrailInv, ConfirmedThere
    <3>2. n \in DOMAIN records' /\ records'[n] = s
      BY <1>1, <2>1, <3>1
    <3>3. QED
      BY <3>1, <3>2
  <2>5. (LatestIsLast /\ OneUnderWay /\ TrailFits)'
    BY <1>1, <1>2 DEF TrailInv, LatestIsLast, OneUnderWay, TrailFits
  <2>6. Trail!TrailIsLatest'
    BY <1>2, <2>1 DEF TrailInv, Trail!TrailIsLatest
  <2>7. QED
    BY <2>1, <2>2, <2>3, <2>4, <2>5, <2>6 DEF TrailInv
<1>5. QED
  BY <1>1, <1>3, <1>4 DEF Trail!SaveRaises

\* A clear begins when no step is under way, and none is until it ends.
LEMMA ClearStep == ASSUME Trail!Assumptions, TrailInv, Trail!Clear PROVE TrailInv'
<1>1. /\ up /\ clearing = Trail!NotClearing /\ tasks = {} /\ clearing' = DOMAIN records
      /\ kept' = {}
      /\ UNCHANGED <<remembered, records, seq, tasks, up, last>>
  BY DEF Trail!Clear
<1>2. TrailTypes'
  BY <1>1 DEF TrailInv, TrailTypes
<1>3. (StepsBounded /\ LatestIsLast /\ TrailFits)'
  BY <1>1 DEF TrailInv, StepsBounded, LatestIsLast, TrailFits
<1>4. (OneUnderWay /\ ConfirmedThere)'
  BY <1>1 DEF TrailInv, OneUnderWay, ConfirmedThere
<1>5. (Trail!InOrder /\ Trail!TrailIsLatest)'
  BY <1>1 DEF TrailInv, Trail!InOrder, Trail!TrailIsLatest, Trail!Ordered, Trail!ToSet
<1>6. QED
  BY <1>2, <1>3, <1>4, <1>5 DEF TrailInv

LEMMA ClearOneStep == ASSUME Trail!Assumptions, TrailInv, NEW n \in Trail!Numbers, Trail!ClearOne(n) PROVE TrailInv'
<1>1. /\ up /\ clearing # Trail!NotClearing /\ n \in clearing /\ clearing' = clearing \ {n}
      /\ DOMAIN records' = DOMAIN records \ {n}
      /\ \A m \in DOMAIN records' : records'[m] = records[m]
      /\ records' \in [DOMAIN records' -> Trail!Steps]
      /\ UNCHANGED <<remembered, seq, tasks, up, last, kept>>
  BY DEF Trail!ClearOne, TrailInv, TrailTypes
<1>2. clearing \in SUBSET Trail!Numbers /\ clearing' \in SUBSET Trail!Numbers
  BY <1>1 DEF TrailInv, TrailTypes
<1>3. clearing' # Trail!NotClearing
  <2>1. MaxRecorded + 1 \in Trail!NotClearing /\ MaxRecorded + 1 \notin Trail!Numbers
    BY DEF Trail!NotClearing, Trail!Numbers, Trail!Assumptions
  <2>2. QED
    BY <1>2, <2>1
<1>4. TrailTypes'
  BY <1>1, <1>2 DEF TrailInv, TrailTypes
<1>5. (StepsBounded /\ LatestIsLast /\ TrailFits)'
  BY <1>1, <1>3 DEF TrailInv, StepsBounded, LatestIsLast, TrailFits
<1>6. (OneUnderWay /\ ConfirmedThere)'
  BY <1>1, <1>3 DEF TrailInv, OneUnderWay, ConfirmedThere
<1>7. (Trail!InOrder /\ Trail!TrailIsLatest)'
  BY <1>1 DEF TrailInv, Trail!InOrder, Trail!TrailIsLatest, Trail!Ordered, Trail!ToSet
<1>8. QED
  BY <1>4, <1>5, <1>6, <1>7 DEF TrailInv

LEMMA ClearEndStep == ASSUME Trail!Assumptions, TrailInv, Trail!ClearEnd PROVE TrailInv'
<1>1. /\ up /\ clearing = {} /\ clearing' = Trail!NotClearing /\ seq' = 0
      /\ UNCHANGED <<remembered, records, tasks, up, last, kept>>
  BY DEF Trail!ClearEnd
<1>2. clearing # Trail!NotClearing
  <2>1. MaxRecorded + 1 \in Trail!NotClearing
    BY DEF Trail!NotClearing
  <2>2. QED
    BY <1>1, <2>1
<1>3. DOMAIN records = {} /\ kept = {} /\ tasks = {}
  BY <1>1, <1>2 DEF TrailInv, OneUnderWay
<1>4. 0 <= last
  BY DEF TrailInv, TrailTypes, Trail!Assumptions
<1>5. TrailTypes'
  BY <1>1 DEF TrailInv, TrailTypes
<1>6. (StepsBounded /\ LatestIsLast /\ TrailFits)'
  BY <1>1, <1>3, <1>4 DEF TrailInv, StepsBounded, LatestIsLast, TrailFits
<1>7. (OneUnderWay /\ ConfirmedThere)'
  BY <1>1, <1>3 DEF TrailInv, OneUnderWay, ConfirmedThere
<1>8. (Trail!InOrder /\ Trail!TrailIsLatest)'
  BY <1>1 DEF TrailInv, Trail!InOrder, Trail!TrailIsLatest, Trail!Ordered, Trail!ToSet
<1>9. QED
  BY <1>5, <1>6, <1>7, <1>8 DEF TrailInv

\* The process dies: of a save under way the record is there or not.
LEMMA CrashStep == ASSUME Trail!Assumptions, TrailInv, Trail!Crash PROVE TrailInv'
<1>1. /\ up /\ up' = FALSE /\ tasks' = {} /\ clearing' = Trail!NotClearing /\ remembered' = << >>
      /\ seq' = 0 /\ UNCHANGED <<last, kept>>
  BY DEF Trail!Crash
<1>2. 0 <= last /\ remembered' \in Seq(Trail!Steps) /\ DOMAIN remembered' = {} /\ Len(remembered') = 0 /\ last \in 0..MaxRecorded
  BY <1>1 DEF TrailInv, TrailTypes, Trail!Assumptions
<1>3. /\ records' \in [DOMAIN records' -> Trail!Steps] /\ DOMAIN records' \subseteq Trail!Numbers
      /\ \A n \in DOMAIN records' : n < records'[n] /\ records'[n] <= last
      /\ Trail!InOrder' /\ ConfirmedThere'
  <2>1. CASE UNCHANGED records
    BY <1>1, <2>1 DEF TrailInv, TrailTypes, StepsBounded, ConfirmedThere, Trail!InOrder
  <2>2. CASE \E t \in tasks : t.seq # Trail!Unread /\ records' = Trail!Put(t.seq, t.step)
    <3>1. tasks # {} /\ records' = Trail!Put(seq, last)
      BY <2>2 DEF TrailInv, OneUnderWay
    <3>2. /\ records' \in [DOMAIN records' -> Trail!Steps]
          /\ DOMAIN records' \subseteq Trail!Numbers
          /\ DOMAIN records' = DOMAIN records \cup {seq}
          /\ \A n \in DOMAIN records \ {seq} : records'[n] = records[n]
          /\ \A n \in DOMAIN records' : n < records'[n] /\ records'[n] <= last
          /\ Trail!InOrder'
      BY <3>1, PutStep
    <3>3. ConfirmedThere'
      <4> SUFFICES ASSUME NEW s \in kept PROVE \E n \in DOMAIN records' : records'[n] = s
        BY <1>1 DEF ConfirmedThere
      <4>1. PICK n \in DOMAIN records : records[n] = s /\ n < seq
        BY <1>1 DEF TrailInv, ConfirmedThere
      <4>2. n # seq
        BY <4>1 DEF TrailInv, TrailTypes
      <4>3. QED
        BY <3>2, <4>1, <4>2
    <3>4. QED
      BY <3>2, <3>3
  <2>3. QED
    BY <2>1, <2>2 DEF Trail!Crash
<1>4. TrailTypes'
  <2>1. seq' \in Nat /\ up' \in BOOLEAN
    BY <1>1
  <2>2. tasks' \subseteq [step : Trail!Steps, seq : Trail!Numbers \cup {Trail!Unread}]
    BY <1>1
  <2>3. clearing' \in (SUBSET Trail!Numbers) \cup {Trail!NotClearing}
    BY <1>1
  <2>4. last' \in 0..MaxRecorded
    BY <1>1, <1>2
  <2>5. QED
    BY <1>2, <1>3, <2>1, <2>2, <2>3, <2>4 DEF TrailTypes
<1>5. StepsBounded'
  BY <1>1, <1>2, <1>3 DEF StepsBounded
<1>6. LatestIsLast' /\ OneUnderWay'
  BY <1>1 DEF LatestIsLast, OneUnderWay
<1>7. TrailFits'
  BY <1>1, <1>2 DEF TrailFits, Trail!Assumptions
<1>8. Trail!TrailIsLatest'
  BY <1>1, <1>2 DEF Trail!TrailIsLatest, Trail!Ordered
<1>9. QED
  BY <1>3, <1>4, <1>5, <1>6, <1>7, <1>8 DEF TrailInv

\* A process that restores a walker has the latest of the records, and goes on
\* counting behind them.
LEMMA RestoreStep == ASSUME Trail!Assumptions, TrailInv, Trail!Restore PROVE TrailInv'
<1> DEFINE D == DOMAIN records
<1>1. /\ ~up /\ up' = TRUE /\ tasks = {} /\ clearing = Trail!NotClearing /\ seq' = Trail!NextNumber
      /\ UNCHANGED <<records, tasks, clearing, last, kept>>
  BY DEF Trail!Restore, TrailInv, OneUnderWay
<1>c. Trail!Cardinality(D) = Cardinality(D)
  BY DEF Trail!Cardinality, Cardinality
<1>2. PICK numbers \in [1..Cardinality(D) -> D] :
        /\ Trail!Sorts(numbers)
        /\ remembered' = Trail!Latest([i \in DOMAIN numbers |-> records[numbers[i]]])
  BY <1>c DEF Trail!Restore
<1>3. records \in [D -> Trail!Steps] /\ D \subseteq 0..MaxRecorded /\ MaxRecorded \in Nat /\ last \in Nat
  BY DEF TrailInv, TrailTypes, Trail!Numbers, Trail!Assumptions
<1>4. Cardinality(D) \in Nat
  <2>1. IsFiniteSet(0..MaxRecorded)
    <3>1. 0 \in Int /\ MaxRecorded \in Int
      BY <1>3
    <3>2. QED
      BY <3>1, FS_Interval
  <2>2. IsFiniteSet(D)
    BY <1>3, <2>1, FS_Subset
  <2>3. QED
    BY <2>2, FS_CardinalityType
<1> DEFINE loaded == [i \in 1..Cardinality(D) |-> records[numbers[i]]]
<1>5. /\ loaded \in Seq(Trail!Steps) /\ DOMAIN loaded = 1..Cardinality(D)
      /\ \A i \in DOMAIN loaded : numbers[i] \in D /\ loaded[i] = records[numbers[i]]
  <2>1. \A i \in 1..Cardinality(D) : numbers[i] \in D /\ records[numbers[i]] \in Trail!Steps
    BY <1>2, <1>3
  <2>2. loaded \in [1..Cardinality(D) -> Trail!Steps]
    BY <2>1
  <2>3. QED
    BY <1>4, <2>1, <2>2
<1>6. remembered' = Trail!Latest(loaded)
  BY <1>2
<1> HIDE DEF loaded
<1>7. \A n \in D : \E i \in DOMAIN loaded : numbers[i] = n
  BY <1>2, <1>5 DEF Trail!Sorts, Trail!ToSet
<1>8. \A i, j \in DOMAIN loaded : i < j => numbers[i] < numbers[j]
  BY <1>2, <1>5 DEF Trail!Sorts, Trail!Ordered
<1>9. Trail!Ordered(loaded)
  BY <1>5, <1>8 DEF Trail!Ordered, TrailInv, Trail!InOrder
<1>10. /\ remembered' \in Seq(Trail!Steps) /\ Trail!Ordered(remembered')
       /\ (MaxTrail > 0 => Len(remembered') <= MaxTrail)
       /\ remembered' # << >> =>
            \A i \in DOMAIN loaded : loaded[i] \in Trail!ToSet(remembered') \/ loaded[i] < remembered'[1]
       /\ \A j \in DOMAIN remembered' : \E i \in DOMAIN loaded : remembered'[j] = loaded[i]
  BY <1>5, <1>6, <1>9, LatestKeeps
<1>11. \A n \in D : n < records[n] /\ records[n] <= last /\ n \in Nat /\ records[n] \in Nat
  BY <1>3 DEF TrailInv, StepsBounded, Trail!Steps
<1>12. seq' \in Nat /\ seq' <= last /\ \A n \in D : n < seq'
  <2>1. CASE D = {}
    BY <1>1, <1>3, <2>1 DEF Trail!NextNumber, TrailInv, TrailTypes
  <2>2. CASE D # {}
    <3> DEFINE top == Trail!Max(D)
    <3>1. top \in D /\ \A n \in D : n <= top
      BY <1>3, <2>2, NatMax
    <3>2. seq' = top + 1
      BY <1>1, <2>2 DEF Trail!NextNumber
    <3> HIDE DEF top
    <3>3. QED
      BY <1>3, <1>11, <3>1, <3>2
  <2>3. QED
    BY <2>1, <2>2
<1>13. \A i \in DOMAIN remembered' : remembered'[i] <= last'
  BY <1>1, <1>5, <1>10, <1>11
<1>14. remembered' # << >> => \A n \in D : records[n] \in Trail!ToSet(remembered') \/ records[n] < remembered'[1]
  BY <1>5, <1>7, <1>10
<1>15. TrailTypes'
  BY <1>1, <1>10, <1>12 DEF TrailInv, TrailTypes
<1>16. StepsBounded'
  BY <1>1, <1>11, <1>12 DEF StepsBounded
<1>17. (LatestIsLast /\ OneUnderWay /\ ConfirmedThere /\ Trail!InOrder)'
  BY <1>1, <1>12 DEF TrailInv, LatestIsLast, OneUnderWay, ConfirmedThere, Trail!InOrder
<1>18. (TrailFits /\ Trail!TrailIsLatest)'
  BY <1>1, <1>10, <1>13, <1>14 DEF TrailFits, Trail!TrailIsLatest
<1>19. QED
  BY <1>15, <1>16, <1>17, <1>18 DEF TrailInv
-----------------------------------------------------------------------------
\* The counter stays behind the confirmed steps and the records in the order in
\* which their steps were recorded, over clears, restarts and saves that raise
\* (walker_components/trail_store.py:82).
THEOREM TrailKept == ASSUME Trail!Assumptions PROVE Trail!Spec => []TrailInv
<1>1. Trail!Init => TrailInv
  BY TrailInit
<1>2. TrailInv /\ [Trail!Next]_Trail!vars => TrailInv'
  <2> SUFFICES ASSUME TrailInv, [Trail!Next]_Trail!vars PROVE TrailInv'
    OBVIOUS
  <2>1. CASE UNCHANGED Trail!vars
    BY <2>1 DEF Trail!vars, TrailInv, TrailTypes, StepsBounded, LatestIsLast, OneUnderWay,
                ConfirmedThere, TrailFits,
                Trail!InOrder, Trail!TrailIsLatest, Trail!Ordered, Trail!ToSet
  <2>2. CASE Trail!Record
    BY <2>2, RecordStep
  <2>3. CASE Trail!Clear
    BY <2>3, ClearStep
  <2>4. CASE Trail!ClearEnd
    BY <2>4, ClearEndStep
  <2>5. CASE Trail!Crash
    BY <2>5, CrashStep
  <2>6. CASE Trail!Restore
    BY <2>6, RestoreStep
  <2>7. ASSUME NEW t \in tasks, Trail!Begin(t) PROVE TrailInv'
    BY <2>7, BeginStep
  <2>8. ASSUME NEW t \in tasks, Trail!Save(t) PROVE TrailInv'
    BY <2>8, SavedStep
  <2>9. ASSUME NEW t \in tasks, Trail!SaveRaises(t) PROVE TrailInv'
    BY <2>9, SaveRaisesStep
  <2>10. ASSUME NEW n \in Trail!Numbers, Trail!ClearOne(n) PROVE TrailInv'
    BY <2>10, ClearOneStep
  <2>11. QED
    BY <2>1, <2>2, <2>3, <2>4, <2>5, <2>6, <2>7, <2>8, <2>9, <2>10 DEF Trail!Next
<1>3. QED
  BY <1>1, <1>2, PTL DEF Trail!Spec

\* What the database confirmed and nobody cleared is there, in order, and memory
\* has the latest steps, for any number of steps and any length of the trail
\* (walker_components/walker_trail.py:27).
THEOREM TrailIsMirrored == ASSUME Trail!Assumptions
                           PROVE Trail!Spec => [](Trail!Mirrored /\ Trail!InOrder /\ Trail!TrailIsLatest)
<1>1. TrailInv => Trail!Mirrored /\ Trail!InOrder /\ Trail!TrailIsLatest
  BY DEF TrailInv, ConfirmedThere, Trail!Mirrored
<1>2. QED
  BY <1>1, TrailKept, PTL
-----------------------------------------------------------------------------
(***************************************************************************)
(* The other modules of the suite: a behaviour of the small instances is   *)
(* of another scene, or one of the module's specification.                 *)
(***************************************************************************)
\* A scene stays what it is, and its steps leave the state of the others alone.
LEMMA TrailScene == EntitiesSpec => [](~(scene = "trail")) \/ Trail!Spec
<1>1. EntitiesInit => (scene = "trail" => Trail!Init)
  BY DEF EntitiesInit
<1>2. [EntitiesNext]_all => /\ ~(scene = "trail") => (~(scene = "trail"))'
                            /\ scene = "trail" => (scene = "trail")' /\ [Trail!Next]_Trail!vars
  BY DEF EntitiesNext, Saving, Deleting, Walking, Upgrading, all, stored, Trail!vars
<1>3. QED
  BY <1>1, <1>2, PTL DEF EntitiesSpec, Trail!Spec

\* Steps that are awaited stay in the database, in order, over restarts
\* (walker_components/walker_trail.py:27).
THEOREM ScenesMirrorTrail == EntitiesSpec => []TrailMirrored
<1>1. Trail!Spec => [](Trail!Mirrored /\ Trail!InOrder /\ Trail!TrailIsLatest)
  BY ScenesAssumption, TrailIsMirrored
<1>2. QED
  BY <1>1, TrailScene, PTL DEF TrailMirrored
-----------------------------------------------------------------------------
(***************************************************************************)
(* The upgrades of persisted records, for every set of processes, versions *)
(* and steps.  As long as no step passes a version in use, a chain of      *)
(* steps that is complete ends at its target; so what is loaded, waits to  *)
(* be written back or was read by a command fits its stamp.                *)
(***************************************************************************)
Fits(d) == d # None => ~d.garbled /\ d.shape = Upgrades!Version(d)

UpgradeInv ==
    /\ Upgrades!TypeOK
    /\ Upgrades!Whole => \A r \in Records \ bare :
          Fits(disk[r]) /\ \A p \in Processes : Fits(writing[p][r]) /\ Fits(rows[p][r])

\* A step that is found leads to a later version, and past no version that is in
\* use when the steps are whole.
LEMMA StepFound ==
    ASSUME Upgrades!Assumptions, Upgrades!TypeOK, NEW v \in Upgrades!Versions
    PROVE  /\ Upgrades!_resolve_step(v) \in 0..MaxVersion
           /\ Upgrades!_resolve_step(v) # 0 => v < Upgrades!_resolve_step(v)
           /\ \A p \in Processes : Upgrades!Whole /\ v < Target[p] /\ Upgrades!_resolve_step(v) # 0
                => Upgrades!_resolve_step(v) <= Target[p]
<1>1. /\ MaxVersion \in Nat \ {0} /\ own \subseteq Upgrades!Pairs /\ inherited \subseteq Upgrades!Pairs
      /\ \A p \in Processes : Target[p] \in Upgrades!Versions
  BY DEF Upgrades!Assumptions, Upgrades!TypeOK
<1>2. ASSUME NEW ss \in {own, inherited}, Upgrades!From(ss, v) # {}
      PROVE  /\ Upgrades!Least(Upgrades!From(ss, v)) \in (v + 1)..MaxVersion
             /\ \A p \in Processes : Upgrades!Whole /\ v < Target[p]
                  => Upgrades!Least(Upgrades!From(ss, v)) <= Target[p]
  <2> DEFINE vs == Upgrades!From(ss, v)
  <2>1. \A w \in vs : w \in Nat /\ w \in (v + 1)..MaxVersion /\ <<v, w>> \in ss
    BY <1>1 DEF Upgrades!From, Upgrades!Pairs, Upgrades!Versions
  <2>2. vs \in SUBSET Nat
    BY <2>1
  <2>3. \E w \in vs : \A x \in vs : w <= x
    BY <1>2, <2>2, NatMin
  <2>4. Upgrades!Least(vs) \in vs
    BY <1>2, <2>3 DEF Upgrades!Least
  <2>5. <<v, Upgrades!Least(vs)>> \in own \cup inherited
    BY <2>1, <2>4
  <2>6. \A p \in Processes : Upgrades!Whole /\ v < Target[p] => ~(Target[p] < Upgrades!Least(vs))
    BY <2>5 DEF Upgrades!Whole
  <2>7. Upgrades!Least(vs) \in (v + 1)..MaxVersion
    BY <2>1, <2>4
  <2>8. ASSUME NEW p \in Processes, Upgrades!Whole, v < Target[p]
        PROVE  Upgrades!Least(vs) <= Target[p]
    <3>1. Target[p] \in Nat
      BY <1>1 DEF Upgrades!Versions
    <3>2. Upgrades!Least(vs) \in Nat
      BY <2>1, <2>4
    <3>3. ~(Target[p] < Upgrades!Least(vs))
      BY <2>6, <2>8
    <3> HIDE DEF vs
    <3>4. QED
      BY <3>1, <3>2, <3>3
  <2>9. QED
    BY <2>7, <2>8
<1>3. QED
  BY <1>1, <1>2 DEF Upgrades!_resolve_step, Upgrades!Least, Upgrades!Versions

\* The chain of ss from a version is well defined, ends at a version or at a
\* missing step, and at the target itself when no step passes it.
LEMMA ChainEnds ==
    ASSUME Upgrades!Assumptions, Upgrades!TypeOK, NEW target \in Upgrades!Versions
    PROVE  \A v \in Upgrades!Versions :
              /\ Upgrades!get_chain(v, target) \in 0..MaxVersion
              /\ Upgrades!Whole /\ v <= target /\ (\E p \in Processes : target = Target[p])
                   => Upgrades!get_chain(v, target) \in {0, target}
<1> DEFINE Stamps == Upgrades!Versions
           Found(v) == Upgrades!_resolve_step(v)
           Rhs(f, v) == IF v >= target THEN v ELSE IF Found(v) = 0 THEN 0 ELSE f[Found(v)]
           Above(f, k) == \A v \in Stamps : v > MaxVersion - k => f[v] = Rhs(f, v)
           Bad == {k \in 0..MaxVersion : ~ \E f \in [Stamps -> 0..MaxVersion] : Above(f, k)}
<1>1. MaxVersion \in Nat \ {0} /\ Stamps = 1..MaxVersion /\ target \in Stamps
  BY DEF Upgrades!Assumptions, Upgrades!Versions
<1>2. \A v \in Stamps : /\ Found(v) \in 0..MaxVersion
                        /\ Found(v) # 0 => v < Found(v) /\ Found(v) \in Stamps
  <2>1. ASSUME NEW v \in Stamps
        PROVE  Found(v) \in 0..MaxVersion /\ (Found(v) # 0 => v < Found(v))
    BY StepFound
  <2> HIDE DEF Found
  <2>2. QED
    BY <1>1, <2>1
<1> HIDE DEF Stamps, Found
<1>3. \A f \in [Stamps -> 0..MaxVersion], v \in Stamps : Rhs(f, v) \in 0..MaxVersion
  <2> TAKE f \in [Stamps -> 0..MaxVersion], v \in Stamps
  <2>1. Found(v) # 0 => f[Found(v)] \in 0..MaxVersion
    BY <1>2
  <2>2. 0 \in 0..MaxVersion /\ v \in 0..MaxVersion
    BY <1>1
  <2>3. QED
    BY <2>1, <2>2
<1>4. ASSUME Bad # {}
      PROVE  FALSE
  <2>1. Bad \in SUBSET Nat
    OBVIOUS
  <2>2. PICK k \in Bad : \A j \in Bad : k <= j
    <3> HIDE DEF Bad
    <3>1. QED
      BY <1>4, <2>1, NatMin
  <2>3. k \in 0..MaxVersion /\ ~ \E f \in [Stamps -> 0..MaxVersion] : Above(f, k)
    BY <2>2
  <2>4. k # 0
    <3>1. [v \in Stamps |-> 0] \in [Stamps -> 0..MaxVersion]
      BY <1>1
    <3>2. Above([v \in Stamps |-> 0], 0)
      BY <1>1
    <3>3. QED
      BY <2>3, <3>1, <3>2
  <2>5. k - 1 \in 0..MaxVersion /\ ~(k - 1 \in Bad)
    <3>1. k - 1 \in 0..MaxVersion /\ ~(k <= k - 1)
      BY <1>1, <2>3, <2>4
    <3> HIDE DEF Bad
    <3>2. QED
      BY <2>2, <3>1
  <2>6. PICK f \in [Stamps -> 0..MaxVersion] : Above(f, k - 1)
    BY <2>5
  <2> DEFINE u == MaxVersion - k + 1
             g == [f EXCEPT ![u] = Rhs(f, u)]
  <2>7. u \in Stamps
    BY <1>1, <2>3, <2>4
  <2>8. g \in [Stamps -> 0..MaxVersion] /\ g[u] = Rhs(f, u) /\ \A v \in Stamps \ {u} : g[v] = f[v]
    BY <1>3, <2>7
  <2>9. \A v \in Stamps : v >= u => Rhs(g, v) = Rhs(f, v)
    <3>1. ASSUME NEW v \in Stamps, v >= u, Found(v) # 0
          PROVE  Found(v) \in Stamps \ {u}
      <4>1. v < Found(v) /\ Found(v) \in Stamps
        BY <1>2, <3>1
      <4>2. \A w \in Stamps : w = u => ~(v < w)
        BY <1>1, <2>7, <3>1
      <4>3. QED
        BY <4>1, <4>2
    <3> HIDE DEF g, u
    <3>2. QED
      BY <2>8, <3>1
  <2>10. \A v \in Stamps : v > MaxVersion - k => v = u \/ v > MaxVersion - (k - 1)
    BY <1>1, <2>3
  <2>11. ASSUME NEW v \in Stamps, v > MaxVersion - k
         PROVE  g[v] = Rhs(g, v)
    <3>1. CASE v = u
      <4>1. v >= u
        BY <1>1, <3>1
      <4> HIDE DEF g, u
      <4>2. QED
        BY <2>8, <2>9, <3>1, <4>1
    <3>2. CASE v # u
      <4>1. v > MaxVersion - (k - 1)
        BY <2>10, <2>11, <3>2
      <4>2. v >= u
        BY <1>1, <2>3, <4>1
      <4>3. f[v] = Rhs(f, v)
        BY <2>6, <4>1
      <4> HIDE DEF g, u
      <4>4. QED
        BY <2>8, <2>9, <3>2, <4>2, <4>3
    <3>3. QED
      BY <3>1, <3>2
  <2>12. Above(g, k)
    <3> HIDE DEF g
    <3>1. QED
      BY <2>11
  <2>13. QED
    <3> HIDE DEF g, Above
    <3>1. QED
      BY <2>3, <2>8, <2>12
<1>5. PICK f \in [Stamps -> 0..MaxVersion] : \A v \in Stamps : f[v] = Rhs(f, v)
  <2>1. MaxVersion \in 0..MaxVersion /\ ~(MaxVersion \in Bad)
    <3> HIDE DEF Bad
    <3>1. QED
      BY <1>1, <1>4
  <2>2. PICK f \in [Stamps -> 0..MaxVersion] : Above(f, MaxVersion)
    BY <2>1
  <2>3. \A v \in Stamps : v > MaxVersion - MaxVersion
    BY <1>1
  <2>4. QED
    BY <2>2, <2>3
<1> DEFINE Equation(e) == e = [v \in Stamps |-> Rhs(e, v)]
           ends == CHOOSE e : Equation(e)
<1>6. Equation(ends)
  <2>1. Equation(f)
    BY <1>5
  <2> HIDE DEF Equation
  <2>2. QED
    BY <2>1
<1>7. \A v \in Stamps : Upgrades!get_chain(v, target) = ends[v]
  BY Zenon DEF Upgrades!get_chain, Stamps, Found
<1>8. \A v \in Stamps : ends[v] = Rhs(ends, v)
  <2> HIDE DEF ends, Rhs
  <2>1. QED
    BY <1>6
<1> HIDE DEF ends, Equation
<1> DEFINE Exact == Upgrades!Whole /\ \E p \in Processes : target = Target[p]
           Right(v) == /\ ends[v] \in 0..MaxVersion
                       /\ Exact /\ v <= target => ends[v] \in {0, target}
<1>9. ASSUME NEW v \in Stamps, \A w \in Stamps : v < w => Right(w)
      PROVE  Right(v)
  <2>1. CASE v >= target
    <3>1. ends[v] = v
      BY <1>8, <2>1
    <3>2. QED
      BY <1>1, <2>1, <3>1
  <2>2. CASE ~(v >= target) /\ Found(v) = 0
    <3>1. ends[v] = 0
      BY <1>8, <2>2
    <3>2. QED
      BY <1>1, <3>1
  <2>3. CASE ~(v >= target) /\ Found(v) # 0
    <3>1. ends[v] = ends[Found(v)]
      BY <1>8, <2>3
    <3>2. Right(Found(v))
      <4>1. v < Found(v) /\ Found(v) \in Stamps
        BY <1>2, <2>3
      <4> HIDE DEF Right
      <4>2. QED
        BY <1>9, <4>1
    <3>3. ASSUME Exact
          PROVE  Found(v) <= target
      <4>1. PICK p \in Processes : target = Target[p]
        BY <3>3
      <4>2. v < Target[p]
        BY <1>1, <2>3, <4>1
      <4>3. QED
        BY <2>3, <3>3, <4>1, <4>2, StepFound DEF Found, Stamps
    <3> HIDE DEF Exact
    <3>4. QED
      BY <3>1, <3>2, <3>3
  <2>4. QED
    BY <2>1, <2>2, <2>3
<1> DEFINE Wrong == {v \in Stamps : ~Right(v)}
<1>10. ASSUME Wrong # {}
       PROVE  FALSE
  <2>1. Wrong \in SUBSET (0..MaxVersion)
    BY <1>1
  <2>2. PICK v \in Wrong : \A w \in Wrong : w <= v
    <3> HIDE DEF Wrong
    <3>1. Trail!Max(Wrong) \in Wrong /\ \A w \in Wrong : w <= Trail!Max(Wrong)
      BY <1>1, <1>10, <2>1, NatMax
    <3>2. QED
      BY <3>1
  <2>3. \A w \in Stamps : v < w => ~(w \in Wrong)
    <3>1. \A w \in Stamps : v < w => ~(w <= v)
      BY <1>1, <2>2
    <3> HIDE DEF Wrong
    <3>2. QED
      BY <2>2, <3>1
  <2>4. \A w \in Stamps : v < w => Right(w)
    <3> HIDE DEF Right
    <3>1. QED
      BY <2>3
  <2>5. Right(v)
    <3> HIDE DEF Right
    <3>1. QED
      BY <1>9, <2>2, <2>4
  <2>6. QED
    BY <2>2, <2>5
<1>11. QED
  BY <1>7, <1>10 DEF Stamps

\* A record whose chain is complete keeps its type when it is upgraded, and then
\* fits its stamp if it did before.
LEMMA UpgradeFits ==
    ASSUME Upgrades!Assumptions, Upgrades!TypeOK, NEW d \in Upgrades!Data, NEW p \in Processes, d # None,
           Upgrades!needs_migration(d, p), ~Upgrades!Missing(d, p)
    PROVE  /\ Upgrades!apply_migrations(d, p) \in Upgrades!Data
           /\ Upgrades!Whole /\ Fits(d) => Fits(Upgrades!apply_migrations(d, p))
<1> DEFINE v == Upgrades!Version(d)
           end == Upgrades!get_chain(v, Target[p])
<1>1. /\ d.v \in 0..MaxVersion /\ d.shape \in 1..MaxVersion /\ d.garbled \in BOOLEAN
      /\ MaxVersion \in Nat \ {0} /\ Target[p] \in 1..MaxVersion
  BY DEF Upgrades!Data, Upgrades!Versions, Upgrades!Assumptions
<1>2. v \in Upgrades!Versions /\ Target[p] \in Upgrades!Versions /\ v < Target[p]
  BY <1>1 DEF Upgrades!Version, Upgrades!Versions, Upgrades!needs_migration
<1>3. end # 0
  BY DEF Upgrades!Missing
<1>4. end \in 0..MaxVersion /\ (Upgrades!Whole /\ v <= Target[p] => end \in {0, Target[p]})
  BY <1>2, ChainEnds
<1>5. v <= Target[p]
  BY <1>1, <1>2 DEF Upgrades!Versions
<1>6. end \in 1..MaxVersion /\ (Upgrades!Whole => end = Target[p])
  BY <1>1, <1>3, <1>4, <1>5
<1>7. Upgrades!apply_migrations(d, p) = [v |-> Target[p], shape |-> end, garbled |-> d.garbled \/ d.shape # v]
  BY DEF Upgrades!apply_migrations
<1> HIDE DEF end
<1>8. (d.garbled \/ d.shape # v) \in BOOLEAN
  OBVIOUS
<1>9. Upgrades!apply_migrations(d, p) \in Upgrades!Data
  BY <1>1, <1>6, <1>7, <1>8 DEF Upgrades!Data, Upgrades!Versions
<1>10. ASSUME Upgrades!Whole, Fits(d)
       PROVE  Fits(Upgrades!apply_migrations(d, p))
  <2>1. ~(d.garbled \/ d.shape # v)
    BY <1>10 DEF Fits
  <2> DEFINE new == Upgrades!apply_migrations(d, p)
             worse == d.garbled \/ d.shape # v
  <2>2. ~new.garbled /\ new.shape = end /\ new.v = Target[p]
    <3>1. new = [v |-> Target[p], shape |-> end, garbled |-> worse]
      BY <1>7
    <3> HIDE DEF new, worse
    <3>2. new.garbled = worse /\ new.shape = end /\ new.v = Target[p]
      BY <3>1
    <3>3. ~worse
      BY <2>1 DEF worse
    <3>4. QED
      BY <3>2, <3>3
  <2>3. Upgrades!Version(new) = Target[p]
    BY <1>1, <2>2 DEF Upgrades!Version
  <2>4. QED
    BY <1>6, <1>10, <2>2, <2>3 DEF Fits
<1>11. QED
  BY <1>9, <1>10

LEMMA UpgradeInit == ASSUME Upgrades!Assumptions PROVE Upgrades!Init => UpgradeInv
<1> SUFFICES ASSUME Upgrades!Init PROVE UpgradeInv
  OBVIOUS
<1>1. own \in StepSets /\ inherited \in StepSets /\ bare = {} /\ saves = 0 /\ MaxSaves \in Nat
  BY DEF Upgrades!Init, Upgrades!Assumptions
<1>2. disk \in [Records -> Upgrades!Data] /\ \A r \in Records : disk[r] \in Upgrades!Legacy
  BY DEF Upgrades!Init, Upgrades!Legacy
<1>3. \A p \in Processes, r \in Records :
         memory[p][r] = None /\ writing[p][r] = None /\ rows[p][r] = None
  BY DEF Upgrades!Init, Upgrades!Nobody
<1>4. Upgrades!TypeOK
  BY <1>1, <1>2 DEF Upgrades!Init, Upgrades!Nobody, Upgrades!TypeOK
<1>5. ASSUME NEW d \in Upgrades!Legacy
      PROVE  Fits(d)
  <2>1. d \in Upgrades!Data /\ ~d.garbled /\ (d.v = d.shape \/ (d.v = 0 /\ d.shape = 1))
    BY DEF Upgrades!Legacy
  <2>2. d.shape = Upgrades!Version(d)
    BY <2>1 DEF Upgrades!Version, Upgrades!Data, Upgrades!Versions
  <2>3. QED
    BY <2>1, <2>2 DEF Fits
<1>6. QED
  BY <1>2, <1>3, <1>4, <1>5 DEF UpgradeInv, Fits

LEMMA Assigned ==
    ASSUME NEW D, NEW f \in [Processes -> [Records -> D]], NEW p \in Processes, NEW r \in Records,
           NEW x \in D
    PROVE  /\ [f EXCEPT ![p][r] = x] \in [Processes -> [Records -> D]]
           /\ \A q \in Processes, s \in Records :
                 [f EXCEPT ![p][r] = x][q][s] = IF q = p /\ s = r THEN x ELSE f[q][s]
<1>1. f[p] \in [Records -> D]
  OBVIOUS
<1>2. [f[p] EXCEPT ![r] = x] \in [Records -> D]
  BY <1>1
<1>3. QED
  BY <1>1, <1>2

LEMMA LoadStep ==
    ASSUME Upgrades!Assumptions, UpgradeInv, NEW p \in Processes, NEW r \in Records,
           Upgrades!_deserialize_entity(p, r)
    PROVE  UpgradeInv'
<1> DEFINE d == disk[r]
           due == Upgrades!needs_migration(d, p) /\ ~Upgrades!Missing(d, p)
           new == IF due THEN Upgrades!apply_migrations(d, p) ELSE d
<1>1. /\ Upgrades!TypeOK /\ UNCHANGED <<own, inherited, disk, rows, bare, saves>> /\ d # None
      /\ \/ /\ memory' = [memory EXCEPT ![p][r] = new]
            /\ writing' = [writing EXCEPT ![p][r] = IF new # d /\ p \in AutoPersist THEN new ELSE None]
         \/ memory' = [memory EXCEPT ![p][r] = None] /\ UNCHANGED writing
  BY DEF UpgradeInv, Upgrades!_deserialize_entity
<1>2. d \in Upgrades!Data
  BY <1>1 DEF Upgrades!TypeOK
<1>3. new \in Upgrades!Data /\ (Upgrades!Whole /\ Fits(d) => Fits(new))
  BY <1>1, <1>2, UpgradeFits
<1> HIDE DEF new, d
<1>4. \E load, write \in {new, None} :
         /\ memory' = [memory EXCEPT ![p][r] = load]
         /\ writing' = writing \/ writing' = [writing EXCEPT ![p][r] = write]
  BY <1>1
<1>5. PICK load \in {new, None}, write \in {new, None} :
         /\ memory' = [memory EXCEPT ![p][r] = load]
         /\ writing' = writing \/ writing' = [writing EXCEPT ![p][r] = write]
  BY <1>4
<1>6. Upgrades!TypeOK'
  <2>1. {load, write} \subseteq Upgrades!Data \cup {None}
    BY <1>3, <1>5
  <2> DEFINE D == Upgrades!Data \cup {None}
  <2>2. memory \in [Processes -> [Records -> D]] /\ writing \in [Processes -> [Records -> D]]
    BY <1>1 DEF Upgrades!TypeOK
  <2> HIDE DEF D
  <2>3. load \in D /\ write \in D
    BY <2>1 DEF D
  <2>4. /\ [memory EXCEPT ![p][r] = load] \in [Processes -> [Records -> D]]
        /\ [writing EXCEPT ![p][r] = write] \in [Processes -> [Records -> D]]
    BY ZenonT(30), <2>2, <2>3, Assigned
  <2>5. memory' \in [Processes -> [Records -> D]] /\ writing' \in [Processes -> [Records -> D]]
    BY <1>5, <2>2, <2>4
  <2>6. QED
    BY <1>1, <2>5 DEF Upgrades!TypeOK, D
<1>7. Upgrades!Whole' = Upgrades!Whole
  BY <1>1 DEF Upgrades!Whole
<1>8. ASSUME Upgrades!Whole, NEW s \in Records \ bare, NEW q \in Processes
      PROVE  Fits(writing'[q][s])
  <2>1. Fits(disk[s]) /\ Fits(writing[q][s])
    BY <1>8 DEF UpgradeInv
  <2>2. writing'[q][s] = writing[q][s] \/ (s = r /\ writing'[q][s] = write)
    <3>1. writing \in [Processes -> [Records -> Upgrades!Data \cup {None}]] /\ s \in Records
      BY <1>1, <1>8 DEF Upgrades!TypeOK
    <3>2. QED
      BY <1>5, <3>1
  <2>3. Fits(None)
    BY DEF Fits
  <2>4. QED
    BY <1>3, <1>8, <2>1, <2>2, <2>3 DEF d
<1>9. QED
  BY <1>1, <1>6, <1>7, <1>8 DEF UpgradeInv

LEMMA WriteBackStep ==
    ASSUME Upgrades!Assumptions, UpgradeInv, NEW p \in Processes, NEW r \in Records,
           Upgrades!WriteBack(p, r)
    PROVE  UpgradeInv'
<1>1. /\ Upgrades!TypeOK /\ UNCHANGED <<own, inherited, memory, rows, bare, saves>>
      /\ disk' = [disk EXCEPT ![r] = writing[p][r]]
      /\ writing' = [writing EXCEPT ![p][r] = None]
  BY DEF UpgradeInv, Upgrades!WriteBack
<1>2. Upgrades!TypeOK'
  BY <1>1 DEF Upgrades!TypeOK
<1>3. Upgrades!Whole' = Upgrades!Whole
  BY <1>1 DEF Upgrades!Whole
<1>4. ASSUME Upgrades!Whole, NEW s \in Records \ bare
      PROVE  Fits(disk'[s]) /\ \A q \in Processes : Fits(writing'[q][s])
  <2>1. Fits(disk[s]) /\ \A q \in Processes : Fits(writing[q][s])
    BY <1>4 DEF UpgradeInv
  <2>2. disk'[s] = disk[s] \/ disk'[s] = writing[p][s]
    BY <1>1 DEF Upgrades!TypeOK
  <2>3. \A q \in Processes : writing'[q][s] = writing[q][s] \/ writing'[q][s] = None
    BY <1>1 DEF Upgrades!TypeOK
  <2>4. Fits(None)
    BY DEF Fits
  <2>5. Fits(disk'[s])
    BY <2>1, <2>2
  <2>6. \A q \in Processes : Fits(writing'[q][s])
    BY <2>1, <2>3, <2>4
  <2>7. QED
    BY <2>5, <2>6
<1>5. QED
  BY <1>1, <1>2, <1>3, <1>4 DEF UpgradeInv

LEMMA SaveStep ==
    ASSUME Upgrades!Assumptions, UpgradeInv, NEW p \in Processes, NEW r \in Records,
           Upgrades!save(p, r)
    PROVE  UpgradeInv'
<1> DEFINE left == IF memory[p][r] = None THEN {FALSE}
                   ELSE {memory[p][r].garbled \/ memory[p][r].shape # Target[p]}
<1>1. /\ Upgrades!TypeOK /\ UNCHANGED <<own, inherited, memory, writing, rows>>
      /\ saves < MaxSaves /\ saves' = saves + 1 /\ bare' = bare \cup {r}
      /\ \E garbled \in left : disk' = [disk EXCEPT ![r] = [v |-> 0, shape |-> Target[p], garbled |-> garbled]]
  BY DEF UpgradeInv, Upgrades!save
<1>2. left \subseteq BOOLEAN
  OBVIOUS
<1> HIDE DEF left
<1>3. PICK garbled \in BOOLEAN : disk' = [disk EXCEPT ![r] = [v |-> 0, shape |-> Target[p], garbled |-> garbled]]
  BY <1>1, <1>2
<1>4. [v |-> 0, shape |-> Target[p], garbled |-> garbled] \in Upgrades!Data
  BY DEF Upgrades!Data, Upgrades!Assumptions, Upgrades!Versions
<1>5. saves' \in 0..MaxSaves
  BY <1>1 DEF Upgrades!TypeOK, Upgrades!Assumptions
<1>6. Upgrades!TypeOK'
  BY <1>1, <1>3, <1>4, <1>5 DEF Upgrades!TypeOK
<1>7. Upgrades!Whole' = Upgrades!Whole
  BY <1>1 DEF Upgrades!Whole
<1>8. \A s \in Records \ bare' : s \notin bare /\ disk'[s] = disk[s]
  BY <1>1, <1>3 DEF Upgrades!TypeOK
<1>9. QED
  BY <1>1, <1>6, <1>7, <1>8 DEF UpgradeInv

LEMMA CommandStep ==
    ASSUME Upgrades!Assumptions, UpgradeInv, NEW p \in Processes, Upgrades!_run_migrate(p)
    PROVE  UpgradeInv'
<1>1. /\ Upgrades!TypeOK /\ UNCHANGED <<own, inherited, disk, memory, writing, bare, saves>>
      /\ rows' = [rows EXCEPT ![p] = disk]
  BY DEF UpgradeInv, Upgrades!_run_migrate
<1>2. Upgrades!TypeOK'
  BY <1>1 DEF Upgrades!TypeOK
<1>3. Upgrades!Whole' = Upgrades!Whole
  BY <1>1 DEF Upgrades!Whole
<1>4. \A q \in Processes, s \in Records : rows'[q][s] = rows[q][s] \/ rows'[q][s] = disk[s]
  BY <1>1 DEF Upgrades!TypeOK
<1>5. ASSUME Upgrades!Whole, NEW s \in Records \ bare, NEW q \in Processes
      PROVE  Fits(rows'[q][s])
  <2>1. Fits(disk[s]) /\ Fits(rows[q][s])
    BY <1>5 DEF UpgradeInv
  <2>2. QED
    BY <1>4, <2>1
<1>6. QED
  BY <1>1, <1>2, <1>3, <1>5 DEF UpgradeInv

LEMMA UpgradeStep ==
    ASSUME Upgrades!Assumptions, UpgradeInv, NEW p \in Processes, NEW r \in Records,
           Upgrades!Upgrade(p, r)
    PROVE  UpgradeInv'
<1> DEFINE d == rows[p][r]
           stays == ~Upgrades!needs_migration(d, p) \/ Upgrades!Missing(d, p)
           new == Upgrades!apply_migrations(d, p)
<1>1. /\ Upgrades!TypeOK /\ UNCHANGED <<own, inherited, memory, writing, bare, saves>> /\ d # None
      /\ \/ /\ rows' = [rows EXCEPT ![p][r] = None]
            /\ disk' = IF stays THEN disk ELSE [disk EXCEPT ![r] = new]
         \/ rows' = [rows EXCEPT ![p] = [s \in Records |-> None]] /\ UNCHANGED disk
  BY DEF UpgradeInv, Upgrades!Upgrade
<1>2. d \in Upgrades!Data
  BY <1>1 DEF Upgrades!TypeOK
<1>3. ~stays => new \in Upgrades!Data /\ (Upgrades!Whole /\ Fits(d) => Fits(new))
  BY <1>1, <1>2, UpgradeFits
<1> HIDE DEF new, d, stays
<1>4. disk' = disk \/ (~stays /\ disk' = [disk EXCEPT ![r] = new])
  BY <1>1
<1>5. disk' \in [Records -> Upgrades!Data \cup {None}]
  BY <1>1, <1>3, <1>4 DEF Upgrades!TypeOK
<1>6. rows' \in [Processes -> [Records -> Upgrades!Data \cup {None}]]
  <2> DEFINE D == Upgrades!Data \cup {None}
  <2>1. rows \in [Processes -> [Records -> D]]
    BY <1>1 DEF Upgrades!TypeOK
  <2>2. None \in D
    OBVIOUS
  <2> HIDE DEF D
  <2>3. [rows EXCEPT ![p][r] = None] \in [Processes -> [Records -> D]]
    BY <2>1, <2>2, Assigned
  <2>4. [rows EXCEPT ![p] = [s \in Records |-> None]] \in [Processes -> [Records -> D]]
    BY <2>1, <2>2
  <2>5. QED
    BY <1>1, <2>3, <2>4 DEF D
<1>7. Upgrades!TypeOK'
  BY <1>1, <1>5, <1>6 DEF Upgrades!TypeOK
<1>8. Upgrades!Whole' = Upgrades!Whole
  BY <1>1 DEF Upgrades!Whole
<1>9. ASSUME Upgrades!Whole, NEW s \in Records \ bare
      PROVE  Fits(disk'[s]) /\ \A q \in Processes : Fits(rows'[q][s])
  <2>1. Fits(disk[s]) /\ \A q \in Processes : Fits(rows[q][s])
    BY <1>9 DEF UpgradeInv
  <2>2. disk'[s] = disk[s] \/ (~stays /\ s = r /\ disk'[s] = new)
    BY <1>1, <1>4 DEF Upgrades!TypeOK
  <2>3. \A q \in Processes : rows'[q][s] = rows[q][s] \/ rows'[q][s] = None
    BY <1>1 DEF Upgrades!TypeOK
  <2>4. Fits(None)
    BY DEF Fits
  <2>5. Fits(disk'[s])
    BY <1>3, <1>9, <2>1, <2>2 DEF d
  <2>6. \A q \in Processes : Fits(rows'[q][s])
    BY <2>1, <2>3, <2>4
  <2>7. QED
    BY <2>5, <2>6
<1>10. QED
  BY <1>1, <1>7, <1>8, <1>9 DEF UpgradeInv

\* Until an entity is saved, each step runs once, on data of its own version
\* (core/migrations.py:136), whatever processes load, write back and migrate.
THEOREM UpgradesRunOnce ==
    ASSUME Upgrades!Assumptions PROVE Upgrades!Spec => []Upgrades!UpgradedOnce
<1>1. Upgrades!Init => UpgradeInv
  BY UpgradeInit
<1>2. UpgradeInv /\ [Upgrades!Next]_(Upgrades!vars) => UpgradeInv'
  <2> SUFFICES ASSUME UpgradeInv, [Upgrades!Next]_(Upgrades!vars)
               PROVE  UpgradeInv'
    OBVIOUS
  <2>1. CASE UNCHANGED Upgrades!vars
    BY <2>1 DEF Upgrades!vars, UpgradeInv, Upgrades!TypeOK, Upgrades!Whole, Fits
  <2>2. CASE Upgrades!Next
    BY <2>2, LoadStep, WriteBackStep, SaveStep, CommandStep, UpgradeStep DEF Upgrades!Next
  <2>3. QED
    BY <2>1, <2>2
<1>3. UpgradeInv => Upgrades!UpgradedOnce
  BY DEF UpgradeInv, Upgrades!UpgradedOnce, Fits
<1>4. QED
  BY <1>1, <1>2, <1>3, PTL DEF Upgrades!Spec

LEMMA UpgradesScene == EntitiesSpec => [](~(scene = "upgrades")) \/ Upgrades!Spec
<1>1. EntitiesInit => (scene = "upgrades" => Upgrades!Init)
  BY DEF EntitiesInit
<1>2. [EntitiesNext]_all =>
         /\ ~(scene = "upgrades") => (~(scene = "upgrades"))'
         /\ scene = "upgrades" => (scene = "upgrades")' /\ [Upgrades!Next]_(Upgrades!vars)
  BY DEF EntitiesNext, Saving, Deleting, Walking, Upgrading, all, versions, Upgrades!vars
<1>3. QED
  BY <1>1, <1>2, PTL DEF EntitiesSpec, Upgrades!Spec

\* The same of the small instance that is model-checked.
THEOREM ScenesUpgradeOnce == EntitiesSpec => []UpgradedOnce
<1>1. Upgrades!Spec => []Upgrades!UpgradedOnce
  BY ScenesAssumption, UpgradesRunOnce
<1>2. QED
  BY <1>1, UpgradesScene, PTL DEF UpgradedOnce
=============================================================================
