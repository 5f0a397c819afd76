---------------------------- MODULE DeferredSave ----------------------------
(***************************************************************************)
(* Batched saves (core/mixins/deferred_save.py).  While an entity defers,  *)
(* save only marks it dirty; flush writes it and ends the batch.  Tasks of *)
(* one event loop share the entities and interleave where they await the   *)
(* underlying save, which writes what the entity was when it was called.   *)
(* Writes of one entity happen in the order of the calls: a Node's save    *)
(* takes the node's write lock.                                            *)
(***************************************************************************)
EXTENDS Naturals, Sequences

CONSTANTS Tasks, Entities,
          Lists,      \* the arguments flush_deferred_entities is called with
          Cap,        \* max_pending_saves; 0 for None
          Faults,     \* may the underlying save raise?
          Reenable,   \* is enable_deferred_saves called after construction?
          MaxVal,     \* bound: changes of one entity
          MaxCount    \* bound: saves deferred without a flush

ASSUME CapAssumption == Cap \in Nat
ASSUME ListsAssumption == Lists \subseteq Seq(Entities)
ASSUME ModeAssumption == Faults \in BOOLEAN /\ Reenable \in BOOLEAN
ASSUME CountAssumption == MaxVal \in Nat /\ MaxCount \in Nat

VARIABLES ent,      \* entity -> its fields, its version val, and
                    \*   stored: the version in the database
                    \*   late: the version at the last deferred save
          task,     \* task -> the call it is in
          allowed,  \* deferred_saves_globally_allowed()
          promised  \* entity -> the version a flush reported persisted

vars == <<ent, task, allowed, promised>>

Entity == [val : Nat, mode : BOOLEAN, dirty : BOOLEAN, count : Nat, stored : Nat, late : Nat]
Task == [pc : {"idle", "write", "wrote"}, flush : BOOLEAN, list : Seq(Entities), at : Nat,
         snap : Nat, strict : BOOLEAN, good : BOOLEAN, need : [Entities -> Nat]]

TypeOK ==
    /\ ent \in [Entities -> Entity]
    /\ task \in [Tasks -> Task]
    /\ allowed \in BOOLEAN
    /\ promised \in [Entities -> Nat]
    /\ \A t \in Tasks : task[t].pc # "idle" => task[t].at \in DOMAIN task[t].list
    /\ \A e \in Entities : /\ ent[e].dirty <=> ent[e].count > 0
                           /\ ent[e].dirty => allowed

Idle == [pc |-> "idle", flush |-> FALSE, list |-> << >>, at |-> 0, snap |-> 0,
         strict |-> FALSE, good |-> TRUE, need |-> [e \in Entities |-> 0]]

Of(t) == task[t].list[task[t].at]             \* the entity the task is writing
Writes(t, e) == task[t].pc # "idle" /\ Of(t) = e
Flushes(t, e) == Writes(t, e) /\ task[t].flush

(* DeferredSaveMixin.__init__: the batch begins with the entity where the  *)
(* class wants that.                                                       *)
Init ==
    /\ allowed \in BOOLEAN
    /\ \E mode \in [Entities -> BOOLEAN] :
          /\ \A e \in Entities : mode[e] => allowed
          /\ ent = [e \in Entities |-> [val |-> 1, mode |-> mode[e], dirty |-> FALSE,
                                        count |-> 0, stored |-> 0, late |-> 0]]
    /\ task = [t \in Tasks |-> Idle]
    /\ promised = [e \in Entities |-> 0]

(* The application changes a field, in a task that is not waiting. *)
Change(t, e) ==
    /\ task[t].pc = "idle" /\ ent[e].val < MaxVal
    /\ ent' = [ent EXCEPT ![e].val = @ + 1]
    /\ UNCHANGED <<task, allowed, promised>>

(* flush of the entities at positions from .. of a call c: each one that   *)
(* is clean is done at once, the first that is dirty is written.           *)
BegunOn(x) == x                               \* mutant of Begun: goes on deferring
Begun(x) == [x EXCEPT !.mode = FALSE]
Flushed(x) == [x EXCEPT !.mode = FALSE, !.count = 0]

Proceed(t, c, from, ents) ==
    LET rest == from..Len(c.list)
        Stops(i) == i \in rest /\ ents[c.list[i]].dirty
                    /\ \A j \in rest : j < i => ~ents[c.list[j]].dirty
        Clean(e) == \E i \in rest : c.list[i] = e /\ \A j \in rest : j <= i => ~ents[c.list[j]].dirty
        ended == [e \in Entities |-> IF Clean(e) THEN Flushed(ents[e]) ELSE ents[e]]
    IN  \/ \E i \in rest :
              /\ Stops(i)
              /\ ent' = [ended EXCEPT ![c.list[i]] = Begun(@)]
              /\ task' = [task EXCEPT ![t] = [c EXCEPT !.pc = "write", !.at = i,
                                                       !.snap = ents[c.list[i]].val]]
              /\ UNCHANGED promised
        \/ /\ \A i \in rest : ~ents[c.list[i]].dirty
           /\ ent' = ended
           /\ task' = [task EXCEPT ![t] = Idle]
           /\ promised' = [e \in Entities |->
                 IF c.good /\ c.need[e] > promised[e] THEN c.need[e] ELSE promised[e]]

(* flush_deferred_entities; flush is a strict call with one entity. *)
Call(list, strict, ents) ==
    [Idle EXCEPT !.flush = TRUE, !.list = list, !.strict = strict,
                 !.need = [e \in Entities |-> IF \E i \in DOMAIN list : list[i] = e
                                              THEN ents[e].late ELSE 0]]
Flush(t, list, strict) ==
    /\ task[t].pc = "idle"
    /\ Proceed(t, Call(list, strict, ent), 1, ent)
    /\ UNCHANGED allowed

Defers(e) == allowed /\ ent[e].mode
Full(n) == Cap > 0 /\ n >= Cap
MarkedNot(x) == [x EXCEPT !.count = @ + 1, !.late = x.val] \* mutant of Marked: not dirty
Marked(x) == [x EXCEPT !.dirty = TRUE, !.count = @ + 1, !.late = x.val]

SaveDeferred(t, e) ==
    LET ents == [ent EXCEPT ![e] = Marked(@)] IN
    /\ task[t].pc = "idle" /\ Defers(e) /\ ent[e].count < MaxCount
    /\ \/ ~Full(ent[e].count + 1) /\ ent' = ents /\ UNCHANGED <<task, promised>>
       \/ Full(ent[e].count + 1) /\ Proceed(t, Call(<<e>>, TRUE, ents), 1, ents)
    /\ UNCHANGED allowed

SaveNow(t, e) ==
    /\ task[t].pc = "idle" /\ ~Defers(e)
    /\ task' = [task EXCEPT ![t] = [Idle EXCEPT !.pc = "write", !.list = <<e>>, !.at = 1,
                                                !.snap = ent[e].val]]
    /\ UNCHANGED <<ent, allowed, promised>>

Enable(t, e) ==
    /\ task[t].pc = "idle" /\ Reenable /\ allowed
    /\ ent' = [ent EXCEPT ![e].mode = TRUE]
    /\ UNCHANGED <<task, allowed, promised>>

Disable(t, e) ==
    /\ task[t].pc = "idle"
    /\ ent' = [ent EXCEPT ![e].mode = FALSE]
    /\ UNCHANGED <<task, allowed, promised>>

(* The database stores what the task exported. *)
Store(t) ==
    /\ task[t].pc = "write"
    /\ \A u \in Tasks : task[u].pc = "write" /\ Of(u) = Of(t) => task[t].snap <= task[u].snap
    /\ ent' = [ent EXCEPT ![Of(t)].stored = task[t].snap]
    /\ task' = [task EXCEPT ![t].pc = "wrote"]
    /\ UNCHANGED <<allowed, promised>>

(* The task resumes after the underlying save. *)
SavedDirty(x) == [x EXCEPT !.count = 0]       \* mutant of Saved: never clean
Saved(x) == [x EXCEPT !.dirty = FALSE, !.count = 0]
Done(t) ==
    /\ task[t].pc = "wrote"
    /\ \/ /\ task[t].flush
          /\ Proceed(t, task[t], task[t].at + 1, [ent EXCEPT ![Of(t)] = Saved(@)])
       \/ /\ ~task[t].flush
          /\ task' = [task EXCEPT ![t] = Idle] /\ UNCHANGED <<ent, promised>>
    /\ UNCHANGED allowed

(* The underlying save raises, with or without having stored. *)
FailedNot(c) == c                             \* mutant of Failed: reports success
Failed(c) == [c EXCEPT !.good = FALSE]
Raise(t) ==
    /\ Faults /\ task[t].pc # "idle"
    /\ \/ /\ task[t].flush /\ ~task[t].strict
          /\ Proceed(t, Failed(task[t]), task[t].at + 1, [ent EXCEPT ![Of(t)].mode = TRUE])
       \/ /\ task[t].flush /\ task[t].strict
          /\ ent' = [ent EXCEPT ![Of(t)].mode = TRUE]
          /\ task' = [task EXCEPT ![t] = Idle] /\ UNCHANGED promised
       \/ /\ ~task[t].flush
          /\ task' = [task EXCEPT ![t] = Idle] /\ UNCHANGED <<ent, promised>>
    /\ UNCHANGED allowed

Next ==
    \E t \in Tasks :
        \/ \E e \in Entities : \/ Change(t, e) \/ Enable(t, e) \/ Disable(t, e)
                               \/ SaveDeferred(t, e) \/ SaveNow(t, e)
        \/ \E list \in Lists, strict \in BOOLEAN : Flush(t, list, strict)
        \/ Store(t) \/ Done(t) \/ Raise(t)

Spec == Init /\ [][Next]_vars

(***************************************************************************)
(* Properties.                                                             *)
(***************************************************************************)
(* is_dirty: "True if there are unflushed changes, False otherwise": what  *)
(* a deferred save covered is in the database, or the entity is dirty.     *)
NothingLost == \A e \in Entities : ent[e].dirty \/ ent[e].late <= ent[e].stored

(* A flush, or a flush_deferred_entities, that reports success stored all  *)
(* that was deferred when it was called.  (flush_deferred_entities.)       *)
Persisted == \A e \in Entities : promised[e] <= ent[e].stored

(* With a cap, no batch reaches it and stays unflushed.  (save.)           *)
BatchBounded ==
    \A e \in Entities : Cap > 0 /\ ent[e].count >= Cap => \E t \in Tasks : Flushes(t, e)

(* "Always clears deferred save mode when this call completes              *)
(* successfully": a flush that ends well leaves the entity writing through.*)
FlushEndsBatch ==
    [][\A t \in Tasks : task[t].pc = "wrote" /\ task[t].flush /\ Done(t) => ~ent'[Of(t)].mode]_vars
=============================================================================
