----------------------------- MODULE GraphEdges -----------------------------
(***************************************************************************)
(* Edges and the edge lists of nodes (core/context.py, core/entities/      *)
(* node.py).  An edge is a record of its own, and each end's record lists  *)
(* it.  The tasks of one event loop share the context's entity cache: two  *)
(* of them hold the same Node object when it was cached, and two copies    *)
(* when it was not.                                                        *)
(*                                                                         *)
(* A handler is a sequence of frames, one per call it makes.  The loop     *)
(* runs one task until it awaits the database or a node's write lock; the  *)
(* database answers at a moment of its own (Apply), and the task goes on   *)
(* later with what it was told, which may be stale by then.                *)
(***************************************************************************)
EXTENDS Naturals, Sequences, FiniteSets, SequencesExt

CONSTANTS Tasks, Nodes, Edges,
          Insts,       \* identities of Node objects
          None, Gone,
          Backend,     \* "rmw" (JsonDB, SQLite), "mongo" or "postgres"
          Ops, Dirs,   \* the handlers and directions the tasks call
          Budget,      \* bound: calls of handlers, by all tasks together
          Crashes,     \* bound: restarts of the process
          Faults,      \* bound: database calls that raise
          Start,       \* the tasks start with the cached objects ("shared"), the
                       \* same and an edge ("joined"), or copies of their own
          UniqueIndex, \* was Edge's unique index on source and target created?
          Evicts       \* may the bounded entity cache evict a node?

ASSUME BackendAssumption == Backend \in {"rmw", "mongo", "postgres"}
ASSUME OpsAssumption == Ops \subseteq {"get", "save", "connect", "disconnect", "delete"}
ASSUME StartAssumption == Start \in {"shared", "copies", "joined"}
ASSUME NoneAssumption == None \notin Tasks \cup Nodes \cup Insts
ASSUME BoundsAssumption == {Budget, Crashes, Faults} \subseteq Nat

VARIABLES ndb,      \* node -> the persisted edge list, or Gone
          edb,      \* the persisted edges
          link,     \* edge id -> [s, d], fixed when the edge is made
          cache,    \* node -> the cached Node object
          heap,     \* Node object -> its edge_ids
          guard,    \* _node_edge_write_locks: node -> the task inside
          task, running,
          given,    \* the edges connect returned
          asked,    \* the edges a disconnect or delete set out to remove
          left      \* what remains of the bounds

vars == <<ndb, edb, link, cache, heap, guard, task, running, given, asked, left>>

Known(x) == IF x = Gone THEN {} ELSE x

F(do, a, b) == [do |-> do, a |-> a, b |-> b]

Idle(own) == [op |-> None, me |-> None, oth |-> None, dir |-> None, own |-> own,
              todo |-> <<>>, ph |-> "run", at |-> None, rec |-> {}, got |-> None, hits |-> {}]

TypeOK ==
    /\ (\A n \in Nodes : Known(ndb[n]) \subseteq Edges) /\ edb \subseteq Edges
    /\ cache \in [Nodes -> Insts \cup {None}] /\ heap \in [Insts -> SUBSET Edges]
    /\ guard \in [Nodes -> Tasks \cup {None}] /\ running \in Tasks \cup {None}
    /\ \A t \in Tasks : /\ task[t].ph \in {"run", "await", "back"}
                        /\ task[t].own \in [Nodes -> Insts \cup {None}]
                        /\ task[t].rec \subseteq Edges /\ task[t].hits \subseteq Edges
    /\ given \cup asked \subseteq Edges
    /\ \A n \in Nodes : guard[n] # None => F("unlock", n, None) \in Range(task[guard[n]].todo)

Init ==
    /\ LET first == IF Start = "joined" THEN {CHOOSE e \in Edges : TRUE} ELSE {}
           ends == CHOOSE r \in [s : Nodes, d : Nodes] : r.s # r.d
       IN /\ ndb = [n \in Nodes |-> IF n \in {ends.s, ends.d} THEN first ELSE {}]
          /\ edb = first /\ given = first
          /\ link = [e \in Edges |-> IF e \in first THEN ends ELSE None]
          /\ heap = [i \in Insts |-> first]
    /\ guard = [n \in Nodes |-> None]
    /\ LET none == [n \in Nodes |-> None]
           one == CHOOSE f \in [Nodes -> Insts] : IsInjective(f)
           each == CHOOSE f \in [Tasks \X Nodes -> Insts] : IsInjective(f)
       IN CASE Start \in {"shared", "joined"} -> cache = one /\ task = [t \in Tasks |-> Idle(one)]
            [] OTHER -> /\ cache = none
                        /\ task = [t \in Tasks |-> Idle([n \in Nodes |-> each[<<t, n>>]])]
    /\ running = None /\ asked = {}
    /\ left = [calls |-> Budget, crashes |-> Crashes, faults |-> Faults]

Frame(t) == Head(task[t].todo)
Rest(t) == Tail(task[t].todo)

(* Task t runs on with program prog, up to its next await or its end. *)
Goes(t, r, prog) ==
    /\ task' = [task EXCEPT ![t] = IF prog = <<>> THEN Idle(r.own)
                                   ELSE [r EXCEPT !.todo = prog, !.ph = "run", !.got = None]]
    /\ running' = IF prog = <<>> THEN None ELSE t

Runs(t, do) == /\ running \in {None, t}
               /\ task[t].ph = "run" /\ task[t].todo # <<>> /\ Frame(t).do = do
Back(t, do) == /\ running = None
               /\ task[t].ph = "back" /\ Frame(t).do \in do

(***************************************************************************)
(* The handlers as sequences of frames.                                    *)
(***************************************************************************)
LockedLeak(n, body) == <<F("lock", n, None)>> \o body \* mutant of Locked: never released
Locked(n, body) == <<F("lock", n, None)>> \o body \o <<F("unlock", n, None)>>

(* context.save with merge_node_edges: a fresh read, then the union. *)
Merged(n) == IF Backend = "postgres" THEN <<F("upsert", n, None)>>
             ELSE <<F("merge", n, None), F("write", n, None)>>

SaveNode(n) == <<F("export", n, None)>> \o Locked(n, Merged(n))

SlowAdd(n, e) == Locked(n, <<F("load", n, None), F("append", n, e)>>)
SlowRemove(n, e) == Locked(n, <<F("load", n, None), F("drop", n, e)>>)
Add(n, e) == IF Backend = "rmw" THEN SlowAdd(n, e) ELSE <<F("push", n, e)>>
TakeOut(n, e) == IF Backend = "rmw" THEN SlowRemove(n, e) ELSE <<F("pull", n, e)>>

FreshLinks(me, oth, e) == <<F("create", e, None)>> \o Add(me, e) \o <<F("mine", me, e)>>
                       \o Add(oth, e) \o <<F("mine", oth, e), F("return", e, None)>>
OldLinksNot(me, oth, e) == <<F("return", e, None)>>  \* mutant of OldLinks: no repair
OldLinks(me, oth, e) == <<F("ensure", me, e), F("ensure", oth, e), F("return", e, None)>>

(* Mutant of Sever: the edge is deleted before the lists are cleaned. *)
SeverEarly(me, oth, e) == <<F("erase", e, None)>> \o TakeOut(me, e) \o <<F("unmine", me, e)>>
                       \o TakeOut(oth, e) \o <<F("unmine", oth, e)>>
Sever(me, oth, e) == TakeOut(me, e) \o <<F("unmine", me, e)>>
                  \o TakeOut(oth, e) \o <<F("unmine", oth, e), F("erase", e, None)>>

Detach(me, e) ==
    LET other == IF link[e].d = me THEN link[e].s ELSE link[e].d
    IN (IF other = me THEN <<>> ELSE TakeOut(other, e))
       \o <<F("unmine", me, e), F("erase", e, None)>>

Program(op, me, oth) ==
    CASE op = "get" -> <<F("load", me, None), F("hold", me, None)>>
      [] op = "save" -> SaveNode(me)
      [] op = "connect" -> <<F("find", me, oth), F("find", oth, me), F("link", me, oth)>>
      [] op = "disconnect" -> <<F("find", me, oth), F("sever", me, oth)>>
      [] op = "delete" -> <<F("find", None, me), F("probes", me, None), F("find", me, None),
                            F("detach", me, None)>>

ByNode == {"get", "save", "delete"}

(* Application code calls a handler on Node objects it holds.  A node that *)
(* is deleted is not given to a further call by the task that deleted it.  *)
Begin(t, op, me, oth, dir) ==
    /\ running = None /\ task[t].todo = <<>> /\ left.calls > 0
    /\ op \in Ops
    /\ op \in ByNode <=> me = oth
    /\ op # "connect" => dir = "out"
    /\ op = "connect" => Cardinality({u \in Tasks : task[u].op = "connect"})
                           < Cardinality({e \in Edges : link[e] = None})   \* bound: edge ids
    /\ op = "get" \/ (task[t].own[me] # None /\ task[t].own[oth] # None)
    /\ task' = [task EXCEPT ![t] = [@ EXCEPT !.op = op, !.me = me, !.oth = oth, !.dir = dir,
                                             !.todo = Program(op, me, oth)]]
    /\ left' = [left EXCEPT !.calls = @ - 1]
    /\ UNCHANGED <<ndb, edb, link, cache, heap, guard, running, given, asked>>

(***************************************************************************)
(* Frames that do not wait for the database.                               *)
(***************************************************************************)
Lock(t) ==
    /\ Runs(t, "lock")
    /\ LET n == Frame(t).a IN
       \/ /\ guard[n] = None
          /\ guard' = [guard EXCEPT ![n] = t] /\ Goes(t, task[t], Rest(t))
       \/ /\ guard[n] # None /\ running = t
          /\ running' = None /\ UNCHANGED <<guard, task>>
    /\ UNCHANGED <<ndb, edb, link, cache, heap, given, asked, left>>

Unlock(t) ==
    /\ Runs(t, "unlock")
    /\ guard' = [guard EXCEPT ![Frame(t).a] = None]
    /\ Goes(t, task[t], Rest(t))
    /\ UNCHANGED <<ndb, edb, link, cache, heap, given, asked, left>>

(* atomic_add_edge_id, atomic_remove_edge_id: change the loaded object,    *)
(* and save it when that changed anything.  The removal is authoritative:  *)
(* it writes the list of the object without merging.                       *)
ChangeLoaded(t, do) ==
    /\ Runs(t, do)
    /\ LET n == Frame(t).a
           e == Frame(t).b
           i == task[t].at
           ids == IF do = "append" THEN heap[i] \cup {e} ELSE heap[i] \ {e}
       IN IF i = None \/ ids = heap[i]
          THEN Goes(t, task[t], Rest(t)) /\ UNCHANGED heap
          ELSE /\ heap' = [heap EXCEPT ![i] = ids]
               /\ Goes(t, [task[t] EXCEPT !.rec = ids],
                       (IF do = "append" THEN Merged(n) ELSE <<F("put", n, None)>>) \o Rest(t))
    /\ UNCHANGED <<ndb, edb, link, cache, guard, given, asked, left>>

(* The object the caller holds is brought in line after each list update. *)
ChangeHeld(t, do) ==
    /\ Runs(t, do)
    /\ heap' = [heap EXCEPT ![task[t].own[Frame(t).a]] =
                  IF do = "mine" THEN @ \cup {Frame(t).b} ELSE @ \ {Frame(t).b}]
    /\ Goes(t, task[t], Rest(t))
    /\ UNCHANGED <<ndb, edb, link, cache, guard, given, asked, left>>

Export(t) ==
    /\ Runs(t, "export")
    /\ LET i == task[t].own[Frame(t).a]
       IN Goes(t, [task[t] EXCEPT !.at = i, !.rec = heap[i]], Rest(t))
    /\ UNCHANGED <<ndb, edb, link, cache, heap, guard, given, asked, left>>

Hold(t) ==
    /\ Runs(t, "hold")
    /\ Goes(t, [task[t] EXCEPT !.own[Frame(t).a] = task[t].at], Rest(t))
    /\ UNCHANGED <<ndb, edb, link, cache, heap, guard, given, asked, left>>

(* An existing edge misses in the list of an end: add it. *)
Ensure(t) ==
    /\ Runs(t, "ensure")
    /\ LET n == Frame(t).a
           e == Frame(t).b
       IN Goes(t, task[t], (IF e \in heap[task[t].own[n]] THEN <<>>
                            ELSE Add(n, e) \o <<F("mine", n, e)>>) \o Rest(t))
    /\ UNCHANGED <<ndb, edb, link, cache, heap, guard, given, asked, left>>

(* connect after its two queries: take a matching edge, or make a new one. *)
(* The new edge runs from this node to the other whatever the direction.   *)
MatchNone(r, me, oth) == {}       \* mutant of Match: every call makes an edge
Match(r, me, oth) ==
    LET ahead == {e \in r.hits : link[e] = [s |-> me, d |-> oth]}
        behind == {e \in r.hits : link[e] = [s |-> oth, d |-> me]}
    IN CASE r.dir = "out" -> ahead
         [] r.dir = "in" -> behind
         [] OTHER -> IF ahead # {} THEN ahead ELSE behind

Link(t) ==
    /\ Runs(t, "link")
    /\ LET me == task[t].me
           oth == task[t].oth
           match == Match(task[t], me, oth)
       IN \/ /\ \E e \in match : Goes(t, task[t], OldLinks(me, oth, e) \o Rest(t))
             /\ UNCHANGED link
          \/ /\ match = {}
             /\ \E e \in Edges :
                  /\ link[e] = None
                  /\ link' = [link EXCEPT ![e] = [s |-> me, d |-> oth]]
                  /\ Goes(t, task[t], FreshLinks(me, oth, e) \o Rest(t))
    /\ UNCHANGED <<ndb, edb, cache, heap, guard, given, asked, left>>

(* connect after the unique index refused its edge: return what the other  *)
(* call made, and leave the lists to that call.                            *)
Retry(t) ==
    /\ Runs(t, "retry")
    /\ LET there == Match([task[t] EXCEPT !.dir = "out"], task[t].me, task[t].oth)
       IN \/ there = {} /\ Goes(t, task[t], <<>>)
          \/ \E e \in there : Goes(t, task[t], <<F("return", e, None)>>)
    /\ UNCHANGED <<ndb, edb, link, cache, heap, guard, given, asked, left>>

Return(t) ==
    /\ Runs(t, "return")
    /\ given' = given \cup {Frame(t).a}
    /\ Goes(t, task[t], Rest(t))
    /\ UNCHANGED <<ndb, edb, link, cache, heap, guard, asked, left>>

(* disconnect and delete after their queries: what they found goes. *)
Concat(f(_), s) == FlattenSeq([k \in 1..Cardinality(s) |-> f(SetToSeq(s)[k])])
Undo(t) ==
    /\ \/ Runs(t, "sever") \/ Runs(t, "detach")
    /\ LET me == task[t].me
           Steps(e) == IF task[t].op = "delete" THEN Detach(me, e) ELSE Sever(me, task[t].oth, e)
       IN Goes(t, task[t], Concat(Steps, task[t].hits)
                           \o (IF task[t].op = "delete" THEN <<F("bury", me, None)>> ELSE <<>>)
                           \o Rest(t))
    /\ asked' = asked \cup task[t].hits
    /\ UNCHANGED <<ndb, edb, link, cache, heap, guard, given, left>>

(* delete also looks up every edge of the object's own list. *)
Probes(t) ==
    /\ Runs(t, "probes")
    /\ LET Probe(e) == <<F("probe", e, None)>>
       IN Goes(t, task[t], Concat(Probe, heap[task[t].own[task[t].me]]) \o Rest(t))
    /\ UNCHANGED <<ndb, edb, link, cache, heap, guard, given, asked, left>>

LoadCached(t) ==
    /\ Runs(t, "load") /\ cache[Frame(t).a] # None
    /\ Goes(t, [task[t] EXCEPT !.at = cache[Frame(t).a]], Rest(t))
    /\ UNCHANGED <<ndb, edb, link, cache, heap, guard, given, asked, left>>

(***************************************************************************)
(* Frames that await the database: the call, its effect, and the rest.     *)
(***************************************************************************)
Writes == {"write", "put", "upsert", "push", "pull"}
Queries == {"find", "probe"}
DbCalls == Writes \cup Queries \cup {"load", "merge", "create", "erase", "bury"}

Await(t) ==
    /\ \E do \in DbCalls : Runs(t, do)
    /\ Frame(t).do = "load" => cache[Frame(t).a] = None
    /\ task' = [task EXCEPT ![t].ph = "await"] /\ running' = None
    /\ heap' = IF Frame(t).do = "bury" THEN [heap EXCEPT ![task[t].own[Frame(t).a]] = {}] ELSE heap
    /\ UNCHANGED <<ndb, edb, link, cache, guard, given, asked, left>>

(* What a write leaves in the node's record: replace_one and the upserts   *)
(* of the other adapters create it when it is missing; $addToSet and $pull *)
(* do not.                                                                 *)
Stored(f, rec) ==
    LET old == ndb[f.a] IN
    CASE f.do \in {"write", "put"} -> rec
      [] f.do = "upsert" -> rec \cup Known(old)
      [] f.do = "push" /\ old # Gone -> old \cup {f.b}
      [] f.do = "pull" /\ old # Gone -> old \ {f.b}
      [] OTHER -> Gone

Found(f) == {e \in edb : /\ f.a \in {None, link[e].s} /\ f.b \in {None, link[e].d}}

Refused(e) == UniqueIndex /\ \E other \in edb : link[other] = link[e]

Apply(t) ==
    /\ running = None /\ task[t].ph = "await"
    /\ LET f == Frame(t) IN
       /\ ndb' = IF f.do \in Writes THEN [ndb EXCEPT ![f.a] = Stored(f, task[t].rec)]
                 ELSE IF f.do = "bury" THEN [ndb EXCEPT ![f.a] = Gone] ELSE ndb
       /\ edb' = IF f.do = "create" THEN (IF Refused(f.a) THEN edb ELSE edb \cup {f.a})
                 ELSE IF f.do = "erase" THEN edb \ {f.a} ELSE edb
       /\ task' = [task EXCEPT ![t].ph = "back", ![t].got =
                     CASE f.do = "find" -> Found(f)
                       [] f.do = "probe" -> {e \in edb : e = f.a /\ link[e].d = task[t].me}
                       [] f.do \in {"load", "merge"} \cup Writes -> ndb'[f.a]
                       [] f.do = "create" /\ f.a \notin edb' -> Gone
                       [] OTHER -> None]
    /\ UNCHANGED <<link, cache, heap, guard, running, given, asked, left>>

FoundBack(t) ==
    /\ Back(t, Queries)
    /\ Goes(t, [task[t] EXCEPT !.hits = @ \cup task[t].got], Rest(t))
    /\ UNCHANGED <<ndb, edb, link, cache, heap, guard, given, asked, left>>

(* get: a new object from the record, cached over what is there by now. *)
LoadBack(t) ==
    /\ Back(t, {"load"})
    /\ IF task[t].got = Gone
       THEN Goes(t, [task[t] EXCEPT !.at = None], Rest(t)) /\ UNCHANGED <<cache, heap>>
       ELSE LET held == UNION {Range(task[u].own) \cup {task[u].at} : u \in Tasks}
                i == CHOOSE j \in Insts : j \notin Range(cache) \cup held
            IN /\ heap' = [heap EXCEPT ![i] = task[t].got]
               /\ cache' = [cache EXCEPT ![Frame(t).a] = i]
               /\ Goes(t, [task[t] EXCEPT !.at = i], Rest(t))
    /\ UNCHANGED <<ndb, edb, link, guard, given, asked, left>>

MergeBack(t) ==
    /\ Back(t, {"merge"})
    /\ Goes(t, [task[t] EXCEPT !.rec = @ \cup Known(task[t].got)], Rest(t))
    /\ UNCHANGED <<ndb, edb, link, cache, heap, guard, given, asked, left>>

(* save returns: the object takes over the merged list and is cached. *)
WriteBack(t) ==
    /\ Back(t, {"write", "put", "upsert"})
    /\ LET i == task[t].at IN
       /\ heap' = CASE Frame(t).do = "write" -> [heap EXCEPT ![i] = task[t].rec]
                    [] Frame(t).do = "upsert" -> [heap EXCEPT ![i] = task[t].got]
                    [] OTHER -> heap
       /\ cache' = [cache EXCEPT ![Frame(t).a] = i]
       /\ Goes(t, [task[t] EXCEPT !.at = None, !.rec = {}], Rest(t))
    /\ UNCHANGED <<ndb, edb, link, guard, given, asked, left>>

Slow(f) == IF f.do = "push" THEN SlowAdd(f.a, f.b) ELSE SlowRemove(f.a, f.b)

(* $addToSet or $pull returns: bring the cached object in line, or fall    *)
(* back to read-modify-write when there is no such node.                   *)
NativeBack(t) ==
    /\ Back(t, {"push", "pull"})
    /\ LET f == Frame(t)
           i == cache[f.a]
       IN IF task[t].got = Gone
          THEN Goes(t, task[t], Slow(f) \o Rest(t)) /\ UNCHANGED heap
          ELSE /\ heap' = IF i = None THEN heap
                          ELSE [heap EXCEPT ![i] = IF f.do = "push" THEN @ \cup {f.b} ELSE @ \ {f.b}]
               /\ Goes(t, task[t], Rest(t))
    /\ UNCHANGED <<ndb, edb, link, cache, guard, given, asked, left>>

RecordBack(t) ==
    /\ Back(t, {"create", "erase", "bury"})
    /\ LET n == Frame(t).a IN
       IF Frame(t).do = "bury"
       THEN /\ cache' = [cache EXCEPT ![n] = None]
            /\ Goes(t, [task[t] EXCEPT !.own[n] = None], Rest(t))
       ELSE /\ Goes(t, task[t], IF task[t].got # Gone THEN Rest(t)
                                ELSE <<F("find", task[t].me, task[t].oth), F("retry", None, None)>>)
            /\ UNCHANGED cache
    /\ UNCHANGED <<ndb, edb, link, heap, guard, given, asked, left>>

(* The database call raises without effect.  The native list updates fall  *)
(* back; anything else ends the handler, and the locks are released.       *)
(* (delete swallows faults edge by edge; it is not given any here.)        *)
Fault(t) ==
    /\ running = None /\ task[t].ph = "await" /\ left.faults > 0 /\ task[t].op # "delete"
    /\ left' = [left EXCEPT !.faults = @ - 1]
    /\ LET f == Frame(t) IN
       IF f.do \in {"push", "pull"}
       THEN Goes(t, task[t], Slow(f) \o Rest(t)) /\ UNCHANGED guard
       ELSE /\ Goes(t, task[t], <<>>)
            /\ guard' = [n \in Nodes |-> IF guard[n] = t THEN None ELSE guard[n]]
    /\ UNCHANGED <<ndb, edb, link, cache, heap, given, asked>>

Evict(n) ==
    /\ Evicts /\ running = None /\ cache[n] # None
    /\ cache' = [cache EXCEPT ![n] = None]
    /\ UNCHANGED <<ndb, edb, link, heap, guard, task, running, given, asked, left>>

(* The process restarts: only the database remains. *)
Crash ==
    /\ running = None /\ left.crashes > 0
    /\ left' = [left EXCEPT !.crashes = @ - 1]
    /\ cache' = [n \in Nodes |-> None] /\ heap' = [i \in Insts |-> {}]
    /\ guard' = [n \in Nodes |-> None]
    /\ task' = [t \in Tasks |-> Idle([n \in Nodes |-> None])]
    /\ UNCHANGED <<ndb, edb, link, running, given, asked>>

Step(t) ==
    \/ Lock(t) \/ Unlock(t) \/ Export(t) \/ Hold(t) \/ Ensure(t) \/ Link(t) \/ Retry(t) \/ Return(t)
    \/ Undo(t) \/ Probes(t) \/ LoadCached(t) \/ Await(t) \/ Apply(t)
    \/ \E do \in {"append", "drop"} : ChangeLoaded(t, do)
    \/ \E do \in {"mine", "unmine"} : ChangeHeld(t, do)
    \/ FoundBack(t) \/ LoadBack(t) \/ MergeBack(t) \/ WriteBack(t) \/ NativeBack(t) \/ RecordBack(t)

AtRest == \A t \in Tasks : task[t].todo = <<>>
Stop == AtRest /\ UNCHANGED vars                \* no further call comes

Next ==
    \/ \E t \in Tasks, op \in Ops, me, oth \in Nodes, dir \in Dirs : Begin(t, op, me, oth, dir)
    \/ \E t \in Tasks : Step(t) \/ Fault(t)
    \/ \E n \in Nodes : Evict(n)
    \/ Crash \/ Stop

Spec == Init /\ [][Next]_vars
Fairness == \A t \in Tasks : WF_vars(Step(t))

(***************************************************************************)
(* Properties.                                                             *)
(***************************************************************************)
(* An edge that connect returned and that nobody asked to remove is        *)
(* persisted, and so is its entry in the list of each of its ends, once    *)
(* the handlers under way have ended: however other tasks' connects, saves *)
(* and reads of the same nodes interleave and whenever the process         *)
(* restarts.  (atomic_add_edge_id, the merge of save, connect's repair of  *)
(* missing entries.)                                                       *)
ConnectKept ==
    AtRest => \A e \in given \ asked : e \in edb \cap Known(ndb[link[e].s]) \cap Known(ndb[link[e].d])

(* No node's persisted list names an edge that is not in the database,     *)
(* once the handlers have ended or the process was restarted: connect      *)
(* writes the edge first, disconnect removes it last, and save does not    *)
(* put a removed entry back.                                               *)
NoDangling == AtRest => \A n \in Nodes : Known(ndb[n]) \subseteq edb

(* No persisted edge touches a deleted node (Node.delete removes the edges *)
(* before the node, and finds all of them).                                *)
EdgesHaveEnds == \A e \in edb : ndb[link[e].s] # Gone /\ ndb[link[e].d] # Gone

(* connect is idempotent: repeated, it does not make a second edge from    *)
(* one node to the other.                                                  *)
OneEdgePerPair == \A e, f \in edb : link[e] = link[f] => e = f

(* Every handler that is called comes to its end: no task waits for a      *)
(* write lock for good.                                                    *)
CallsEnd == \A t \in Tasks : task[t].todo # <<>> ~> task[t].todo = <<>>
=============================================================================
