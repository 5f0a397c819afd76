------------------------------ MODULE MCEnds -------------------------------
(***************************************************************************)
(* What has to come to an end, on small instances: look-ups of PathLocks,  *)
(* handlers of GraphEdges, deletes of NodeCascade, runs of Walker, records *)
(* of DatabaseLog.  scene says of which of them a behaviour is, and the    *)
(* steps that are fair there are those of that module's Fairness.  No walk *)
(* is disengaged: that only empties its queue.                             *)
(***************************************************************************)
EXTENDS Naturals, Sequences, FiniteSets

CONSTANTS t1, t2, l1, l2, l3, l4, a, b, c, e1, e2, i1, i2, i3, i4,
          None, Gone, NoDelete

VARIABLES scene,
          lockOf, order, registry, owner, pc, key, obj, scan,
          ndb, edb, link, cache, heap, guard, task, running, given, asked, left,
          nodes, edges, listed, stack, before, faults,
          queue, batch, current, paused, ph, spawned, steps, counts, flagged, started,
          late, outcome, trail, hooked, owed, dropped, exited, gone,
          mode, lock, doing, record, entry, runner, records, calls, registered, tidied, stopped

locks == <<lockOf, order, registry, owner, pc, key, obj, scan>>
links == <<ndb, edb, link, cache, heap, guard, task, running, given, asked, left>>
graph == <<nodes, edges, listed, stack, before, faults>>
walk == <<queue, batch, current, paused, ph, spawned, steps, counts, flagged, started,
          late, outcome, trail, hooked, owed, dropped, exited, gone>>
logs == <<mode, lock, doing, record, entry, runner, records, calls, registered, tidied, stopped>>

Locking == INSTANCE PathLocks WITH
    Threads <- {t1, t2}, Keys <- {a, b}, Locks <- {l1, l2, l3, l4}, MaxLocks <- 1

Linking == INSTANCE GraphEdges WITH
    Tasks <- {t1, t2}, Nodes <- {a, b}, Edges <- {e1, e2}, Insts <- {i1, i2, i3, i4},
    Backend <- "rmw", Ops <- {"save", "connect"}, Dirs <- {"out"}, Budget <- 2,
    Crashes <- 0, Faults <- 1, Start <- "shared", UniqueIndex <- FALSE, Evicts <- FALSE

Three == {a, b, c}
Cascading == INSTANCE NodeCascade WITH
    Nodes <- Three, Graphs <- SUBSET {e \in Three \X Three : e[1] # e[2]},
    MaxRounds <- 100, MaxFaults <- 1, ReadsRaise <- FALSE
Walking == INSTANCE Walker WITH
    Nodes <- {a, b}, Lists <- {<<a, b>>},
    Links <- [n \in {a, b} |-> IF n = a THEN <<b>> ELSE <<a>>],
    Frontier <- 2, Prefetch <- TRUE, MaxQueue <- 2, MaxSteps <- 3, MaxVisits <- 2

(* The event loop and one thread.  A thread that logs outside serverless    *)
(* mode is not combined with a worker that logs: it waits for that worker  *)
(* with the lock held, which the worker needs.                             *)
Setup(serverless, async, sync, warnings, tidies, threads) ==
    [serverless |-> serverless, async |-> async, sync |-> sync,
     warnings |-> warnings, tidies |-> tidies, threads |-> threads]
Setups == {Setup(FALSE, FALSE, FALSE, TRUE, FALSE, {t1}), Setup(FALSE, FALSE, FALSE, TRUE, TRUE, {}),
           Setup(FALSE, FALSE, TRUE, TRUE, FALSE, {t1}),
           Setup(TRUE, FALSE, FALSE, TRUE, TRUE, {}), Setup(TRUE, TRUE, FALSE, FALSE, TRUE, {t1})}
Logging == INSTANCE DatabaseLog WITH
    Main <- t2, Threads <- {t1}, Modes <- Setups, Faults <- TRUE, MaxCalls <- 2, MaxRecords <- 3

ASSUME Cascading!Assumptions /\ Walking!Assumptions /\ Logging!Assumptions

(* The state of the modules that a scene is not about.                     *)
NoLocks ==
    /\ lockOf = None /\ order = None /\ registry = None /\ owner = None /\ pc = None
    /\ key = None /\ obj = None /\ scan = None
NoLinks ==
    /\ ndb = None /\ edb = None /\ link = None /\ cache = None /\ heap = None /\ guard = None
    /\ task = None /\ running = None /\ given = None /\ asked = None /\ left = None
NoGraph ==
    /\ nodes = None /\ edges = None /\ listed = None /\ stack = None /\ before = None
    /\ faults = None
NoWalk ==
    /\ queue = None /\ batch = None /\ current = None /\ paused = None /\ ph = None
    /\ spawned = None /\ steps = None /\ counts = None /\ flagged = None /\ started = None
    /\ late = None /\ outcome = None /\ trail = None /\ hooked = None /\ owed = None
    /\ dropped = None /\ exited = None /\ gone = None
NoLogs ==
    /\ mode = None /\ lock = None /\ doing = None /\ record = None /\ entry = None
    /\ runner = None /\ records = None /\ calls = None /\ registered = None
    /\ tidied = None /\ stopped = None

EndsInit ==
    /\ scene \in {"locks", "links", "graph", "walk", "logs"}
    /\ IF scene = "locks" THEN Locking!Init ELSE NoLocks
    /\ IF scene = "links" THEN Linking!Init ELSE NoLinks
    /\ IF scene = "graph" THEN Cascading!Init ELSE NoGraph
    /\ IF scene = "walk" THEN Walking!Init ELSE NoWalk
    /\ IF scene = "logs" THEN Logging!Init ELSE NoLogs

EndsNext ==
    /\ UNCHANGED scene
    /\ \/ scene = "locks" /\ UNCHANGED <<links, graph, walk, logs>> /\ Locking!Next
       \/ scene = "links" /\ UNCHANGED <<locks, graph, walk, logs>> /\ Linking!Next
       \/ scene = "graph" /\ UNCHANGED <<locks, links, walk, logs>> /\ Cascading!Next
       \/ scene = "walk" /\ UNCHANGED <<locks, links, graph, logs>> /\ Walking!Next /\ ~gone'
       \/ scene = "logs" /\ UNCHANGED <<locks, links, graph, walk>> /\ Logging!Next

(* The steps that each module's Fairness is about: in a scene, of as many  *)
(* actors as its module has.                                               *)
Records == 1..3
Acts(e) ==
    /\ UNCHANGED scene
    /\ \/ /\ scene = "locks" /\ e = t1 /\ UNCHANGED <<links, graph, walk, logs>>
          /\ \E t \in {t1, t2} : Locking!Lookup(t)
       \/ /\ scene = "links" /\ e \in {t1, t2} /\ UNCHANGED <<locks, graph, walk, logs>>
          /\ Linking!Step(e)
       \/ /\ scene = "graph" /\ e = t1 /\ UNCHANGED <<locks, links, walk, logs>>
          /\ Cascading!Working
       \/ /\ scene = "walk" /\ e = t1 /\ UNCHANGED <<locks, links, graph, logs>>
          /\ Walking!Running
       \/ scene = "logs" /\ UNCHANGED <<locks, links, graph, walk>> /\ Logging!Emits(e)
Works(n) == scene = "logs" /\ UNCHANGED <<scene, locks, links, graph, walk>> /\ Logging!Works(n)

all == <<scene, locks, links, graph, walk, logs>>
EndsSpec ==
    /\ EndsInit /\ [][EndsNext]_all
    /\ \A e \in {t1, t2} \cup Records : WF_all(Acts(e))
    /\ \A n \in Records : WF_all(Works(n))
-----------------------------------------------------------------------------
Busy(t) ==
    \/ scene = "locks" /\ registry = t
    \/ scene = "links" /\ task[t].todo # << >>
    \/ scene = "graph" /\ t = t1 /\ stack # << >>
    \/ scene = "walk" /\ t = t1 /\ ph # "idle"
    \/ scene = "logs" /\ t = t1 /\ ~Logging!Quiet

\* A look-up gives the registry lock back although no with-block ever ends
\* (db/_path_locks.py:51); every call of connect or save ends, no write lock is
\* left held, not even by a call that raises (core/context.py:896); every delete
\* returns, on cyclic graphs too and after an error (core/entities/node.py:1487);
\* every run ends although hooks enqueue without end (core/entities/walker.py:842);
\* a call of a logger ends although its record is saved under the lock of the
\* handler, and the record is saved unless that fails or the loop ends
\* (logging/handler.py:345).  It is LookupEnds, CallsEnd, DeleteReturns, RunEnds
\* and LogsEnd of the modules at once.
CallsEnd == \A t \in {t1, t2} : Busy(t) ~> ~Busy(t)
=============================================================================
