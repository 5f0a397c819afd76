------------------------------ MODULE MCEdges -------------------------------
(***************************************************************************)
(* GraphEdges on small instances: two nodes, two or three edge ids.  scene *)
(* says which tasks there are, what they call and on which database.       *)
(*   solo     one task with restarts and evictions (the cfg's constants)   *)
(*   gone     one task with restarts, which deletes nodes too              *)
(*   copies   two tasks with copies of the nodes of their own              *)
(*   lists    two tasks with the same Node objects                         *)
(*   postgres the same with PostgreSQL's native list updates               *)
(*   unique   two tasks with copies, and the unique index                  *)
(***************************************************************************)
EXTENDS GraphEdges

CONSTANTS t, t1, t2, u1, u2, e1, e2, i1, i2, i3, i4, i5, i6, i7, i8

VARIABLE scene

Removing == INSTANCE GraphEdges WITH
    Tasks <- {t}, Edges <- Edges, Insts <- {i1, i2, i3, i4, i5},
    Backend <- "rmw", Ops <- {"get", "save", "connect", "disconnect", "delete"},
    Dirs <- {"out", "both"}, Budget <- 5, Crashes <- 1, Faults <- 0, Start <- "shared",
    UniqueIndex <- FALSE, Evicts <- FALSE

Copies == INSTANCE GraphEdges WITH
    Tasks <- {u1, u2}, Edges <- {e1, e2}, Insts <- {i1, i2, i3, i4, i5, i6, i7, i8},
    Backend <- "rmw", Ops <- {"save", "connect"},
    Dirs <- {"out"}, Budget <- 3, Crashes <- 0, Faults <- 0, Start <- "copies",
    UniqueIndex <- FALSE, Evicts <- FALSE

Lists == INSTANCE GraphEdges WITH
    Tasks <- {t1, t2}, Edges <- {e1, e2}, Insts <- {i1, i2, i3, i4, i5, i6, i7, i8},
    Backend <- "rmw", Ops <- {"connect", "disconnect"},
    Dirs <- {"out"}, Budget <- 3, Crashes <- 0, Faults <- 0, Start <- "shared",
    UniqueIndex <- FALSE, Evicts <- TRUE

Postgres == INSTANCE GraphEdges WITH
    Tasks <- {t1, t2}, Edges <- {e1, e2}, Insts <- {i1, i2, i3, i4, i5, i6, i7, i8},
    Backend <- "postgres", Ops <- {"get", "save", "connect", "disconnect"},
    Dirs <- {"out"}, Budget <- 3, Crashes <- 0, Faults <- 0, Start <- "shared",
    UniqueIndex <- FALSE, Evicts <- TRUE

Unique == INSTANCE GraphEdges WITH
    Tasks <- {u1, u2}, Edges <- Edges, Insts <- {i1, i2, i3, i4},
    Backend <- "postgres", Ops <- {"connect"},
    Dirs <- {"out", "in"}, Budget <- 3, Crashes <- 0, Faults <- 0, Start <- "copies",
    UniqueIndex <- TRUE, Evicts <- FALSE

EdgesInit ==
    \/ scene = "solo" /\ Init
    \/ scene = "gone" /\ Removing!Init
    \/ scene = "copies" /\ Copies!Init
    \/ scene = "lists" /\ Lists!Init
    \/ scene = "postgres" /\ Postgres!Init
    \/ scene = "unique" /\ Unique!Init

EdgesNext ==
    /\ UNCHANGED scene
    /\ \/ scene = "solo" /\ Next
       \/ scene = "gone" /\ Removing!Next
       \/ scene = "copies" /\ Copies!Next
       \/ scene = "lists" /\ Lists!Next
       \/ scene = "postgres" /\ Postgres!Next
       \/ scene = "unique" /\ Unique!Next

EdgesSpec == EdgesInit /\ [][EdgesNext]_<<scene, vars>>

Symmetry == Permutations(Edges) \cup Permutations({t1, t2})
-----------------------------------------------------------------------------
\* The types, and: a write lock that is held will be given back.
SoloTypeOK == scene = "solo" => TypeOK

\* An edge that connect returned stays, with its entries in both lists, until
\* it is asked to go (core/context.py:896, core/entities/node.py:197).  With one
\* task no persisted list names an edge that is not there, and Node.delete leaves
\* no edge to a node that is gone (core/entities/node.py:1191).
EdgesMatch ==
    /\ scene = "solo" => ConnectKept /\ NoDangling
    /\ scene = "gone" => EdgesHaveEnds
    /\ scene = "lists" => Lists!ConnectKept
    /\ scene = "copies" => Copies!ConnectKept
    /\ scene = "postgres" => Postgres!ConnectKept
    /\ scene = "unique" => Unique!ConnectKept

\* connect makes no second edge: with one task that calls it as out or both,
\* or with the unique index (core/entities/node.py:124).
ConnectOnce == scene \in {"gone", "unique"} => OneEdgePerPair
=============================================================================
