------------------------------- MODULE GraphReads ------------------------------
(***************************************************************************)
(* How the neighbours of a node are read: Node.nodes by a scan of the      *)
(* edges or by one join (find_connected_nodes), nodes_bulk, neighborhood   *)
(* hop by hop or by a recursive query (traverse), and count_neighbors.  A  *)
(* filter is a class or a name; subclasses of a class of nodes pass.  A    *)
(* database answers in any order, so a limit leaves any rows: an operator  *)
(* for a limited call gives the set of its possible answers.               *)
(***************************************************************************)
EXTENDS Naturals, FiniteSets, FiniteSetsExt

CONSTANTS Nodes, None,
          Classes, IsA,         \* of nodes: <<k, l>> \in IsA if k is l or a subclass of it
          EdgeNames,
          MaxDepth, MaxEdges    \* bounds: hops, edges there are at once

VARIABLES classOf,      \* per node: its class, which its id names
          there,        \* nodes with a record
          edges         \* [source, target, name]

vars == <<classOf, there, edges>>

Assumptions == /\ {MaxDepth, MaxEdges} \subseteq Nat /\ None \notin Classes
               /\ IsA \subseteq Classes \X Classes /\ \A k \in Classes : <<k, k>> \in IsA

Edge == [source : Nodes, target : Nodes, name : EdgeNames]
TypeOK == classOf \in [Nodes -> Classes] /\ there \subseteq Nodes /\ edges \subseteq Edge

Init == classOf \in [Nodes -> Classes] /\ there = Nodes /\ edges = {}

connect(e) == /\ {e.source, e.target} \subseteq there /\ e \notin edges /\ Cardinality(edges) < MaxEdges
              /\ edges' = edges \cup {e} /\ UNCHANGED <<classOf, there>>
disconnect(e) == e \in edges /\ edges' = edges \ {e} /\ UNCHANGED <<classOf, there>>
lose(n) == n \in there /\ there' = there \ {n} /\ UNCHANGED <<classOf, edges>>     \* edges stay

Next == \/ \E e \in Edge : connect(e) \/ disconnect(e)
        \/ \E n \in Nodes : lose(n)
Spec == Init /\ [][Next]_vars
-----------------------------------------------------------------------------
All == [by |-> "none", kind |-> None]
NodeFilters == {All} \cup [by : {"class", "name"}, kind : Classes]
EdgeFilters == {All} \cup [by : {"class", "name"}, kind : EdgeNames]

_matches_node_filter(n, f) ==
    \/ f = All
    \/ f.by = "class" /\ <<classOf[n], f.kind>> \in IsA
    \/ f.by = "name" /\ classOf[n] = f.kind
Named(e, f) == f = All \/ e.name = f.kind

NoLimit == 0
Limited(S, limit) ==
    IF limit = NoLimit \/ limit >= Cardinality(S) THEN {S} ELSE kSubset(limit, S)

Touching(n, dir) == {e \in edges : (dir # "in" /\ e.source = n) \/ (dir # "out" /\ e.target = n)}
EndsOf(E, dir) == {e.target : e \in {d \in E : dir # "in"}} \cup {e.source : e \in {d \in E : dir # "out"}}
get_batch(ids) == ids \cap there

(* One join, of a row per edge whose other end has a record.               *)
find_connected_nodes(n, dir, f, limit) ==
    Limited({e \in Touching(n, dir) : Named(e, f) /\ EndsOf({e}, dir) \subseteq there}, limit)

DbLimitAlways(f, limit) == limit        \* mutant of DbLimit: rows are cut before the filter
DbLimit(f, limit) == IF f = All THEN limit ELSE NoLimit

ByJoin(n, dir, nf, ef, limit) ==
    {EndsOf(F, dir) : F \in UNION {
        Limited({e \in E : \A m \in EndsOf({e}, dir) : _matches_node_filter(m, nf)}, limit)
        : E \in find_connected_nodes(n, dir, ef, DbLimit(nf, limit))}}

(* The scan heeds a filter of edges that is a class.  In both directions   *)
(* it takes both ends of each edge, the node itself too, and cuts edges.   *)
ByScan(n, dir, nf, ef, limit) ==
    LET found == {e \in Touching(n, dir) : ef.by = "class" => Named(e, ef)} IN
    UNION {Limited({m \in get_batch(EndsOf(E, dir)) : _matches_node_filter(m, nf)}, limit)
           : E \in Limited(found, IF dir = "both" THEN limit ELSE NoLimit)}

_node_query(n, dir, nf, ef, limit, joins) ==
    IF joins /\ dir # "both" THEN ByJoin(n, dir, nf, ef, limit) ELSE ByScan(n, dir, nf, ef, limit)

(* For many nodes at once, by entity names.                                *)
nodes_bulk(ids, dir, nf, ef) ==
    LET found == {e \in UNION {Touching(n, dir) : n \in ids} : Named(e, ef)}
        pairs == {<<e.source, e.target>> : e \in {d \in found : dir # "in"}}
                 \cup {<<e.target, e.source>> : e \in {d \in found : dir # "out"}}
    IN [n \in ids |-> {m \in get_batch({p[2] : p \in pairs}) :
                         <<n, m>> \in pairs /\ (nf = All \/ classOf[m] = nf.kind)}]
-----------------------------------------------------------------------------
(* neighborhood: hop by hop, from nodes not seen before; or all walks of   *)
(* the recursive query, which knows neither records nor what was seen.     *)
Hops(n, dir, depth) ==
    LET step[d \in 0..depth] ==
          IF d = 0 THEN [seen |-> {n}, frontier |-> {n}]
          ELSE LET found == UNION UNION {ByScan(m, dir, All, All, NoLimit) : m \in step[d - 1].frontier}
                   new == found \ step[d - 1].seen
               IN [seen |-> step[d - 1].seen \cup new, frontier |-> new]
    IN step[depth].seen \ {n}

Next_nodeStuck(e, m, dir) == IF dir = "in" THEN e.source ELSE e.target
                                        \* mutant of Next_node: both ways means outwards
Next_node(e, m, dir) == IF dir # "in" /\ e.source = m THEN e.target ELSE e.source
traverse(n, dir, depth) ==
    LET walk[d \in 0..depth] ==
          IF d = 0 THEN {n} ELSE UNION {{Next_node(e, m, dir) : e \in Touching(m, dir)} : m \in walk[d - 1]}
    IN UNION {walk[d] : d \in 1..depth}
neighborhood(n, dir, depth, traverses) ==
    IF traverses THEN get_batch(traverse(n, dir, depth)) ELSE Hops(n, dir, depth)

(* By a name alone: edges whose other end has it in its id.                *)
count_neighbors(n, dir, name) ==
    Cardinality({e \in Touching(n, "out") : dir # "in" /\ classOf[e.target] = name})
    + Cardinality({e \in Touching(n, "in") : dir # "out" /\ classOf[e.source] = name})
-----------------------------------------------------------------------------
Directions == {"out", "in", "both"}
Linked(n, dir, ef) == {m \in there : \E e \in edges :
    /\ Named(e, ef)
    /\ \/ dir # "in" /\ e.source = n /\ e.target = m
       \/ dir # "out" /\ e.target = n /\ e.source = m}
Neighbours(n, dir, nf, ef) == {m \in Linked(n, dir, ef) : _matches_node_filter(m, nf)}
Within(n, dir, depth) ==
    LET ball[d \in 0..depth] == IF d = 0 THEN {n}
                                ELSE ball[d - 1] \cup UNION {Linked(m, dir, All) : m \in ball[d - 1]}
    IN ball[depth] \ {n}

Single == \A e, f \in edges : e.source = f.source /\ e.target = f.target => e = f
Whole == \A e \in edges : {e.source, e.target} \subseteq there

\* nodes finds the neighbours that the filters let pass, as many as the limit
\* allows, by either way, save that parallel edges of a join count as neighbours
\* (core/entities/node.py:686); in both directions the node itself may come too.
NodesFound(n) == \A nf \in NodeFilters, ef \in EdgeFilters, joins \in BOOLEAN, limit \in 0..2 :
    /\ \A dir \in {"out", "in"} : joins \/ ef.by # "name" =>
         LET sought == Neighbours(n, dir, nf, ef) IN
         \A found \in _node_query(n, dir, nf, ef, limit, joins) :
            /\ found \subseteq sought
            /\ limit = NoLimit => found = sought
            /\ Single \/ ~joins => found = sought \/ Cardinality(found) = limit
    /\ ef.by # "name" => \A found \in _node_query(n, "both", nf, ef, NoLimit, joins) :
            found \cup {n} = Neighbours(n, "both", nf, ef) \cup {n}

\* nodes_bulk answers for each node as nodes would, by names (core/context.py:1558).
BulkFound(n) == \A ids \in SUBSET Nodes, dir \in Directions, nf \in NodeFilters, ef \in EdgeFilters :
    n \in ids /\ nf.by # "class" => nodes_bulk(ids, dir, nf, ef)[n] = Neighbours(n, dir, nf, ef)

\* neighborhood finds the nodes within as many hops, hop by hop without the node
\* itself, and the recursive query the same and perhaps the node, unless nodes are
\* gone that edges name (core/entities/node.py:391, db/postgres.py:1641).
HoodFound(n) == \A dir \in Directions, depth \in 1..MaxDepth :
    /\ neighborhood(n, dir, depth, FALSE) = Within(n, dir, depth)
    /\ Whole => neighborhood(n, dir, depth, TRUE) \cup {n} = Within(n, dir, depth) \cup {n}

\* Edges are counted for neighbours where that is the same (core/entities/node.py:529).
CountsFound(n) == Single /\ Whole => \A dir \in {"out", "in"}, k \in Classes :
    count_neighbors(n, dir, k) = Cardinality(Neighbours(n, dir, [by |-> "name", kind |-> k], All))

ReadsAgree(n) == NodesFound(n) /\ BulkFound(n) /\ HoodFound(n) /\ CountsFound(n)

\* "The starting node itself is NOT included" (db/postgres.py:1561).
StartLeftOut == \A n \in Nodes, dir \in Directions : n \notin traverse(n, dir, MaxDepth)
=============================================================================
