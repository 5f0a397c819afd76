----------------------------- MODULE NodeCascade -----------------------------
(***************************************************************************)
(* Node.delete with cascade (core/entities/node.py): which nodes go with a *)
(* node, and in which order.  One task deletes, and the nodes' lists of    *)
(* edges agree with the edges but for what a failed delete leaves          *)
(* (GraphEdges is about tasks that disturb each other).                    *)
(***************************************************************************)
EXTENDS Naturals, Sequences, FiniteSets

CONSTANTS Nodes, Graphs,  \* the sets of edges a run begins with
          NoDelete,
          MaxRounds,      \* max_iterations, 100 in the code
          MaxFaults,      \* bound: database calls that raise
          ReadsRaise      \* those of the plan may, too

Assumptions ==
    /\ Graphs \subseteq SUBSET (Nodes \X Nodes)
    /\ MaxRounds \in Nat /\ MaxFaults \in Nat /\ ReadsRaise \in BOOLEAN

VARIABLES nodes, edges,   \* what the database holds; an edge is <<source, target>>
          listed,         \* the edges that the edge_ids of their nodes have
          stack,          \* the calls of Node.delete under way, the innermost last
          before,         \* what the outermost call found
          faults

vars == <<nodes, edges, listed, stack, before, faults>>

Frames == [node : Nodes, ph : {"plan", "cut"}, reach : SUBSET Nodes, doomed : SUBSET Nodes,
           check : SUBSET Nodes, changed : BOOLEAN, round : 0..MaxRounds,
           cascade : BOOLEAN, rest : SUBSET Nodes]

TypeOK ==
    /\ nodes \subseteq Nodes /\ edges \subseteq Nodes \X Nodes /\ listed \subseteq edges
    /\ stack \in Seq(Frames) /\ Len(stack) <= Cardinality(Nodes)
    /\ \A i \in DOMAIN stack : stack[i].rest \subseteq stack[i].reach
    /\ faults \in 0..MaxFaults

Init ==
    /\ nodes = Nodes /\ edges \in Graphs /\ listed = edges
    /\ stack = << >> /\ before = NoDelete /\ faults = 0

Targets(n, set) == {m \in Nodes : <<n, m>> \in set}
Neighbours(n, set) == {m \in Nodes : <<n, m>> \in set \/ <<m, n>> \in set}
Incident(n) == {e \in edges : n \in {e[1], e[2]}}

(* reachable_node_ids: what follows from n along edges, n itself not.      *)
Reachable(n) ==
    LET far[k \in Nat] == IF k = 0 THEN {n}
                          ELSE far[k - 1] \cup UNION {Targets(m, edges) : m \in far[k - 1]}
    IN far[Cardinality(Nodes)] \ {n}

(* is_node_only_connected_to_deletion_set: no path leads out of what is    *)
(* reachable, short of the nodes that are already to be deleted, along the *)
(* edges seen.                                                             *)
OnlyConnectedHere(n, f, seen) ==              \* mutant of OnlyConnected: follows no path
    \A m \in Neighbours(n, seen) : m \in f.doomed \/ m \in f.reach
OnlyConnected(n, f, seen) ==
    LET only[m \in Nodes, visited \in SUBSET Nodes] ==
            \/ m \in f.doomed \/ m \in visited \/ m \notin nodes
            \/ \A k \in Neighbours(m, seen) :
                  k \in f.doomed \/ (k \in f.reach /\ only[k, visited \cup {m}])
    IN only[n, {}]

Frame(n, cascade) ==
    [node |-> n, ph |-> "plan", reach |-> Reachable(n), doomed |-> {n}, check |-> {},
     changed |-> cascade, round |-> 0, cascade |-> cascade, rest |-> {}]

Top == stack[Len(stack)]
Below == SubSeq(stack, 1, Len(stack) - 1)
Planning == stack # << >> /\ Top.ph = "plan"
Cutting == stack # << >> /\ Top.ph = "cut"
Become(f) == stack' = Append(Below, f)

Delete(n, cascade) ==
    /\ stack = << >> /\ n \in nodes
    /\ stack' = <<Frame(n, cascade)>>
    /\ before' = [nodes |-> nodes, edges |-> edges, listed |-> listed,
                  root |-> n, cascade |-> cascade]
    /\ UNCHANGED <<nodes, edges, listed, faults>>

(* A read of an edge that raises is skipped, as if there were no such edge. *)
Read(unread) ==
    /\ unread \subseteq listed /\ (unread = {} \/ ReadsRaise)
    /\ faults + Cardinality(unread) <= MaxFaults
    /\ faults' = faults + Cardinality(unread)

(* One pass over the targets of the nodes to be deleted.                   *)
Candidates(f, seen) == UNION {Targets(m, seen) : m \in f.doomed \cap nodes} \ f.doomed
Round(unread) ==
    /\ Planning /\ Top.check = {} /\ Top.changed /\ Top.round < MaxRounds
    /\ Read(unread)
    /\ Become([Top EXCEPT !.check = Candidates(Top, listed \ unread),
                          !.changed = FALSE, !.round = @ + 1])
    /\ UNCHANGED <<nodes, edges, listed, before>>

Judge(n, unread) ==
    /\ Planning /\ n \in Top.check
    /\ Read(unread)
    /\ Become(IF n \in nodes /\ OnlyConnected(n, Top, listed \ unread)
              THEN [Top EXCEPT !.check = @ \ {n}, !.doomed = @ \cup {n}, !.changed = TRUE]
              ELSE [Top EXCEPT !.check = @ \ {n}])
    /\ UNCHANGED <<nodes, edges, listed, before>>

(* The edges of the node go, incoming ones first.  What raises is skipped: *)
(* left are edges that stayed, half those that only left the lists.        *)
CutInOnly(n) == {e \in edges : e[2] = n}      \* mutant of Cut: outgoing edges stay
Cut(n) == Incident(n)
Sever(left, half) ==
    /\ Planning /\ Top.check = {} /\ (Top.round = MaxRounds \/ ~Top.changed)
    /\ left \cup half \subseteq Incident(Top.node) /\ left \cap half = {}
    /\ faults + Cardinality(left \cup half) <= MaxFaults
    /\ faults' = faults + Cardinality(left \cup half)
    /\ edges' = (edges \ Cut(Top.node)) \cup left \cup half
    /\ listed' = (listed \ Cut(Top.node)) \cup (left \cap listed)
    /\ Become([Top EXCEPT !.ph = "cut", !.changed = FALSE, !.check = {},
                          !.rest = (@ \cup (Top.doomed \ {Top.node})) \cap nodes])
    /\ UNCHANGED <<nodes, before>>

(* Each dependent node deletes itself, with cascade. *)
RecurseAgain(n) ==                            \* mutant of Recurse: forgets to take it off
    /\ Cutting /\ n \in Top.rest
    /\ stack' = Append(stack, Frame(n, TRUE))
    /\ UNCHANGED <<nodes, edges, listed, before, faults>>
Recurse(n) ==
    /\ Cutting /\ n \in Top.rest
    /\ stack' = Append(Append(Below, [Top EXCEPT !.rest = @ \ {n}]), Frame(n, TRUE))
    /\ UNCHANGED <<nodes, edges, listed, before, faults>>

Finish ==
    /\ Cutting /\ Top.rest = {}
    /\ nodes' = nodes \ {Top.node}
    /\ stack' = Below
    /\ UNCHANGED <<edges, listed, before, faults>>

(* The look-up of the edges or the removal of the node raises, and so does  *)
(* the call: the one that deletes a dependent goes on.                     *)
Raise ==
    /\ \/ Planning /\ Top.check = {} /\ Top.round = 0
       \/ Cutting /\ Top.rest = {}
    /\ faults < MaxFaults
    /\ faults' = faults + 1
    /\ stack' = Below
    /\ UNCHANGED <<nodes, edges, listed, before>>

Few(set) == {s \in SUBSET set : Cardinality(s) <= MaxFaults}
Next ==
    \/ \E n \in Nodes : \/ \E cascade \in BOOLEAN : Delete(n, cascade)
                        \/ \E unread \in Few(listed) : Judge(n, unread)
                        \/ Recurse(n)
    \/ \E unread \in Few(listed) : Round(unread)
    \/ Finish \/ Raise
    \/ \E left, half \in Few(edges) : Sever(left, half)

(* The task is scheduled until the call returns: a step that no fault      *)
(* keeps from happening is taken, if no other is.                          *)
Spec == Init /\ [][Next]_vars
Working == \/ \E n \in Nodes : Judge(n, {}) \/ Recurse(n)
           \/ Round({}) \/ Sever({}, {}) \/ Finish
Fairness == WF_vars(Working)

(***************************************************************************)
(* Properties.                                                             *)
(***************************************************************************)
(* "A node is dependent if it's reachable FROM this node via outgoing      *)
(* edges", and "if ALL its edges connect to nodes in the deletion set":    *)
(* the largest such set.                                                   *)
Closed(g, set) ==
    \A e \in g.listed : /\ e[1] \in set => e[2] \in set \cup {g.root}
                        /\ e[2] \in set => e[1] \in set \cup {g.root}
Follows(g) ==                                 \* reachable from the root of g
    CHOOSE set \in SUBSET Nodes :
        LET step(s) == {e[2] : e \in {x \in g.edges : x[1] \in s \cup {g.root}}} IN
        /\ step(set) \subseteq set
        /\ \A s \in SUBSET set : step(s) \subseteq s => s = set
Dependents(g) == UNION {set \in SUBSET (Follows(g) \ {g.root}) : Closed(g, set)}
Doomed(g) == {g.root} \cup IF g.cascade THEN Dependents(g) ELSE {}

(* A delete that returns has removed the node, all its dependents and      *)
(* their edges, and nothing else, whatever the order of its steps.         *)
Exact ==
    stack = << >> /\ before # NoDelete =>
        /\ nodes = before.nodes \ Doomed(before)
        /\ edges = {e \in before.edges : e[1] \in nodes /\ e[2] \in nodes}

(* Nothing but the node and its dependents goes, whatever write fails.     *)
Spared == before # NoDelete => before.nodes \ Doomed(before) \subseteq nodes

(* At every step an edge's ends are there: a crash leaves no dangling edge.*)
(* ("Deletes all incoming edges to this node", before the node itself.)    *)
EdgesHaveEnds == \A e \in edges : e[1] \in nodes /\ e[2] \in nodes

(* "Ancestors ... are preserved": no node from which the deleted node can  *)
(* be reached is deleted with it.                                          *)
AncestorsKept ==
    before # NoDelete =>
        \A n \in before.nodes \ {before.root} :
            before.root \in Follows([before EXCEPT !.root = n]) => n \in nodes

(* Every delete returns. *)
DeleteReturns == stack # << >> ~> stack = << >>
=============================================================================
