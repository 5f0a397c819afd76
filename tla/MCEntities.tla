----------------------------- MODULE MCEntities -----------------------------
(***************************************************************************)
(* Saving, deleting and walking entities on small instances: DeferredSave, *)
(* NodeCascade, Walker and WalkerTrail, and upgrading them, Migrations.    *)
(* They share no state; scene says of which of them a behaviour is, and    *)
(* with which constants.                                                   *)
(*   three  three tasks with one entity, at most two saves deferred        *)
(*   lists  two tasks with lists of two entities                           *)
(*   alone  one task, saves that raise, batches begun anew                 *)
(*   graphs every graph of four nodes without loops                        *)
(*   rounds every graph of three nodes, and a plan of one round            *)
(*   faults every graph of three nodes without loops, two writes that raise *)
(*   pairs  walks on two nodes, each with an edge to the other, two nodes  *)
(*          at a time, neighbours prefetched                               *)
(*   walk   the same, one node at a time                                   *)
(*   trail  steps recorded by arecord_step, a trail of two                 *)
(*   upgrades two processes, one a version behind the other, one record    *)
(*          (the cfg's constants)                                          *)
(***************************************************************************)
EXTENDS DeferredSave, FiniteSets, TLC

CONSTANTS t1, t2, e1, e2,                     \* among Tasks and Entities
          n1, n2, n3, n4, NoDelete, None, a, b,
          MaxRecorded, MaxTrail,              \* of WalkerTrail: steps, and its max_trail_length
          Processes, Target, AutoPersist, Records,   \* of Migrations
          MaxVersion, StepSets, StepsRaise, MaxSaves

VARIABLES scene,
          nodes, edges, listed, stack, before, faults,
          queue, batch, current, paused, ph, spawned, steps, counts, flagged, started,
          late, outcome, trail, hooked, owed, dropped, exited, gone,
          remembered, records, seq, tasks, clearing, up, last, kept,
          own, inherited, disk, memory, writing, rows, bare, saves

graph == <<nodes, edges, listed, stack, before, faults>>
walk == <<queue, batch, current, paused, ph, spawned, steps, counts, flagged, started,
          late, outcome, trail, hooked, owed, dropped, exited, gone>>
stored == <<remembered, records, seq, tasks, clearing, up, last, kept>>
versions == <<own, inherited, disk, memory, writing, rows, bare, saves>>
all == <<scene, vars, graph, walk, stored, versions>>

EachAndBoth == {<<e1>>, <<e2>>, <<e1, e2>>, <<e2, e1>>}

Three == INSTANCE DeferredSave WITH
    Lists <- {<<e1>>}, Cap <- 2, MaxVal <- 3, MaxCount <- 3
Pair == INSTANCE DeferredSave WITH Tasks <- {t1, t2}
Alone == INSTANCE DeferredSave WITH
    Tasks <- {t1}, Cap <- 2, Faults <- TRUE, Reenable <- TRUE, MaxVal <- 2, MaxCount <- 3

Trio == {n1, n2, n3}
Four == Trio \cup {n4}
AllGraphs == SUBSET {e \in Four \X Four : e[1] # e[2]}
ThreeGraphs == SUBSET {e \in Trio \X Trio : e[1] # e[2]}
LoopGraphs == SUBSET (Trio \X Trio)

Empty == INSTANCE NodeCascade WITH
    Nodes <- Trio, Graphs <- {{}}, MaxRounds <- 100, MaxFaults <- 0, ReadsRaise <- FALSE
Whole == INSTANCE NodeCascade WITH
    Nodes <- Four, Graphs <- AllGraphs, MaxRounds <- 100, MaxFaults <- 0, ReadsRaise <- FALSE
Rounds == INSTANCE NodeCascade WITH
    Nodes <- Trio, Graphs <- LoopGraphs, MaxRounds <- 1, MaxFaults <- 0,
    ReadsRaise <- FALSE
Failing == INSTANCE NodeCascade WITH
    Nodes <- Trio, Graphs <- ThreeGraphs, MaxRounds <- 100, MaxFaults <- 2,
    ReadsRaise <- FALSE

ThereAndBack == a :> <<b>> @@ b :> <<a>>
OneOrTwo == {<<a>>, <<b>>, <<a, b>>}
Pairs == INSTANCE Walker WITH
    Nodes <- {a, b}, Lists <- OneOrTwo, Links <- ThereAndBack, Frontier <- 2, Prefetch <- TRUE,
    MaxQueue <- 2, MaxSteps <- 3, MaxVisits <- 2
Single == INSTANCE Walker WITH
    Nodes <- {a, b}, Lists <- OneOrTwo, Links <- ThereAndBack, Frontier <- 1, Prefetch <- FALSE,
    MaxQueue <- 2, MaxSteps <- 4, MaxVisits <- 3
Trail == INSTANCE WalkerTrail WITH
    MaxSteps <- MaxRecorded, MaxLength <- MaxTrail, Awaited <- TRUE, trail <- remembered

TwoAndThree == t1 :> 2 @@ t2 :> 3
SomeSteps == {{<<1, 2>>, <<2, 3>>}, {<<1, 3>>}, {<<1, 2>>}, {}}
Upgrades == INSTANCE Migrations

ASSUME ScenesAssumption ==
    /\ Whole!Assumptions /\ Rounds!Assumptions /\ Failing!Assumptions
    /\ Pairs!Assumptions /\ Single!Assumptions /\ Trail!Assumptions /\ Upgrades!Assumptions

(* The state of the modules that a scene is not about.                     *)
NoDeferral == Init /\ ~allowed /\ \A e \in Entities : ~ent[e].mode
NoGraph ==
    /\ nodes = None /\ edges = None /\ listed = None /\ stack = None /\ before = None
    /\ faults = None
NoWalk ==
    /\ queue = None /\ batch = None /\ current = None /\ paused = None /\ ph = None
    /\ spawned = None /\ steps = None /\ counts = None /\ flagged = None /\ started = None
    /\ late = None /\ outcome = None /\ trail = None /\ hooked = None /\ owed = None
    /\ dropped = None /\ exited = None /\ gone = None
NoTrail ==
    /\ remembered = None /\ records = None /\ seq = None /\ tasks = None
    /\ clearing = None /\ up = None /\ last = None /\ kept = None
NoVersions ==
    /\ own = None /\ inherited = None /\ disk = None /\ memory = None /\ writing = None
    /\ rows = None /\ bare = None /\ saves = None

EntitiesInit ==
    /\ scene \in {"three", "lists", "alone", "graphs", "rounds", "faults", "pairs", "walk",
                 "trail", "upgrades"}
    /\ CASE scene = "alone" -> Init
         [] scene = "lists" -> Init /\ (ent[e2].mode => ent[e1].mode)
         [] scene = "three" -> Init /\ ~ent[e2].mode
         [] OTHER -> NoDeferral
    /\ CASE scene = "graphs" -> Whole!Init
         [] scene = "rounds" -> Rounds!Init
         [] scene = "faults" -> Failing!Init
         [] OTHER -> NoGraph
    /\ IF scene \in {"pairs", "walk"} THEN Pairs!Init ELSE NoWalk
    /\ IF scene = "trail" THEN Trail!Init ELSE NoTrail
    /\ IF scene = "upgrades" THEN Upgrades!Init ELSE NoVersions

Saving ==
    /\ scene \in {"three", "lists", "alone"}
    /\ UNCHANGED <<graph, walk, stored, versions>>
    /\ \/ scene = "three" /\ Three!Next /\ ent'[e2] = ent[e2]
       \/ scene = "lists" /\ Pair!Next
       \/ scene = "alone" /\ Alone!Next

Deleting ==
    /\ scene \in {"graphs", "rounds", "faults"}
    /\ UNCHANGED <<vars, walk, stored, versions>>
    /\ \/ scene = "graphs" /\ Whole!Next
       \/ scene = "rounds" /\ Rounds!Next
       \/ scene = "faults" /\ Failing!Next

Walking ==
    /\ scene \in {"pairs", "walk", "trail"}
    /\ UNCHANGED <<vars, graph, versions>>
    /\ \/ scene = "pairs" /\ UNCHANGED stored /\ Pairs!Next
       \/ scene = "walk" /\ UNCHANGED stored /\ Single!Next
       \/ scene = "trail" /\ UNCHANGED walk /\ Trail!Next

Upgrading ==
    /\ scene = "upgrades"
    /\ UNCHANGED <<vars, graph, walk, stored>>
    /\ Upgrades!Next

EntitiesNext == UNCHANGED scene /\ (Saving \/ Deleting \/ Walking \/ Upgrading)

EntitiesSpec == EntitiesInit /\ [][EntitiesNext]_all

Symmetry == Permutations(Trio)
-----------------------------------------------------------------------------
\* The types of the modules.  With a cap of two no batch reaches it and stays
\* unflushed (core/mixins/deferred_save.py:257); what a delete has still to
\* delete follows from its node, and deletes nest no deeper than there are
\* nodes; no queue and no trail exceeds its limit.
EntityTypes == /\ TypeOK
               /\ scene = "three" => Three!BatchBounded
               /\ scene = "rounds" => Rounds!TypeOK
               /\ scene = "pairs" => Pairs!TypeOK
               /\ scene = "walk" => Single!TypeOK
               /\ scene = "trail" => Trail!TypeOK
               /\ scene = "upgrades" => Upgrades!TypeOK

\* delete removes the node, all its dependents and their edges, and nothing
\* else (core/entities/node.py:1191), in an order that leaves no edge without
\* its ends, also when its plan is cut short; whatever write fails, nothing
\* else goes.
DeletesExactly == /\ scene = "graphs" => Whole!Exact /\ Whole!EdgesHaveEnds
                  /\ scene = "rounds" => Rounds!Exact
                  /\ scene = "faults" => Failing!Spared

\* The hooks of nodes run no more often than the limits on steps and on visits
\* allow, over all runs of a walk (walker_components/protection.py:89), and one
\* node at a time a node that was enqueued is visited or taken out, whatever
\* stops the walk (core/entities/walker.py:1102).
WalksWithinLimits == /\ scene = "pairs" => Pairs!LimitsHold
                     /\ scene = "walk" => Single!LimitsHold /\ Single!NothingDropped

\* "The walker will stop processing new nodes until resume() is called"
\* (core/entities/walker.py:1088).
SinglePauses == [][scene = "walk" => Single!Halts]_walk

\* What the database confirmed and nobody cleared is there, over restarts
\* (walker_components/walker_trail.py:27), in the order in which it was recorded,
\* and memory has the latest steps.
TrailMirrored == scene = "trail" => Trail!Mirrored /\ Trail!InOrder /\ Trail!TrailIsLatest

\* Loads, write-backs and commands of processes with different versions run each
\* step once on the data of its own version, whatever order they come in, until
\* an entity is saved (core/migrations.py:136, core/context.py:1808).
UpgradedOnce == scene = "upgrades" => Upgrades!UpgradedOnce

\* "Each persisted record carries the corresponding version under the `_v` key"
\* (src/docs/md/schema-migrations.md:15): no step runs on data that is past it.
StepsOnce == scene = "upgrades" => Upgrades!StepsOnce
=============================================================================
