------------------------------ MODULE Migrations ------------------------------
(***************************************************************************)
(* Schema versions of persisted records (core/migrations.py, the hook in   *)
(* core/context.py, the migrate command of cli.py).  Processes run code    *)
(* with different versions of a class; a record that is older than the     *)
(* code is upgraded when it is loaded, and written back later or never;    *)
(* the command reads all records, then upgrades and saves one by one.      *)
(***************************************************************************)
EXTENDS Naturals, FiniteSets

CONSTANTS Processes, Target,    \* processes, and their class's __schema_version__
          AutoPersist,          \* those whose contexts auto_persist_migrations
          Records, None,
          MaxVersion,
          StepSets,             \* steps registered for a class: sets of pairs of versions
          StepsRaise,               \* a step may raise something other than a MigrationError
          MaxSaves              \* bound: entities created or saved

Versions == 1..MaxVersion
Pairs == {s \in Versions \X Versions : s[1] < s[2]}     \* register refuses the others

Assumptions == /\ MaxVersion \in Nat \ {0} /\ Target \in [Processes -> Versions]
               /\ StepSets \subseteq SUBSET Pairs /\ StepsRaise \in BOOLEAN /\ MaxSaves \in Nat

VARIABLES own, inherited,       \* the steps of the class, and of the classes above it
          disk,                 \* per record: _v or 0, the shape of its data, garbled?
          memory,               \* per process and record: the entity loaded last
          writing,              \* per process: the upgraded record it is to write back
          rows,                 \* per process: what its migrate command has still to upgrade
          bare,                 \* history: records that a save of an entity wrote
          saves

vars == <<own, inherited, disk, memory, writing, rows, bare, saves>>

Data == [v : 0..MaxVersion, shape : Versions, garbled : BOOLEAN]

TypeOK ==
    /\ {own, inherited} \subseteq StepSets /\ disk \in [Records -> Data \cup {None}]
    /\ memory \in [Processes -> [Records -> Data \cup {None}]]
    /\ writing \in [Processes -> [Records -> Data \cup {None}]]
    /\ rows \in [Processes -> [Records -> Data \cup {None}]]
    /\ bare \subseteq Records /\ saves \in 0..MaxSaves

Nobody == [p \in Processes |-> [r \in Records |-> None]]
Legacy == {d \in Data : ~d.garbled /\ (d.v = d.shape \/ (d.v = 0 /\ d.shape = 1))}

Init ==
    /\ own \in StepSets /\ inherited \in StepSets
    /\ disk \in [Records -> Legacy]
    /\ memory = Nobody /\ writing = Nobody /\ rows = Nobody
    /\ bare = {} /\ saves = 0
-----------------------------------------------------------------------------
(* _resolve_step: of the first class that has a step from this version,    *)
(* the shortest one; get_chain: such steps until the target is reached, or *)
(* passed.  0 stands for the error that a step is missing.                 *)
From(steps, v) == {s[2] : s \in {t \in steps : t[1] = v}}
Least(vs) == IF vs = {} THEN 0 ELSE CHOOSE v \in vs : \A w \in vs : v <= w
_resolve_step(v) == IF From(own, v) # {} THEN Least(From(own, v)) ELSE Least(From(inherited, v))

get_chain(from, target) ==
    LET ends[v \in Versions] == IF v >= target THEN v
                                ELSE IF _resolve_step(v) = 0 THEN 0 ELSE ends[_resolve_step(v)]
    IN ends[from]

Version(d) == IF d.v = 0 THEN 1 ELSE d.v              \* LEGACY_VERSION
needs_migration(d, p) == Version(d) < Target[p]
Missing(d, p) == get_chain(Version(d), Target[p]) = 0

(* Each step is right for data of its version.  The record is stamped with *)
(* the target, wherever the chain ended.                                   *)
StampedNot(d, p) == [v |-> d.v, shape |-> get_chain(Version(d), Target[p]),   \* mutant: no stamp
                     garbled |-> d.garbled \/ d.shape # Version(d)]
apply_migrations(d, p) == [v |-> Target[p], shape |-> get_chain(Version(d), Target[p]),
                           garbled |-> d.garbled \/ d.shape # Version(d)]

(* A load: with a step missing the record is used as it is, if a step      *)
(* raises there is no entity.  A newer record is used as it is.            *)
_deserialize_entity(p, r) ==
    /\ disk[r] # None /\ writing[p][r] = None
    /\ LET d == disk[r]
           hydrated == IF needs_migration(d, p) /\ ~Missing(d, p) THEN apply_migrations(d, p) ELSE d
       IN \/ /\ memory' = [memory EXCEPT ![p][r] = hydrated]
             /\ writing' = [writing EXCEPT ![p][r] =
                              IF hydrated # d /\ p \in AutoPersist THEN hydrated ELSE None]
          \/ /\ StepsRaise /\ needs_migration(d, p) /\ ~Missing(d, p)
             /\ memory' = [memory EXCEPT ![p][r] = None] /\ UNCHANGED writing
    /\ UNCHANGED <<own, inherited, disk, rows, bare, saves>>

WriteBack(p, r) ==
    /\ writing[p][r] # None
    /\ disk' = [disk EXCEPT ![r] = writing[p][r]] /\ writing' = [writing EXCEPT ![p][r] = None]
    /\ UNCHANGED <<own, inherited, memory, rows, bare, saves>>

(* A save exports the fields of the class, and no _v.                      *)
save(p, r) ==
    /\ saves < MaxSaves /\ saves' = saves + 1
    /\ \E garbled \in IF memory[p][r] = None THEN {FALSE}
                      ELSE {memory[p][r].garbled \/ memory[p][r].shape # Target[p]} :
        disk' = [disk EXCEPT ![r] = [v |-> 0, shape |-> Target[p], garbled |-> garbled]]
    /\ bare' = bare \cup {r}
    /\ UNCHANGED <<own, inherited, memory, writing, rows>>
-----------------------------------------------------------------------------
(* The command: it finds all records, and saves those it upgrades.         *)
_run_migrate(p) ==
    /\ \A r \in Records : rows[p][r] = None
    /\ rows' = [rows EXCEPT ![p] = disk]
    /\ UNCHANGED <<own, inherited, disk, memory, writing, bare, saves>>

Upgrade(p, r) ==
    /\ rows[p][r] # None
    /\ LET d == rows[p][r]
           stays == ~needs_migration(d, p) \/ Missing(d, p)
       IN \/ /\ rows' = [rows EXCEPT ![p][r] = None]
             /\ disk' = IF stays THEN disk ELSE [disk EXCEPT ![r] = apply_migrations(d, p)]
          \/ /\ StepsRaise /\ ~stays /\ rows' = [rows EXCEPT ![p] = [s \in Records |-> None]]
             /\ UNCHANGED disk
    /\ UNCHANGED <<own, inherited, memory, writing, bare, saves>>

Next == \/ \E p \in Processes, r \in Records :
             _deserialize_entity(p, r) \/ WriteBack(p, r) \/ save(p, r) \/ Upgrade(p, r)
        \/ \E p \in Processes : _run_migrate(p)

Spec == Init /\ [][Next]_vars
-----------------------------------------------------------------------------
(* No step passes a version that some process's code has.                  *)
Whole == \A s \in own \cup inherited, p \in Processes : ~(s[1] < Target[p] /\ Target[p] < s[2])

\* Until an entity is saved, loads, write-backs and commands of processes with
\* different versions run each step once on the data of its own version, in
\* whatever order they come, and leave a record at the version it is stamped
\* with, provided that no step passes a version in use (migrations.py:136).
UpgradedOnce ==
    Whole => \A r \in Records : disk[r] # None /\ r \notin bare =>
        ~disk[r].garbled /\ disk[r].shape = Version(disk[r])

\* "Each persisted record carries the corresponding version under the `_v` key"
\* (src/docs/md/schema-migrations.md:15), so that a step is never run on data
\* that is past it.
StepsOnce == Whole => \A p \in Processes, r \in Records :
    (memory[p][r] # None /\ Version(memory[p][r]) <= Target[p]) => ~memory[p][r].garbled
=============================================================================
