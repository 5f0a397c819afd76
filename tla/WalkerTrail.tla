----------------------------- MODULE WalkerTrail -----------------------------
(***************************************************************************)
(* The trail of a walker and its copy in a database (walker_components/    *)
(* walker_trail.py and trail_store.py), which a fresh process restores the *)
(* walker from.  Steps are numbered in the order they were recorded.       *)
(***************************************************************************)
EXTENDS Naturals, Sequences, FiniteSets, SequencesExt, FiniteSetsExt

CONSTANTS MaxSteps,       \* bound: steps recorded
          MaxLength,      \* max_trail_length, 0 for no limit
          Awaited         \* steps are recorded by arecord_step, else by record_step

Assumptions == MaxSteps \in Nat /\ MaxLength \in Nat /\ Awaited \in BOOLEAN

VARIABLES trail,          \* the steps in memory
          records,        \* the database: step by sequence number
          seq,            \* the counter of the DBTrailStore
          tasks,          \* calls of append: the step, and the number once it was read
          clearing,       \* the records that clear has still to delete, or NotClearing
          up,             \* the walker's process runs and has restored the walker
          last, kept      \* the steps recorded, and those the database confirmed

vars == <<trail, records, seq, tasks, clearing, up, last, kept>>

Steps == 1..MaxSteps
Numbers == 0..MaxSteps
NotClearing == Numbers \cup {MaxSteps + 1}    \* no set of records
Unread == MaxSteps + 1

TypeOK ==
    /\ trail \in Seq(Steps) /\ (MaxLength > 0 => Len(trail) <= MaxLength)
    /\ DOMAIN records \subseteq Numbers /\ \A n \in DOMAIN records : records[n] \in Steps
    /\ seq \in Numbers
    /\ tasks \subseteq [step : Steps, seq : Numbers \cup {Unread}]
    /\ clearing \in (SUBSET Numbers) \cup {NotClearing}
    /\ up \in BOOLEAN /\ last \in 0..MaxSteps /\ kept \subseteq Steps

Init ==
    /\ trail = << >> /\ records = << >> /\ seq = 0 /\ tasks = {}
    /\ clearing = NotClearing /\ up = TRUE /\ last = 0 /\ kept = {}

LatestOldest(steps) ==                        \* mutant of Latest: keeps the oldest
    IF MaxLength = 0 \/ Len(steps) <= MaxLength THEN steps ELSE SubSeq(steps, 1, MaxLength)
Latest(steps) ==
    IF MaxLength = 0 \/ Len(steps) <= MaxLength THEN steps
    ELSE SubSeq(steps, Len(steps) - MaxLength + 1, Len(steps))

(* record_step starts a task and returns; arecord_step waits for it.       *)
Record ==
    /\ up /\ last < MaxSteps
    /\ Awaited => tasks = {} /\ clearing = NotClearing
    /\ last' = last + 1
    /\ trail' = Latest(Append(trail, last + 1))
    /\ tasks' = tasks \cup {[step |-> last + 1, seq |-> Unread]}
    /\ UNCHANGED <<records, seq, clearing, up, kept>>

(* append reads the counter, awaits the save, and then sets the counter.   *)
Begin(t) ==
    /\ up /\ t.seq = Unread
    /\ \A s \in tasks : s.seq = Unread => t.step <= s.step       \* the loop starts them in order
    /\ tasks' = (tasks \ {t}) \cup {[t EXCEPT !.seq = seq]}
    /\ UNCHANGED <<trail, records, seq, clearing, up, last, kept>>

Put(n, step) == [m \in DOMAIN records \cup {n} |-> IF m = n THEN step ELSE records[m]]

SavedSame(t) == seq                           \* mutant of Saved: the counter stays
Saved(t) == t.seq + 1
Save(t) ==
    /\ up /\ t.seq # Unread
    /\ records' = Put(t.seq, t.step)
    /\ seq' = Saved(t)
    /\ tasks' = tasks \ {t} /\ kept' = kept \cup {t.step}
    /\ UNCHANGED <<trail, clearing, up, last>>

SaveRaises(t) ==                              \* without effect, or with it
    /\ up /\ t.seq # Unread
    /\ tasks' = tasks \ {t}
    /\ UNCHANGED records \/ records' = Put(t.seq, t.step)
    /\ UNCHANGED <<trail, seq, clearing, up, last, kept>>

(* clear finds the records, deletes them one by one and drops the counter. *)
Clear ==
    /\ up /\ clearing = NotClearing /\ tasks = {}
    /\ clearing' = DOMAIN records /\ kept' = {}
    /\ UNCHANGED <<trail, records, seq, tasks, up, last>>
ClearOne(n) ==
    /\ up /\ clearing # NotClearing /\ n \in clearing
    /\ clearing' = clearing \ {n}
    /\ records' = [m \in DOMAIN records \ {n} |-> records[m]]
    /\ UNCHANGED <<trail, seq, tasks, up, last, kept>>
ClearEnd ==
    /\ up /\ clearing = {}
    /\ clearing' = NotClearing /\ seq' = 0
    /\ UNCHANGED <<trail, records, tasks, up, last, kept>>

(* The process dies; the saves under way did happen or did not.            *)
Crash ==
    /\ up /\ up' = FALSE
    /\ tasks' = {} /\ clearing' = NotClearing /\ trail' = << >> /\ seq' = 0
    /\ \/ UNCHANGED records
       \/ \E t \in tasks : t.seq # Unread /\ records' = Put(t.seq, t.step)
    /\ UNCHANGED <<last, kept>>

(* Walker.restore: the steps in the order of their numbers; load refreshes *)
(* the counter.                                                            *)
Ordered(steps) == \A i, j \in DOMAIN steps : i < j => steps[i] < steps[j]
Sorts(numbers) == Ordered(numbers) /\ ToSet(numbers) = DOMAIN records
NextNumber == IF DOMAIN records = {} THEN 0 ELSE Max(DOMAIN records) + 1
Restore ==
    /\ ~up /\ up' = TRUE
    /\ \E numbers \in [1..Cardinality(DOMAIN records) -> DOMAIN records] :
        Sorts(numbers) /\ trail' = Latest([i \in DOMAIN numbers |-> records[numbers[i]]])
    /\ seq' = NextNumber
    /\ UNCHANGED <<records, tasks, clearing, last, kept>>

Next ==
    \/ Record \/ Clear \/ ClearEnd \/ Crash \/ Restore
    \/ \E t \in tasks : Begin(t) \/ Save(t) \/ SaveRaises(t)
    \/ \E n \in Numbers : ClearOne(n)
Spec == Init /\ [][Next]_vars

(***************************************************************************)
(* Properties.                                                             *)
(***************************************************************************)
(* "The trail also mirrors every recorded step to the store": what the     *)
(* database confirmed and nobody cleared is there, over restarts too.      *)
Mirrored == kept \subseteq {records[n] : n \in DOMAIN records}

(* The records are in the order in which their steps were recorded.        *)
InOrder == \A m, n \in DOMAIN records : m < n => records[m] < records[n]

(* Whatever was restored or recorded, memory has the latest steps in order.*)
TrailIsLatest ==
    /\ Ordered(trail)
    /\ up /\ trail # << >> => \A n \in DOMAIN records :
          records[n] \in ToSet(trail) \/ records[n] < trail[1]

=============================================================================
